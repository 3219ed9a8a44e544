--------------------------- MODULE CredentialStore ---------------------------
(***************************************************************************)
(* developer/credentials.py: named values in the OS keyring, with a file   *)
(* as the fallback a user can consent to.  save, create_if_absent, delete  *)
(* and a consented load hold the mutation lock, which is an flock across   *)
(* processes: each is one step.  An unconsented load is one keyring read.  *)
(*                                                                         *)
(* A store is [ring, file, mode]: two functions from names to values, and  *)
(* what the keyring does right now: "up", "readonly" (reads only), "down". *)
(***************************************************************************)
EXTENDS Integers

CONSTANT None

\* _file_values: the name's value, None when absent.
Value(values, name) == IF name \in DOMAIN values THEN values[name] ELSE None

\* _write_file_values: the whole file is replaced, with one name changed.
Put(values, name, v) ==
    [n \in DOMAIN values \cup {name} |-> IF n = name THEN v ELSE values[n]]

Drop(values, name) == [n \in DOMAIN values \ {name} |-> values[n]]

\* get_password and the consented file, and whether the two contradict.
InRing(st, name) == IF st.mode = "down" THEN None ELSE Value(st.ring, name)
Disagree(st, name) ==
    /\ InRing(st, name) # None
    /\ Value(st.file, name) # None
    /\ InRing(st, name) # Value(st.file, name)

\* save: into the keyring, or into the file when that fails and the user
\* consented.  A value an earlier outage left in the file stays there.
Save(st, consent, name, v) ==
    CASE st.mode = "up" -> [ok |-> TRUE, st |-> [st EXCEPT !.ring = Put(@, name, v)]]
      [] st.mode # "up" /\ consent ->
            [ok |-> TRUE, st |-> [st EXCEPT !.file = Put(@, name, v)]]
      [] OTHER -> [ok |-> FALSE, st |-> st]

\* create_if_absent: look in both stores, then save, under one lock.
CreateIfAbsent(st, consent, name, v) ==
    IF \/ ~consent /\ st.mode = "down"
       \/ consent /\ Disagree(st, name)
    THEN [ok |-> FALSE, created |-> FALSE, st |-> st]
    ELSE IF InRing(st, name) # None \/ (consent /\ Value(st.file, name) # None)
    THEN [ok |-> TRUE, created |-> FALSE, st |-> st]
    ELSE LET saved == Save(st, consent, name, v)
         IN  [ok |-> saved.ok, created |-> saved.ok, st |-> saved.st]

\* load: with consent a keyring that cannot be read counts as empty, and two
\* stores that hold different values are refused.
Load(st, consent, name) ==
    IF consent
    THEN [ok |-> ~Disagree(st, name),
          v  |-> IF InRing(st, name) # None THEN InRing(st, name) ELSE Value(st.file, name)]
    ELSE [ok |-> st.mode # "down", v |-> InRing(st, name)]

\* delete: a keyring that does not hold the name refuses too, and only consent
\* goes on to the file.
Delete(st, consent, name) ==
    LET gone == st.mode = "up" /\ name \in DOMAIN st.ring
    IN  [ok |-> gone \/ consent,
         st |-> [st EXCEPT !.ring = IF gone THEN Drop(@, name) ELSE @,
                           !.file = IF consent THEN Drop(@, name) ELSE @]]
=============================================================================
