------------------------------ MODULE KeyStore ------------------------------
(***************************************************************************)
(* keystore.py's EphemeralKeyStore with identity/did.py: threads that sign  *)
(* with a key on lease while others replace it, delete it, close the store *)
(* or fork.                                                                *)
(*                                                                         *)
(* A private key is a number, and so is its DID.  The store's lock covers  *)
(* its dictionary; the erasure of the leases that a close took from it     *)
(* happens after the lock is released, byte by byte, while their holders   *)
(* may be reading them.                                                    *)
(***************************************************************************)
EXTENDS TrustedClock, FiniteSets

VARIABLES
    entries,        \* reference -> the key stored under it, 0 for none
    made,           \* keys generated so far: their DIDs are 1 .. made
    storeClosed,
    lease,          \* thread -> the lease it signs with
    wiping,         \* threads whose leases a close has yet to invalidate
    signing,        \* thread -> its call of sign_ed25519
    minted          \* signatures: what was signed, for which DID, by the key of which

storeVars == <<entries, made, storeClosed, lease, wiping, signing, minted>>

NoLease == [key |-> 0, wiped |-> 2, closed |-> TRUE]
NotSigning == [pc |-> "idle"]

(* The DID of the bytes in a lease: half erased or all zero, they are the  *)
(* private key of some other DID.                                          *)
DidFromBytes(l) == IF l.wiped = 0 THEN l.key ELSE -l.wiped

-----------------------------------------------------------------------------
(* store: the key takes the place of the one stored before. *)
Store(reference, key) ==
    /\ ~storeClosed
    /\ entries' = [entries EXCEPT ![reference] = key]

(* generate_ed25519_key: a new key, stored. *)
Generate(reference) ==
    /\ made' = made + 1
    /\ Store(reference, made + 1)
    /\ UNCHANGED <<storeClosed, lease, wiping, signing, minted>>

DeleteSharedBuffer(reference) ==
    /\ ~storeClosed /\ entries[reference] # 0
    /\ entries' = [entries EXCEPT ![reference] = 0]
    /\ lease' = [t \in Threads |-> IF lease[t].key = entries[reference]
                                   THEN [lease[t] EXCEPT !.wiped = 2] ELSE lease[t]]
    /\ UNCHANGED <<made, storeClosed, wiping, signing, minted>>

(* delete erases the stored buffer; a lease has a copy of its own. *)
Delete(reference) ==
    /\ ~storeClosed /\ entries[reference] # 0
    /\ entries' = [entries EXCEPT ![reference] = 0]
    /\ UNCHANGED <<made, storeClosed, lease, wiping, signing, minted>>

CloseForgetsLeases ==
    /\ ~storeClosed
    /\ storeClosed' = TRUE
    /\ entries' = [r \in DOMAIN entries |-> 0]
    /\ UNCHANGED <<made, lease, wiping, signing, minted>>

(* close: under the lock the keys go and the open leases are taken note of. *)
CloseStore ==
    /\ ~storeClosed
    /\ storeClosed' = TRUE
    /\ entries' = [r \in DOMAIN entries |-> 0]
    /\ wiping' = {t \in Threads : lease[t] # NoLease}
    /\ UNCHANGED <<made, lease, signing, minted>>

(* close, after the lock: one lease after the other is erased, a byte at a *)
(* time, and only then marked closed (_invalidate, _wipe).                 *)
WipeLease(t) ==
    /\ t \in wiping
    /\ \A u \in wiping \ {t} : lease[u].wiped = 0
    /\ IF lease[t].wiped < 2
       THEN lease' = [lease EXCEPT ![t].wiped = @ + 1] /\ UNCHANGED wiping
       ELSE lease' = [lease EXCEPT ![t].closed = TRUE] /\ wiping' = wiping \ {t}
    /\ UNCHANGED <<entries, made, storeClosed, signing, minted>>

(* _after_fork_child, in the child, where only the thread that forked      *)
(* lives on, with no lease: sign_ed25519 calls nothing that forks.         *)
Fork ==
    /\ \E t \in Threads : signing[t].pc = "idle"
    /\ entries' = [r \in DOMAIN entries |-> 0]
    /\ lease' = [t \in Threads |-> NoLease]
    /\ wiping' = {}
    /\ signing' = [t \in Threads |-> NotSigning]
    /\ UNCHANGED <<made, storeClosed, minted>>

-----------------------------------------------------------------------------
(* sign_ed25519, which expects the key to be that of a DID, or of any. *)
BeginSign(t, reference, message, expected) ==
    /\ signing[t].pc = "idle"
    /\ signing' = [signing EXCEPT ![t] = [pc |-> "load", reference |-> reference,
                                          message |-> message, expected |-> expected]]
    /\ UNCHANGED <<entries, made, storeClosed, lease, wiping, minted>>

SignFails(t) ==
    /\ signing' = [signing EXCEPT ![t] = NotSigning]
    /\ lease' = [lease EXCEPT ![t] = NoLease]
    /\ wiping' = wiping \ {t}
    /\ UNCHANGED <<entries, made, storeClosed, minted>>

(* load copies the key into a lease under the lock. *)
Load(t) ==
    LET call == signing[t] IN
    /\ call.pc = "load"
    /\ \/ (storeClosed \/ entries[call.reference] = 0) /\ SignFails(t)
       \/ /\ ~storeClosed /\ entries[call.reference] # 0
          /\ lease' = [lease EXCEPT ![t] = [key |-> entries[call.reference],
                                            wiped |-> 0, closed |-> FALSE]]
          /\ signing' = [signing EXCEPT ![t].pc = "loaded"]
          /\ UNCHANGED <<entries, made, storeClosed, wiping, minted>>

(* copy_bytes first asks whether the lease is open, as __enter__ did. *)
RequireOpen(t) ==
    /\ signing[t].pc = "loaded"
    /\ \/ lease[t].closed /\ SignFails(t)
       \/ /\ ~lease[t].closed
          /\ signing' = [signing EXCEPT ![t].pc = "open"]
          /\ UNCHANGED <<entries, made, storeClosed, lease, wiping, minted>>

AnyKeyExpected(expected, did) == TRUE

(* expected_did is optional; _encode_jwt gives the issuer. *)
KeyExpected(expected, did) == expected # None => did = expected

(* copy_bytes reads what the buffer holds by now, the lease is closed, and *)
(* the key made from the copy must be the expected one, if one is, before  *)
(* it signs.                                                               *)
Sign(t) ==
    LET did == DidFromBytes(lease[t])
        call == signing[t]
    IN
    /\ call.pc = "open"
    /\ \/ ~KeyExpected(call.expected, did) /\ SignFails(t)
       \/ /\ KeyExpected(call.expected, did)
          /\ minted' = minted \cup {[payload |-> call.message, expected |-> call.expected,
                                     signedBy |-> did]}
          /\ signing' = [signing EXCEPT ![t] = NotSigning]
          /\ lease' = [lease EXCEPT ![t] = NoLease]
          /\ wiping' = wiping \ {t}
          /\ UNCHANGED <<entries, made, storeClosed>>

SignStep(t) == Load(t) \/ RequireOpen(t) \/ Sign(t)

-----------------------------------------------------------------------------
(* A signature is made with the whole of a key that was stored, although   *)
(* its signer reads the key without the store's lock while other threads   *)
(* replace and erase it: load leases a copy.  Only bytes that a close is   *)
(* erasing can be something else, and then only a call that expects no DID *)
(* signs with them (load, close, _sign_ed25519).                           *)
SignedByWholeKey ==
    \A s \in minted : s.signedBy \in 1 .. made \/ (storeClosed /\ s.expected = None)

(* Once a close has gone through its leases, no lease has key bytes left   *)
(* in it, whichever threads were loading, checking or copying one when the *)
(* close began: load makes its lease under the lock that close finds the   *)
(* open ones under (load, close, _invalidate).                             *)
ErasedOnClose ==
    storeClosed /\ wiping = {} =>
        \A t \in Threads : lease[t] # NoLease => lease[t].wiped = 2
=============================================================================
