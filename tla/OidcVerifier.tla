---------------------------- MODULE OidcVerifier ----------------------------
(***************************************************************************)
(* identity/oidc.py: threads that verify tokens against an issuer whose    *)
(* keys rotate, through one cache of the issuer's keys.                    *)
(*                                                                         *)
(* A lookup in the cache (_key) reads the clock before it waits for the    *)
(* verifier's lock, and holds the lock while it fetches the issuer's       *)
(* documents, each on a worker thread it waits for until a deadline.  A    *)
(* worker gives its slot back only when it ends: after its answer was put, *)
(* or long after the caller it kept waiting gave up.                       *)
(***************************************************************************)
EXTENDS TrustedClock, Sequences, FiniteSets

CONSTANTS
    Documents,      \* the key documents the issuer publishes, one after the other
    Resolutions,    \* what a name may resolve to
    CacheTtl, RotationDelay, Cooldown, FailureBackoff, Leeway,  \* OIDCVerifierConfig
    MaxFetchWorkers, MaxNegative,  \* _MAX_FETCH_WORKERS, _MAX_NEGATIVE_CACHE
    Worlds          \* model bounds: the tokens, the verifications, rotations and closes
                    \* to come, and can fetches fail?

VARIABLES
    rotated,        \* when the issuer replaced each document but the last
    cache,          \* None, or the keys, when they expire, and the generation
    negative,       \* refreshes not to repeat, oldest first
    forcedUntil,    \* reason -> when its lane may force a refresh again
    backoffUntil,
    verifierClosed,
    lock,           \* None, or the thread that fetches under the verifier's lock
    verifying,      \* thread -> its call of verify or close
    orphans,        \* workers that still have their slot, and nobody waits for them
    world           \* what may still happen
oidcVars == <<rotated, cache, negative, forcedUntil, backoffUntil, verifierClosed,
              lock, verifying, orphans, world>>

(* _validate_config's ranges; seconds are clock units here. *)
ValidConfig ==
    /\ CacheTtl \in 1 .. 86400
    /\ Leeway \in 0 .. 300
    /\ Cooldown \in 1 .. 3600
    /\ FailureBackoff \in 1 .. 300
    /\ RotationDelay \in 1 .. 3600

ASSUME ConfigAssumption == ValidConfig

NotVerifying == [pc |-> "idle"]

OidcInit ==
    /\ rotated = << >>
    /\ cache = None
    /\ negative = << >>
    /\ forcedUntil = [reason \in {"unknown", "signature"} |-> 0]
    /\ backoffUntil = 0
    /\ verifierClosed = FALSE
    /\ lock = None
    /\ verifying = [t \in Threads |-> NotVerifying]
    /\ orphans = 0
    /\ world \in Worlds

-----------------------------------------------------------------------------
(* Tokens and keys. *)

(* _select_key: the one key that fits, if there is exactly one. *)
SelectKey(keys, kid) ==
    LET candidates == {k \in keys : kid = None \/ k.kid = kid} IN
    IF Cardinality(candidates) = 1 THEN CHOOSE k \in candidates : TRUE ELSE None

(* _parse_jwks: keys for other uses are passed over; a document with a     *)
(* private key, a repeated kid or no key to use is refused.  The objects   *)
(* are new ones on every refresh.                                          *)
ParseJwks(document, generation) ==
    LET eligible == {jwk \in document : jwk.use = "sig"} IN
    IF \/ eligible = {} \/ \E jwk \in document : jwk.use = "private"
       \/ \E j, k \in eligible : j # k /\ j.kid = k.kid
    THEN {}
    ELSE {[kid |-> jwk.kid, key |-> jwk.key, generation |-> generation] : jwk \in eligible}

(* _verify_signature *)
SignatureHolds(token, key) == token.key = key.key

(* What _verify asks of the token before it looks for a key. *)
HeaderAccepted(token) == token.form # "header"

(* _validate_claims: issuer, audience, azp, nonce and jti, then the times. *)
ClaimsHold(token, now) == token.form # "claims" /\ now < token.exp + Leeway

-----------------------------------------------------------------------------
(* The cache. *)

Fresh(now) == cache # None /\ now < cache.expires

Selected(kid) == IF cache = None THEN None ELSE SelectKey(cache.keys, kid)

NegativeKey(call) ==
    <<call.reason, call.token.kid, IF cache = None THEN 0 ELSE cache.generation>>

(* A forced lookup leaves the issuer alone: this key was just asked for, or *)
(* the lane for this reason is cooling down.                                *)
Spared(call) ==
    \/ \E i \in DOMAIN negative : negative[i].key = NegativeKey(call)
                                  /\ call.now < negative[i].until
    \/ call.now < forcedUntil[call.reason]

(* _record_negative: expired entries go, then the oldest while it is full. *)
RecordNegative(call) ==
    LET kept == SelectSeq(negative, LAMBDA n : n.until > call.now
                                               /\ n.key # NegativeKey(call))
        room == IF Len(kept) >= MaxNegative
                THEN SubSeq(kept, Len(kept) - MaxNegative + 2, Len(kept)) ELSE kept
    IN Append(room, [key |-> NegativeKey(call), until |-> call.now + Cooldown])

TtlAlone == CacheTtl

Horizon == IF CacheTtl < RotationDelay THEN CacheTtl ELSE RotationDelay

Done(call, verdict) ==
    [pc |-> "done", token |-> call.token, began |-> call.began, verdict |-> verdict]

Fails(call) == Done(call, "failed")

(* What a call does next with the key a lookup gave it: try its signature,  *)
(* look again with a forced refresh, or give the token up.                  *)
WithKey(call, key) ==
    CASE key # None /\ SignatureHolds(call.token, key) ->
            Done(call, IF ClaimsHold(call.token, clock) THEN "accepted" ELSE "failed")
      [] key = None /\ call.reason = "" ->
            [call EXCEPT !.pc = "look", !.reason = "unknown", !.rejected = None]
      [] key # None /\ call.reason # "signature" ->
            [call EXCEPT !.pc = "look", !.reason = "signature", !.rejected = key]
      [] OTHER -> Done(call, "refused")

Goes(t, call) == verifying' = [verifying EXCEPT ![t] = call]

-----------------------------------------------------------------------------
(* verify *)

BeginVerify(t, token) ==
    /\ verifying[t].pc \in {"idle", "done"}
    /\ world.verifications > 0
    /\ world' = [world EXCEPT !.verifications = @ - 1]
    /\ LET call == [pc |-> "wait", token |-> token, reason |-> "", rejected |-> None,
                    began |-> clock, now |-> clock, document |-> {}]
       IN Goes(t, IF verifierClosed \/ ~HeaderAccepted(token) THEN Fails(call) ELSE call)
    /\ UNCHANGED <<clock, rotated, cache, negative, forcedUntil, backoffUntil,
                   verifierClosed, lock, orphans>>

(* _key reads the clock again, then waits for the lock. *)
ReadClock(t) ==
    /\ verifying[t].pc = "look"
    /\ Goes(t, [verifying[t] EXCEPT !.pc = "wait", !.now = clock])
    /\ UNCHANGED <<clock, rotated, cache, negative, forcedUntil, backoffUntil,
                   verifierClosed, lock, orphans, world>>

(* _key under the lock, up to the refresh. *)
Lookup(t) ==
    LET call == verifying[t]
        forced == call.reason # ""
        key == Selected(call.token.kid)
        served == \/ ~forced /\ Fresh(call.now)
                  \/ forced /\ Fresh(call.now) /\ key # None /\ key # call.rejected
                  \/ forced /\ Spared(call)
    IN
    /\ call.pc = "wait" /\ lock = None
    /\ \/ verifierClosed /\ Goes(t, Fails(call)) /\ UNCHANGED lock
       \/ ~verifierClosed /\ served /\ Goes(t, WithKey(call, key)) /\ UNCHANGED lock
       \/ /\ ~verifierClosed /\ ~served /\ call.now < backoffUntil
          /\ Goes(t, Fails(call)) /\ UNCHANGED lock
       \/ /\ ~verifierClosed /\ ~served /\ call.now >= backoffUntil
          /\ Goes(t, [call EXCEPT !.pc = "discovery"]) /\ lock' = t
    /\ UNCHANGED <<clock, rotated, cache, negative, forcedUntil, backoffUntil,
                   verifierClosed, orphans, world>>

Fetching(t) == lock = t /\ verifying[t].pc \in {"discovery", "jwks"}

(* The refresh fails, whatever the cause: the lock is given up with the    *)
(* backoff set, and nobody forces this refresh again for a while.          *)
RefreshFails(t) ==
    LET call == verifying[t] IN
    /\ backoffUntil' = call.now + FailureBackoff
    /\ negative' = IF call.reason = "" THEN negative ELSE RecordNegative(call)
    /\ lock' = None
    /\ Goes(t, Fails(call))
    /\ UNCHANGED <<clock, rotated, cache, forcedUntil, verifierClosed, world>>

(* _fetch_with_deadline finds every worker slot taken. *)
NoSlot(t) ==
    /\ Fetching(t) /\ orphans >= MaxFetchWorkers
    /\ RefreshFails(t) /\ UNCHANGED orphans

NeverTimesOut(t) == FALSE /\ RefreshFails(t) /\ UNCHANGED orphans

(* The deadline passes first: the caller closes the connection and leaves  *)
(* the worker behind with its slot.                                        *)
TimesOut(t) ==
    /\ Fetching(t) /\ orphans < MaxFetchWorkers /\ world.outage
    /\ RefreshFails(t) /\ orphans' = orphans + 1

(* _worker's finally *)
OrphanEnds ==
    /\ orphans > 0 /\ orphans' = orphans - 1
    /\ UNCHANGED <<clock, rotated, cache, negative, forcedUntil, backoffUntil,
                   verifierClosed, lock, verifying, world>>

(* _validated_addresses: one address that is not public spoils them all. *)
ApprovedAddresses(resolution) == resolution # << >> /\ "private" \notin
    {resolution[i] : i \in DOMAIN resolution}

(* _fetch_json tries the approved addresses in turn while the network      *)
(* fails it; an answer it cannot use (_request_address) ends the fetch.    *)
FetchGets(resolution) ==
    LET answering == {i \in DOMAIN resolution : resolution[i] # "down"} IN
    /\ ApprovedAddresses(resolution)
    /\ answering # {}
    /\ resolution[CHOOSE i \in answering : \A j \in answering : i <= j] = "serves"

(* The worker puts an answer in time, and has its slot yet to release: the *)
(* discovery document first, then the keys the issuer publishes just then.  A discovery document of  *)
(* another issuer, or one that names keys elsewhere, ends the refresh; so  *)
(* does, later, a document without keys to use.                            *)
WorkerAnswers(t, resolution) ==
    LET call == verifying[t] IN
    /\ Fetching(t) /\ orphans < MaxFetchWorkers
    /\ orphans' = orphans + 1
    /\ \/ /\ FetchGets(resolution) /\ call.pc = "discovery"
          /\ Goes(t, [call EXCEPT !.pc = "jwks"])
          /\ UNCHANGED <<clock, rotated, cache, negative, forcedUntil, backoffUntil,
                         verifierClosed, lock, world>>
       \/ /\ FetchGets(resolution) /\ call.pc = "jwks"
          /\ \E document \in {Documents[Len(rotated) + 1]} \cup {d \in {{}} : world.outage} :
                Goes(t, [call EXCEPT !.pc = "fetched", !.document = document])
          /\ UNCHANGED <<clock, rotated, cache, negative, forcedUntil, backoffUntil,
                         verifierClosed, lock, world>>
       \/ /\ world.outage /\ (~FetchGets(resolution) \/ call.pc = "discovery")
          /\ RefreshFails(t)

(* The rest of _key: the new keys are cached from the clock the call read, *)
(* and a forced refresh is remembered under the generation it replaced.    *)
Refreshed(t) ==
    LET call == verifying[t]
        generation == IF cache = None THEN 1 ELSE cache.generation + 1
        keys == ParseJwks(call.document, generation)
    IN
    /\ call.pc = "fetched"
    /\ \/ keys = {} /\ RefreshFails(t) /\ UNCHANGED orphans
       \/ /\ keys # {}
          /\ cache' = [keys |-> keys, expires |-> call.now + Horizon,
                       generation |-> generation]
          /\ negative' = IF call.reason = "" THEN negative ELSE RecordNegative(call)
          /\ forcedUntil' = IF call.reason = "" THEN forcedUntil
                            ELSE [forcedUntil EXCEPT ![call.reason] = call.now + Cooldown]
          /\ lock' = None
          /\ Goes(t, WithKey([call EXCEPT !.document = {}],
                             SelectKey(keys, call.token.kid)))
          /\ UNCHANGED <<clock, rotated, backoffUntil, verifierClosed, orphans, world>>

-----------------------------------------------------------------------------
(* close waits for the lock, and so for a refresh under way. *)
BeginClose(t) ==
    /\ verifying[t].pc \in {"idle", "done"}
    /\ world.closes > 0 /\ world' = [world EXCEPT !.closes = @ - 1]
    /\ Goes(t, [pc |-> "closing"])
    /\ UNCHANGED <<clock, rotated, cache, negative, forcedUntil, backoffUntil,
                   verifierClosed, lock, orphans>>

CloseVerifier(t) ==
    /\ verifying[t].pc = "closing" /\ lock = None
    /\ verifierClosed' = TRUE
    /\ cache' = None /\ negative' = << >>
    /\ forcedUntil' = [reason \in {"unknown", "signature"} |-> 0]
    /\ Goes(t, NotVerifying)
    /\ UNCHANGED <<clock, rotated, backoffUntil, lock, orphans, world>>

(* The issuer replaces its keys. *)
Rotate ==
    /\ world.rotations > 0 /\ world' = [world EXCEPT !.rotations = @ - 1]
    /\ rotated' = Append(rotated, clock)
    /\ UNCHANGED <<clock, cache, negative, forcedUntil, backoffUntil, verifierClosed,
                   lock, verifying, orphans>>

OidcStep(t) ==
    \/ ReadClock(t) \/ Lookup(t) \/ NoSlot(t) \/ TimesOut(t) \/ Refreshed(t)
    \/ CloseVerifier(t)

OidcNext ==
    \/ \E t \in Threads :
          \/ \E token \in world.tokens : BeginVerify(t, token)
          \/ BeginClose(t)
          \/ OidcStep(t)
          \/ \E resolution \in Resolutions : WorkerAnswers(t, resolution)
    \/ Rotate
    \/ OrphanEnds
    \/ Tick /\ UNCHANGED oidcVars

(* Threads run; a caller's wait for its worker ends at the deadline.       *)
(* Nothing is assumed of the workers, the network or the issuer in the     *)
(* worlds where fetches may fail.                                          *)
OidcFairness ==
    \A t \in Threads :
        /\ WF_<<clock, oidcVars>>(OidcStep(t))
        /\ WF_<<clock, oidcVars>>(~world.outage
                                 /\ \E resolution \in Resolutions : WorkerAnswers(t, resolution))

-----------------------------------------------------------------------------
(* The instants at which the issuer published its n-th document. *)
PublishedAt(n) ==
    {i \in 0 .. clock : /\ n = 1 \/ (n - 1 <= Len(rotated) /\ rotated[n - 1] <= i)
                        /\ n > Len(rotated) \/ i <= rotated[n]}

WouldVerify(token, n) ==
    LET key == SelectKey(ParseJwks(Documents[n], 0), token.kid) IN
    key # None /\ SignatureHolds(token, key)

(* Every verdict about a signature is the one the issuer's keys call for   *)
(* at some instant after began - RotationDelay: neither a retired key is   *)
(* accepted nor a new one refused for longer, whichever threads refresh    *)
(* the cache, whatever clock they read before they wait for the lock, and  *)
(* however often the issuer cannot be reached (OIDCVerifierConfig,         *)
(* _key).                                                                  *)
VerdictWithinHorizon ==
    \A t \in Threads : verifying[t].pc = "done" /\ verifying[t].verdict # "failed" =>
        \E n \in 1 .. Len(rotated) + 1 :
           /\ \E i \in PublishedAt(n) : i > verifying[t].began - RotationDelay
           /\ WouldVerify(verifying[t].token, n) <=> verifying[t].verdict = "accepted"

(* Every call of verify and of close returns, also when workers hang and   *)
(* keep their slots: a caller waits for its worker, and everyone waits for *)
(* the lock, no longer than the fetch's deadline (_fetch_with_deadline,    *)
(* _close).                                                                *)
VerificationsReturn ==
    \A t \in Threads :
        verifying[t].pc \notin {"idle", "done"} ~> verifying[t].pc \in {"idle", "done"}
=============================================================================
