------------------------ MODULE VerifiableCredentials ------------------------
(***************************************************************************)
(* identity/vc.py: credentials, presentations and delegations, signed      *)
(* through the key store and verified against the caller's clock, a        *)
(* revocation lookup and a store of the presentations seen before.         *)
(*                                                                         *)
(* A token is its claims with the key that signed it.  Every failure of a  *)
(* call is the same IdentityVerificationFailed and leaves nothing behind,  *)
(* so a call that fails is a step that is not taken.                       *)
(***************************************************************************)
EXTENDS KeyStore, Sequences

CONSTANTS
    Audience, Challenge, Actor, \* what the verifier expects; Actor is actor and agent
    MaxCredentials,             \* _MAX_CREDENTIALS of a presentation
    MaxDelegations,             \* _MAX_DELEGATIONS of a chain
    MaxEntries                  \* MemoryReplayStore's max_entries

VARIABLES
    offered,        \* tokens handed to the verifier, by whomever
    requests,       \* claims the application will ask to be signed
    revoked,        \* credential ids
    replay,         \* MemoryReplayStore: the ids recorded, with their expiries
    presenting,     \* thread -> the presentation it verifies, at which instant
    accepted,       \* presentations accepted, in order
    latest,         \* the latest instant the replay store was given
    granted         \* None, or a delegation chain with the authority it was found to give

vcVars == <<storeVars, offered, requests, revoked, replay, presenting, accepted, latest, granted>>

NotPresenting == [pc |-> "idle"]

-----------------------------------------------------------------------------
(* Claims. *)

(* _registered_claims *)
RegisteredClaims(c) == c.exp > c.iat

(* _unsafe_create_verifiable_credential and _unsafe_create_delegation ask   *)
(* no more of the claims than their form.                                   *)
CredentialClaims(c) == c.kind = "vc" /\ RegisteredClaims(c)

DelegationClaims(c) ==
    /\ c.kind = "delegation" /\ RegisteredClaims(c)
    /\ c.depth \in 0 .. 16 /\ c.capabilities # {} /\ c.resources # {}

(* _unsafe_create_verifiable_presentation: issued by the holder about      *)
(* itself.  The credentials are not looked into.                           *)
PresentationClaims(c) ==
    /\ c.kind = "vp" /\ RegisteredClaims(c)
    /\ c.sub = c.iss
    /\ Cardinality(c.credentials) \in 1 .. MaxCredentials

(* _decode_verified_jwt: the issuer's DID is the key. *)
Decodes(token) == token.signedBy = token.payload.iss

(* _verify_times_and_binding *)
TimesAndBinding(c, now) == c.aud = Audience /\ c.iat <= now /\ now < c.exp

(* _check_revocation *)
NotRevoked(id) == id \notin revoked

(* _unsafe_verify_verifiable_credential *)
CredentialVerifies(token, now) ==
    /\ Decodes(token)
    /\ TimesAndBinding(token.payload, now)
    /\ token.payload.kind \in {"vc", "delegation"}
    /\ NotRevoked(token.payload.id)

(* _unsafe_verify_verifiable_presentation, up to the replay store *)
PresentationVerifies(token, now) ==
    LET c == token.payload IN
    /\ Decodes(token)
    /\ TimesAndBinding(c, now)
    /\ c.kind = "vp"
    /\ c.sub = c.iss
    /\ c.nonce = Challenge
    /\ Cardinality(c.credentials) \in 1 .. MaxCredentials
    /\ \A credential \in c.credentials :
          CredentialVerifies(credential, now) /\ c.exp <= credential.payload.exp

-----------------------------------------------------------------------------
(* Creation: the public calls hand their claims to the key store. *)

Create(t, reference, c) ==
    /\ requests' = requests \ {c}
    /\ BeginSign(t, reference, c, c.iss)
    /\ UNCHANGED <<clock, offered, revoked, replay, presenting, accepted, latest, granted>>

CreateCredential(t, reference, c) == CredentialClaims(c) /\ Create(t, reference, c)

CreatePresentation(t, reference, c) == PresentationClaims(c) /\ Create(t, reference, c)

CreateDelegation(t, reference, c) == DelegationClaims(c) /\ Create(t, reference, c)

(* The application signs bytes of its own: DidKey.sign expects the key of  *)
(* its DID, sign_ed25519 as a rule whichever key there is.                 *)
SignBytes(t, reference, c) == c.kind = "bytes" /\ Create(t, reference, c)

-----------------------------------------------------------------------------
(* Presentations. *)

(* The caller passes the instant it takes for now. *)
VerifyPresentation(t, token) ==
    /\ presenting[t].pc = "idle"
    /\ PresentationVerifies(token, clock)
    /\ presenting' = [presenting EXCEPT ![t] = [pc |-> "record", token |-> token,
                                                now |-> clock]]
    /\ UNCHANGED <<clock, storeVars, offered, requests, revoked, replay, accepted, latest,
                   granted>>

PurgedEarly(now) == {e \in replay : e.expires > now + 1}

Unexpired(now) == {e \in replay : e.expires > now}

(* check_and_record, under the store's lock: what has expired goes, then a *)
(* new id is recorded if there is room.  The presentation was found        *)
(* unexpired at the same instant.                                          *)
IsFresh(id, now) ==
    /\ \A e \in Unexpired(now) : e.id # id
    /\ Cardinality(Unexpired(now)) < MaxEntries

CheckAndRecord(t) ==
    LET call == presenting[t]
        c == call.token.payload
    IN
    /\ call.pc = "record"
    /\ latest' = IF call.now > latest THEN call.now ELSE latest
    /\ IF IsFresh(c.id, call.now)
       THEN /\ replay' = Unexpired(call.now) \cup {[id |-> c.id, expires |-> c.exp]}
            /\ accepted' = Append(accepted, [token |-> call.token, now |-> call.now,
                                             latest |-> latest])
       ELSE replay' = Unexpired(call.now) /\ UNCHANGED accepted
    /\ presenting' = [presenting EXCEPT ![t] = NotPresenting]
    /\ UNCHANGED <<clock, storeVars, offered, requests, revoked, granted>>

(* A credential is revoked at its issuer. *)
Revoke(id) ==
    /\ id \notin revoked
    /\ revoked' = revoked \cup {id}
    /\ UNCHANGED <<clock, storeVars, offered, requests, replay, presenting, accepted,
                   latest, granted>>

-----------------------------------------------------------------------------
(* Delegations. *)

(* What the loop of _unsafe_verify_delegation_chain asks of a link after    *)
(* the one before it.                                                       *)
AnyCapabilities(before, link) == TRUE

Attenuates(before, link) == link.capabilities \subseteq before.capabilities

Follows(before, link) ==
    /\ link.iss = before.sub
    /\ Attenuates(before, link)
    /\ link.resources \subseteq before.resources
    /\ link.depth < before.depth
    /\ link.exp <= before.exp

ChainVerifies(chain, root, subject, capability, resource, now) ==
    LET link(i) == chain[i].payload
        last == link(Len(chain))
    IN
    /\ Len(chain) \in 1 .. MaxDelegations
    /\ \A i \in DOMAIN chain : CredentialVerifies(chain[i], now)
    /\ link(1).iss = root
    /\ \A i \in DOMAIN chain :
          /\ link(i).kind = "delegation" /\ link(i).depth \in 0 .. 16
          /\ link(i).actor = Actor
          /\ link(i).sub \notin {root} \cup {link(j).sub : j \in 1 .. i - 1}
          /\ i > 1 => Follows(link(i - 1), link(i))
    /\ last.sub = subject /\ capability \in last.capabilities /\ resource \in last.resources

(* The authority returned is the last link's. *)
VerifiedDelegation(chain) ==
    LET last == chain[Len(chain)].payload IN
    [subject |-> last.sub, capabilities |-> last.capabilities, resources |-> last.resources,
     depth |-> last.depth, expires |-> last.exp]

VerifyDelegation(chain, root, subject, capability, resource) ==
    /\ ChainVerifies(chain, root, subject, capability, resource, clock)
    /\ granted' = [root |-> root, chain |-> chain, authority |-> VerifiedDelegation(chain)]
    /\ UNCHANGED <<clock, storeVars, offered, requests, revoked, replay, presenting,
                   accepted, latest>>

-----------------------------------------------------------------------------
(* Signing while the store's keys come and go. *)
SigningNext(references, maxKeys) ==
    \/ \E t \in Threads, r \in references, c \in requests :
          CreateCredential(t, r, c) \/ CreatePresentation(t, r, c) \/ CreateDelegation(t, r, c)
          \/ SignBytes(t, r, c)
    \/ /\ \/ \E t \in Threads : SignStep(t) \/ WipeLease(t)
          \/ \E r \in references : (made < maxKeys /\ Generate(r)) \/ Delete(r)
          \/ CloseStore \/ Fork
       /\ UNCHANGED <<clock, offered, requests, revoked, replay, presenting, accepted, latest,
                      granted>>

(* Presentations verified while time passes and credentials are revoked. *)
PresentingNext ==
    \/ \E t \in Threads : (\E token \in offered : VerifyPresentation(t, token)) \/ CheckAndRecord(t)
    \/ \E token \in offered : token.payload.kind = "vc" /\ Revoke(token.payload.id)
    \/ Tick /\ UNCHANGED vcVars

(* Chains of up to maxLength links, whoever put them together. *)
DelegatingNext(maxLength) ==
    /\ granted = None
    /\ \E n \in 1 .. maxLength : \E chain \in [1 .. n -> offered] :
          \E root \in {link.payload.iss : link \in offered},
             capability \in chain[n].payload.capabilities, resource \in chain[n].payload.resources :
             VerifyDelegation(chain, root, chain[n].payload.sub, capability, resource)

-----------------------------------------------------------------------------
(* A presentation is accepted again only by a caller whose instant is older *)
(* than one the replay store has been given: another caller, for whom the  *)
(* presentation had expired, purged its id in between (check_and_record    *)
(* takes now from its caller).  With instants that never run backwards     *)
(* between calls, a presentation is accepted once.                         *)
AcceptedAgainOnlyByStaleClock ==
    \A i, j \in DOMAIN accepted :
        i < j /\ accepted[i].token = accepted[j].token => accepted[j].now < accepted[j].latest

(* The authority found in a chain of delegations is one that every issuer   *)
(* along the chain gave: no capability, resource or lifetime is in it that  *)
(* some link did not grant, every link's holder is the issuer of the next,  *)
(* nobody comes twice, and each link used up at least one step of depth     *)
(* (_unsafe_verify_delegation_chain returns the last link's authority).     *)
DelegationOnlyNarrows ==
    granted # None =>
        LET links == [i \in DOMAIN granted.chain |-> granted.chain[i].payload]
            given == granted.authority
        IN
        /\ \A i \in DOMAIN links :
              /\ given.capabilities \subseteq links[i].capabilities
              /\ given.resources \subseteq links[i].resources
              /\ given.expires <= links[i].exp
              /\ given.depth + Len(links) - i <= links[i].depth
              /\ links[i].iss = IF i = 1 THEN granted.root ELSE links[i - 1].sub
        /\ Cardinality({granted.root} \cup {links[i].sub : i \in DOMAIN links}) = Len(links) + 1
=============================================================================
