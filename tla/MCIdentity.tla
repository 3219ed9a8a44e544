----------------------------- MODULE MCIdentity -----------------------------
(***************************************************************************)
(* Identities and identifiers, in five scenes: tokens verified against an  *)
(* issuer whose keys rotate; tokens signed while the key store changes;    *)
(* presentations verified; chains of delegations verified; identifiers     *)
(* given out.                                                              *)
(***************************************************************************)
EXTENDS OidcVerifier, VerifiableCredentials, IdentifierGenerator

VARIABLE scene

vars == <<clock, scene, oidcVars, vcVars, identifierVars>>

Jwk(kid, key, use) == [kid |-> kid, key |-> key, use |-> use]

(* The issuer replaces the key under one kid and adds another. *)
MCDocuments == <<{Jwk("a", "k1", "sig"), Jwk("a", "k0", "enc")},
                 {Jwk("a", "k2", "sig"), Jwk("b", "k3", "sig")}>>

Token(kid, key, form, exp) == [kid |-> kid, key |-> key, form |-> form, exp |-> exp]

World(tokens, verifications, rotations, closes, outage) ==
    [tokens |-> tokens, verifications |-> verifications, rotations |-> rotations,
     closes |-> closes, outage |-> outage]

NoWorld == World({}, 0, 0, 0, FALSE)

MCWorlds ==
    {World({Token("a", "k2", "ok", 9)}, 3, 1, 0, FALSE),
     World({Token("a", "k1", "ok", 9), Token("a", "k2", "ok", 9)}, 2, 1, 0, FALSE),
     World({Token("b", "k3", "ok", 1), Token(None, "k1", "ok", 9)}, 2, 1, 0, FALSE),
     World({Token("a", "k2", "ok", 9), Token("b", "k3", "ok", 1)}, 2, 1, 0, TRUE),
     World({Token("a", "k1", form, 9) : form \in {"ok", "header", "claims"}}, 2, 0, 1, TRUE),
     NoWorld}

MCResolutions == {<<"down", "serves">>, <<"down", "refuses">>, <<"serves", "private">>}

-----------------------------------------------------------------------------
Credential(id, iss, exp) ==
    [kind |-> "vc", id |-> id, iss |-> iss, sub |-> 1, aud |-> Audience, iat |-> 0, exp |-> exp]

Presentation(id, exp, nonce) ==
    [kind |-> "vp", id |-> id, iss |-> 1, sub |-> 1, aud |-> Audience, iat |-> 0, exp |-> exp,
     nonce |-> nonce,
     credentials |-> {[payload |-> Credential("c1", 2, 3), signedBy |-> 2]}]

Delegation(iss, sub, capabilities, depth, exp) ==
    [kind |-> "delegation", id |-> "d", iss |-> iss, sub |-> sub, aud |-> Audience,
     actor |-> Actor, iat |-> 0, exp |-> exp, capabilities |-> capabilities, resources |-> {"r"}, depth |-> depth]

Signed(payloads) == {[payload |-> c, signedBy |-> c.iss] : c \in payloads}

MCRequests ==
    {Credential("c1", 1, 3), Presentation("p1", 2, Challenge),
     Delegation(2, 3, {"read"}, 0, 3), [kind |-> "bytes", iss |-> None]}

(* A short and a long presentation, two under one id, one for another      *)
(* challenge, one its holder did not sign.                                 *)
MCPresentations ==
    Signed({Presentation("p1", 1, Challenge), Presentation("p2", 2, Challenge),
            Presentation("p1", 3, Challenge), Presentation("p3", 3, Challenge),
            Presentation("p4", 3, "another")} \cup {Credential("c1", 2, 3)})
    \cup {[payload |-> Presentation("p5", 3, Challenge), signedBy |-> 2]}

MCDelegations ==
    Signed({Delegation(parties[1], parties[2], capabilities, depth, exp) :
               parties \in {<<1, 2>>, <<2, 3>>, <<3, 4>>, <<3, 1>>},
               capabilities \in {{"read"}, {"read", "write"}},
               depth \in 0 .. 2, exp \in {2, 3}}
            \cup {[Delegation(2, 3, {"read"}, 0, 2) EXCEPT !.actor = "another"]})

Init ==
    /\ clock = 0
    /\ OidcInit
    /\ scene \in {"oidc", "keys", "present", "delegate", "identifiers"}
    /\ scene = "oidc" <=> world # NoWorld
    /\ entries = [r \in {"r"} |-> 1]
    /\ made = 1
    /\ storeClosed = FALSE
    /\ lease = [t \in Threads |-> NoLease]
    /\ wiping = {}
    /\ signing = [t \in Threads |-> NotSigning]
    /\ minted = {}
    /\ offered = CASE scene = "present" -> MCPresentations
                   [] scene = "delegate" -> MCDelegations
                   [] OTHER -> {}
    /\ requests = IF scene = "keys" THEN MCRequests ELSE {}
    /\ revoked = {}
    /\ replay = {}
    /\ presenting = [t \in Threads |-> NotPresenting]
    /\ accepted = << >>
    /\ latest = 0
    /\ granted = None
    /\ IdentifierInit
    /\ live = {1}
    /\ scene # "identifiers" => wall = 0

Next ==
    \/ scene = "oidc" /\ OidcNext /\ UNCHANGED <<vcVars, identifierVars, scene>>
    \/ scene = "keys" /\ SigningNext({"r"}, 2) /\ UNCHANGED <<oidcVars, identifierVars, scene>>
    \/ scene = "present" /\ PresentingNext /\ UNCHANGED <<oidcVars, identifierVars, scene>>
    \/ scene = "delegate" /\ DelegatingNext(3) /\ UNCHANGED <<oidcVars, identifierVars, scene>>
    \/ scene = "identifiers" /\ IdentifierNext /\ UNCHANGED <<clock, oidcVars, vcVars, scene>>

Spec == Init /\ [][Next]_vars /\ OidcFairness
=============================================================================
