----------------------------- MODULE SigningKeys -----------------------------
(***************************************************************************)
(* How JWTClientAuthenticator chooses the key an assertion is verified     *)
(* with (client_auth/jwt.py, the start of _verify_jwt, _find_signing_key): *)
(* the algorithm the assertion's header names must be allowed, and then    *)
(* the first key of the client's JWKS that passes every test and can be    *)
(* constructed is taken; the signature is tried with that key alone.       *)
(***************************************************************************)
EXTENDS Integers, Sequences

CONSTANTS Kids, Algs, NoneGiven,  \* NoneGiven: a member that is not there
          Allowed, Blocked,       \* ALLOWED_JWT_ALGORITHMS, BLOCKED_JWT_ALGORITHMS
          RsaOnly, EcOnly,        \* the algorithms that start with RS, with ES
          DefaultAlg,             \* "RS256"
          Jwkss                   \* the key sets clients may publish

\* A member of a JWKS; "sound": PyJWK makes a key of it.
Jwk == [kid : Kids \cup {NoneGiven}, alg : Algs \cup {NoneGiven},
        use : {"sig", "enc", NoneGiven}, kty : {"RSA", "EC"}, sound : BOOLEAN]

ASSUME KeysAssumption == /\ Jwkss \subseteq Seq(Jwk)
                         /\ Allowed \subseteq Algs /\ DefaultAlg \in Allowed
                         /\ NoneGiven \notin Kids \cup Algs
                         /\ RsaOnly \cap EcOnly = {}

VARIABLES keys,   \* the client's JWKS
          kid,    \* of the assertion's header
          alg,
          signer, \* the place in the JWKS of the key the client signed with
          pc, i,  \* where _verify_jwt is, and the place it looks at
          found   \* the place of the signing key, 0 for None

vars == <<keys, kid, alg, signer, pc, i, found>>

\* The variables have their types, and a signature is never tried without a key
\* ("if not signing_key").
TypeOK == /\ keys \in Seq(Jwk)
          /\ kid \in Kids \cup {NoneGiven}
          /\ alg \in Algs
          /\ signer \in 0..Len(keys)
          /\ pc \in {"header", "search", "verify", "verified", "rejected"}
          /\ i \in 1..(Len(keys) + 1)
          /\ found \in 0..Len(keys)
          /\ pc \in {"verify", "verified"} => found # 0

\* A JWKS and an assertion; no key of the JWKS signed it if signer is 0.
Init == /\ keys \in Jwkss
        /\ kid \in Kids \cup {NoneGiven}
        /\ \E given \in Algs \cup {NoneGiven} :
              alg = IF given = NoneGiven THEN DefaultAlg ELSE given
        /\ signer \in 0..Len(keys)
        /\ pc = "header"
        /\ i = 1
        /\ found = 0

-----------------------------------------------------------------------------
GoTo(label) == pc' = label /\ UNCHANGED <<keys, kid, alg, signer>>

\* The two tests of the algorithm.
RejectAlgorithm == /\ pc = "header"
                   /\ alg \in Blocked \/ alg \notin Allowed
                   /\ GoTo("rejected")
                   /\ UNCHANGED <<i, found>>

AcceptAlgorithm == /\ pc = "header"
                   /\ alg \in Allowed \ Blocked
                   /\ GoTo("search")
                   /\ UNCHANGED <<i, found>>

\* Mutant of Matches: the key's kid counts only if it has one.
Matches_AnyKid(k) == /\ kid = NoneGiven \/ k.kid \in {kid, NoneGiven}
                     /\ k.alg = NoneGiven \/ k.alg = alg
                     /\ k.use = NoneGiven \/ k.use = "sig"
                     /\ alg \in RsaOnly => k.kty = "RSA"
                     /\ alg \in EcOnly => k.kty = "EC"

\* The tests of the loop; a PS algorithm is content with any type of key.
Matches(k) == /\ kid = NoneGiven \/ k.kid = kid
              /\ k.alg = NoneGiven \/ k.alg = alg
              /\ k.use = NoneGiven \/ k.use = "sig"
              /\ alg \in RsaOnly => k.kty = "RSA"
              /\ alg \in EcOnly => k.kty = "EC"

\* "continue": a test fails ...
Skip == /\ pc = "search"
        /\ i <= Len(keys)
        /\ ~Matches(keys[i])
        /\ i' = i + 1
        /\ GoTo("search")
        /\ UNCHANGED found

\* Mutant of Discard: a key that cannot be constructed ends the search.
Discard_GiveUp == /\ pc = "search"
                  /\ i <= Len(keys)
                  /\ Matches(keys[i]) /\ ~keys[i].sound
                  /\ GoTo("rejected")
                  /\ UNCHANGED <<i, found>>

\* ... or the key cannot be constructed.
Discard == /\ pc = "search"
           /\ i <= Len(keys)
           /\ Matches(keys[i]) /\ ~keys[i].sound
           /\ i' = i + 1
           /\ GoTo("search")
           /\ UNCHANGED found

Take == /\ pc = "search"
        /\ i <= Len(keys)
        /\ Matches(keys[i]) /\ keys[i].sound
        /\ found' = i
        /\ GoTo("verify")
        /\ UNCHANGED i

\* Mutant of NoKey: None goes to jwt.decode as any key would.
NoKey_Verify == /\ pc = "search"
                /\ i = Len(keys) + 1
                /\ GoTo("verify")
                /\ UNCHANGED <<i, found>>

\* No key is left, or there was none.
NoKey == /\ pc = "search"
         /\ i = Len(keys) + 1
         /\ GoTo("rejected")
         /\ UNCHANGED <<i, found>>

\* jwt.decode: the signature is that of the key and the algorithm goes with its type.
Fits(k) == IF alg \in EcOnly THEN k.kty = "EC" ELSE k.kty = "RSA"

Signed == found = signer /\ Fits(keys[found])

Verify == /\ pc = "verify"
          /\ GoTo(IF Signed THEN "verified" ELSE "rejected")
          /\ UNCHANGED <<i, found>>

Next == \/ RejectAlgorithm \/ AcceptAlgorithm
        \/ Skip \/ Discard \/ Take \/ NoKey
        \/ Verify

Spec == Init /\ [][Next]_vars

-----------------------------------------------------------------------------
Usable(k) == Matches(k) /\ k.sound

\* The search finds the first key of the JWKS that is of use, wherever unusable
\* ones stand, and fails for want of a key only if the JWKS has none.
FirstUsable ==
    /\ found # 0 => /\ Usable(keys[found])
                    /\ \A j \in 1..(found - 1) : ~Usable(keys[j])
    /\ pc = "rejected" /\ found = 0 /\ alg \in Allowed \ Blocked
           => \A j \in DOMAIN keys : ~Usable(keys[j])

\* The client signed with a key it publishes for this and tells which if it
\* gives a kid.
Honest == /\ signer # 0
          /\ kid \in {NoneGiven, keys[signer].kid}
          /\ keys[signer].alg \in {NoneGiven, alg}
          /\ keys[signer].use \in {NoneGiven, "sig"}
          /\ keys[signer].sound /\ Fits(keys[signer])
          /\ alg \in Allowed \ Blocked

\* The header of the assertion does not tell k from the signer's key.
Confusable(k) == /\ kid # NoneGiven => k.kid = keys[signer].kid
                 /\ alg \in RsaOnly \cup EcOnly => k.kty = keys[signer].kty

\* Only one key is tried, so an honest assertion may be refused; but only for
\* an earlier key of the same JWKS that its header does not tell apart: one
\* that shares the kid it gives (and the type, but for the PS algorithms,
\* which the search does not compare types for), or any if it gives none.
\* A client that gives each key a kid and names it is never refused.
RefusedForARival == pc = "rejected" /\ Honest
                        => \E j \in 1..(signer - 1) : Confusable(keys[j])
=============================================================================
