---------------------------- MODULE MCSigningKeys ----------------------------
(***************************************************************************)
(* SigningKeys for TLC: every JWKS of up to two keys that differ in what   *)
(* the search tests, and those of three that differ in kid, type and       *)
(* soundness alone.                                                        *)
(***************************************************************************)
EXTENDS SigningKeys

MCAllowed == {"RS256", "ES256", "PS256"}
MCBlocked == {"HS256"}
MCAlgs == MCAllowed \cup MCBlocked \cup {"EdDSA"}

Pick(kids, algs, uses) ==
    [kid : kids, alg : algs, use : uses, kty : {"RSA", "EC"}, sound : BOOLEAN]

Small == Pick({"k1", NoneGiven}, {NoneGiven}, {NoneGiven})
Varied == Pick({"k1", "k2", NoneGiven}, {"RS256", "PS256", NoneGiven}, {"sig", "enc"})

MCJwkss == {<<>>} \cup {<<k>> : k \in Varied} \cup {<<j, k>> : j, k \in Varied}
             \cup {<<j, k, l>> : j, k, l \in Small}
=============================================================================
