-------------------------- MODULE MCProviderClaims --------------------------
(* TLC instance of ProviderClaims: requests are alike and so are new SIDs.   *)
EXTENDS ProviderClaims, TLC
CONSTANTS q1, q2, q3, s1, s2, s3
Alike == {f @@ g : f \in Permutations(Requests), g \in Permutations(Sids)}
=============================================================================
