----------------------------- MODULE MCProxyPool -----------------------------
(* ProxyPool with model values for TLC. *)
EXTENDS ProxyPool, TLC

CONSTANTS r1, r2, us, jp

OneRequest == {r1}
TwoRequests == {r1, r2}
OneCountry == {us}
TwoCountries == {us, jp}

AnyCountry == [r \in Requests |-> Countries]
OwnCountry == (r1 :> {us}) @@ (r2 :> {jp})

RequestSymmetry == Permutations(Requests)
=============================================================================
