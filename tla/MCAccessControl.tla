--------------------------- MODULE MCAccessControl ---------------------------
EXTENDS AccessControl, TLC

Home == <<192, 168, 1, 7>>      \* a private network
Edge == <<172, 32, 0, 9>>       \* just outside 172.16.0.0/12
McAddresses == {Loopback, Home, <<192, 168, 1, 200>>, <<192, 168, 2, 7>>,
                Edge, <<172, 32, 0, 10>>}
McTyped == {<<Home, Exact>>}
McLans == {Home, Edge}
McMaxIds == [white |-> 3, black |-> 1]
AnyCall == Permutations(Calls)
=============================================================================
