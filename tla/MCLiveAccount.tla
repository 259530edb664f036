---------------------------- MODULE MCLiveAccount ----------------------------
(* LiveAccount with model values for TLC. *)
EXTENDS LiveAccount, TLC

CONSTANTS c1, c2

OneChanger == {c1}
TwoChangers == {c1, c2}

\* The dynamic proxy and the static one, with and without a static proxy on file.
ProxyOrStatic == [mode : {"proxy", "static"}, static : BOOLEAN]

\* Setting, keeping and clearing the static proxy, with and without a mode.
FewUpdates == [mode : {"proxy"}, static : {"set", "clear"}]
RouteUpdates == [mode : {"keep", "unknown", "proxy", "static"}, static : {"keep", "set", "clear"}]

ChangerSymmetry == Permutations(Changers)
=============================================================================
