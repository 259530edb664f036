--------------------------- MODULE MCTokenRefresh ---------------------------
(* TokenRefresh with model values for TLC. *)
EXTENDS TokenRefresh

CONSTANTS m, c1

OneCreator == {c1}
=============================================================================
