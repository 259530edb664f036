--------------------------- MODULE MCAccountStore ---------------------------
(* AccountStore with model values for TLC. *)
EXTENDS AccountStore, TLC

CONSTANTS c1, c2, c3

TwoCallers == {c1, c2}
ThreeCallers == {c1, c2, c3}
TwoSections == {"cli", "route"}
=============================================================================
