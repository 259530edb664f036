-------------------------- MODULE MCSessionAffinity --------------------------
(* SessionAffinity with model values for TLC. *)
EXTENDS SessionAffinity

CONSTANTS s1, a1, a2, p1, f1, f2

OneSession == {s1}
TwoAccounts == {a1, a2}
OnePicker == {p1}
OneTask == {f1}
TwoTasks == {f1, f2}
=============================================================================
