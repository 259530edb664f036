------------------------------ MODULE MCServices ------------------------------
(* Instances of Services for TLC: three ports, one license task. *)
EXTENDS Services

CONSTANTS t1

OneTask == {t1}
ThreePorts == {1, 2, 3}
=============================================================================
