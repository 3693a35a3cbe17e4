------------------------------- MODULE MCNoDupe ------------------------------
(* Instances of NoDupe for TLC: m1 and m2 announce the same file.             *)
EXTENDS NoDupe

CONSTANTS m1, m2, m3

MCentry == [m \in Message |-> IF m = m3 THEN "g" ELSE "f"]
=============================================================================
