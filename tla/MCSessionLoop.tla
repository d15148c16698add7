---------------------------- MODULE MCSessionLoop ----------------------------
(* Small instances of SessionLoop. *)
EXTENDS SessionLoop, TLC

OneSize  == {[cols |-> 80, rows |-> 24]}
TwoSizes == {[cols |-> 80, rows |-> 50], [cols |-> 120, rows |-> 24]}

ConnSymmetry == Permutations(Conn)
=============================================================================
