---------------------------- MODULE MC_MergeUnit ----------------------------
(* Small instances of MergeUnit: u1 creates c, with support files, out of  *)
(* a; u2 writes c out of b and d.  One process h has a recovery r, a merge *)
(* call m beside it.                                                       *)
EXTENDS MergeUnit, TLC

CONSTANTS a, b, c, d, u1, u2, r, m, h

MC_Home     == [p \in Calls |-> h]
MC_Approves == [p \in Calls |-> IF p = m THEN Units ELSE {}]
MC_Target   == [u \in Units |-> c]
MC_Sources  == [u \in Units |-> IF u = u1 THEN <<a>> ELSE <<b, d>>]
MC_Live     == [s \in Skills |-> IF s = c THEN Absent ELSE "orig"]
MC_Existing == [s \in Skills |-> "orig"]
=============================================================================
