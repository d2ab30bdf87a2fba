---------------------------- MODULE MC_Curator -----------------------------
(* Small instances of Curator: a pass t1 beside an operator's call t2.     *)
EXTENDS Curator, TLC

CONSTANTS t1, t2, i1, a, b

\* Both in one process.
MC_Home == [t \in Calls |-> i1]
=============================================================================
