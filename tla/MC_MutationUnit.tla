--------------------------- MODULE MC_MutationUnit ---------------------------
(* Small instances of MutationUnit: two files, two units.                  *)
EXTENDS MutationUnit, TLC

CONSTANTS p1, p2, b0, x1, x2, y1, h, u1, u2, c1, c2

MC_Init == (p1 :> b0 @@ p2 :> Absent)
Write(p, e, a) == [target |-> p, expected |-> e, after |-> a]

\* u1 rewrites p1 and creates p2; u2 builds on whatever p1 holds.
MC_Distinct == (u1 :> <<Write(p1, b0, x1), Write(p2, AnyBytes, x2)>>
             @@ u2 :> <<Write(p1, AnyBytes, y1)>>)
MC_Symmetry == Permutations(Callers)
==============================================================================
