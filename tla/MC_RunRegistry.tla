--------------------------- MODULE MC_RunRegistry ---------------------------
(* Small instances of RunRegistry.                                         *)
EXTENDS RunRegistry, TLC

CONSTANTS p1, p2, a, b, s1, m1, m2

\* One row in each of two planes.
MC_Planes == [r \in Regs |-> IF r = a THEN p1 ELSE p2]
MC_Kinds  == [x \in Runs |-> IF x \in {m1, m2} THEN "merge" ELSE "maintain"]

\* The two planes are alike, registry and process together, and so are the
\* two merge runs.
MC_Same == a :> a @@ b :> b @@ p1 :> p1 @@ p2 :> p2
MC_Swap == a :> b @@ b :> a @@ p1 :> p2 @@ p2 :> p1
MC_Kept == m1 :> m1 @@ m2 :> m2
MC_Turn == m1 :> m2 @@ m2 :> m1
MC_Symmetry == {f @@ g : f \in {MC_Same, MC_Swap}, g \in {MC_Kept, MC_Turn}}
==============================================================================
