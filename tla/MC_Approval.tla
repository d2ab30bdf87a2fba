----------------------------- MODULE MC_Approval -----------------------------
(* Small instances of Approval. *)
EXTENDS Approval, TLC

CONSTANTS p1, p2, w
==============================================================================
