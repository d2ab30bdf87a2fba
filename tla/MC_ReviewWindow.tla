-------------------------- MODULE MC_ReviewWindow --------------------------
(* Small instances of ReviewWindow.                                        *)
EXTENDS ReviewWindow, TLC

CONSTANTS h1, h2, n1, n2, n3, n4
=============================================================================
