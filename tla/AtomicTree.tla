----------------------------- MODULE AtomicTree -----------------------------
(***************************************************************************)
(* What a tree-change unit promises: all of its writes take effect in one  *)
(* step, or none does.  Only undo, which the code compensates but does not *)
(* recover, goes back target by target.                                    *)
(***************************************************************************)
EXTENDS Integers, Sequences

CONSTANTS Paths, Bytes, Units, Ops, UserBytes, InitFiles

VARIABLES tree, status, base
treeVars == <<tree, status, base>>

OpsOf(u)   == 1..Len(Ops[u])
Targets(u) == {Ops[u][i].target : i \in OpsOf(u)}

Init ==
    /\ tree = InitFiles
    /\ status = [u \in Units |-> "pending"]
    /\ base = [u \in Units |-> <<>>]

\* All targets change together; an edit made meanwhile is kept.
Commit(u) ==
    /\ status[u] = "pending"
    /\ status' = [status EXCEPT ![u] = "committed"]
    /\ \A i \in OpsOf(u) :
         LET p == Ops[u][i].target IN
         /\ tree'[p] = Ops[u][i].after \/ (tree[p] \in UserBytes /\ tree'[p] = tree[p])
         /\ base'[u][i] = tree[p] \/ tree[p] \in UserBytes
    /\ \A p \in Paths \ Targets(u) : tree'[p] = tree[p]
    /\ \A v \in Units \ {u} : base'[v] = base[v]

\* A unit that will never commit.
Abandon(u) ==
    /\ status[u] = "pending"
    /\ status' = [status EXCEPT ![u] = "undone"]
    /\ UNCHANGED <<tree, base>>

UndoTarget(u, i) ==
    /\ status[u] = "committed"
    /\ tree[Ops[u][i].target] = Ops[u][i].after
    /\ tree' = [tree EXCEPT ![Ops[u][i].target] = base[u][i]]
    /\ UNCHANGED <<status, base>>

RedoTarget(u, i) ==
    /\ status[u] = "committed"
    /\ tree' = [tree EXCEPT ![Ops[u][i].target] = Ops[u][i].after]
    /\ UNCHANGED <<status, base>>

Undone(u) ==
    /\ status[u] = "committed"
    /\ \A i \in OpsOf(u) : tree[Ops[u][i].target] \in {base[u][i]} \cup UserBytes
    /\ status' = [status EXCEPT ![u] = "undone"]
    /\ base' = [base EXCEPT ![u] = <<>>]
    /\ UNCHANGED tree

Edit(p, b) == tree' = [tree EXCEPT ![p] = b] /\ UNCHANGED <<status, base>>

Next ==
    \/ \E u \in Units : \/ Commit(u) \/ Abandon(u) \/ Undone(u)
                        \/ \E i \in OpsOf(u) : UndoTarget(u, i) \/ RedoTarget(u, i)
    \/ \E p \in Paths, b \in UserBytes : Edit(p, b)

Spec == Init /\ [][Next]_treeVars
==============================================================================
