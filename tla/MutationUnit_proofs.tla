------------------------ MODULE MutationUnit_proofs ------------------------
(***************************************************************************)
(* Proofs about MutationUnit for every tree, plan, set of callers and      *)
(* bound.  Shape relates the locals of a caller to its unit; SerialHeld    *)
(* makes OneUnitAtATime inductive; Bases says whose baselines the disk     *)
(* holds; Written, what a unit has written so far.                         *)
(***************************************************************************)
EXTENDS MutationUnit, TLAPS

Full == {"prepare", "journalPrepared", "write", "commit", "journalCommitted",
         "revert", "journalUndone", "preflight", "unwrite", "undoSnapshot",
         "compensate"}

\* What the program counter says of a caller's unit, position and baselines.
ShapeOf(c) ==
    /\ pc[c] \notin {"cold", "ready"} =>
         unit[c] \in Units /\ op[c] \in {"apply", "recover", "undo"}
    /\ pc[c] \in {"queued", "acquire"} =>
         Len(seen[c]) = IF op[c] = "apply" THEN 0 ELSE Size(unit[c])
    /\ pc[c] = "read" => k[c] \in 1..(Size(unit[c]) + 1) /\ Len(seen[c]) = k[c] - 1
    /\ pc[c] \in Full => Len(seen[c]) = Size(unit[c])
    /\ pc[c] = "write" => k[c] \in 1..(Size(unit[c]) + 1)
    /\ pc[c] \in {"commit", "journalCommitted"} => k[c] = Size(unit[c]) + 1
    /\ pc[c] = "rollback" =>
         k[c] = 1 \/ (k[c] \in 1..(Size(unit[c]) + 1) /\ Len(seen[c]) = Size(unit[c]))
    /\ pc[c] \in {"revert", "unwrite"} => k[c] \in 0..Size(unit[c])
    /\ pc[c] = "undoSnapshot" => k[c] = 0
    /\ pc[c] \in {"preflight", "compensate"} => k[c] >= 1
Shape == \A c \in Callers : ShapeOf(c)

\* A snapshot on disk has a before for every op of its unit.
SnapshotShape == \A u \in Units :
    snapshot[u].state # "none" => Len(snapshot[u].before) = Size(u)

TypeInv == TypeOK /\ Shape /\ SnapshotShape

\* The plan, as facts about one op.
LEMMA PlanFacts ==
    ASSUME NEW u \in Units
    PROVE  /\ Size(u) \in Nat /\ Size(u) > 0
           /\ \A i \in 1..Size(u) : Target(u, i) \in Paths /\ After(u, i) \in Bytes
           /\ \A i, j \in 1..Size(u) : Target(u, i) = Target(u, j) => i = j
  <1>1. Ops[u] \in Seq(OpType) /\ Len(Ops[u]) > 0
    BY PlanAssumption
  <1>2. \A i \in 1..Len(Ops[u]) : Ops[u][i] \in OpType
    BY <1>1
  <1> QED
    BY <1>1, <1>2, PlanAssumption DEF Size, Target, After, OpType

\* The process boots with every caller cold and no unit on disk.
LEMMA TypeInit == Init => TypeInv
  BY PlanAssumption, NamesAssumption
     DEF Init, TypeInv, TypeOK, Shape, ShapeOf, SnapshotShape, NoSnapshot, Free, Phases, SnapshotStates,
         Labels, OpNames, Full

\* The locals of every caller but c are untouched.
OnlyLocal(c) == \A d \in Callers \ {c} :
    /\ pc'[d] = pc[d] /\ op'[d] = op[d] /\ unit'[d] = unit[d]
    /\ k'[d] = k[d] /\ seen'[d] = seen[d]

\* So an action of c is checked on c's own shape.
LEMMA LocalStep ==
    ASSUME NEW c \in Callers, Shape, OnlyLocal(c), ShapeOf(c)'
    PROVE  Shape'
  <1>1. ASSUME NEW d \in Callers, d # c PROVE ShapeOf(d)'
    <2>1. ShapeOf(d)
      BY DEF Shape
    <2>2. /\ pc'[d] = pc[d] /\ op'[d] = op[d] /\ unit'[d] = unit[d]
          /\ k'[d] = k[d] /\ seen'[d] = seen[d]
      BY <1>1 DEF OnlyLocal
    <2> QED
      BY <2>1, <2>2 DEF ShapeOf
  <1> QED
    BY <1>1 DEF Shape

\* Every action, crash and edit included, keeps the types and the shapes.
LEMMA TypeStep == TypeInv /\ [Next]_vars => TypeInv'
  <1> SUFFICES ASSUME TypeInv, [Next]_vars PROVE TypeInv'
    OBVIOUS
  <1> USE DEF Goto, At, Step, Fault, Keep, WriteOne, SetState, SetPhase,
              disk, local, bound
  <1>0. TypeOK /\ Shape /\ SnapshotShape
    BY DEF TypeInv
  <1>p. \A u \in Units :
          /\ Size(u) \in Nat /\ Size(u) > 0
          /\ \A i \in 1..Size(u) : Target(u, i) \in Paths /\ After(u, i) \in Bytes
    BY PlanFacts
  <1>1. ASSUME NEW c \in Callers, CallStep(c) PROVE TypeInv'
    <2>s. ShapeOf(c) /\ \A i \in 1..Len(seen[c]) : seen[c][i] \in Bytes
      BY <1>0 DEF Shape, TypeOK
    <2>1. ASSUME ListPrepared(c) PROVE TypeInv'
      <3>1. TypeOK'
        BY <2>1, <2>s, <1>0, <1>p DEF ListPrepared, TypeOK, ShapeOf, Labels, OpNames, Phases, SnapshotStates, Full
      <3>2. ShapeOf(c)'
        BY <2>1, <2>s, <1>0, <1>p DEF ListPrepared, TypeOK, ShapeOf, SnapshotShape, Full
      <3>3. OnlyLocal(c)
        BY <2>1, <1>0 DEF ListPrepared, TypeOK, OnlyLocal
      <3>4. SnapshotShape'
        BY <2>1, <2>s, <1>0 DEF ListPrepared, TypeOK, ShapeOf, SnapshotShape, Full
      <3> QED
        BY <3>1, <3>2, <3>3, <3>4, <1>0, LocalStep DEF TypeInv
    <2>2. ASSUME RecoveryFault(c) PROVE TypeInv'
      <3>1. TypeOK'
        BY <2>2, <2>s, <1>0, <1>p DEF RecoveryFault, TypeOK, ShapeOf, Labels, OpNames, Phases, SnapshotStates, Full
      <3>2. ShapeOf(c)'
        BY <2>2, <2>s, <1>0, <1>p DEF RecoveryFault, TypeOK, ShapeOf, SnapshotShape, Full
      <3>3. OnlyLocal(c)
        BY <2>2, <1>0 DEF RecoveryFault, TypeOK, OnlyLocal
      <3>4. SnapshotShape'
        BY <2>2, <2>s, <1>0 DEF RecoveryFault, TypeOK, ShapeOf, SnapshotShape, Full
      <3> QED
        BY <3>1, <3>2, <3>3, <3>4, <1>0, LocalStep DEF TypeInv
    <2>3. ASSUME NewLibrary(c) PROVE TypeInv'
      <3>1. TypeOK'
        BY <2>3, <2>s, <1>0, <1>p DEF NewLibrary, TypeOK, ShapeOf, Labels, OpNames, Phases, SnapshotStates, Full
      <3>2. ShapeOf(c)'
        BY <2>3, <2>s, <1>0, <1>p DEF NewLibrary, TypeOK, ShapeOf, SnapshotShape, Full
      <3>3. OnlyLocal(c)
        BY <2>3, <1>0 DEF NewLibrary, TypeOK, OnlyLocal
      <3>4. SnapshotShape'
        BY <2>3, <2>s, <1>0 DEF NewLibrary, TypeOK, ShapeOf, SnapshotShape, Full
      <3> QED
        BY <3>1, <3>2, <3>3, <3>4, <1>0, LocalStep DEF TypeInv
    <2>4. ASSUME NEW u \in Units, RecoverRead(c, u) PROVE TypeInv'
      <3>1. TypeOK'
        <4>0. snapshot[u].before \in Seq(Bytes)
          BY <1>0 DEF TypeOK
        <4>1. files' \in [Paths -> Bytes]
          BY <4>0, <2>4, <2>s, <1>0, <1>p DEF RecoverRead, TypeOK, ShapeOf, Full
        <4>2. snapshot' \in [Units -> [state : SnapshotStates, before : Seq(Bytes)]]
          BY <2>4, <2>s, <1>0 DEF RecoverRead, TypeOK, ShapeOf, SnapshotStates, Full
        <4>3. journal' \in [Units -> Phases]
          BY <2>4, <2>s, <1>0 DEF RecoverRead, TypeOK, ShapeOf, Phases, Full
        <4>4. pc' \in [Callers -> Labels] /\ op' \in [Callers -> OpNames]
          BY <2>4, <1>0, ZenonT(30) DEF RecoverRead, TypeOK, Labels, OpNames
        <4>5. k' \in [Callers -> Nat]
          BY <4>0, <2>4, <2>s, <1>0, <1>p DEF RecoverRead, TypeOK, ShapeOf, Full
        <4>6. seen' \in [Callers -> Seq(Bytes)] /\ unit' \in [Callers -> Units \cup {NoUnit}]
          <5>1. seen' = seen \/ seen' = [seen EXCEPT ![c] = snapshot[u].before]
            BY <2>4 DEF RecoverRead
          <5>2. unit' = unit \/ unit' = [unit EXCEPT ![c] = u]
            BY <2>4 DEF RecoverRead
          <5> QED
            BY <5>1, <5>2, <4>0, <1>0 DEF TypeOK
        <4>7. /\ lock' \in [epoch : Int, holder : Callers \cup {NoCaller}]
              /\ serial' \in Callers \cup {NoCaller} /\ used' \in SUBSET Units
              /\ todo' \in [Callers -> SUBSET Units]
              /\ epoch' \in Nat /\ edits' \in Nat /\ faults' \in Nat
          BY <2>4, <1>0 DEF RecoverRead, TypeOK, Free
        <4> QED
          BY <4>1, <4>2, <4>3, <4>4, <4>5, <4>6, <4>7 DEF TypeOK
      <3>2. ShapeOf(c)'
        BY <2>4, <2>s, <1>0, <1>p DEF RecoverRead, TypeOK, ShapeOf, SnapshotShape, Full
      <3>3. OnlyLocal(c)
        BY <2>4, <1>0 DEF RecoverRead, TypeOK, OnlyLocal
      <3>4. SnapshotShape'
        BY <2>4, <2>s, <1>0 DEF RecoverRead, TypeOK, ShapeOf, SnapshotShape, Full
      <3> QED
        BY <3>1, <3>2, <3>3, <3>4, <1>0, LocalStep DEF TypeInv
    <2>5. ASSUME NEW u \in Units, ApplyStart(c, u) PROVE TypeInv'
      <3>1. TypeOK'
        BY <2>5, <2>s, <1>0, <1>p DEF ApplyStart, TypeOK, ShapeOf, Labels, OpNames, Phases, SnapshotStates, Full
      <3>2. ShapeOf(c)'
        BY <2>5, <2>s, <1>0, <1>p DEF ApplyStart, TypeOK, ShapeOf, SnapshotShape, Full
      <3>3. OnlyLocal(c)
        BY <2>5, <1>0 DEF ApplyStart, TypeOK, OnlyLocal
      <3>4. SnapshotShape'
        BY <2>5, <2>s, <1>0 DEF ApplyStart, TypeOK, ShapeOf, SnapshotShape, Full
      <3> QED
        BY <3>1, <3>2, <3>3, <3>4, <1>0, LocalStep DEF TypeInv
    <2>6. ASSUME NEW u \in Units, UndoRead(c, u) PROVE TypeInv'
      <3>1. TypeOK'
        BY <2>6, <2>s, <1>0, <1>p DEF UndoRead, TypeOK, ShapeOf, Labels, OpNames, Phases, SnapshotStates, Full
      <3>2. ShapeOf(c)'
        BY <2>6, <2>s, <1>0, <1>p DEF UndoRead, TypeOK, ShapeOf, SnapshotShape, Full
      <3>3. OnlyLocal(c)
        BY <2>6, <1>0 DEF UndoRead, TypeOK, OnlyLocal
      <3>4. SnapshotShape'
        BY <2>6, <2>s, <1>0 DEF UndoRead, TypeOK, ShapeOf, SnapshotShape, Full
      <3> QED
        BY <3>1, <3>2, <3>3, <3>4, <1>0, LocalStep DEF TypeInv
    <2> QED
      BY <1>1, <2>1, <2>2, <2>3, <2>4, <2>5, <2>6 DEF CallStep
  <1>2. ASSUME NEW c \in Callers, LockStep(c) PROVE TypeInv'
    <2>s. ShapeOf(c) /\ \A i \in 1..Len(seen[c]) : seen[c][i] \in Bytes
      BY <1>0 DEF Shape, TypeOK
    <2>1. ASSUME Enter(c) PROVE TypeInv'
      <3>1. TypeOK'
        BY <2>1, <2>s, <1>0, <1>p DEF Enter, TypeOK, ShapeOf, Labels, OpNames, Phases, SnapshotStates, Full
      <3>2. ShapeOf(c)'
        BY <2>1, <2>s, <1>0, <1>p DEF Enter, TypeOK, ShapeOf, SnapshotShape, Full
      <3>3. OnlyLocal(c)
        BY <2>1, <1>0 DEF Enter, TypeOK, OnlyLocal
      <3>4. SnapshotShape'
        BY <2>1, <2>s, <1>0 DEF Enter, TypeOK, ShapeOf, SnapshotShape, Full
      <3> QED
        BY <3>1, <3>2, <3>3, <3>4, <1>0, LocalStep DEF TypeInv
    <2>2. ASSUME Acquire(c) PROVE TypeInv'
      <3>1. TypeOK'
        <4>0. Size(unit[c]) \in Nat
          BY <2>2, <2>s, <1>p DEF Acquire, ShapeOf
        <4>1. files' \in [Paths -> Bytes]
          BY <4>0, <2>2, <2>s, <1>0, <1>p DEF Acquire, TypeOK, ShapeOf, Full
        <4>2. snapshot' \in [Units -> [state : SnapshotStates, before : Seq(Bytes)]]
          BY <2>2, <2>s, <1>0 DEF Acquire, TypeOK, ShapeOf, SnapshotStates, Full
        <4>3. journal' \in [Units -> Phases]
          BY <2>2, <2>s, <1>0 DEF Acquire, TypeOK, ShapeOf, Phases, Full
        <4>4. pc' \in [Callers -> Labels] /\ op' \in [Callers -> OpNames]
          BY <2>2, <1>0 DEF Acquire, TypeOK, Labels, OpNames
        <4>5. k' \in [Callers -> Nat]
          <5>1. \E n \in Nat : k' = [k EXCEPT ![c] = n]
            BY <4>0, <2>2 DEF Acquire
          <5> QED
            BY <5>1, <1>0 DEF TypeOK
        <4>6. seen' \in [Callers -> Seq(Bytes)] /\ unit' \in [Callers -> Units \cup {NoUnit}]
          BY <4>0, <2>2, <2>s, <1>0, <1>p DEF Acquire, TypeOK, ShapeOf, Full
        <4>7. /\ lock' \in [epoch : Int, holder : Callers \cup {NoCaller}]
              /\ serial' \in Callers \cup {NoCaller} /\ used' \in SUBSET Units
              /\ todo' \in [Callers -> SUBSET Units]
              /\ epoch' \in Nat /\ edits' \in Nat /\ faults' \in Nat
          BY <2>2, <1>0 DEF Acquire, TypeOK, Free
        <4> QED
          BY <4>1, <4>2, <4>3, <4>4, <4>5, <4>6, <4>7 DEF TypeOK
      <3>2. ShapeOf(c)'
        BY <2>2, <2>s, <1>0, <1>p DEF Acquire, TypeOK, ShapeOf, SnapshotShape, Full
      <3>3. OnlyLocal(c)
        BY <2>2, <1>0 DEF Acquire, TypeOK, OnlyLocal
      <3>4. SnapshotShape'
        BY <2>2, <2>s, <1>0 DEF Acquire, TypeOK, ShapeOf, SnapshotShape, Full
      <3> QED
        BY <3>1, <3>2, <3>3, <3>4, <1>0, LocalStep DEF TypeInv
    <2>3. ASSUME LockFailed(c) PROVE TypeInv'
      <3>1. TypeOK'
        BY <2>3, <2>s, <1>0, <1>p, SMTT(30) DEF LockFailed, TypeOK, ShapeOf, Labels, OpNames, Phases, SnapshotStates, Full
      <3>2. ShapeOf(c)'
        BY <2>3, <2>s, <1>0, <1>p DEF LockFailed, TypeOK, ShapeOf, SnapshotShape, Full
      <3>3. OnlyLocal(c)
        BY <2>3, <1>0 DEF LockFailed, TypeOK, OnlyLocal
      <3>4. SnapshotShape'
        BY <2>3, <2>s, <1>0 DEF LockFailed, TypeOK, ShapeOf, SnapshotShape, Full
      <3> QED
        BY <3>1, <3>2, <3>3, <3>4, <1>0, LocalStep DEF TypeInv
    <2>4. ASSUME Release(c) PROVE TypeInv'
      <3>1. TypeOK'
        BY <2>4, <1>0, <1>p DEF Release, TypeOK, Labels, Phases, Free
      <3>2. ShapeOf(c)'
        BY <2>4, <2>s, <1>0, <1>p DEF Release, TypeOK, ShapeOf, SnapshotShape, Full
      <3>3. OnlyLocal(c)
        BY <2>4, <1>0 DEF Release, TypeOK, OnlyLocal
      <3>4. SnapshotShape'
        BY <2>4, <2>s, <1>0 DEF Release, TypeOK, ShapeOf, SnapshotShape, Full
      <3> QED
        BY <3>1, <3>2, <3>3, <3>4, <1>0, LocalStep DEF TypeInv
    <2>5. ASSUME ReleaseFault(c) PROVE TypeInv'
      <3>1. TypeOK'
        BY <2>5, <2>s, <1>0, <1>p, SMTT(30) DEF ReleaseFault, TypeOK, ShapeOf, Labels, OpNames, Phases, SnapshotStates, Full
      <3>2. ShapeOf(c)'
        BY <2>5, <2>s, <1>0, <1>p DEF ReleaseFault, TypeOK, ShapeOf, SnapshotShape, Full
      <3>3. OnlyLocal(c)
        BY <2>5, <1>0 DEF ReleaseFault, TypeOK, OnlyLocal
      <3>4. SnapshotShape'
        BY <2>5, <2>s, <1>0 DEF ReleaseFault, TypeOK, ShapeOf, SnapshotShape, Full
      <3> QED
        BY <3>1, <3>2, <3>3, <3>4, <1>0, LocalStep DEF TypeInv
    <2> QED
      BY <1>2, <2>1, <2>2, <2>3, <2>4, <2>5 DEF LockStep
  <1>3. ASSUME NEW c \in Callers, ApplyStep(c) PROVE TypeInv'
    <2>s. ShapeOf(c) /\ \A i \in 1..Len(seen[c]) : seen[c][i] \in Bytes
      BY <1>0 DEF Shape, TypeOK
    <2>1. ASSUME ReadTarget(c) PROVE TypeInv'
      <3>1. TypeOK'
        BY <2>1, <2>s, <1>0, <1>p, SMTT(30) DEF ReadTarget, TypeOK, ShapeOf, Labels, OpNames, Phases, SnapshotStates, Full
      <3>2. ShapeOf(c)'
        BY <2>1, <2>s, <1>0, <1>p, SMTT(30) DEF ReadTarget, TypeOK, ShapeOf, SnapshotShape, Full
      <3>3. OnlyLocal(c)
        BY <2>1, <1>0 DEF ReadTarget, TypeOK, OnlyLocal
      <3>4. SnapshotShape'
        BY <2>1, <2>s, <1>0 DEF ReadTarget, TypeOK, ShapeOf, SnapshotShape, Full
      <3> QED
        BY <3>1, <3>2, <3>3, <3>4, <1>0, LocalStep DEF TypeInv
    <2>2. ASSUME RefuseDrift(c) PROVE TypeInv'
      <3>1. TypeOK'
        BY <2>2, <2>s, <1>0, <1>p DEF RefuseDrift, TypeOK, ShapeOf, Labels, OpNames, Phases, SnapshotStates, Full
      <3>2. ShapeOf(c)'
        BY <2>2, <2>s, <1>0, <1>p DEF RefuseDrift, TypeOK, ShapeOf, SnapshotShape, Full
      <3>3. OnlyLocal(c)
        BY <2>2, <1>0 DEF RefuseDrift, TypeOK, OnlyLocal
      <3>4. SnapshotShape'
        BY <2>2, <2>s, <1>0 DEF RefuseDrift, TypeOK, ShapeOf, SnapshotShape, Full
      <3> QED
        BY <3>1, <3>2, <3>3, <3>4, <1>0, LocalStep DEF TypeInv
    <2>3. ASSUME Validate(c) PROVE TypeInv'
      <3>1. TypeOK'
        BY <2>3, <2>s, <1>0, <1>p DEF Validate, TypeOK, ShapeOf, Labels, OpNames, Phases, SnapshotStates, Full
      <3>2. ShapeOf(c)'
        BY <2>3, <2>s, <1>0, <1>p DEF Validate, TypeOK, ShapeOf, SnapshotShape, Full
      <3>3. OnlyLocal(c)
        BY <2>3, <1>0 DEF Validate, TypeOK, OnlyLocal
      <3>4. SnapshotShape'
        BY <2>3, <2>s, <1>0 DEF Validate, TypeOK, ShapeOf, SnapshotShape, Full
      <3> QED
        BY <3>1, <3>2, <3>3, <3>4, <1>0, LocalStep DEF TypeInv
    <2>4. ASSUME WritePrepared(c) PROVE TypeInv'
      <3>1. TypeOK'
        BY <2>4, <2>s, <1>0, <1>p DEF WritePrepared, TypeOK, ShapeOf, Labels, OpNames, Phases, SnapshotStates, Full
      <3>2. ShapeOf(c)'
        BY <2>4, <2>s, <1>0, <1>p DEF WritePrepared, TypeOK, ShapeOf, SnapshotShape, Full
      <3>3. OnlyLocal(c)
        BY <2>4, <1>0 DEF WritePrepared, TypeOK, OnlyLocal
      <3>4. SnapshotShape'
        BY <2>4, <2>s, <1>0 DEF WritePrepared, TypeOK, ShapeOf, SnapshotShape, Full
      <3> QED
        BY <3>1, <3>2, <3>3, <3>4, <1>0, LocalStep DEF TypeInv
    <2>5. ASSUME JournalPrepared(c) PROVE TypeInv'
      <3>1. TypeOK'
        BY <2>5, <2>s, <1>0, <1>p DEF JournalPrepared, TypeOK, ShapeOf, Labels, OpNames, Phases, SnapshotStates, Full
      <3>2. ShapeOf(c)'
        BY <2>5, <2>s, <1>0, <1>p DEF JournalPrepared, TypeOK, ShapeOf, SnapshotShape, Full
      <3>3. OnlyLocal(c)
        BY <2>5, <1>0 DEF JournalPrepared, TypeOK, OnlyLocal
      <3>4. SnapshotShape'
        BY <2>5, <2>s, <1>0 DEF JournalPrepared, TypeOK, ShapeOf, SnapshotShape, Full
      <3> QED
        BY <3>1, <3>2, <3>3, <3>4, <1>0, LocalStep DEF TypeInv
    <2>6. ASSUME WriteTarget(c) PROVE TypeInv'
      <3>1. TypeOK'
        BY <2>6, <2>s, <1>0, <1>p, SMTT(30) DEF WriteTarget, TypeOK, ShapeOf, Labels, OpNames, Phases, SnapshotStates, Full
      <3>2. ShapeOf(c)'
        BY <2>6, <2>s, <1>0, <1>p DEF WriteTarget, TypeOK, ShapeOf, SnapshotShape, Full
      <3>3. OnlyLocal(c)
        BY <2>6, <1>0 DEF WriteTarget, TypeOK, OnlyLocal
      <3>4. SnapshotShape'
        BY <2>6, <2>s, <1>0 DEF WriteTarget, TypeOK, ShapeOf, SnapshotShape, Full
      <3> QED
        BY <3>1, <3>2, <3>3, <3>4, <1>0, LocalStep DEF TypeInv
    <2>7. ASSUME JournalWritten(c) PROVE TypeInv'
      <3>1. TypeOK'
        BY <2>7, <2>s, <1>0, <1>p DEF JournalWritten, TypeOK, ShapeOf, Labels, OpNames, Phases, SnapshotStates, Full
      <3>2. ShapeOf(c)'
        BY <2>7, <2>s, <1>0, <1>p DEF JournalWritten, TypeOK, ShapeOf, SnapshotShape, Full
      <3>3. OnlyLocal(c)
        BY <2>7, <1>0 DEF JournalWritten, TypeOK, OnlyLocal
      <3>4. SnapshotShape'
        BY <2>7, <2>s, <1>0 DEF JournalWritten, TypeOK, ShapeOf, SnapshotShape, Full
      <3> QED
        BY <3>1, <3>2, <3>3, <3>4, <1>0, LocalStep DEF TypeInv
    <2>8. ASSUME CommitSnapshot(c) PROVE TypeInv'
      <3>1. TypeOK'
        BY <2>8, <2>s, <1>0, <1>p DEF CommitSnapshot, TypeOK, ShapeOf, Labels, OpNames, Phases, SnapshotStates, Full
      <3>2. ShapeOf(c)'
        BY <2>8, <2>s, <1>0, <1>p DEF CommitSnapshot, TypeOK, ShapeOf, SnapshotShape, Full
      <3>3. OnlyLocal(c)
        BY <2>8, <1>0 DEF CommitSnapshot, TypeOK, OnlyLocal
      <3>4. SnapshotShape'
        BY <2>8, <2>s, <1>0 DEF CommitSnapshot, TypeOK, ShapeOf, SnapshotShape, Full
      <3> QED
        BY <3>1, <3>2, <3>3, <3>4, <1>0, LocalStep DEF TypeInv
    <2>9. ASSUME JournalCommitted(c) PROVE TypeInv'
      <3>1. TypeOK'
        BY <2>9, <2>s, <1>0, <1>p DEF JournalCommitted, TypeOK, ShapeOf, Labels, OpNames, Phases, SnapshotStates, Full
      <3>2. ShapeOf(c)'
        BY <2>9, <2>s, <1>0, <1>p DEF JournalCommitted, TypeOK, ShapeOf, SnapshotShape, Full
      <3>3. OnlyLocal(c)
        BY <2>9, <1>0 DEF JournalCommitted, TypeOK, OnlyLocal
      <3>4. SnapshotShape'
        BY <2>9, <2>s, <1>0 DEF JournalCommitted, TypeOK, ShapeOf, SnapshotShape, Full
      <3> QED
        BY <3>1, <3>2, <3>3, <3>4, <1>0, LocalStep DEF TypeInv
    <2>10. ASSUME ApplyThrows(c) PROVE TypeInv'
      <3>1. TypeOK'
        <4>1. files' \in [Paths -> Bytes]
          BY <2>10, <2>s, <1>0, <1>p DEF ApplyThrows, TypeOK, ShapeOf, Full
        <4>2. snapshot' \in [Units -> [state : SnapshotStates, before : Seq(Bytes)]]
          BY <2>10, <2>s, <1>0 DEF ApplyThrows, TypeOK, ShapeOf, SnapshotStates, Full
        <4>3. journal' \in [Units -> Phases]
          BY <2>10, <2>s, <1>0 DEF ApplyThrows, TypeOK, ShapeOf, Phases, Full
        <4>4. pc' \in [Callers -> Labels] /\ op' \in [Callers -> OpNames]
          BY <2>10, <1>0 DEF ApplyThrows, TypeOK, Labels, OpNames
        <4>5. k' \in [Callers -> Nat]
          BY <2>10, <2>s, <1>0, <1>p, SMTT(30) DEF ApplyThrows, TypeOK, ShapeOf, Full
        <4>6. seen' \in [Callers -> Seq(Bytes)] /\ unit' \in [Callers -> Units \cup {NoUnit}]
          BY <2>10, <2>s, <1>0, <1>p DEF ApplyThrows, TypeOK, ShapeOf, Full
        <4>7. /\ lock' \in [epoch : Int, holder : Callers \cup {NoCaller}]
              /\ serial' \in Callers \cup {NoCaller} /\ used' \in SUBSET Units
              /\ todo' \in [Callers -> SUBSET Units]
              /\ epoch' \in Nat /\ edits' \in Nat /\ faults' \in Nat
          BY <2>10, <1>0 DEF ApplyThrows, TypeOK, Free
        <4> QED
          BY <4>1, <4>2, <4>3, <4>4, <4>5, <4>6, <4>7 DEF TypeOK
      <3>2. ShapeOf(c)'
        BY <2>10, <2>s, <1>0, <1>p, SMTT(30) DEF ApplyThrows, TypeOK, ShapeOf, SnapshotShape, Full
      <3>3. OnlyLocal(c)
        BY <2>10, <1>0 DEF ApplyThrows, TypeOK, OnlyLocal
      <3>4. SnapshotShape'
        BY <2>10, <2>s, <1>0 DEF ApplyThrows, TypeOK, ShapeOf, SnapshotShape, Full
      <3> QED
        BY <3>1, <3>2, <3>3, <3>4, <1>0, LocalStep DEF TypeInv
    <2>11. ASSUME RollbackTarget(c) PROVE TypeInv'
      <3>1. TypeOK'
        BY <2>11, <2>s, <1>0, <1>p, SMTT(30) DEF RollbackTarget, TypeOK, ShapeOf, Labels, OpNames, Phases, SnapshotStates, Full
      <3>2. ShapeOf(c)'
        BY <2>11, <2>s, <1>0, <1>p DEF RollbackTarget, TypeOK, ShapeOf, SnapshotShape, Full
      <3>3. OnlyLocal(c)
        BY <2>11, <1>0 DEF RollbackTarget, TypeOK, OnlyLocal
      <3>4. SnapshotShape'
        BY <2>11, <2>s, <1>0 DEF RollbackTarget, TypeOK, ShapeOf, SnapshotShape, Full
      <3> QED
        BY <3>1, <3>2, <3>3, <3>4, <1>0, LocalStep DEF TypeInv
    <2>12. ASSUME RollbackEnds(c) PROVE TypeInv'
      <3>1. TypeOK'
        BY <2>12, <2>s, <1>0, <1>p, SMTT(30) DEF RollbackEnds, TypeOK, ShapeOf, Labels, OpNames, Phases, SnapshotStates, Full
      <3>2. ShapeOf(c)'
        BY <2>12, <2>s, <1>0, <1>p DEF RollbackEnds, TypeOK, ShapeOf, SnapshotShape, Full
      <3>3. OnlyLocal(c)
        BY <2>12, <1>0 DEF RollbackEnds, TypeOK, OnlyLocal
      <3>4. SnapshotShape'
        BY <2>12, <2>s, <1>0 DEF RollbackEnds, TypeOK, ShapeOf, SnapshotShape, Full
      <3> QED
        BY <3>1, <3>2, <3>3, <3>4, <1>0, LocalStep DEF TypeInv
    <2>13. ASSUME JournalFailed(c) PROVE TypeInv'
      <3>1. TypeOK'
        <4>1. files' \in [Paths -> Bytes]
          BY <2>13, <2>s, <1>0, <1>p DEF JournalFailed, TypeOK, ShapeOf, Full
        <4>2. snapshot' \in [Units -> [state : SnapshotStates, before : Seq(Bytes)]]
          BY <2>13, <2>s, <1>0 DEF JournalFailed, TypeOK, ShapeOf, SnapshotStates, Full
        <4>3. journal' \in [Units -> Phases]
          BY <2>13, <2>s, <1>0 DEF JournalFailed, TypeOK, ShapeOf, Phases, Full
        <4>4. pc' \in [Callers -> Labels] /\ op' \in [Callers -> OpNames]
          BY <2>13, <1>0 DEF JournalFailed, TypeOK, Labels, OpNames
        <4>5. k' \in [Callers -> Nat]
          BY <2>13, <2>s, <1>0, <1>p DEF JournalFailed, TypeOK, ShapeOf, Full
        <4>6. seen' \in [Callers -> Seq(Bytes)] /\ unit' \in [Callers -> Units \cup {NoUnit}]
          BY <2>13, <2>s, <1>0, <1>p DEF JournalFailed, TypeOK, ShapeOf, Full
        <4>7. /\ lock' \in [epoch : Int, holder : Callers \cup {NoCaller}]
              /\ serial' \in Callers \cup {NoCaller} /\ used' \in SUBSET Units
              /\ todo' \in [Callers -> SUBSET Units]
              /\ epoch' \in Nat /\ edits' \in Nat /\ faults' \in Nat
          BY <2>13, <1>0 DEF JournalFailed, TypeOK, Free
        <4> QED
          BY <4>1, <4>2, <4>3, <4>4, <4>5, <4>6, <4>7 DEF TypeOK
      <3>2. ShapeOf(c)'
        BY <2>13, <2>s, <1>0, <1>p DEF JournalFailed, TypeOK, ShapeOf, SnapshotShape, Full
      <3>3. OnlyLocal(c)
        BY <2>13, <1>0 DEF JournalFailed, TypeOK, OnlyLocal
      <3>4. SnapshotShape'
        BY <2>13, <2>s, <1>0 DEF JournalFailed, TypeOK, ShapeOf, SnapshotShape, Full
      <3> QED
        BY <3>1, <3>2, <3>3, <3>4, <1>0, LocalStep DEF TypeInv
    <2> QED
      BY <1>3, <2>1, <2>2, <2>3, <2>4, <2>5, <2>6, <2>7, <2>8, <2>9, <2>10, <2>11, <2>12, <2>13 DEF ApplyStep
  <1>4. ASSUME NEW c \in Callers, RecoverStep(c) PROVE TypeInv'
    <2>s. ShapeOf(c) /\ \A i \in 1..Len(seen[c]) : seen[c][i] \in Bytes
      BY <1>0 DEF Shape, TypeOK
    <2>1. ASSUME SkipTarget(c) PROVE TypeInv'
      <3>1. TypeOK'
        BY <2>1, <2>s, <1>0, <1>p DEF SkipTarget, TypeOK, ShapeOf, Labels, OpNames, Phases, SnapshotStates, Full
      <3>2. ShapeOf(c)'
        BY <2>1, <2>s, <1>0, <1>p DEF SkipTarget, TypeOK, ShapeOf, SnapshotShape, Full
      <3>3. OnlyLocal(c)
        BY <2>1, <1>0 DEF SkipTarget, TypeOK, OnlyLocal
      <3>4. SnapshotShape'
        BY <2>1, <2>s, <1>0 DEF SkipTarget, TypeOK, ShapeOf, SnapshotShape, Full
      <3> QED
        BY <3>1, <3>2, <3>3, <3>4, <1>0, LocalStep DEF TypeInv
    <2>2. ASSUME RevertTarget(c) PROVE TypeInv'
      <3>1. TypeOK'
        BY <2>2, <2>s, <1>0, <1>p DEF RevertTarget, TypeOK, ShapeOf, Labels, OpNames, Phases, SnapshotStates, Full
      <3>2. ShapeOf(c)'
        BY <2>2, <2>s, <1>0, <1>p DEF RevertTarget, TypeOK, ShapeOf, SnapshotShape, Full
      <3>3. OnlyLocal(c)
        BY <2>2, <1>0 DEF RevertTarget, TypeOK, OnlyLocal
      <3>4. SnapshotShape'
        BY <2>2, <2>s, <1>0 DEF RevertTarget, TypeOK, ShapeOf, SnapshotShape, Full
      <3> QED
        BY <3>1, <3>2, <3>3, <3>4, <1>0, LocalStep DEF TypeInv
    <2>3. ASSUME RecoverRefused(c) PROVE TypeInv'
      <3>1. TypeOK'
        BY <2>3, <2>s, <1>0, <1>p, SMTT(30) DEF RecoverRefused, TypeOK, ShapeOf, Labels, OpNames, Phases, SnapshotStates, Full
      <3>2. ShapeOf(c)'
        BY <2>3, <2>s, <1>0, <1>p DEF RecoverRefused, TypeOK, ShapeOf, SnapshotShape, Full
      <3>3. OnlyLocal(c)
        BY <2>3, <1>0 DEF RecoverRefused, TypeOK, OnlyLocal
      <3>4. SnapshotShape'
        BY <2>3, <2>s, <1>0 DEF RecoverRefused, TypeOK, ShapeOf, SnapshotShape, Full
      <3> QED
        BY <3>1, <3>2, <3>3, <3>4, <1>0, LocalStep DEF TypeInv
    <2>4. ASSUME MarkUndone(c) PROVE TypeInv'
      <3>1. TypeOK'
        BY <2>4, <2>s, <1>0, <1>p DEF MarkUndone, TypeOK, ShapeOf, Labels, OpNames, Phases, SnapshotStates, Full
      <3>2. ShapeOf(c)'
        BY <2>4, <2>s, <1>0, <1>p DEF MarkUndone, TypeOK, ShapeOf, SnapshotShape, Full
      <3>3. OnlyLocal(c)
        BY <2>4, <1>0 DEF MarkUndone, TypeOK, OnlyLocal
      <3>4. SnapshotShape'
        BY <2>4, <2>s, <1>0 DEF MarkUndone, TypeOK, ShapeOf, SnapshotShape, Full
      <3> QED
        BY <3>1, <3>2, <3>3, <3>4, <1>0, LocalStep DEF TypeInv
    <2>5. ASSUME JournalUndone(c) PROVE TypeInv'
      <3>1. TypeOK'
        <4>1. files' \in [Paths -> Bytes]
          BY <2>5, <2>s, <1>0, <1>p DEF JournalUndone, TypeOK, ShapeOf, Full
        <4>2. snapshot' \in [Units -> [state : SnapshotStates, before : Seq(Bytes)]]
          BY <2>5, <2>s, <1>0 DEF JournalUndone, TypeOK, ShapeOf, SnapshotStates, Full
        <4>3. journal' \in [Units -> Phases]
          BY <2>5, <2>s, <1>0 DEF JournalUndone, TypeOK, ShapeOf, Phases, Full
        <4>4. pc' \in [Callers -> Labels] /\ op' \in [Callers -> OpNames]
          BY <2>5, <1>0 DEF JournalUndone, TypeOK, Labels, OpNames
        <4>5. k' \in [Callers -> Nat]
          BY <2>5, <2>s, <1>0, <1>p DEF JournalUndone, TypeOK, ShapeOf, Full
        <4>6. seen' \in [Callers -> Seq(Bytes)] /\ unit' \in [Callers -> Units \cup {NoUnit}]
          BY <2>5, <2>s, <1>0, <1>p DEF JournalUndone, TypeOK, ShapeOf, Full
        <4>7. /\ lock' \in [epoch : Int, holder : Callers \cup {NoCaller}]
              /\ serial' \in Callers \cup {NoCaller} /\ used' \in SUBSET Units
              /\ todo' \in [Callers -> SUBSET Units]
              /\ epoch' \in Nat /\ edits' \in Nat /\ faults' \in Nat
          BY <2>5, <1>0 DEF JournalUndone, TypeOK, Free
        <4> QED
          BY <4>1, <4>2, <4>3, <4>4, <4>5, <4>6, <4>7 DEF TypeOK
      <3>2. ShapeOf(c)'
        BY <2>5, <2>s, <1>0, <1>p DEF JournalUndone, TypeOK, ShapeOf, SnapshotShape, Full
      <3>3. OnlyLocal(c)
        BY <2>5, <1>0 DEF JournalUndone, TypeOK, OnlyLocal
      <3>4. SnapshotShape'
        BY <2>5, <2>s, <1>0 DEF JournalUndone, TypeOK, ShapeOf, SnapshotShape, Full
      <3> QED
        BY <3>1, <3>2, <3>3, <3>4, <1>0, LocalStep DEF TypeInv
    <2> QED
      BY <1>4, <2>1, <2>2, <2>3, <2>4, <2>5 DEF RecoverStep
  <1>5. ASSUME NEW c \in Callers, UndoStep(c) PROVE TypeInv'
    <2>s. ShapeOf(c) /\ \A i \in 1..Len(seen[c]) : seen[c][i] \in Bytes
      BY <1>0 DEF Shape, TypeOK
    <2>1. ASSUME Preflight(c) PROVE TypeInv'
      <3>1. TypeOK'
        <4>1. files' \in [Paths -> Bytes]
          BY <2>1, <2>s, <1>0, <1>p DEF Preflight, TypeOK, ShapeOf, Full
        <4>2. snapshot' \in [Units -> [state : SnapshotStates, before : Seq(Bytes)]]
          BY <2>1, <2>s, <1>0 DEF Preflight, TypeOK, ShapeOf, SnapshotStates, Full
        <4>3. journal' \in [Units -> Phases]
          BY <2>1, <2>s, <1>0 DEF Preflight, TypeOK, ShapeOf, Phases, Full
        <4>4. pc' \in [Callers -> Labels] /\ op' \in [Callers -> OpNames]
          BY <2>1, <1>0 DEF Preflight, TypeOK, Labels, OpNames
        <4>5. k' \in [Callers -> Nat]
          BY <2>1, <2>s, <1>0, <1>p DEF Preflight, TypeOK, ShapeOf, Full
        <4>6. seen' \in [Callers -> Seq(Bytes)] /\ unit' \in [Callers -> Units \cup {NoUnit}]
          BY <2>1, <2>s, <1>0, <1>p DEF Preflight, TypeOK, ShapeOf, Full
        <4>7. /\ lock' \in [epoch : Int, holder : Callers \cup {NoCaller}]
              /\ serial' \in Callers \cup {NoCaller} /\ used' \in SUBSET Units
              /\ todo' \in [Callers -> SUBSET Units]
              /\ epoch' \in Nat /\ edits' \in Nat /\ faults' \in Nat
          BY <2>1, <1>0 DEF Preflight, TypeOK, Free
        <4> QED
          BY <4>1, <4>2, <4>3, <4>4, <4>5, <4>6, <4>7 DEF TypeOK
      <3>2. ShapeOf(c)'
        BY <2>1, <2>s, <1>0, <1>p DEF Preflight, TypeOK, ShapeOf, SnapshotShape, Full
      <3>3. OnlyLocal(c)
        BY <2>1, <1>0 DEF Preflight, TypeOK, OnlyLocal
      <3>4. SnapshotShape'
        BY <2>1, <2>s, <1>0 DEF Preflight, TypeOK, ShapeOf, SnapshotShape, Full
      <3> QED
        BY <3>1, <3>2, <3>3, <3>4, <1>0, LocalStep DEF TypeInv
    <2>2. ASSUME UnwriteTarget(c) PROVE TypeInv'
      <3>1. TypeOK'
        BY <2>2, <2>s, <1>0, <1>p DEF UnwriteTarget, TypeOK, ShapeOf, Labels, OpNames, Phases, SnapshotStates, Full
      <3>2. ShapeOf(c)'
        BY <2>2, <2>s, <1>0, <1>p DEF UnwriteTarget, TypeOK, ShapeOf, SnapshotShape, Full
      <3>3. OnlyLocal(c)
        BY <2>2, <1>0 DEF UnwriteTarget, TypeOK, OnlyLocal
      <3>4. SnapshotShape'
        BY <2>2, <2>s, <1>0 DEF UnwriteTarget, TypeOK, ShapeOf, SnapshotShape, Full
      <3> QED
        BY <3>1, <3>2, <3>3, <3>4, <1>0, LocalStep DEF TypeInv
    <2>3. ASSUME UndoJournal(c) PROVE TypeInv'
      <3>1. TypeOK'
        BY <2>3, <2>s, <1>0, <1>p DEF UndoJournal, TypeOK, ShapeOf, Labels, OpNames, Phases, SnapshotStates, Full
      <3>2. ShapeOf(c)'
        BY <2>3, <2>s, <1>0, <1>p DEF UndoJournal, TypeOK, ShapeOf, SnapshotShape, Full
      <3>3. OnlyLocal(c)
        BY <2>3, <1>0 DEF UndoJournal, TypeOK, OnlyLocal
      <3>4. SnapshotShape'
        BY <2>3, <2>s, <1>0 DEF UndoJournal, TypeOK, ShapeOf, SnapshotShape, Full
      <3> QED
        BY <3>1, <3>2, <3>3, <3>4, <1>0, LocalStep DEF TypeInv
    <2>4. ASSUME UndoSnapshot(c) PROVE TypeInv'
      <3>1. TypeOK'
        BY <2>4, <2>s, <1>0, <1>p DEF UndoSnapshot, TypeOK, ShapeOf, Labels, OpNames, Phases, SnapshotStates, Full
      <3>2. ShapeOf(c)'
        BY <2>4, <2>s, <1>0, <1>p DEF UndoSnapshot, TypeOK, ShapeOf, SnapshotShape, Full
      <3>3. OnlyLocal(c)
        BY <2>4, <1>0 DEF UndoSnapshot, TypeOK, OnlyLocal
      <3>4. SnapshotShape'
        BY <2>4, <2>s, <1>0 DEF UndoSnapshot, TypeOK, ShapeOf, SnapshotShape, Full
      <3> QED
        BY <3>1, <3>2, <3>3, <3>4, <1>0, LocalStep DEF TypeInv
    <2>5. ASSUME UndoThrows(c) PROVE TypeInv'
      <3>1. TypeOK'
        BY <2>5, <2>s, <1>0, <1>p, SMTT(30) DEF UndoThrows, TypeOK, ShapeOf, Labels, OpNames, Phases, SnapshotStates, Full
      <3>2. ShapeOf(c)'
        BY <2>5, <2>s, <1>0, <1>p DEF UndoThrows, TypeOK, ShapeOf, SnapshotShape, Full
      <3>3. OnlyLocal(c)
        BY <2>5, <1>0 DEF UndoThrows, TypeOK, OnlyLocal
      <3>4. SnapshotShape'
        BY <2>5, <2>s, <1>0 DEF UndoThrows, TypeOK, ShapeOf, SnapshotShape, Full
      <3> QED
        BY <3>1, <3>2, <3>3, <3>4, <1>0, LocalStep DEF TypeInv
    <2>6. ASSUME Compensate(c) PROVE TypeInv'
      <3>1. TypeOK'
        BY <2>6, <2>s, <1>0, <1>p, SMTT(30) DEF Compensate, TypeOK, ShapeOf, Labels, OpNames, Phases, SnapshotStates, Full
      <3>2. ShapeOf(c)'
        BY <2>6, <2>s, <1>0, <1>p DEF Compensate, TypeOK, ShapeOf, SnapshotShape, Full
      <3>3. OnlyLocal(c)
        BY <2>6, <1>0 DEF Compensate, TypeOK, OnlyLocal
      <3>4. SnapshotShape'
        BY <2>6, <2>s, <1>0 DEF Compensate, TypeOK, ShapeOf, SnapshotShape, Full
      <3> QED
        BY <3>1, <3>2, <3>3, <3>4, <1>0, LocalStep DEF TypeInv
    <2>7. ASSUME CompensateFault(c) PROVE TypeInv'
      <3>1. TypeOK'
        BY <2>7, <2>s, <1>0, <1>p, SMTT(30) DEF CompensateFault, TypeOK, ShapeOf, Labels, OpNames, Phases, SnapshotStates, Full
      <3>2. ShapeOf(c)'
        BY <2>7, <2>s, <1>0, <1>p DEF CompensateFault, TypeOK, ShapeOf, SnapshotShape, Full
      <3>3. OnlyLocal(c)
        BY <2>7, <1>0 DEF CompensateFault, TypeOK, OnlyLocal
      <3>4. SnapshotShape'
        BY <2>7, <2>s, <1>0 DEF CompensateFault, TypeOK, ShapeOf, SnapshotShape, Full
      <3> QED
        BY <3>1, <3>2, <3>3, <3>4, <1>0, LocalStep DEF TypeInv
    <2>8. ASSUME CompensateEnds(c) PROVE TypeInv'
      <3>1. TypeOK'
        BY <2>8, <2>s, <1>0, <1>p DEF CompensateEnds, TypeOK, ShapeOf, Labels, OpNames, Phases, SnapshotStates, Full
      <3>2. ShapeOf(c)'
        BY <2>8, <2>s, <1>0, <1>p DEF CompensateEnds, TypeOK, ShapeOf, SnapshotShape, Full
      <3>3. OnlyLocal(c)
        BY <2>8, <1>0 DEF CompensateEnds, TypeOK, OnlyLocal
      <3>4. SnapshotShape'
        BY <2>8, <2>s, <1>0 DEF CompensateEnds, TypeOK, ShapeOf, SnapshotShape, Full
      <3> QED
        BY <3>1, <3>2, <3>3, <3>4, <1>0, LocalStep DEF TypeInv
    <2> QED
      BY <1>5, <2>1, <2>2, <2>3, <2>4, <2>5, <2>6, <2>7, <2>8 DEF UndoStep
  <1>6. ASSUME NEW p \in Paths, NEW b \in UserBytes, UserEdit(p, b) PROVE TypeInv'
    BY <1>6, <1>0, PlanAssumption DEF UserEdit, TypeInv, TypeOK, Shape, ShapeOf, SnapshotShape
  <1>7. CASE Crash
    BY <1>7, <1>0, NamesAssumption
       DEF Crash, TypeInv, TypeOK, Shape, ShapeOf, SnapshotShape, Labels, OpNames, Full
  <1>8. CASE UNCHANGED vars
    BY <1>8, <1>0 DEF vars, TypeInv, TypeOK, Shape, ShapeOf, SnapshotShape
  <1> QED
    BY <1>1, <1>2, <1>3, <1>4, <1>5, <1>6, <1>7, <1>8 DEF Next

\* SerialHeld: the queue is held from the start of the task, the lock record
\* from the acquire on.
SerialHeld == \A c \in Callers :
    /\ pc[c] \in Locked \cup {"acquire"} => serial = c
    /\ pc[c] \in Locked => lock = [epoch |-> epoch, holder |-> c]

\* Only Enter and Acquire give the queue and the lock away, to one caller each.
LEMMA SerialStep == TypeInv /\ SerialHeld /\ [Next]_vars => SerialHeld'
  <1> SUFFICES ASSUME TypeInv, SerialHeld, [Next]_vars PROVE SerialHeld'
    OBVIOUS
  <1>0. TypeOK
    BY DEF TypeInv
  <1> USE DEF Goto, At, disk, local, bound, Fault, Keep
  <1>1. ASSUME NEW c \in Callers, CallStep(c) PROVE SerialHeld'
    <2>1. ASSUME ListPrepared(c) PROVE SerialHeld'
      BY <2>1, <1>0, NamesAssumption DEF ListPrepared, SerialHeld, TypeOK, Locked, Labels
    <2>2. ASSUME RecoveryFault(c) PROVE SerialHeld'
      BY <2>2, <1>0, NamesAssumption DEF RecoveryFault, SerialHeld, TypeOK, Locked, Labels
    <2>3. ASSUME NewLibrary(c) PROVE SerialHeld'
      BY <2>3, <1>0, NamesAssumption DEF NewLibrary, SerialHeld, TypeOK, Locked, Labels
    <2>4. ASSUME NEW u \in Units, RecoverRead(c, u) PROVE SerialHeld'
      <3>1. /\ serial' = serial /\ lock' = lock /\ epoch' = epoch
            /\ pc' = pc \/ pc' = [pc EXCEPT ![c] = "queued"]
        BY <2>4 DEF RecoverRead
      <3> QED
        BY <3>1, <1>0 DEF SerialHeld, TypeOK, Locked, Labels
    <2>5. ASSUME NEW u \in Units, ApplyStart(c, u) PROVE SerialHeld'
      BY <2>5, <1>0, NamesAssumption DEF ApplyStart, SerialHeld, TypeOK, Locked, Labels
    <2>6. ASSUME NEW u \in Units, UndoRead(c, u) PROVE SerialHeld'
      BY <2>6, <1>0, NamesAssumption DEF UndoRead, SerialHeld, TypeOK, Locked, Labels
    <2> QED
      BY <1>1, <2>1, <2>2, <2>3, <2>4, <2>5, <2>6 DEF CallStep
  <1>2. ASSUME NEW c \in Callers, LockStep(c) PROVE SerialHeld'
    <2>1. ASSUME Enter(c) PROVE SerialHeld'
      BY <2>1, <1>0, NamesAssumption DEF Enter, SerialHeld, TypeOK, Locked, Labels
    <2>2. ASSUME Acquire(c) PROVE SerialHeld'
      BY <2>2, <1>0, NamesAssumption DEF Acquire, SerialHeld, TypeOK, Locked, Labels
    <2>3. ASSUME LockFailed(c) PROVE SerialHeld'
      BY <2>3, <1>0, NamesAssumption DEF LockFailed, SerialHeld, TypeOK, Locked, Labels
    <2>4. ASSUME Release(c) PROVE SerialHeld'
      BY <2>4, <1>0, NamesAssumption DEF Release, SerialHeld, TypeOK, Locked, Labels
    <2>5. ASSUME ReleaseFault(c) PROVE SerialHeld'
      BY <2>5, <1>0, NamesAssumption, ZenonT(30) DEF ReleaseFault, SerialHeld, TypeOK, Locked, Labels
    <2> QED
      BY <1>2, <2>1, <2>2, <2>3, <2>4, <2>5 DEF LockStep
  <1>3. ASSUME NEW c \in Callers, ApplyStep(c) PROVE SerialHeld'
    <2>1. ASSUME ReadTarget(c) PROVE SerialHeld'
      BY <2>1, <1>0, NamesAssumption DEF ReadTarget, SerialHeld, TypeOK, Locked, Labels
    <2>2. ASSUME RefuseDrift(c) PROVE SerialHeld'
      BY <2>2, <1>0, NamesAssumption DEF RefuseDrift, SerialHeld, TypeOK, Locked, Labels
    <2>3. ASSUME Validate(c) PROVE SerialHeld'
      BY <2>3, <1>0, NamesAssumption, ZenonT(30) DEF Validate, SerialHeld, TypeOK, Locked, Labels
    <2>4. ASSUME WritePrepared(c) PROVE SerialHeld'
      BY <2>4, <1>0, NamesAssumption DEF WritePrepared, SerialHeld, TypeOK, Locked, Labels
    <2>5. ASSUME JournalPrepared(c) PROVE SerialHeld'
      BY <2>5, <1>0, NamesAssumption DEF JournalPrepared, SerialHeld, TypeOK, Locked, Labels
    <2>6. ASSUME WriteTarget(c) PROVE SerialHeld'
      BY <2>6, <1>0, NamesAssumption DEF WriteTarget, SerialHeld, TypeOK, Locked, Labels
    <2>7. ASSUME JournalWritten(c) PROVE SerialHeld'
      BY <2>7, <1>0, NamesAssumption DEF JournalWritten, SerialHeld, TypeOK, Locked, Labels
    <2>8. ASSUME CommitSnapshot(c) PROVE SerialHeld'
      BY <2>8, <1>0, NamesAssumption DEF CommitSnapshot, SerialHeld, TypeOK, Locked, Labels
    <2>9. ASSUME JournalCommitted(c) PROVE SerialHeld'
      BY <2>9, <1>0, NamesAssumption DEF JournalCommitted, SerialHeld, TypeOK, Locked, Labels
    <2>10. ASSUME ApplyThrows(c) PROVE SerialHeld'
      BY <2>10, <1>0, NamesAssumption, SMTT(30) DEF ApplyThrows, SerialHeld, TypeOK, Locked, Labels
    <2>11. ASSUME RollbackTarget(c) PROVE SerialHeld'
      BY <2>11, <1>0, NamesAssumption DEF RollbackTarget, SerialHeld, TypeOK, Locked, Labels
    <2>12. ASSUME RollbackEnds(c) PROVE SerialHeld'
      BY <2>12, <1>0, NamesAssumption DEF RollbackEnds, SerialHeld, TypeOK, Locked, Labels
    <2>13. ASSUME JournalFailed(c) PROVE SerialHeld'
      BY <2>13, <1>0, NamesAssumption DEF JournalFailed, SerialHeld, TypeOK, Locked, Labels
    <2> QED
      BY <1>3, <2>1, <2>2, <2>3, <2>4, <2>5, <2>6, <2>7, <2>8, <2>9, <2>10, <2>11, <2>12, <2>13 DEF ApplyStep
  <1>4. ASSUME NEW c \in Callers, RecoverStep(c) PROVE SerialHeld'
    <2>1. ASSUME SkipTarget(c) PROVE SerialHeld'
      BY <2>1, <1>0, NamesAssumption DEF SkipTarget, SerialHeld, TypeOK, Locked, Labels
    <2>2. ASSUME RevertTarget(c) PROVE SerialHeld'
      BY <2>2, <1>0, NamesAssumption DEF RevertTarget, SerialHeld, TypeOK, Locked, Labels
    <2>3. ASSUME RecoverRefused(c) PROVE SerialHeld'
      BY <2>3, <1>0, NamesAssumption DEF RecoverRefused, SerialHeld, TypeOK, Locked, Labels
    <2>4. ASSUME MarkUndone(c) PROVE SerialHeld'
      BY <2>4, <1>0, NamesAssumption DEF MarkUndone, SerialHeld, TypeOK, Locked, Labels
    <2>5. ASSUME JournalUndone(c) PROVE SerialHeld'
      BY <2>5, <1>0, NamesAssumption DEF JournalUndone, SerialHeld, TypeOK, Locked, Labels
    <2> QED
      BY <1>4, <2>1, <2>2, <2>3, <2>4, <2>5 DEF RecoverStep
  <1>5. ASSUME NEW c \in Callers, UndoStep(c) PROVE SerialHeld'
    <2>1. ASSUME Preflight(c) PROVE SerialHeld'
      BY <2>1, <1>0, NamesAssumption DEF Preflight, SerialHeld, TypeOK, Locked, Labels
    <2>2. ASSUME UnwriteTarget(c) PROVE SerialHeld'
      BY <2>2, <1>0, NamesAssumption DEF UnwriteTarget, SerialHeld, TypeOK, Locked, Labels
    <2>3. ASSUME UndoJournal(c) PROVE SerialHeld'
      BY <2>3, <1>0, NamesAssumption DEF UndoJournal, SerialHeld, TypeOK, Locked, Labels
    <2>4. ASSUME UndoSnapshot(c) PROVE SerialHeld'
      BY <2>4, <1>0, NamesAssumption DEF UndoSnapshot, SerialHeld, TypeOK, Locked, Labels
    <2>5. ASSUME UndoThrows(c) PROVE SerialHeld'
      BY <2>5, <1>0, NamesAssumption DEF UndoThrows, SerialHeld, TypeOK, Locked, Labels
    <2>6. ASSUME Compensate(c) PROVE SerialHeld'
      BY <2>6, <1>0, NamesAssumption DEF Compensate, SerialHeld, TypeOK, Locked, Labels
    <2>7. ASSUME CompensateFault(c) PROVE SerialHeld'
      BY <2>7, <1>0, NamesAssumption DEF CompensateFault, SerialHeld, TypeOK, Locked, Labels
    <2>8. ASSUME CompensateEnds(c) PROVE SerialHeld'
      BY <2>8, <1>0, NamesAssumption DEF CompensateEnds, SerialHeld, TypeOK, Locked, Labels
    <2> QED
      BY <1>5, <2>1, <2>2, <2>3, <2>4, <2>5, <2>6, <2>7, <2>8 DEF UndoStep
  <1>6. ASSUME NEW p \in Paths, NEW b \in UserBytes, UserEdit(p, b) PROVE SerialHeld'
    BY <1>6 DEF UserEdit, SerialHeld
  <1>7. CASE Crash
    BY <1>7 DEF Crash, SerialHeld, Locked, Labels
  <1>8. CASE UNCHANGED vars
    BY <1>8 DEF vars, SerialHeld
  <1> QED
    BY <1>1, <1>2, <1>3, <1>4, <1>5, <1>6, <1>7, <1>8 DEF Next

\* The types and shapes hold throughout.
LEMMA TypeInvariant == Spec => []TypeInv
  BY TypeInit, TypeStep, PTL DEF Spec

\* Every variable keeps its type; the baselines of a unit fit its ops.
THEOREM TypeCorrect == Spec => []TypeOK
  <1>1. TypeInv => TypeOK
    BY DEF TypeInv
  <1> QED
    BY <1>1, TypeInvariant, PTL

\* For every number of callers, edits, faults and crashes: between the
\* acquire and the release of a unit no other unit moves.
THEOREM Exclusion == Spec => []OneUnitAtATime
  <1>1. Init => SerialHeld
    BY DEF Init, SerialHeld, Locked, Labels
  <1>2. TypeInv /\ SerialHeld => OneUnitAtATime
    BY DEF SerialHeld, OneUnitAtATime
  <1> QED
    BY <1>1, <1>2, TypeInvariant, SerialStep, PTL DEF Spec

\* Which operation a label belongs to.
ApplyLabels == {"read", "prepare", "journalPrepared", "write", "commit",
                "journalCommitted", "rollback", "journalFailed"}
RecoverLabels == {"revert", "journalUndone"}
UndoLabels == {"preflight", "unwrite", "undoSnapshot", "compensate"}
Busy(c) == pc[c] \notin {"cold", "ready"}

\* A unit id is applied by one caller only, which is the first to write its
\* snapshot; from then on the before-bytes on disk never change, and everyone
\* working on the unit holds the same ones.
BaseOf(c) ==
    /\ pc[c] \in ApplyLabels => op[c] = "apply"
    /\ pc[c] \in RecoverLabels => op[c] = "recover"
    /\ pc[c] \in UndoLabels => op[c] = "undo"
    /\ Busy(c) /\ op[c] = "apply" => unit[c] \in used
    /\ pc[c] \in {"queued", "acquire", "read", "prepare"} /\ op[c] = "apply" =>
         snapshot[unit[c]].state = "none"
    /\ \/ Busy(c) /\ op[c] \in {"recover", "undo"}
       \/ pc[c] \in {"journalPrepared", "write", "commit", "journalCommitted"}
       => snapshot[unit[c]].state # "none" /\ snapshot[unit[c]].before = seen[c]
Bases ==
    /\ \A c \in Callers : BaseOf(c)
    /\ \A u \in Units : u \notin used => snapshot[u].state = "none"
    /\ \A c, d \in Callers :
         Busy(c) /\ Busy(d) /\ op[c] = "apply" /\ op[d] = "apply" /\ unit[c] = unit[d]
            => c = d

\* A snapshot is first written by the unit's own apply, then kept as it is.
LEMMA BasesStep == TypeInv /\ Bases /\ [Next]_vars => Bases'
  <1> SUFFICES ASSUME TypeInv, Bases, [Next]_vars PROVE Bases'
    OBVIOUS
  <1>0. TypeOK /\ Shape
    BY DEF TypeInv
  <1> USE DEF Goto, At, Step, disk, local, bound, Fault, Keep, SetState, SetPhase
  <1>1. ASSUME NEW c \in Callers, CallStep(c) PROVE Bases'
    <2>1. ASSUME ListPrepared(c) PROVE Bases'
      BY <2>1, <1>0 DEF ListPrepared, Bases, BaseOf, Busy, Shape, ShapeOf, TypeOK, Labels, ApplyLabels, RecoverLabels, UndoLabels
    <2>2. ASSUME RecoveryFault(c) PROVE Bases'
      BY <2>2, <1>0 DEF RecoveryFault, Bases, BaseOf, Busy, Shape, ShapeOf, TypeOK, Labels, ApplyLabels, RecoverLabels, UndoLabels
    <2>3. ASSUME NewLibrary(c) PROVE Bases'
      BY <2>3, <1>0 DEF NewLibrary, Bases, BaseOf, Busy, Shape, ShapeOf, TypeOK, Labels, ApplyLabels, RecoverLabels, UndoLabels
    <2>4. ASSUME NEW u \in Units, RecoverRead(c, u) PROVE Bases'
      <3>1. CASE snapshot[u].state = "prepared"
        <4>1. /\ snapshot' = snapshot /\ used' = used /\ pc[c] = "ready"
              /\ pc' = [pc EXCEPT ![c] = "queued"] /\ op' = [op EXCEPT ![c] = "recover"]
              /\ unit' = [unit EXCEPT ![c] = u]
              /\ seen' = [seen EXCEPT ![c] = snapshot[u].before]
          BY <2>4, <3>1 DEF RecoverRead
        <4>2. BaseOf(c)'
          BY <3>1, <4>1, <1>0 DEF BaseOf, Busy, TypeOK, ApplyLabels, RecoverLabels, UndoLabels
        <4>3. \A d \in Callers \ {c} : BaseOf(d)'
          BY <4>1, <1>0 DEF Bases, BaseOf, Busy, TypeOK
        <4>4. \A d \in Callers : Busy(d)' /\ op'[d] = "apply" =>
                d # c /\ Busy(d) /\ op[d] = "apply" /\ unit'[d] = unit[d]
          BY <4>1, <1>0 DEF Busy, TypeOK
        <4> QED
          BY <4>1, <4>2, <4>3, <4>4 DEF Bases
      <3>2. CASE snapshot[u].state # "prepared"
        BY <2>4, <3>2, <1>0 DEF RecoverRead, Bases, BaseOf, Busy
      <3> QED
        BY <3>1, <3>2
    <2>5. ASSUME NEW u \in Units, ApplyStart(c, u) PROVE Bases'
      BY <2>5, <1>0 DEF ApplyStart, Bases, BaseOf, Busy, Shape, ShapeOf, TypeOK, Labels, ApplyLabels, RecoverLabels, UndoLabels
    <2>6. ASSUME NEW u \in Units, UndoRead(c, u) PROVE Bases'
      BY <2>6, <1>0 DEF UndoRead, Bases, BaseOf, Busy, Shape, ShapeOf, TypeOK, Labels, ApplyLabels, RecoverLabels, UndoLabels
    <2> QED
      BY <1>1, <2>1, <2>2, <2>3, <2>4, <2>5, <2>6 DEF CallStep
  <1>2. ASSUME NEW c \in Callers, LockStep(c) PROVE Bases'
    <2>1. ASSUME Enter(c) PROVE Bases'
      BY <2>1, <1>0 DEF Enter, Bases, BaseOf, Busy, Shape, ShapeOf, TypeOK, Labels, ApplyLabels, RecoverLabels, UndoLabels
    <2>2. ASSUME Acquire(c) PROVE Bases'
      <3>1. /\ snapshot' = snapshot /\ used' = used /\ op' = op /\ unit' = unit /\ seen' = seen
            /\ \E l \in {"read", "revert", "preflight"} :
                 /\ pc[c] = "acquire" /\ pc' = [pc EXCEPT ![c] = l]
                 /\ l = "read" <=> op[c] = "apply"
                 /\ l = "revert" <=> op[c] = "recover"
                 /\ l = "preflight" <=> op[c] = "undo"
        BY <2>2, <1>0 DEF Acquire, ApplyLabels, TypeOK
      <3> QED
        BY <3>1, <1>0 DEF Bases, BaseOf, Busy, Shape, ShapeOf, TypeOK, Labels, ApplyLabels, RecoverLabels, UndoLabels
    <2>3. ASSUME LockFailed(c) PROVE Bases'
      BY <2>3, <1>0 DEF LockFailed, Bases, BaseOf, Busy, Shape, ShapeOf, TypeOK, Labels, ApplyLabels, RecoverLabels, UndoLabels
    <2>4. ASSUME Release(c) PROVE Bases'
      BY <2>4, <1>0 DEF Release, Bases, BaseOf, Busy, Shape, ShapeOf, TypeOK, Labels, ApplyLabels, RecoverLabels, UndoLabels
    <2>5. ASSUME ReleaseFault(c) PROVE Bases'
      BY <2>5, <1>0 DEF ReleaseFault, Bases, BaseOf, Busy, Shape, ShapeOf, TypeOK, Labels, ApplyLabels, RecoverLabels, UndoLabels
    <2> QED
      BY <1>2, <2>1, <2>2, <2>3, <2>4, <2>5 DEF LockStep
  <1>3. ASSUME NEW c \in Callers, ApplyStep(c) PROVE Bases'
    <2>1. ASSUME ReadTarget(c) PROVE Bases'
      BY <2>1, <1>0 DEF ReadTarget, Bases, BaseOf, Busy, Shape, ShapeOf, TypeOK, Labels, ApplyLabels, RecoverLabels, UndoLabels
    <2>2. ASSUME RefuseDrift(c) PROVE Bases'
      BY <2>2, <1>0, SMTT(30) DEF RefuseDrift, Bases, BaseOf, Busy, Shape, ShapeOf, TypeOK, Labels, ApplyLabels, RecoverLabels, UndoLabels
    <2>3. ASSUME Validate(c) PROVE Bases'
      <3>1. /\ snapshot' = snapshot /\ used' = used /\ op' = op /\ unit' = unit /\ seen' = seen
            /\ pc[c] = "read" /\ \E l \in {"prepare", "release"} : pc' = [pc EXCEPT ![c] = l]
        BY <2>3, <1>0 DEF Validate, ApplyLabels, TypeOK
      <3> QED
        BY <3>1, <1>0, SMTT(30) DEF Bases, BaseOf, Busy, Shape, ShapeOf, TypeOK, Labels, ApplyLabels, RecoverLabels, UndoLabels
    <2>4. ASSUME WritePrepared(c) PROVE Bases'
      BY <2>4, <1>0, SMTT(30) DEF WritePrepared, Bases, BaseOf, Busy, Shape, ShapeOf, TypeOK, Labels, ApplyLabels, RecoverLabels, UndoLabels
    <2>5. ASSUME JournalPrepared(c) PROVE Bases'
      BY <2>5, <1>0, SMTT(30) DEF JournalPrepared, Bases, BaseOf, Busy, Shape, ShapeOf, TypeOK, Labels, ApplyLabels, RecoverLabels, UndoLabels
    <2>6. ASSUME WriteTarget(c) PROVE Bases'
      BY <2>6, <1>0 DEF WriteTarget, Bases, BaseOf, Busy, Shape, ShapeOf, TypeOK, Labels, ApplyLabels, RecoverLabels, UndoLabels
    <2>7. ASSUME JournalWritten(c) PROVE Bases'
      BY <2>7, <1>0, SMTT(30) DEF JournalWritten, Bases, BaseOf, Busy, Shape, ShapeOf, TypeOK, Labels, ApplyLabels, RecoverLabels, UndoLabels
    <2>8. ASSUME CommitSnapshot(c) PROVE Bases'
      BY <2>8, <1>0, SMTT(30) DEF CommitSnapshot, Bases, BaseOf, Busy, Shape, ShapeOf, TypeOK, Labels, ApplyLabels, RecoverLabels, UndoLabels
    <2>9. ASSUME JournalCommitted(c) PROVE Bases'
      BY <2>9, <1>0, SMTT(30) DEF JournalCommitted, Bases, BaseOf, Busy, Shape, ShapeOf, TypeOK, Labels, ApplyLabels, RecoverLabels, UndoLabels
    <2>10. ASSUME ApplyThrows(c) PROVE Bases'
      <3>1. /\ snapshot' = snapshot /\ used' = used /\ op' = op /\ unit' = unit /\ seen' = seen
            /\ pc[c] \in ApplyLabels /\ pc' = [pc EXCEPT ![c] = "rollback"]
        BY <2>10, <1>0 DEF ApplyThrows, ApplyLabels, TypeOK
      <3> QED
        BY <3>1, <1>0, SMTT(30) DEF Bases, BaseOf, Busy, Shape, ShapeOf, TypeOK, Labels, ApplyLabels, RecoverLabels, UndoLabels
    <2>11. ASSUME RollbackTarget(c) PROVE Bases'
      BY <2>11, <1>0 DEF RollbackTarget, Bases, BaseOf, Busy, Shape, ShapeOf, TypeOK, Labels, ApplyLabels, RecoverLabels, UndoLabels
    <2>12. ASSUME RollbackEnds(c) PROVE Bases'
      BY <2>12, <1>0, SMTT(30) DEF RollbackEnds, Bases, BaseOf, Busy, Shape, ShapeOf, TypeOK, Labels, ApplyLabels, RecoverLabels, UndoLabels
    <2>13. ASSUME JournalFailed(c) PROVE Bases'
      BY <2>13, <1>0, SMTT(30) DEF JournalFailed, Bases, BaseOf, Busy, Shape, ShapeOf, TypeOK, Labels, ApplyLabels, RecoverLabels, UndoLabels
    <2> QED
      BY <1>3, <2>1, <2>2, <2>3, <2>4, <2>5, <2>6, <2>7, <2>8, <2>9, <2>10, <2>11, <2>12, <2>13 DEF ApplyStep
  <1>4. ASSUME NEW c \in Callers, RecoverStep(c) PROVE Bases'
    <2>1. ASSUME SkipTarget(c) PROVE Bases'
      BY <2>1, <1>0 DEF SkipTarget, Bases, BaseOf, Busy, Shape, ShapeOf, TypeOK, Labels, ApplyLabels, RecoverLabels, UndoLabels
    <2>2. ASSUME RevertTarget(c) PROVE Bases'
      BY <2>2, <1>0 DEF RevertTarget, Bases, BaseOf, Busy, Shape, ShapeOf, TypeOK, Labels, ApplyLabels, RecoverLabels, UndoLabels
    <2>3. ASSUME RecoverRefused(c) PROVE Bases'
      BY <2>3, <1>0, SMTT(30) DEF RecoverRefused, Bases, BaseOf, Busy, Shape, ShapeOf, TypeOK, Labels, ApplyLabels, RecoverLabels, UndoLabels
    <2>4. ASSUME MarkUndone(c) PROVE Bases'
      BY <2>4, <1>0, SMTT(30) DEF MarkUndone, Bases, BaseOf, Busy, Shape, ShapeOf, TypeOK, Labels, ApplyLabels, RecoverLabels, UndoLabels
    <2>5. ASSUME JournalUndone(c) PROVE Bases'
      <3>1. /\ snapshot' = snapshot /\ used' = used /\ op' = op /\ unit' = unit /\ seen' = seen
            /\ pc[c] = "journalUndone" /\ pc' = [pc EXCEPT ![c] = "release"]
        BY <2>5 DEF JournalUndone
      <3> QED
        BY <3>1, <1>0 DEF Bases, BaseOf, Busy, Shape, ShapeOf, TypeOK, Labels, ApplyLabels, RecoverLabels, UndoLabels
    <2> QED
      BY <1>4, <2>1, <2>2, <2>3, <2>4, <2>5 DEF RecoverStep
  <1>5. ASSUME NEW c \in Callers, UndoStep(c) PROVE Bases'
    <2>1. ASSUME Preflight(c) PROVE Bases'
      <3>1. /\ snapshot' = snapshot /\ used' = used /\ op' = op /\ unit' = unit /\ seen' = seen
            /\ pc[c] = "preflight"
        BY <2>1 DEF Preflight
      <3>2. CASE pc' = pc
        BY <3>1, <3>2 DEF Bases, BaseOf, Busy
      <3>3. ASSUME NEW l \in {"unwrite", "release"}, pc' = [pc EXCEPT ![c] = l] PROVE Bases'
        BY <3>1, <3>3, <1>0, SMTT(30) DEF Bases, BaseOf, Busy, Shape, ShapeOf, TypeOK, Labels, ApplyLabels, RecoverLabels, UndoLabels
      <3> QED
        BY <2>1, <3>2, <3>3 DEF Preflight
    <2>2. ASSUME UnwriteTarget(c) PROVE Bases'
      BY <2>2, <1>0 DEF UnwriteTarget, Bases, BaseOf, Busy, Shape, ShapeOf, TypeOK, Labels, ApplyLabels, RecoverLabels, UndoLabels
    <2>3. ASSUME UndoJournal(c) PROVE Bases'
      BY <2>3, <1>0 DEF UndoJournal, Bases, BaseOf, Busy, Shape, ShapeOf, TypeOK, Labels, ApplyLabels, RecoverLabels, UndoLabels
    <2>4. ASSUME UndoSnapshot(c) PROVE Bases'
      BY <2>4, <1>0, SMTT(30) DEF UndoSnapshot, Bases, BaseOf, Busy, Shape, ShapeOf, TypeOK, Labels, ApplyLabels, RecoverLabels, UndoLabels
    <2>5. ASSUME UndoThrows(c) PROVE Bases'
      BY <2>5, <1>0, SMTT(30) DEF UndoThrows, Bases, BaseOf, Busy, Shape, ShapeOf, TypeOK, Labels, ApplyLabels, RecoverLabels, UndoLabels
    <2>6. ASSUME Compensate(c) PROVE Bases'
      BY <2>6, <1>0 DEF Compensate, Bases, BaseOf, Busy, Shape, ShapeOf, TypeOK, Labels, ApplyLabels, RecoverLabels, UndoLabels
    <2>7. ASSUME CompensateFault(c) PROVE Bases'
      BY <2>7, <1>0 DEF CompensateFault, Bases, BaseOf, Busy, Shape, ShapeOf, TypeOK, Labels, ApplyLabels, RecoverLabels, UndoLabels
    <2>8. ASSUME CompensateEnds(c) PROVE Bases'
      BY <2>8, <1>0, SMTT(30) DEF CompensateEnds, Bases, BaseOf, Busy, Shape, ShapeOf, TypeOK, Labels, ApplyLabels, RecoverLabels, UndoLabels
    <2> QED
      BY <1>5, <2>1, <2>2, <2>3, <2>4, <2>5, <2>6, <2>7, <2>8 DEF UndoStep
  <1>6. ASSUME NEW p \in Paths, NEW b \in UserBytes, UserEdit(p, b) PROVE Bases'
    BY <1>6 DEF UserEdit, Bases, BaseOf, Busy
  <1>7. CASE Crash
    BY <1>7 DEF Crash, Bases, BaseOf, Busy, ApplyLabels, RecoverLabels, UndoLabels
  <1>8. CASE UNCHANGED vars
    BY <1>8 DEF vars, Bases, BaseOf, Busy
  <1> QED
    BY <1>1, <1>2, <1>3, <1>4, <1>5, <1>6, <1>7, <1>8 DEF Next

\* What a unit has written, or taken back, at each point of its loops.
WrittenOf(c) ==
    /\ pc[c] = "write" =>
         \A j \in 1..(k[c] - 1) : Holds(unit[c], j, After(unit[c], j))
    /\ pc[c] = "commit" =>
         \A j \in 1..Size(unit[c]) : Holds(unit[c], j, After(unit[c], j))
    /\ pc[c] \in {"revert", "unwrite"} =>
         \A j \in (k[c] + 1)..Size(unit[c]) : Holds(unit[c], j, seen[c][j])
    /\ pc[c] = "undoSnapshot" =>
         \A j \in 1..Size(unit[c]) : Holds(unit[c], j, seen[c][j])
    /\ pc[c] = "journalCommitted" => snapshot[unit[c]].state = "committed"
Written == \A c \in Callers : WrittenOf(c)

Inv == TypeInv /\ SerialHeld /\ Bases

\* The loops advance one target at a time, and nobody else moves a file in
\* between except a person: what has been written or reverted stays so.
LEMMA WrittenStep == Inv /\ Written /\ JournalBehindSnapshot /\ [Next]_vars
                        => Written' /\ JournalBehindSnapshot'
  <1> DEFINE Goal == Written' /\ JournalBehindSnapshot'
  <1> SUFFICES ASSUME Inv, Written, JournalBehindSnapshot, [Next]_vars PROVE Goal
    OBVIOUS
  <1>0. TypeOK /\ Shape /\ SerialHeld /\ Bases
    BY DEF Inv, TypeInv
  <1>p. \A u \in Units :
          /\ Size(u) \in Nat /\ Size(u) > 0
          /\ \A i \in 1..Size(u) : Target(u, i) \in Paths
          /\ \A i, j \in 1..Size(u) : Target(u, i) = Target(u, j) => i = j
    BY PlanFacts
  <1> USE DEF Goto, At, Step, disk, local, bound, Fault, Keep, SetState, SetPhase, WriteOne
  <1>1. ASSUME NEW c \in Callers, CallStep(c) PROVE Goal
    <2>s. ShapeOf(c) /\ WrittenOf(c) /\ BaseOf(c)
      BY <1>0 DEF Shape, Written, Bases
    <2>1. ASSUME ListPrepared(c) PROVE Goal
      <3>1. WrittenOf(c)'
        BY <2>1, <2>s, <1>0, <1>p DEF ListPrepared, WrittenOf, ShapeOf, TypeOK, Holds
      <3>2. \A d \in Callers \ {c} : WrittenOf(d)'
        BY <2>1, <1>0, ZenonT(30) DEF ListPrepared, Written, WrittenOf, TypeOK, Holds, Locked, Labels
      <3>3. JournalBehindSnapshot'
        BY <2>1, <2>s, <1>0 DEF ListPrepared, JournalBehindSnapshot, TypeOK, ShapeOf, WrittenOf, BaseOf
      <3> QED
        BY <3>1, <3>2, <3>3 DEF Written
    <2>2. ASSUME RecoveryFault(c) PROVE Goal
      <3>1. WrittenOf(c)'
        BY <2>2, <2>s, <1>0, <1>p DEF RecoveryFault, WrittenOf, ShapeOf, TypeOK, Holds
      <3>2. \A d \in Callers \ {c} : WrittenOf(d)'
        BY <2>2, <1>0, ZenonT(30) DEF RecoveryFault, Written, WrittenOf, TypeOK, Holds, Locked, Labels
      <3>3. JournalBehindSnapshot'
        BY <2>2, <2>s, <1>0 DEF RecoveryFault, JournalBehindSnapshot, TypeOK, ShapeOf, WrittenOf, BaseOf
      <3> QED
        BY <3>1, <3>2, <3>3 DEF Written
    <2>3. ASSUME NewLibrary(c) PROVE Goal
      <3>1. WrittenOf(c)'
        BY <2>3, <2>s, <1>0, <1>p DEF NewLibrary, WrittenOf, ShapeOf, TypeOK, Holds
      <3>2. \A d \in Callers \ {c} : WrittenOf(d)'
        BY <2>3, <1>0 DEF NewLibrary, Written, WrittenOf, TypeOK, Holds, Locked, Labels
      <3>3. JournalBehindSnapshot'
        BY <2>3, <2>s, <1>0 DEF NewLibrary, JournalBehindSnapshot, TypeOK, ShapeOf, WrittenOf, BaseOf
      <3> QED
        BY <3>1, <3>2, <3>3 DEF Written
    <2>4. ASSUME NEW u \in Units, RecoverRead(c, u) PROVE Goal
      <3>1. WrittenOf(c)'
        BY <2>4, <2>s, <1>0, <1>p DEF RecoverRead, WrittenOf, ShapeOf, TypeOK, Holds
      <3>2. \A d \in Callers \ {c} : WrittenOf(d)'
        BY <2>4, <1>0, ZenonT(30) DEF RecoverRead, Written, WrittenOf, TypeOK, Holds, Locked, Labels
      <3>3. JournalBehindSnapshot'
        BY <2>4, <2>s, <1>0 DEF RecoverRead, JournalBehindSnapshot, TypeOK, ShapeOf, WrittenOf, BaseOf
      <3> QED
        BY <3>1, <3>2, <3>3 DEF Written
    <2>5. ASSUME NEW u \in Units, ApplyStart(c, u) PROVE Goal
      <3>1. WrittenOf(c)'
        BY <2>5, <2>s, <1>0, <1>p DEF ApplyStart, WrittenOf, ShapeOf, TypeOK, Holds
      <3>2. \A d \in Callers \ {c} : WrittenOf(d)'
        BY <2>5, <1>0, SMTT(30) DEF ApplyStart, Written, WrittenOf, TypeOK, Holds, Locked, Labels
      <3>3. JournalBehindSnapshot'
        BY <2>5, <2>s, <1>0 DEF ApplyStart, JournalBehindSnapshot, TypeOK, ShapeOf, WrittenOf, BaseOf
      <3> QED
        BY <3>1, <3>2, <3>3 DEF Written
    <2>6. ASSUME NEW u \in Units, UndoRead(c, u) PROVE Goal
      <3>1. WrittenOf(c)'
        BY <2>6, <2>s, <1>0, <1>p DEF UndoRead, WrittenOf, ShapeOf, TypeOK, Holds
      <3>2. \A d \in Callers \ {c} : WrittenOf(d)'
        BY <2>6, <1>0, SMTT(30) DEF UndoRead, Written, WrittenOf, TypeOK, Holds, Locked, Labels
      <3>3. JournalBehindSnapshot'
        BY <2>6, <2>s, <1>0 DEF UndoRead, JournalBehindSnapshot, TypeOK, ShapeOf, WrittenOf, BaseOf
      <3> QED
        BY <3>1, <3>2, <3>3 DEF Written
    <2> QED
      BY <1>1, <2>1, <2>2, <2>3, <2>4, <2>5, <2>6 DEF CallStep
  <1>2. ASSUME NEW c \in Callers, LockStep(c) PROVE Goal
    <2>s. ShapeOf(c) /\ WrittenOf(c) /\ BaseOf(c)
      BY <1>0 DEF Shape, Written, Bases
    <2>1. ASSUME Enter(c) PROVE Goal
      <3>1. WrittenOf(c)'
        BY <2>1, <2>s, <1>0, <1>p DEF Enter, WrittenOf, ShapeOf, TypeOK, Holds
      <3>2. \A d \in Callers \ {c} : WrittenOf(d)'
        BY <2>1, <1>0 DEF Enter, Written, WrittenOf, TypeOK, Holds, Locked, Labels
      <3>3. JournalBehindSnapshot'
        BY <2>1, <2>s, <1>0 DEF Enter, JournalBehindSnapshot, TypeOK, ShapeOf, WrittenOf, BaseOf
      <3> QED
        BY <3>1, <3>2, <3>3 DEF Written
    <2>2. ASSUME Acquire(c) PROVE Goal
      <3>1. WrittenOf(c)'
        BY <2>2, <2>s, <1>0, <1>p DEF Acquire, WrittenOf, ShapeOf, TypeOK, Holds
      <3>2. \A d \in Callers \ {c} : WrittenOf(d)'
        BY <2>2, <1>0, SMTT(30) DEF Acquire, Written, WrittenOf, TypeOK, Holds, Locked, Labels
      <3>3. JournalBehindSnapshot'
        BY <2>2, <2>s, <1>0 DEF Acquire, JournalBehindSnapshot, TypeOK, ShapeOf, WrittenOf, BaseOf
      <3> QED
        BY <3>1, <3>2, <3>3 DEF Written
    <2>3. ASSUME LockFailed(c) PROVE Goal
      <3>1. WrittenOf(c)'
        BY <2>3, <2>s, <1>0, <1>p DEF LockFailed, WrittenOf, ShapeOf, TypeOK, Holds
      <3>2. \A d \in Callers \ {c} : WrittenOf(d)'
        BY <2>3, <1>0, ZenonT(30) DEF LockFailed, Written, WrittenOf, TypeOK, Holds, Locked, Labels
      <3>3. JournalBehindSnapshot'
        BY <2>3, <2>s, <1>0 DEF LockFailed, JournalBehindSnapshot, TypeOK, ShapeOf, WrittenOf, BaseOf
      <3> QED
        BY <3>1, <3>2, <3>3 DEF Written
    <2>4. ASSUME Release(c) PROVE Goal
      <3>1. WrittenOf(c)'
        BY <2>4, <2>s, <1>0, <1>p DEF Release, WrittenOf, ShapeOf, TypeOK, Holds
      <3>2. \A d \in Callers \ {c} : WrittenOf(d)'
        BY <2>4, <1>0 DEF Release, Written, WrittenOf, TypeOK, Holds, Locked, Labels
      <3>3. JournalBehindSnapshot'
        BY <2>4, <2>s, <1>0 DEF Release, JournalBehindSnapshot, TypeOK, ShapeOf, WrittenOf, BaseOf
      <3> QED
        BY <3>1, <3>2, <3>3 DEF Written
    <2>5. ASSUME ReleaseFault(c) PROVE Goal
      <3>1. WrittenOf(c)'
        BY <2>5, <2>s, <1>0, <1>p DEF ReleaseFault, WrittenOf, ShapeOf, TypeOK, Holds
      <3>2. \A d \in Callers \ {c} : WrittenOf(d)'
        BY <2>5, <1>0, SMTT(30) DEF ReleaseFault, Written, WrittenOf, TypeOK, Holds, Locked, Labels
      <3>3. JournalBehindSnapshot'
        BY <2>5, <2>s, <1>0 DEF ReleaseFault, JournalBehindSnapshot, TypeOK, ShapeOf, WrittenOf, BaseOf
      <3> QED
        BY <3>1, <3>2, <3>3 DEF Written
    <2> QED
      BY <1>2, <2>1, <2>2, <2>3, <2>4, <2>5 DEF LockStep
  <1>3. ASSUME NEW c \in Callers, ApplyStep(c) PROVE Goal
    <2>s. ShapeOf(c) /\ WrittenOf(c) /\ BaseOf(c)
      BY <1>0 DEF Shape, Written, Bases
    <2>o. \A d \in Callers \ {c} : pc[c] \in Locked => pc[d] \notin Locked
      BY <1>0 DEF SerialHeld
    <2>1. ASSUME ReadTarget(c) PROVE Goal
      <3>1. WrittenOf(c)'
        BY <2>1, <2>s, <1>0, <1>p DEF ReadTarget, WrittenOf, ShapeOf, TypeOK, Holds
      <3>2. \A d \in Callers \ {c} : WrittenOf(d)'
        BY <2>1, <2>o, <1>0, SMTT(30) DEF ReadTarget, Written, WrittenOf, TypeOK, Holds, Locked, Labels
      <3>3. JournalBehindSnapshot'
        BY <2>1, <2>s, <1>0 DEF ReadTarget, JournalBehindSnapshot, TypeOK, ShapeOf, WrittenOf, BaseOf
      <3> QED
        BY <3>1, <3>2, <3>3 DEF Written
    <2>2. ASSUME RefuseDrift(c) PROVE Goal
      <3>1. WrittenOf(c)'
        BY <2>2, <2>s, <1>0, <1>p DEF RefuseDrift, WrittenOf, ShapeOf, TypeOK, Holds
      <3>2. \A d \in Callers \ {c} : WrittenOf(d)'
        BY <2>2, <2>o, <1>0 DEF RefuseDrift, Written, WrittenOf, TypeOK, Holds, Locked, Labels
      <3>3. JournalBehindSnapshot'
        BY <2>2, <2>s, <1>0 DEF RefuseDrift, JournalBehindSnapshot, TypeOK, ShapeOf, WrittenOf, BaseOf
      <3> QED
        BY <3>1, <3>2, <3>3 DEF Written
    <2>3. ASSUME Validate(c) PROVE Goal
      <3>1. WrittenOf(c)'
        BY <2>3, <2>s, <1>0, <1>p DEF Validate, WrittenOf, ShapeOf, TypeOK, Holds
      <3>2. \A d \in Callers \ {c} : WrittenOf(d)'
        BY <2>3, <2>o, <1>0, SMTT(30) DEF Validate, Written, WrittenOf, TypeOK, Holds, Locked, Labels
      <3>3. JournalBehindSnapshot'
        BY <2>3, <2>s, <1>0 DEF Validate, JournalBehindSnapshot, TypeOK, ShapeOf, WrittenOf, BaseOf
      <3> QED
        BY <3>1, <3>2, <3>3 DEF Written
    <2>4. ASSUME WritePrepared(c) PROVE Goal
      <3>1. WrittenOf(c)'
        BY <2>4, <2>s, <1>0, <1>p DEF WritePrepared, WrittenOf, ShapeOf, TypeOK, Holds
      <3>2. \A d \in Callers \ {c} : WrittenOf(d)'
        BY <2>4, <2>o, <1>0, ZenonT(30) DEF WritePrepared, Written, WrittenOf, TypeOK, Holds, Locked, Labels
      <3>3. JournalBehindSnapshot'
        BY <2>4, <2>s, <1>0 DEF WritePrepared, JournalBehindSnapshot, TypeOK, ShapeOf, BaseOf, ApplyLabels
      <3> QED
        BY <3>1, <3>2, <3>3 DEF Written
    <2>5. ASSUME JournalPrepared(c) PROVE Goal
      <3>1. WrittenOf(c)'
        BY <2>5, <2>s, <1>0, <1>p DEF JournalPrepared, WrittenOf, ShapeOf, TypeOK, Holds
      <3>2. \A d \in Callers \ {c} : WrittenOf(d)'
        BY <2>5, <2>o, <1>0 DEF JournalPrepared, Written, WrittenOf, TypeOK, Holds, Locked, Labels
      <3>3. JournalBehindSnapshot'
        BY <2>5, <2>s, <1>0 DEF JournalPrepared, JournalBehindSnapshot, TypeOK, ShapeOf, WrittenOf, BaseOf
      <3> QED
        BY <3>1, <3>2, <3>3 DEF Written
    <2>6. ASSUME WriteTarget(c) PROVE Goal
      <3>1. WrittenOf(c)'
        <4>1. unit[c] \in Units /\ k[c] \in 1..Size(unit[c])
          BY <2>6, <2>s, <1>0, <1>p DEF WriteTarget, ShapeOf, TypeOK
        <4>2. files'[Target(unit[c], k[c])] = After(unit[c], k[c])
          BY <2>6, <4>1, <1>0, <1>p DEF WriteTarget, TypeOK
        <4>3. \A j \in 1..Size(unit[c]) : j # k[c] =>
                files'[Target(unit[c], j)] = files[Target(unit[c], j)]
          BY <2>6, <4>1, <1>0, <1>p DEF WriteTarget, TypeOK
        <4> QED
          BY <2>6, <2>s, <4>1, <4>2, <4>3, <1>0, <1>p, SMTT(30) DEF WriteTarget, WrittenOf, TypeOK, Holds
      <3>2. \A d \in Callers \ {c} : WrittenOf(d)'
        BY <2>6, <2>o, <1>0, ZenonT(30) DEF WriteTarget, Written, WrittenOf, TypeOK, Holds, Locked, Labels
      <3>3. JournalBehindSnapshot'
        BY <2>6, <2>s, <1>0 DEF WriteTarget, JournalBehindSnapshot, TypeOK, ShapeOf, WrittenOf, BaseOf
      <3> QED
        BY <3>1, <3>2, <3>3 DEF Written
    <2>7. ASSUME JournalWritten(c) PROVE Goal
      <3>1. WrittenOf(c)'
        BY <2>7, <2>s, <1>0, <1>p DEF JournalWritten, WrittenOf, ShapeOf, TypeOK, Holds
      <3>2. \A d \in Callers \ {c} : WrittenOf(d)'
        BY <2>7, <2>o, <1>0 DEF JournalWritten, Written, WrittenOf, TypeOK, Holds, Locked, Labels
      <3>3. JournalBehindSnapshot'
        BY <2>7, <2>s, <1>0 DEF JournalWritten, JournalBehindSnapshot, TypeOK, ShapeOf, WrittenOf, BaseOf
      <3> QED
        BY <3>1, <3>2, <3>3 DEF Written
    <2>8. ASSUME CommitSnapshot(c) PROVE Goal
      <3>1. WrittenOf(c)'
        BY <2>8, <2>s, <1>0, <1>p DEF CommitSnapshot, WrittenOf, ShapeOf, TypeOK, Holds
      <3>2. \A d \in Callers \ {c} : WrittenOf(d)'
        BY <2>8, <2>o, <1>0 DEF CommitSnapshot, Written, WrittenOf, TypeOK, Holds, Locked, Labels
      <3>3. JournalBehindSnapshot'
        BY <2>8, <2>s, <1>0 DEF CommitSnapshot, JournalBehindSnapshot, TypeOK, ShapeOf, WrittenOf, BaseOf
      <3> QED
        BY <3>1, <3>2, <3>3 DEF Written
    <2>9. ASSUME JournalCommitted(c) PROVE Goal
      <3>1. WrittenOf(c)'
        BY <2>9, <2>s, <1>0, <1>p DEF JournalCommitted, WrittenOf, ShapeOf, TypeOK, Holds
      <3>2. \A d \in Callers \ {c} : WrittenOf(d)'
        BY <2>9, <2>o, <1>0 DEF JournalCommitted, Written, WrittenOf, TypeOK, Holds, Locked, Labels
      <3>3. JournalBehindSnapshot'
        BY <2>9, <2>s, <1>0 DEF JournalCommitted, JournalBehindSnapshot, TypeOK, ShapeOf, WrittenOf, BaseOf
      <3> QED
        BY <3>1, <3>2, <3>3 DEF Written
    <2>10. ASSUME ApplyThrows(c) PROVE Goal
      <3>1. WrittenOf(c)'
        BY <2>10, <2>s, <1>0, <1>p DEF ApplyThrows, WrittenOf, ShapeOf, TypeOK, Holds
      <3>2. \A d \in Callers \ {c} : WrittenOf(d)'
        BY <2>10, <2>o, <1>0, SMTT(30) DEF ApplyThrows, Written, WrittenOf, TypeOK, Holds, Locked, Labels
      <3>3. JournalBehindSnapshot'
        BY <2>10, <2>s, <1>0 DEF ApplyThrows, JournalBehindSnapshot, TypeOK, ShapeOf, WrittenOf, BaseOf
      <3> QED
        BY <3>1, <3>2, <3>3 DEF Written
    <2>11. ASSUME RollbackTarget(c) PROVE Goal
      <3>1. WrittenOf(c)'
        BY <2>11, <2>s, <1>0, <1>p DEF RollbackTarget, WrittenOf, ShapeOf, TypeOK, Holds
      <3>2. \A d \in Callers \ {c} : WrittenOf(d)'
        BY <2>11, <2>o, <1>0, ZenonT(30) DEF RollbackTarget, Written, WrittenOf, TypeOK, Holds, Locked, Labels
      <3>3. JournalBehindSnapshot'
        BY <2>11, <2>s, <1>0 DEF RollbackTarget, JournalBehindSnapshot, TypeOK, ShapeOf, WrittenOf, BaseOf
      <3> QED
        BY <3>1, <3>2, <3>3 DEF Written
    <2>12. ASSUME RollbackEnds(c) PROVE Goal
      <3>1. WrittenOf(c)'
        BY <2>12, <2>s, <1>0, <1>p DEF RollbackEnds, WrittenOf, ShapeOf, TypeOK, Holds
      <3>2. \A d \in Callers \ {c} : WrittenOf(d)'
        BY <2>12, <2>o, <1>0, SMTT(30) DEF RollbackEnds, Written, WrittenOf, TypeOK, Holds, Locked, Labels
      <3>3. JournalBehindSnapshot'
        BY <2>12, <2>s, <1>0 DEF RollbackEnds, JournalBehindSnapshot, TypeOK, ShapeOf, WrittenOf, BaseOf
      <3> QED
        BY <3>1, <3>2, <3>3 DEF Written
    <2>13. ASSUME JournalFailed(c) PROVE Goal
      <3>1. WrittenOf(c)'
        BY <2>13, <2>s, <1>0, <1>p DEF JournalFailed, WrittenOf, ShapeOf, TypeOK, Holds
      <3>2. \A d \in Callers \ {c} : WrittenOf(d)'
        BY <2>13, <2>o, <1>0, ZenonT(30) DEF JournalFailed, Written, WrittenOf, TypeOK, Holds, Locked, Labels
      <3>3. JournalBehindSnapshot'
        BY <2>13, <2>s, <1>0 DEF JournalFailed, JournalBehindSnapshot, TypeOK, ShapeOf, WrittenOf, BaseOf
      <3> QED
        BY <3>1, <3>2, <3>3 DEF Written
    <2> QED
      BY <1>3, <2>1, <2>2, <2>3, <2>4, <2>5, <2>6, <2>7, <2>8, <2>9, <2>10, <2>11, <2>12, <2>13 DEF ApplyStep
  <1>4. ASSUME NEW c \in Callers, RecoverStep(c) PROVE Goal
    <2>s. ShapeOf(c) /\ WrittenOf(c) /\ BaseOf(c)
      BY <1>0 DEF Shape, Written, Bases
    <2>o. \A d \in Callers \ {c} : pc[c] \in Locked => pc[d] \notin Locked
      BY <1>0 DEF SerialHeld
    <2>1. ASSUME SkipTarget(c) PROVE Goal
      <3>1. WrittenOf(c)'
        BY <2>1, <2>s, <1>0, <1>p DEF SkipTarget, WrittenOf, ShapeOf, TypeOK, Holds
      <3>2. \A d \in Callers \ {c} : WrittenOf(d)'
        BY <2>1, <2>o, <1>0, SMTT(30) DEF SkipTarget, Written, WrittenOf, TypeOK, Holds, Locked, Labels
      <3>3. JournalBehindSnapshot'
        BY <2>1, <2>s, <1>0 DEF SkipTarget, JournalBehindSnapshot, TypeOK, ShapeOf, WrittenOf, BaseOf
      <3> QED
        BY <3>1, <3>2, <3>3 DEF Written
    <2>2. ASSUME RevertTarget(c) PROVE Goal
      <3>1. WrittenOf(c)'
        <4>1. unit[c] \in Units /\ k[c] \in 1..Size(unit[c])
          BY <2>2, <2>s, <1>0, <1>p DEF RevertTarget, ShapeOf, TypeOK
        <4>2. files'[Target(unit[c], k[c])] = seen[c][k[c]]
          BY <2>2, <4>1, <1>0, <1>p DEF RevertTarget, TypeOK
        <4>3. \A j \in 1..Size(unit[c]) : j # k[c] =>
                files'[Target(unit[c], j)] = files[Target(unit[c], j)]
          BY <2>2, <4>1, <1>0, <1>p DEF RevertTarget, TypeOK
        <4> QED
          BY <2>2, <2>s, <4>1, <4>2, <4>3, <1>0, <1>p, SMTT(30) DEF RevertTarget, WrittenOf, TypeOK, Holds
      <3>2. \A d \in Callers \ {c} : WrittenOf(d)'
        BY <2>2, <2>o, <1>0, ZenonT(30) DEF RevertTarget, Written, WrittenOf, TypeOK, Holds, Locked, Labels
      <3>3. JournalBehindSnapshot'
        BY <2>2, <2>s, <1>0 DEF RevertTarget, JournalBehindSnapshot, TypeOK, ShapeOf, WrittenOf, BaseOf
      <3> QED
        BY <3>1, <3>2, <3>3 DEF Written
    <2>3. ASSUME RecoverRefused(c) PROVE Goal
      <3>1. WrittenOf(c)'
        BY <2>3, <2>s, <1>0, <1>p DEF RecoverRefused, WrittenOf, ShapeOf, TypeOK, Holds
      <3>2. \A d \in Callers \ {c} : WrittenOf(d)'
        BY <2>3, <2>o, <1>0, SMTT(30) DEF RecoverRefused, Written, WrittenOf, TypeOK, Holds, Locked, Labels
      <3>3. JournalBehindSnapshot'
        BY <2>3, <2>s, <1>0 DEF RecoverRefused, JournalBehindSnapshot, TypeOK, ShapeOf, WrittenOf, BaseOf
      <3> QED
        BY <3>1, <3>2, <3>3 DEF Written
    <2>4. ASSUME MarkUndone(c) PROVE Goal
      <3>1. WrittenOf(c)'
        BY <2>4, <2>s, <1>0, <1>p DEF MarkUndone, WrittenOf, ShapeOf, TypeOK, Holds
      <3>2. \A d \in Callers \ {c} : WrittenOf(d)'
        BY <2>4, <2>o, <1>0, ZenonT(30) DEF MarkUndone, Written, WrittenOf, TypeOK, Holds, Locked, Labels
      <3>3. JournalBehindSnapshot'
        BY <2>4, <2>s, <1>0 DEF MarkUndone, JournalBehindSnapshot, TypeOK, ShapeOf, WrittenOf, BaseOf
      <3> QED
        BY <3>1, <3>2, <3>3 DEF Written
    <2>5. ASSUME JournalUndone(c) PROVE Goal
      <3>1. WrittenOf(c)'
        BY <2>5, <2>s, <1>0, <1>p DEF JournalUndone, WrittenOf, ShapeOf, TypeOK, Holds
      <3>2. \A d \in Callers \ {c} : WrittenOf(d)'
        BY <2>5, <2>o, <1>0, ZenonT(30) DEF JournalUndone, Written, WrittenOf, TypeOK, Holds, Locked, Labels
      <3>3. JournalBehindSnapshot'
        BY <2>5, <2>s, <1>0 DEF JournalUndone, JournalBehindSnapshot, TypeOK, ShapeOf, WrittenOf, BaseOf
      <3> QED
        BY <3>1, <3>2, <3>3 DEF Written
    <2> QED
      BY <1>4, <2>1, <2>2, <2>3, <2>4, <2>5 DEF RecoverStep
  <1>5. ASSUME NEW c \in Callers, UndoStep(c) PROVE Goal
    <2>s. ShapeOf(c) /\ WrittenOf(c) /\ BaseOf(c)
      BY <1>0 DEF Shape, Written, Bases
    <2>o. \A d \in Callers \ {c} : pc[c] \in Locked => pc[d] \notin Locked
      BY <1>0 DEF SerialHeld
    <2>1. ASSUME Preflight(c) PROVE Goal
      <3>1. WrittenOf(c)'
        BY <2>1, <2>s, <1>0, <1>p, SMTT(30) DEF Preflight, WrittenOf, ShapeOf, TypeOK, Holds
      <3>2. \A d \in Callers \ {c} : WrittenOf(d)'
        BY <2>1, <2>o, <1>0, SMTT(30) DEF Preflight, Written, WrittenOf, TypeOK, Holds, Locked, Labels
      <3>3. JournalBehindSnapshot'
        BY <2>1, <2>s, <1>0 DEF Preflight, JournalBehindSnapshot, TypeOK, ShapeOf, WrittenOf, BaseOf
      <3> QED
        BY <3>1, <3>2, <3>3 DEF Written
    <2>2. ASSUME UnwriteTarget(c) PROVE Goal
      <3>1. WrittenOf(c)'
        <4>1. unit[c] \in Units /\ k[c] \in 1..Size(unit[c])
          BY <2>2, <2>s, <1>0, <1>p DEF UnwriteTarget, ShapeOf, TypeOK
        <4>2. files'[Target(unit[c], k[c])] = seen[c][k[c]]
          BY <2>2, <4>1, <1>0, <1>p DEF UnwriteTarget, TypeOK
        <4>3. \A j \in 1..Size(unit[c]) : j # k[c] =>
                files'[Target(unit[c], j)] = files[Target(unit[c], j)]
          BY <2>2, <4>1, <1>0, <1>p DEF UnwriteTarget, TypeOK
        <4> QED
          BY <2>2, <2>s, <4>1, <4>2, <4>3, <1>0, <1>p, SMTT(30) DEF UnwriteTarget, WrittenOf, TypeOK, Holds
      <3>2. \A d \in Callers \ {c} : WrittenOf(d)'
        BY <2>2, <2>o, <1>0, ZenonT(30) DEF UnwriteTarget, Written, WrittenOf, TypeOK, Holds, Locked, Labels
      <3>3. JournalBehindSnapshot'
        BY <2>2, <2>s, <1>0 DEF UnwriteTarget, JournalBehindSnapshot, TypeOK, ShapeOf, WrittenOf, BaseOf
      <3> QED
        BY <3>1, <3>2, <3>3 DEF Written
    <2>3. ASSUME UndoJournal(c) PROVE Goal
      <3>1. WrittenOf(c)'
        BY <2>3, <2>s, <1>0, <1>p DEF UndoJournal, WrittenOf, ShapeOf, TypeOK, Holds
      <3>2. \A d \in Callers \ {c} : WrittenOf(d)'
        BY <2>3, <2>o, <1>0 DEF UndoJournal, Written, WrittenOf, TypeOK, Holds, Locked, Labels
      <3>3. JournalBehindSnapshot'
        BY <2>3, <2>s, <1>0 DEF UndoJournal, JournalBehindSnapshot, TypeOK, ShapeOf, WrittenOf, BaseOf
      <3> QED
        BY <3>1, <3>2, <3>3 DEF Written
    <2>4. ASSUME UndoSnapshot(c) PROVE Goal
      <3>1. WrittenOf(c)'
        BY <2>4, <2>s, <1>0, <1>p DEF UndoSnapshot, WrittenOf, ShapeOf, TypeOK, Holds
      <3>2. \A d \in Callers \ {c} : WrittenOf(d)'
        BY <2>4, <2>o, <1>0, ZenonT(30) DEF UndoSnapshot, Written, WrittenOf, TypeOK, Holds, Locked, Labels
      <3>3. JournalBehindSnapshot'
        BY <2>4, <2>s, <1>0 DEF UndoSnapshot, JournalBehindSnapshot, TypeOK, ShapeOf, WrittenOf, BaseOf
      <3> QED
        BY <3>1, <3>2, <3>3 DEF Written
    <2>5. ASSUME UndoThrows(c) PROVE Goal
      <3>1. WrittenOf(c)'
        BY <2>5, <2>s, <1>0, <1>p DEF UndoThrows, WrittenOf, ShapeOf, TypeOK, Holds
      <3>2. \A d \in Callers \ {c} : WrittenOf(d)'
        BY <2>5, <2>o, <1>0, SMTT(30) DEF UndoThrows, Written, WrittenOf, TypeOK, Holds, Locked, Labels
      <3>3. JournalBehindSnapshot'
        BY <2>5, <2>s, <1>0 DEF UndoThrows, JournalBehindSnapshot, TypeOK, ShapeOf, WrittenOf, BaseOf
      <3> QED
        BY <3>1, <3>2, <3>3 DEF Written
    <2>6. ASSUME Compensate(c) PROVE Goal
      <3>1. WrittenOf(c)'
        BY <2>6, <2>s, <1>0, <1>p DEF Compensate, WrittenOf, ShapeOf, TypeOK, Holds
      <3>2. \A d \in Callers \ {c} : WrittenOf(d)'
        BY <2>6, <2>o, <1>0, ZenonT(30) DEF Compensate, Written, WrittenOf, TypeOK, Holds, Locked, Labels
      <3>3. JournalBehindSnapshot'
        BY <2>6, <2>s, <1>0 DEF Compensate, JournalBehindSnapshot, TypeOK, ShapeOf, WrittenOf, BaseOf
      <3> QED
        BY <3>1, <3>2, <3>3 DEF Written
    <2>7. ASSUME CompensateFault(c) PROVE Goal
      <3>1. WrittenOf(c)'
        BY <2>7, <2>s, <1>0, <1>p DEF CompensateFault, WrittenOf, ShapeOf, TypeOK, Holds
      <3>2. \A d \in Callers \ {c} : WrittenOf(d)'
        BY <2>7, <2>o, <1>0, SMTT(30) DEF CompensateFault, Written, WrittenOf, TypeOK, Holds, Locked, Labels
      <3>3. JournalBehindSnapshot'
        BY <2>7, <2>s, <1>0 DEF CompensateFault, JournalBehindSnapshot, TypeOK, ShapeOf, WrittenOf, BaseOf
      <3> QED
        BY <3>1, <3>2, <3>3 DEF Written
    <2>8. ASSUME CompensateEnds(c) PROVE Goal
      <3>1. WrittenOf(c)'
        BY <2>8, <2>s, <1>0, <1>p DEF CompensateEnds, WrittenOf, ShapeOf, TypeOK, Holds
      <3>2. \A d \in Callers \ {c} : WrittenOf(d)'
        BY <2>8, <2>o, <1>0 DEF CompensateEnds, Written, WrittenOf, TypeOK, Holds, Locked, Labels
      <3>3. JournalBehindSnapshot'
        BY <2>8, <2>s, <1>0 DEF CompensateEnds, JournalBehindSnapshot, TypeOK, ShapeOf, WrittenOf, BaseOf
      <3> QED
        BY <3>1, <3>2, <3>3 DEF Written
    <2> QED
      BY <1>5, <2>1, <2>2, <2>3, <2>4, <2>5, <2>6, <2>7, <2>8 DEF UndoStep
  <1>6. ASSUME NEW p \in Paths, NEW b \in UserBytes, UserEdit(p, b) PROVE Goal
    BY <1>6, <1>0, SMTT(30) DEF UserEdit, Written, WrittenOf, JournalBehindSnapshot, Holds, TypeOK
  <1>7. CASE Crash
    BY <1>7 DEF Crash, Written, WrittenOf, JournalBehindSnapshot
  <1>8. CASE UNCHANGED vars
    BY <1>8 DEF vars, Written, WrittenOf, JournalBehindSnapshot, Holds
  <1> QED
    BY <1>1, <1>2, <1>3, <1>4, <1>5, <1>6, <1>7, <1>8 DEF Next

\* The strengthening that makes the three properties below inductive.
IInv == Inv /\ Written /\ JournalBehindSnapshot

\* The strengthening is an invariant of the specification.
LEMMA Invariance == Spec => []IInv
  <1>1. Init => IInv
    <2>1. Init => Bases
      BY DEF Init, Bases, BaseOf, Busy, NoSnapshot, ApplyLabels, RecoverLabels, UndoLabels
    <2>2. Init => SerialHeld
      BY DEF Init, SerialHeld, Locked, Labels
    <2>3. Init => Written /\ JournalBehindSnapshot
      BY DEF Init, Written, WrittenOf, JournalBehindSnapshot
    <2> QED
      BY <2>1, <2>2, <2>3, TypeInit DEF IInv, Inv
  <1>2. IInv /\ [Next]_vars => IInv'
    BY TypeStep, SerialStep, BasesStep, WrittenStep DEF IInv, Inv
  <1> QED
    BY <1>1, <1>2, PTL DEF Spec

\* The journal never runs ahead of the snapshot.
THEOREM JournalNeverAhead == Spec => []JournalBehindSnapshot
  <1>1. IInv => JournalBehindSnapshot
    BY DEF IInv
  <1> QED
    BY <1>1, Invariance, PTL

\* The three places that change the state of a snapshot; none moves a file.
Changer(c, u) ==
    /\ unit[c] = u /\ files' = files
    /\ \/ pc[c] = "prepare" /\ snapshot'[u].state = "prepared"
       \/ pc[c] = "commit" /\ snapshot'[u].state = "committed"
       \/ /\ pc[c] = "undoSnapshot" \/ (pc[c] = "revert" /\ k[c] = 0)
          /\ snapshot'[u].state = "undone"

\* The only steps that change the state of a snapshot.
LEMMA StateChanges ==
    ASSUME TypeOK, [Next]_vars, NEW u \in Units, snapshot'[u].state # snapshot[u].state
    PROVE  \E c \in Callers : Changer(c, u)
  <1> USE DEF Keep, disk, local, bound
  <1>1. ASSUME NEW c \in Callers, CallStep(c) PROVE snapshot' = snapshot \/ Changer(c, u)
    BY <1>1 DEF CallStep, ListPrepared, RecoveryFault, NewLibrary, RecoverRead, ApplyStart, UndoRead
  <1>2. ASSUME NEW c \in Callers, LockStep(c) PROVE snapshot' = snapshot \/ Changer(c, u)
    BY <1>2 DEF LockStep, Enter, Acquire, LockFailed, Release, ReleaseFault
  <1>3. ASSUME NEW c \in Callers, ApplyStep(c) PROVE snapshot' = snapshot \/ Changer(c, u)
    <2>1. CASE WritePrepared(c)
      BY <2>1 DEF WritePrepared, Changer, SetState, At, TypeOK
    <2>2. CASE CommitSnapshot(c)
      BY <2>2 DEF CommitSnapshot, Changer, SetState, At, TypeOK
    <2>3. CASE ~(WritePrepared(c) \/ CommitSnapshot(c))
      BY <1>3, <2>3 DEF ApplyStep, ReadTarget, RefuseDrift, Validate, JournalPrepared, WriteTarget, JournalWritten, JournalCommitted, ApplyThrows, RollbackTarget, RollbackEnds, JournalFailed
    <2> QED
      BY <2>1, <2>2, <2>3
  <1>4. ASSUME NEW c \in Callers, RecoverStep(c) PROVE snapshot' = snapshot \/ Changer(c, u)
    <2>1. CASE MarkUndone(c)
      BY <2>1 DEF MarkUndone, Changer, SetState, At, TypeOK
    <2>2. CASE ~(MarkUndone(c))
      BY <1>4, <2>2 DEF RecoverStep, SkipTarget, RevertTarget, RecoverRefused, JournalUndone
    <2> QED
      BY <2>1, <2>2
  <1>5. ASSUME NEW c \in Callers, UndoStep(c) PROVE snapshot' = snapshot \/ Changer(c, u)
    <2>1. CASE UndoSnapshot(c)
      BY <2>1 DEF UndoSnapshot, Changer, SetState, At, TypeOK
    <2>2. CASE ~(UndoSnapshot(c))
      BY <1>5, <2>2 DEF UndoStep, Preflight, UnwriteTarget, UndoJournal, UndoThrows, Compensate, CompensateFault, CompensateEnds
    <2> QED
      BY <2>1, <2>2
  <1>6. \A p \in Paths, b \in UserBytes : UserEdit(p, b) => snapshot' = snapshot
    BY DEF UserEdit
  <1>7. Crash \/ UNCHANGED vars => snapshot' = snapshot
    BY DEF Crash, vars
  <1> QED
    BY <1>1, <1>2, <1>3, <1>4, <1>5, <1>6, <1>7 DEF Next

\* A unit becomes committed only with all of its bytes on disk, whatever else
\* runs, crashes or is edited.
THEOREM CommittedOnlyWhole == Spec => CommitIsWhole
  <1> DEFINE Whole(u) ==
         snapshot[u].state # "committed" /\ snapshot'[u].state = "committed" =>
            \A i \in 1..Size(u) : Holds(u, i, After(u, i))
  <1>s. ASSUME IInv, [Next]_vars, NEW u \in Units PROVE Whole(u)
    <2> SUFFICES ASSUME snapshot[u].state # "committed", snapshot'[u].state = "committed"
                 PROVE  \A i \in 1..Size(u) : Holds(u, i, After(u, i))
      OBVIOUS
    <2>0. TypeOK
      BY <1>s DEF IInv, Inv, TypeInv
    <2>1. snapshot'[u].state # snapshot[u].state /\ snapshot'[u].state = "committed"
      OBVIOUS
    <2>2. PICK c \in Callers : Changer(c, u)
      BY <1>s, <2>0, <2>1, StateChanges
    <2>3. pc[c] = "commit" /\ unit[c] = u
      BY <2>1, <2>2 DEF Changer
    <2> QED
      BY <2>2, <2>3, <1>s DEF IInv, Written, WrittenOf, Changer, Holds
  <1> QED
    <2>1. IInv /\ [Next]_vars => \A u \in Units : Whole(u)
      BY <1>s
    <2> QED
      BY <2>1, Invariance, PTL DEF Spec, CommitIsWhole

\* A unit becomes undone only with none of its bytes on disk.
THEOREM UndoneOnlyWhole == Spec => UndoneIsWhole
  <1> DEFINE Whole(u) ==
         snapshot[u].state # "undone" /\ snapshot'[u].state = "undone" =>
            \A i \in 1..Size(u) : Holds(u, i, snapshot[u].before[i])
  <1>s. ASSUME IInv, [Next]_vars, NEW u \in Units PROVE Whole(u)
    <2> SUFFICES ASSUME snapshot[u].state # "undone", snapshot'[u].state = "undone"
                 PROVE  \A i \in 1..Size(u) : Holds(u, i, snapshot[u].before[i])
      OBVIOUS
    <2>0. TypeOK
      BY <1>s DEF IInv, Inv, TypeInv
    <2>1. snapshot'[u].state # snapshot[u].state /\ snapshot'[u].state = "undone"
      OBVIOUS
    <2>2. PICK c \in Callers : Changer(c, u)
      BY <1>s, <2>0, <2>1, StateChanges
    <2>3. /\ unit[c] = u /\ pc[c] \in {"undoSnapshot", "revert"}
          /\ pc[c] = "revert" => k[c] = 0
      BY <2>1, <2>2 DEF Changer
    <2>4. snapshot[u].before = seen[c]
      BY <2>3, <1>s DEF IInv, Inv, Bases, BaseOf, Busy, RecoverLabels, UndoLabels
    <2> QED
      BY <2>2, <2>3, <2>4, <1>s, PlanFacts DEF IInv, Written, WrittenOf, Changer, Holds
  <1> QED
    <2>1. IInv /\ [Next]_vars => \A u \in Units : Whole(u)
      BY <1>s
    <2> QED
      BY <2>1, Invariance, PTL DEF Spec, UndoneIsWhole
==============================================================================
