------------------------ MODULE MutationTree_proofs ------------------------
(***************************************************************************)
(* What the bytes on disk say of the units, for every tree, plan, set of   *)
(* callers and bound: the bytes a unit wrote lie there only while its      *)
(* snapshot can take them back.  NoOrphanBytes is not inductive, because a *)
(* revert puts older bytes back; the invariant follows the bytes that may  *)
(* yet return, from the files down the chain of before-bytes.              *)
(* And for one library on the root: recovery takes back no committed bytes.*)
(***************************************************************************)
EXTENDS MutationUnit_proofs

\* Bytes tell who wrote them: no two units write the same bytes to one path,
\* and neither a person nor the first tree has them there.
TagsDiffer ==
    /\ \A u, v \in Units : \A i \in 1..Size(u), j \in 1..Size(v) :
         Target(u, i) = Target(v, j) /\ After(u, i) = After(v, j) => u = v
    /\ \A u \in Units : \A i \in 1..Size(u) :
         After(u, i) \notin UserBytes \cup {InitFiles[Target(u, i)]}

\* w is what op j of unit v writes to the target of op i of unit u.
From(w, u, i, v, j) == Target(v, j) = Target(u, i) /\ w = After(v, j)

Revertible(u) == snapshot[u].state \in {"prepared", "committed"}

\* R holds the writes whose bytes are on disk or would return when a write in
\* R is taken back; all of them belong to units that can still be reverted.
Known(R) == \A u \in Units : \A i \in 1..Size(u) :
    /\ files[Target(u, i)] = After(u, i) => <<u, i>> \in R
    /\ <<u, i>> \in R =>
         /\ Revertible(u)
         /\ \A v \in Units : \A j \in 1..Size(v) :
              From(snapshot[u].before[i], u, i, v, j) => <<v, j>> \in R

\* O orders units: what a unit found on disk was written by an earlier one.
Ordered(O) ==
    /\ \A u \in Units : <<u, u>> \notin O
    /\ \A u, v, w \in Units : <<u, v>> \in O /\ <<v, w>> \in O => <<u, w>> \in O
    /\ \A u, v \in Units : <<u, v>> \in O =>
         snapshot[u].state # "none" /\ snapshot[v].state # "none"
    /\ \A u, v \in Units : \A i \in 1..Size(u), j \in 1..Size(v) :
         snapshot[u].state # "none" /\ From(snapshot[u].before[i], u, i, v, j) => <<v, u>> \in O

\* The baselines an apply holds came from writes in R; an undo past its
\* preflight has found its unit's own writes there.
CarriedOf(R, c) ==
    /\ pc[c] \in ApplyLabels =>
         \A i \in 1..Len(seen[c]) : \A v \in Units : \A j \in 1..Size(v) :
             From(seen[c][i], unit[c], i, v, j) => <<v, j>> \in R
    /\ pc[c] \in {"journalPrepared", "write"} => snapshot[unit[c]].state = "prepared"
    /\ pc[c] = "preflight" =>
         \A i \in 1..Size(unit[c]) : i < k[c] => <<unit[c], i>> \in R
    /\ pc[c] \in {"unwrite", "undoSnapshot", "compensate"} =>
         \A i \in 1..Size(unit[c]) : <<unit[c], i>> \in R
Carried(R) == \A c \in Callers : CarriedOf(R, c)

Good(R, O) == Known(R) /\ Ordered(O) /\ Carried(R)
Traced == \E R, O : Good(R, O)

LEMMA InitTraced == TagsDiffer /\ Init => Traced
  <1> SUFFICES ASSUME TagsDiffer, Init PROVE Good({}, {})
    BY DEF Traced
  <1>1. Known({})
    BY DEF Init, Known, TagsDiffer
  <1>2. Ordered({})
    BY DEF Init, Ordered, NoSnapshot
  <1>3. Carried({})
    BY DEF Init, Carried, CarriedOf, ApplyLabels
  <1> QED
    BY <1>1, <1>2, <1>3 DEF Good

\* Nobody but the caller that moves is inside the lock.
LEMMA OthersOut ==
    ASSUME SerialHeld, NEW c \in Callers, pc[c] \in Locked, NEW d \in Callers \ {c}
    PROVE  pc[d] \notin Locked
  BY DEF SerialHeld

LEMMA CarriedOut ==
    ASSUME NEW R, NEW d \in Callers, pc[d] \notin Locked
    PROVE  CarriedOf(R, d)
  BY DEF CarriedOf, Locked, Labels, ApplyLabels

\* A step of c that moves neither files nor snapshots keeps R.
LEMMA StillStep ==
    ASSUME NEW R, NEW O, Good(R, O), UNCHANGED <<files, snapshot>>, NEW c \in Callers,
           OnlyLocal(c), CarriedOf(R, c)'
    PROVE  Traced'
  <1>1. Known(R)' /\ Ordered(O)'
    BY DEF Good, Known, Ordered, Revertible
  <1>2. ASSUME NEW d \in Callers, d # c PROVE CarriedOf(R, d)'
    BY <1>2 DEF OnlyLocal, Good, Carried, CarriedOf
  <1> QED
    BY <1>1, <1>2 DEF Traced, Good, Carried

\* A step of c, inside the lock, that puts back bytes of which R knows.
LEMMA PutStep ==
    ASSUME TagsDiffer, SerialHeld, TypeOK, NEW R, NEW O, Good(R, O), UNCHANGED snapshot,
           NEW c \in Callers, pc[c] \in Locked, OnlyLocal(c), CarriedOf(R, c)',
           NEW u \in Units, NEW i \in 1..Size(u), NEW w,
           files' = [files EXCEPT ![Target(u, i)] = w],
           \A v \in Units : \A j \in 1..Size(v) : From(w, u, i, v, j) => <<v, j>> \in R
    PROVE  Traced'
  <1>0. \A v \in Units : \A j \in 1..Size(v) : Target(v, j) \in Paths
    BY PlanFacts
  <1>1. Known(R)'
    <2> SUFFICES ASSUME NEW v \in Units, NEW j \in 1..Size(v), files'[Target(v, j)] = After(v, j)
                 PROVE  <<v, j>> \in R
      BY DEF Good, Known, Revertible
    <2>1. CASE Target(v, j) = Target(u, i)
      <3>1. files'[Target(v, j)] = w
        BY <1>0, <2>1 DEF TypeOK
      <3> QED
        BY <2>1, <3>1 DEF From
    <2>2. CASE Target(v, j) # Target(u, i)
      <3>1. files'[Target(v, j)] = files[Target(v, j)]
        BY <1>0, <2>2 DEF TypeOK
      <3> QED
        BY <3>1 DEF Good, Known
    <2> QED
      BY <2>1, <2>2
  <1>2. Ordered(O)'
    BY DEF Good, Ordered
  <1>3. ASSUME NEW d \in Callers, d # c PROVE CarriedOf(R, d)'
    BY <1>3 DEF OnlyLocal, Good, Carried, CarriedOf
  <1> QED
    BY <1>1, <1>2, <1>3 DEF Traced, Good, Carried

\* A call that starts, or waits, moves nothing.
LEMMA CallTraced ==
    ASSUME IInv, NEW R, NEW O, Good(R, O), NEW c \in Callers,
           ListPrepared(c) \/ RecoveryFault(c) \/ NewLibrary(c)
             \/ (\E u \in Units : RecoverRead(c, u)) \/ (\E u \in Units : ApplyStart(c, u))
             \/ (\E u \in Units : UndoRead(c, u)) \/ Enter(c) \/ Acquire(c) \/ LockFailed(c)
             \/ Release(c) \/ ReleaseFault(c)
    PROVE  Traced'
  <1>0. TypeOK /\ CarriedOf(R, c) /\ Known(R) /\ ShapeOf(c)
    BY DEF IInv, Inv, TypeInv, Good, Carried, Shape
  <1> USE DEF Goto, At, Step, disk, local, bound, Fault, Keep, SetPhase
  <1>1. ASSUME ListPrepared(c) PROVE Traced'
    <2>1. UNCHANGED <<files, snapshot>> /\ OnlyLocal(c)
      BY <1>0, <1>1 DEF ListPrepared, OnlyLocal, TypeOK
    <2>2. CarriedOf(R, c)'
      BY <1>0, <1>1 DEF ListPrepared, CarriedOf, TypeOK, ApplyLabels, ShapeOf, Full
    <2> QED
      BY <2>1, <2>2, StillStep
  <1>2. ASSUME RecoveryFault(c) PROVE Traced'
    <2>1. UNCHANGED <<files, snapshot>> /\ OnlyLocal(c)
      BY <1>0, <1>2 DEF RecoveryFault, OnlyLocal, TypeOK
    <2>2. CarriedOf(R, c)'
      BY <1>0, <1>2 DEF RecoveryFault, CarriedOf, TypeOK, ApplyLabels, ShapeOf, Full
    <2> QED
      BY <2>1, <2>2, StillStep
  <1>3. ASSUME NewLibrary(c) PROVE Traced'
    <2>1. UNCHANGED <<files, snapshot>> /\ OnlyLocal(c)
      BY <1>0, <1>3 DEF NewLibrary, OnlyLocal, TypeOK
    <2>2. CarriedOf(R, c)'
      BY <1>0, <1>3 DEF NewLibrary, CarriedOf, TypeOK, ApplyLabels, ShapeOf, Full
    <2> QED
      BY <2>1, <2>2, StillStep
  <1>4. ASSUME NEW u \in Units, RecoverRead(c, u) PROVE Traced'
    <2>1. UNCHANGED <<files, snapshot>> /\ OnlyLocal(c)
      BY <1>0, <1>4 DEF RecoverRead, OnlyLocal, TypeOK
    <2>2. CarriedOf(R, c)'
      BY <1>0, <1>4 DEF RecoverRead, CarriedOf, TypeOK, ApplyLabels, ShapeOf, Full
    <2> QED
      BY <2>1, <2>2, StillStep
  <1>5. ASSUME NEW u \in Units, ApplyStart(c, u) PROVE Traced'
    <2>1. UNCHANGED <<files, snapshot>> /\ OnlyLocal(c)
      BY <1>0, <1>5 DEF ApplyStart, OnlyLocal, TypeOK
    <2>2. CarriedOf(R, c)'
      BY <1>0, <1>5 DEF ApplyStart, CarriedOf, TypeOK, ApplyLabels, ShapeOf, Full
    <2> QED
      BY <2>1, <2>2, StillStep
  <1>6. ASSUME NEW u \in Units, UndoRead(c, u) PROVE Traced'
    <2>1. UNCHANGED <<files, snapshot>> /\ OnlyLocal(c)
      BY <1>0, <1>6 DEF UndoRead, OnlyLocal, TypeOK
    <2>2. CarriedOf(R, c)'
      BY <1>0, <1>6 DEF UndoRead, CarriedOf, TypeOK, ApplyLabels, ShapeOf, Full
    <2> QED
      BY <2>1, <2>2, StillStep
  <1>7. ASSUME Enter(c) PROVE Traced'
    <2>1. UNCHANGED <<files, snapshot>> /\ OnlyLocal(c)
      BY <1>0, <1>7 DEF Enter, OnlyLocal, TypeOK
    <2>2. CarriedOf(R, c)'
      BY <1>0, <1>7 DEF Enter, CarriedOf, TypeOK, ApplyLabels, ShapeOf, Full
    <2> QED
      BY <2>1, <2>2, StillStep
  <1>8. ASSUME Acquire(c) PROVE Traced'
    <2>1. UNCHANGED <<files, snapshot>> /\ OnlyLocal(c)
      BY <1>0, <1>8 DEF Acquire, OnlyLocal, TypeOK
    <2>2. CarriedOf(R, c)'
      BY <1>0, <1>8 DEF Acquire, CarriedOf, TypeOK, ApplyLabels, ShapeOf, Full
    <2> QED
      BY <2>1, <2>2, StillStep
  <1>9. ASSUME LockFailed(c) PROVE Traced'
    <2>1. UNCHANGED <<files, snapshot>> /\ OnlyLocal(c)
      BY <1>0, <1>9 DEF LockFailed, OnlyLocal, TypeOK
    <2>2. CarriedOf(R, c)'
      BY <1>0, <1>9 DEF LockFailed, CarriedOf, TypeOK, ApplyLabels, ShapeOf, Full
    <2> QED
      BY <2>1, <2>2, StillStep
  <1>10. ASSUME Release(c) PROVE Traced'
    <2>1. UNCHANGED <<files, snapshot>> /\ OnlyLocal(c)
      BY <1>0, <1>10 DEF Release, OnlyLocal, TypeOK
    <2>2. CarriedOf(R, c)'
      BY <1>0, <1>10 DEF Release, CarriedOf, TypeOK, ApplyLabels, ShapeOf, Full
    <2> QED
      BY <2>1, <2>2, StillStep
  <1>11. ASSUME ReleaseFault(c) PROVE Traced'
    <2>1. UNCHANGED <<files, snapshot>> /\ OnlyLocal(c)
      BY <1>0, <1>11 DEF ReleaseFault, OnlyLocal, TypeOK
    <2>2. CarriedOf(R, c)'
      BY <1>0, <1>11 DEF ReleaseFault, CarriedOf, TypeOK, ApplyLabels, ShapeOf, Full
    <2> QED
      BY <2>1, <2>2, StillStep
  <1> QED
    BY <1>1, <1>2, <1>3, <1>4, <1>5, <1>6, <1>7, <1>8, <1>9, <1>10, <1>11

\* Within an apply: reads, decisions, the journal.
LEMMA ApplyQuiet ==
    ASSUME IInv, NEW R, NEW O, Good(R, O), NEW c \in Callers,
           ReadTarget(c) \/ RefuseDrift(c) \/ Validate(c) \/ JournalPrepared(c)
             \/ JournalWritten(c) \/ JournalCommitted(c) \/ ApplyThrows(c) \/ RollbackEnds(c)
             \/ JournalFailed(c)
    PROVE  Traced'
  <1>0. TypeOK /\ CarriedOf(R, c) /\ Known(R) /\ ShapeOf(c)
    BY DEF IInv, Inv, TypeInv, Good, Carried, Shape
  <1> USE DEF Goto, At, Step, disk, local, bound, Fault, Keep, SetPhase
  <1>1. ASSUME ReadTarget(c) PROVE Traced'
    <2>1. UNCHANGED <<files, snapshot>> /\ OnlyLocal(c)
      BY <1>0, <1>1 DEF ReadTarget, OnlyLocal, TypeOK
    <2>2. CarriedOf(R, c)'
      <3>1. /\ pc[c] = "read" /\ pc' = pc /\ unit' = unit /\ unit[c] \in Units
            /\ k[c] \in 1..Size(unit[c]) /\ Len(seen[c]) = k[c] - 1
            /\ seen'[c] = Append(seen[c], files[Target(unit[c], k[c])])
        BY <1>0, <1>1 DEF ReadTarget, ShapeOf, TypeOK
      <3>2. ASSUME NEW i \in 1..Len(seen'[c]), NEW v \in Units, NEW j \in 1..Size(v),
                   From(seen'[c][i], unit[c], i, v, j)
            PROVE  <<v, j>> \in R
        <4>1. CASE i \in 1..Len(seen[c])
          <5>1. seen'[c][i] = seen[c][i]
            BY <1>0, <3>1, <4>1 DEF TypeOK
          <5> QED
            BY <1>0, <3>1, <3>2, <4>1, <5>1 DEF CarriedOf, ApplyLabels
        <4>2. CASE i \notin 1..Len(seen[c])
          <5>1. i = k[c] /\ seen'[c][i] = files[Target(unit[c], i)]
            BY <1>0, <3>1, <4>2 DEF TypeOK
          <5>2. files[Target(v, j)] = After(v, j)
            BY <3>2, <5>1 DEF From
          <5> QED
            BY <1>0, <5>2 DEF Known
        <4> QED
          BY <4>1, <4>2
      <3> QED
        BY <3>1, <3>2 DEF CarriedOf
    <2> QED
      BY <2>1, <2>2, StillStep
  <1>2. ASSUME RefuseDrift(c) PROVE Traced'
    <2>1. UNCHANGED <<files, snapshot>> /\ OnlyLocal(c)
      BY <1>0, <1>2 DEF RefuseDrift, OnlyLocal, TypeOK
    <2>2. CarriedOf(R, c)'
      BY <1>0, <1>2 DEF RefuseDrift, CarriedOf, TypeOK, ApplyLabels, ShapeOf, Full
    <2> QED
      BY <2>1, <2>2, StillStep
  <1>3. ASSUME Validate(c) PROVE Traced'
    <2>1. UNCHANGED <<files, snapshot>> /\ OnlyLocal(c)
      BY <1>0, <1>3 DEF Validate, OnlyLocal, TypeOK
    <2>2. CarriedOf(R, c)'
      BY <1>0, <1>3 DEF Validate, CarriedOf, TypeOK, ApplyLabels, ShapeOf, Full
    <2> QED
      BY <2>1, <2>2, StillStep
  <1>4. ASSUME JournalPrepared(c) PROVE Traced'
    <2>1. UNCHANGED <<files, snapshot>> /\ OnlyLocal(c)
      BY <1>0, <1>4 DEF JournalPrepared, OnlyLocal, TypeOK
    <2>2. CarriedOf(R, c)'
      BY <1>0, <1>4 DEF JournalPrepared, CarriedOf, TypeOK, ApplyLabels, ShapeOf, Full
    <2> QED
      BY <2>1, <2>2, StillStep
  <1>5. ASSUME JournalWritten(c) PROVE Traced'
    <2>1. UNCHANGED <<files, snapshot>> /\ OnlyLocal(c)
      BY <1>0, <1>5 DEF JournalWritten, OnlyLocal, TypeOK
    <2>2. CarriedOf(R, c)'
      BY <1>0, <1>5 DEF JournalWritten, CarriedOf, TypeOK, ApplyLabels, ShapeOf, Full
    <2> QED
      BY <2>1, <2>2, StillStep
  <1>6. ASSUME JournalCommitted(c) PROVE Traced'
    <2>1. UNCHANGED <<files, snapshot>> /\ OnlyLocal(c)
      BY <1>0, <1>6 DEF JournalCommitted, OnlyLocal, TypeOK
    <2>2. CarriedOf(R, c)'
      BY <1>0, <1>6 DEF JournalCommitted, CarriedOf, TypeOK, ApplyLabels, ShapeOf, Full
    <2> QED
      BY <2>1, <2>2, StillStep
  <1>7. ASSUME ApplyThrows(c) PROVE Traced'
    <2>1. UNCHANGED <<files, snapshot>> /\ OnlyLocal(c)
      BY <1>0, <1>7 DEF ApplyThrows, OnlyLocal, TypeOK
    <2>2. CarriedOf(R, c)'
      BY <1>0, <1>7 DEF ApplyThrows, CarriedOf, TypeOK, ApplyLabels, ShapeOf, Full
    <2> QED
      BY <2>1, <2>2, StillStep
  <1>8. ASSUME RollbackEnds(c) PROVE Traced'
    <2>1. UNCHANGED <<files, snapshot>> /\ OnlyLocal(c)
      BY <1>0, <1>8 DEF RollbackEnds, OnlyLocal, TypeOK
    <2>2. CarriedOf(R, c)'
      BY <1>0, <1>8 DEF RollbackEnds, CarriedOf, TypeOK, ApplyLabels, ShapeOf, Full
    <2> QED
      BY <2>1, <2>2, StillStep
  <1>9. ASSUME JournalFailed(c) PROVE Traced'
    <2>1. UNCHANGED <<files, snapshot>> /\ OnlyLocal(c)
      BY <1>0, <1>9 DEF JournalFailed, OnlyLocal, TypeOK
    <2>2. CarriedOf(R, c)'
      BY <1>0, <1>9 DEF JournalFailed, CarriedOf, TypeOK, ApplyLabels, ShapeOf, Full
    <2> QED
      BY <2>1, <2>2, StillStep
  <1> QED
    BY <1>1, <1>2, <1>3, <1>4, <1>5, <1>6, <1>7, <1>8, <1>9

\* Within a recovery or an undo: the same.
LEMMA RevertQuiet ==
    ASSUME IInv, NEW R, NEW O, Good(R, O), NEW c \in Callers,
           SkipTarget(c) \/ RecoverRefused(c) \/ JournalUndone(c) \/ Preflight(c)
             \/ UndoJournal(c) \/ UndoThrows(c) \/ CompensateFault(c) \/ CompensateEnds(c)
    PROVE  Traced'
  <1>0. TypeOK /\ CarriedOf(R, c) /\ Known(R) /\ ShapeOf(c)
    BY DEF IInv, Inv, TypeInv, Good, Carried, Shape
  <1> USE DEF Goto, At, Step, disk, local, bound, Fault, Keep, SetPhase
  <1>1. ASSUME SkipTarget(c) PROVE Traced'
    <2>1. UNCHANGED <<files, snapshot>> /\ OnlyLocal(c)
      BY <1>0, <1>1 DEF SkipTarget, OnlyLocal, TypeOK
    <2>2. CarriedOf(R, c)'
      BY <1>0, <1>1 DEF SkipTarget, CarriedOf, TypeOK, ApplyLabels, ShapeOf, Full
    <2> QED
      BY <2>1, <2>2, StillStep
  <1>2. ASSUME RecoverRefused(c) PROVE Traced'
    <2>1. UNCHANGED <<files, snapshot>> /\ OnlyLocal(c)
      BY <1>0, <1>2 DEF RecoverRefused, OnlyLocal, TypeOK
    <2>2. CarriedOf(R, c)'
      BY <1>0, <1>2 DEF RecoverRefused, CarriedOf, TypeOK, ApplyLabels, ShapeOf, Full
    <2> QED
      BY <2>1, <2>2, StillStep
  <1>3. ASSUME JournalUndone(c) PROVE Traced'
    <2>1. UNCHANGED <<files, snapshot>> /\ OnlyLocal(c)
      BY <1>0, <1>3 DEF JournalUndone, OnlyLocal, TypeOK
    <2>2. CarriedOf(R, c)'
      BY <1>0, <1>3 DEF JournalUndone, CarriedOf, TypeOK, ApplyLabels, ShapeOf, Full
    <2> QED
      BY <2>1, <2>2, StillStep
  <1>4. ASSUME Preflight(c) PROVE Traced'
    <2>1. UNCHANGED <<files, snapshot>> /\ OnlyLocal(c)
      BY <1>0, <1>4 DEF Preflight, OnlyLocal, TypeOK
    <2>2. CarriedOf(R, c)'
      <3>1. /\ pc[c] = "preflight" /\ unit' = unit /\ seen' = seen /\ unit[c] \in Units
            /\ k[c] \in Nat /\ Size(unit[c]) \in Nat
            /\ \A i \in 1..Size(unit[c]) : i < k[c] => <<unit[c], i>> \in R
        BY <1>0, <1>4, PlanFacts DEF Preflight, ShapeOf, TypeOK, CarriedOf
      <3>2. CASE k[c] > Size(unit[c]) /\ pc' = [pc EXCEPT ![c] = "unwrite"]
        <4>1. pc'[c] = "unwrite" /\ \A i \in 1..Size(unit[c]) : <<unit[c], i>> \in R
          BY <1>0, <3>1, <3>2 DEF TypeOK
        <4> QED
          BY <3>1, <4>1 DEF CarriedOf, ApplyLabels
      <3>3. CASE pc' = pc /\ k[c] \in 1..Size(unit[c]) /\ k'[c] = k[c] + 1
                   /\ files[Target(unit[c], k[c])] = After(unit[c], k[c])
        <4>1. <<unit[c], k[c]>> \in R
          BY <1>0, <3>1, <3>3 DEF Known
        <4>2. \A i \in 1..Size(unit[c]) : i < k'[c] => <<unit[c], i>> \in R
          BY <3>1, <3>3, <4>1
        <4> QED
          BY <3>1, <3>3, <4>2 DEF CarriedOf, ApplyLabels
      <3>4. CASE pc' = [pc EXCEPT ![c] = "release"]
        <4>1. pc'[c] = "release"
          BY <1>0, <3>4 DEF TypeOK
        <4> QED
          BY <4>1 DEF CarriedOf, ApplyLabels
      <3> QED
        <4>1. k[c] >= 1
          BY <1>0, <3>1 DEF ShapeOf
        <4> QED
          BY <1>0, <1>4, <3>1, <3>2, <3>3, <3>4, <4>1 DEF Preflight, TypeOK
    <2> QED
      BY <2>1, <2>2, StillStep
  <1>5. ASSUME UndoJournal(c) PROVE Traced'
    <2>1. UNCHANGED <<files, snapshot>> /\ OnlyLocal(c)
      BY <1>0, <1>5 DEF UndoJournal, OnlyLocal, TypeOK
    <2>2. CarriedOf(R, c)'
      BY <1>0, <1>5 DEF UndoJournal, CarriedOf, TypeOK, ApplyLabels, ShapeOf, Full
    <2> QED
      BY <2>1, <2>2, StillStep
  <1>6. ASSUME UndoThrows(c) PROVE Traced'
    <2>1. UNCHANGED <<files, snapshot>> /\ OnlyLocal(c)
      BY <1>0, <1>6 DEF UndoThrows, OnlyLocal, TypeOK
    <2>2. CarriedOf(R, c)'
      BY <1>0, <1>6 DEF UndoThrows, CarriedOf, TypeOK, ApplyLabels, ShapeOf, Full
    <2> QED
      BY <2>1, <2>2, StillStep
  <1>7. ASSUME CompensateFault(c) PROVE Traced'
    <2>1. UNCHANGED <<files, snapshot>> /\ OnlyLocal(c)
      BY <1>0, <1>7 DEF CompensateFault, OnlyLocal, TypeOK
    <2>2. CarriedOf(R, c)'
      BY <1>0, <1>7 DEF CompensateFault, CarriedOf, TypeOK, ApplyLabels, ShapeOf, Full
    <2> QED
      BY <2>1, <2>2, StillStep
  <1>8. ASSUME CompensateEnds(c) PROVE Traced'
    <2>1. UNCHANGED <<files, snapshot>> /\ OnlyLocal(c)
      BY <1>0, <1>8 DEF CompensateEnds, OnlyLocal, TypeOK
    <2>2. CarriedOf(R, c)'
      BY <1>0, <1>8 DEF CompensateEnds, CarriedOf, TypeOK, ApplyLabels, ShapeOf, Full
    <2> QED
      BY <2>1, <2>2, StillStep
  <1> QED
    BY <1>1, <1>2, <1>3, <1>4, <1>5, <1>6, <1>7, <1>8

------------------------------------------------------------------------------
(* The steps that move a file.                                             *)

\* What a caller in the lock, with its baselines and its snapshot, has at hand.
LEMMA Holding ==
    ASSUME IInv, NEW c \in Callers
    PROVE  /\ TypeOK /\ SerialHeld /\ ShapeOf(c) /\ BaseOf(c) /\ WrittenOf(c)
           /\ Busy(c) => unit[c] \in Units /\ Size(unit[c]) \in Nat
  BY PlanFacts DEF IInv, Inv, TypeInv, Shape, Bases, Written, Busy, ShapeOf

\* A write first joins R: its unit is prepared, and what it overwrites is known.
LEMMA WriteTraced ==
    ASSUME TagsDiffer, IInv, NEW R, NEW O, Good(R, O), NEW c \in Callers, WriteTarget(c)
    PROVE  Traced'
  <1>a. TypeOK /\ SerialHeld /\ ShapeOf(c) /\ BaseOf(c) /\ CarriedOf(R, c) /\ unit[c] \in Units
    BY Holding DEF Good, Carried, WriteTarget, At, Busy
  <1>b. PICK u \in Units, i \in Nat : u = unit[c] /\ i = k[c]
    BY <1>a DEF TypeOK
  <1> DEFINE More == R \cup {<<u, i>>}
  <1>0. TypeOK /\ SerialHeld /\ ShapeOf(c) /\ BaseOf(c) /\ CarriedOf(R, c) /\ u = unit[c]
    BY <1>a, <1>b
  <1>1. /\ pc[c] = "write" /\ i \in 1..Size(u) /\ files' = [files EXCEPT ![Target(u, i)] = After(u, i)]
        /\ k' = [k EXCEPT ![c] = i + 1]
        /\ UNCHANGED <<snapshot, pc, unit, seen, op>>
    BY <1>a, <1>b, PlanFacts DEF WriteTarget, At, Step, WriteOne, Keep, ShapeOf
  <1>2. snapshot[u].state = "prepared" /\ snapshot[u].before = seen[c] /\ Len(seen[c]) = Size(u)
    BY <1>0, <1>1 DEF CarriedOf, BaseOf, ShapeOf, Full
  <1>3. Good(More, O)
    <2>1. ASSUME NEW v \in Units, NEW j \in 1..Size(v), From(snapshot[u].before[i], u, i, v, j)
          PROVE  <<v, j>> \in R
      BY <1>0, <1>1, <1>2, <2>1 DEF CarriedOf, ApplyLabels
    <2>2. ASSUME NEW v \in Units, NEW j \in 1..Size(v), <<v, j>> \in More
          PROVE  /\ Revertible(v)
                 /\ \A w \in Units : \A l \in 1..Size(w) :
                      From(snapshot[v].before[j], v, j, w, l) => <<w, l>> \in More
      <3>1. CASE <<v, j>> \in R
        BY <3>1 DEF Good, Known
      <3>2. CASE v = u /\ j = i
        BY <1>2, <2>1, <3>2 DEF Revertible
      <3> QED
        BY <2>2, <3>1, <3>2
    <2>3. \A v \in Units : \A j \in 1..Size(v) :
             files[Target(v, j)] = After(v, j) => <<v, j>> \in More
      BY DEF Good, Known
    <2>4. Carried(More)
      BY DEF Good, Carried, CarriedOf
    <2> HIDE DEF More
    <2>5. Known(More)
      BY ONLY <2>2, <2>3, Zenon DEF Known
    <2> QED
      BY <2>4, <2>5 DEF Good
  <1>4. ASSUME NEW v \in Units, NEW j \in 1..Size(v), From(After(u, i), u, i, v, j)
        PROVE  <<v, j>> \in More
    <2>1. v = u
      BY <1>1, <1>4 DEF TagsDiffer, From
    <2>2. j = i
      BY <1>1, <1>4, <2>1, PlanFacts DEF From
    <2> QED
      BY <2>1, <2>2
  <1>5. OnlyLocal(c) /\ pc[c] \in Locked
    BY <1>0, <1>1 DEF OnlyLocal, TypeOK, Locked, Labels
  <1> HIDE DEF More
  <1>6. CarriedOf(More, c)'
    <2>1. CarriedOf(More, c)
      BY <1>3 DEF Good, Carried
    <2> QED
      BY <1>1, <2>1 DEF CarriedOf
  <1>7. UNCHANGED snapshot /\ files' = [files EXCEPT ![Target(u, i)] = After(u, i)]
    BY <1>1
  <1> QED
    BY <1>0, <1>1, <1>3, <1>4, <1>5, <1>6, <1>7, PutStep

\* A rollback, a recovery and an undo put back before-bytes; the compensation
\* puts the unit's own bytes back.
LEMMA BackTraced ==
    ASSUME TagsDiffer, IInv, NEW R, NEW O, Good(R, O), NEW c \in Callers,
           RollbackTarget(c) \/ RevertTarget(c) \/ UnwriteTarget(c) \/ Compensate(c)
    PROVE  Traced'
  <1> USE DEF At, Step, WriteOne, Keep
  <1>b. Busy(c)
    BY DEF RollbackTarget, RevertTarget, UnwriteTarget, Compensate, Busy
  <1>0. /\ TypeOK /\ SerialHeld /\ ShapeOf(c) /\ BaseOf(c) /\ CarriedOf(R, c) /\ Known(R)
        /\ unit[c] \in Units /\ Size(unit[c]) \in Nat
    BY <1>b, Holding DEF Good, Carried
  <1>1. UNCHANGED snapshot /\ OnlyLocal(c) /\ pc[c] \in Locked
        /\ UNCHANGED <<pc, unit, seen, op>>
    BY <1>0 DEF RollbackTarget, RevertTarget, UnwriteTarget, Compensate, OnlyLocal, TypeOK, Locked, Labels
  <1>2. CarriedOf(R, c)'
    <2>1. pc[c] # "preflight"
      BY DEF RollbackTarget, RevertTarget, UnwriteTarget, Compensate
    <2> QED
      BY <1>0, <1>1, <2>1 DEF CarriedOf
  <1>3. ASSUME RollbackTarget(c) PROVE Traced'
    <2> DEFINE i == k[c] - 1
    <2>1. i \in 1..Size(unit[c]) /\ Len(seen[c]) = Size(unit[c]) /\ pc[c] = "rollback"
          /\ files' = [files EXCEPT ![Target(unit[c], i)] = seen[c][i]]
      BY <1>0, <1>3 DEF RollbackTarget, ShapeOf, TypeOK
    <2> HIDE DEF i
    <2>2. \A v \in Units : \A j \in 1..Size(v) : From(seen[c][i], unit[c], i, v, j) => <<v, j>> \in R
      BY <1>0, <2>1 DEF CarriedOf, ApplyLabels
    <2> QED
      BY <1>0, <1>1, <1>2, <2>1, <2>2, PutStep
  <1>4. ASSUME RevertTarget(c) \/ UnwriteTarget(c) PROVE Traced'
    <2> DEFINE i == k[c]
    <2>1. i \in 1..Size(unit[c]) /\ files[Target(unit[c], i)] = After(unit[c], i)
          /\ files' = [files EXCEPT ![Target(unit[c], i)] = seen[c][i]]
      BY <1>0, <1>4 DEF RevertTarget, UnwriteTarget, ShapeOf, TypeOK
    <2>2. snapshot[unit[c]].before = seen[c]
      BY <1>0, <1>4 DEF RevertTarget, UnwriteTarget, BaseOf, Busy, RecoverLabels, UndoLabels
    <2> HIDE DEF i
    <2>3. <<unit[c], i>> \in R
      BY <1>0, <2>1 DEF Known
    <2>4. \A v \in Units : \A j \in 1..Size(v) : From(seen[c][i], unit[c], i, v, j) => <<v, j>> \in R
      BY <1>0, <2>1, <2>2, <2>3 DEF Known
    <2> QED
      BY <1>0, <1>1, <1>2, <2>1, <2>4, PutStep
  <1>5. ASSUME Compensate(c) PROVE Traced'
    <2> DEFINE u == unit[c]
               i == k[c]
    <2>1. i \in 1..Size(u) /\ files' = [files EXCEPT ![Target(u, i)] = After(u, i)]
          /\ pc[c] = "compensate" /\ u \in Units
      BY <1>0, <1>5 DEF Compensate, ShapeOf, TypeOK
    <2> HIDE DEF i
    <2>2. <<u, i>> \in R
      BY <1>0, <2>1 DEF CarriedOf
    <2> HIDE DEF u
    <2>3. ASSUME NEW v \in Units, NEW j \in 1..Size(v), From(After(u, i), u, i, v, j)
          PROVE  <<v, j>> \in R
      <3>1. v = u
        BY <2>1, <2>3 DEF TagsDiffer, From
      <3>2. j = i
        BY <2>1, <2>3, <3>1, PlanFacts DEF From
      <3> QED
        BY <2>2, <3>1, <3>2
    <2> QED
      BY <1>0, <1>1, <1>2, <2>1, <2>3, PutStep
  <1> QED
    BY <1>3, <1>4, <1>5

------------------------------------------------------------------------------
(* The steps that change a snapshot.                                       *)

\* A unit that appears is younger than every other; its baselines, read under
\* the lock, came from writes in R.
LEMMA PreparedTraced ==
    ASSUME TagsDiffer, IInv, NEW R, NEW O, Good(R, O), NEW c \in Callers, WritePrepared(c)
    PROVE  Traced'
  <1>a. /\ TypeOK /\ SerialHeld /\ ShapeOf(c) /\ BaseOf(c) /\ CarriedOf(R, c) /\ unit[c] \in Units
        /\ Known(R) /\ Ordered(O)
    BY Holding DEF Good, Carried, WritePrepared, At, Busy
  <1>b. PICK u, b, Old : u = unit[c] /\ b = seen[c] /\ Old = {v \in Units : snapshot[v].state # "none"}
    OBVIOUS
  <1>1. /\ pc[c] = "prepare" /\ pc' = [pc EXCEPT ![c] = "journalPrepared"] /\ u \in Units
        /\ snapshot' = [snapshot EXCEPT ![u] = [state |-> "prepared", before |-> b]]
        /\ UNCHANGED <<files, unit, seen, op, k>>
    BY <1>a, <1>b DEF WritePrepared, At, Goto, SetState, Keep
  <1>2. snapshot[u].state = "none" /\ Len(b) = Size(u) /\ u \notin Old
    BY <1>a, <1>b, <1>1 DEF BaseOf, ShapeOf, Full, ApplyLabels
  <1>3. \A v \in Units : v # u => snapshot'[v] = snapshot[v]
    BY <1>a, <1>1 DEF TypeOK
  <1>4. snapshot'[u].state = "prepared" /\ snapshot'[u].before = b
    BY <1>a, <1>1 DEF TypeOK
  <1>5. \A v \in Units : \A i \in 1..Size(v) : <<v, i>> \in R => v # u
    BY <1>a, <1>2 DEF Known, Revertible
  <1>6. Known(R)'
    <2>1. ASSUME NEW v \in Units, NEW i \in 1..Size(v), <<v, i>> \in R
          PROVE  /\ Revertible(v)'
                 /\ \A w \in Units : \A j \in 1..Size(w) :
                      From(snapshot'[v].before[i], v, i, w, j) => <<w, j>> \in R
      <3>1. snapshot'[v] = snapshot[v]
        BY <1>3, <1>5, <2>1
      <3> QED
        BY <1>a, <2>1, <3>1 DEF Known, Revertible
    <2>2. ASSUME NEW v \in Units, NEW i \in 1..Size(v), files'[Target(v, i)] = After(v, i)
          PROVE  <<v, i>> \in R
      BY <1>a, <1>1, <2>2 DEF Known
    <2> QED
      BY ONLY <2>1, <2>2, Zenon DEF Known
  <1>7. PICK P : P = O \cup {<<v, u>> : v \in Old}
    OBVIOUS
  <1>8. \A v, w : <<v, w>> \in P <=> (<<v, w>> \in O \/ (w = u /\ v \in Old))
    BY <1>7
  <1>9. Ordered(P)'
    <2>1. \A v \in Units : <<u, v>> \notin O /\ <<v, u>> \notin O
      BY <1>a, <1>1, <1>2 DEF Ordered
    <2>2. \A v \in Units : <<v, v>> \notin P
      <3>1. \A v \in Units : <<v, v>> \notin O
        BY <1>a DEF Ordered
      <3> QED
        BY <1>2, <1>8, <3>1
    <2>3. \A v, w, x \in Units : <<v, w>> \in P /\ <<w, x>> \in P => <<v, x>> \in P
      BY <1>a, <1>b, <1>2, <1>8, <2>1 DEF Ordered
    <2>4. \A v, w \in Units : <<v, w>> \in P =>
            snapshot'[v].state # "none" /\ snapshot'[w].state # "none"
      BY <1>a, <1>b, <1>3, <1>4, <1>8, <2>1 DEF Ordered
    <2>5. ASSUME NEW v \in Units, NEW w \in Units, NEW i \in 1..Size(v), NEW j \in 1..Size(w),
                 snapshot'[v].state # "none", From(snapshot'[v].before[i], v, i, w, j)
          PROVE  <<w, v>> \in P
      <3>1. CASE v # u
        BY <1>a, <1>3, <1>8, <2>5, <3>1 DEF Ordered
      <3>2. CASE v = u
        <4>1. <<w, j>> \in R
          BY <1>a, <1>b, <1>1, <1>2, <1>4, <2>5, <3>2 DEF CarriedOf, ApplyLabels
        <4>2. w \in Old
          BY <1>a, <1>b, <4>1 DEF Known, Revertible
        <4> QED
          BY <1>8, <3>2, <4>2
      <3> QED
        BY <3>1, <3>2
    <2> QED
      BY ONLY <2>2, <2>3, <2>4, <2>5, Zenon DEF Ordered
  <1>10. CarriedOf(R, c)'
    <2>1. pc'[c] = "journalPrepared" /\ unit'[c] = u /\ seen'[c] = seen[c]
      BY <1>a, <1>b, <1>1 DEF TypeOK
    <2> QED
      BY <1>a, <1>b, <1>1, <1>4, <2>1 DEF CarriedOf, ApplyLabels
  <1>11. ASSUME NEW d \in Callers, d # c PROVE CarriedOf(R, d)'
    <2>1. pc'[d] = pc[d] /\ pc[d] \notin Locked
      BY <1>a, <1>1, <1>11, OthersOut DEF Locked, Labels
    <2> QED
      BY <2>1 DEF CarriedOf, Locked, Labels, ApplyLabels
  <1> QED
    BY <1>6, <1>9, <1>10, <1>11 DEF Traced, Good, Carried

\* A commit only changes the name of the state.
LEMMA CommitTraced ==
    ASSUME TagsDiffer, IInv, NEW R, NEW O, Good(R, O), NEW c \in Callers, CommitSnapshot(c)
    PROVE  Traced'
  <1>0. /\ TypeOK /\ SerialHeld /\ ShapeOf(c) /\ BaseOf(c) /\ CarriedOf(R, c) /\ unit[c] \in Units
        /\ Known(R) /\ Ordered(O)
    BY Holding DEF Good, Carried, CommitSnapshot, At, Busy
  <1>1. /\ pc[c] = "commit" /\ pc' = [pc EXCEPT ![c] = "journalCommitted"]
        /\ snapshot' = [snapshot EXCEPT ![unit[c]] = [state |-> "committed", before |-> seen[c]]]
        /\ UNCHANGED <<files, unit, seen, op, k>>
    BY DEF CommitSnapshot, At, Goto, SetState, Keep
  <1>2. snapshot[unit[c]].state # "none" /\ snapshot[unit[c]].before = seen[c]
    BY <1>0, <1>1 DEF BaseOf
  <1>3. \A v \in Units : /\ snapshot'[v].before = snapshot[v].before
                         /\ Revertible(v) => Revertible(v)'
                         /\ snapshot'[v].state = "none" <=> snapshot[v].state = "none"
    BY <1>0, <1>1, <1>2 DEF TypeOK, Revertible
  <1>4. Known(R)'
    <2>1. ASSUME NEW v \in Units, NEW i \in 1..Size(v), files'[Target(v, i)] = After(v, i)
          PROVE  <<v, i>> \in R
      BY <1>0, <1>1, <2>1 DEF Known
    <2>2. ASSUME NEW v \in Units, NEW i \in 1..Size(v), <<v, i>> \in R
          PROVE  /\ Revertible(v)'
                 /\ \A w \in Units : \A j \in 1..Size(w) :
                      From(snapshot'[v].before[i], v, i, w, j) => <<w, j>> \in R
      BY <1>0, <1>3, <2>2 DEF Known
    <2> QED
      BY ONLY <2>1, <2>2, Zenon DEF Known
  <1>5. Ordered(O)'
    BY <1>0, <1>3 DEF Ordered
  <1>6. CarriedOf(R, c)'
    <2>1. pc'[c] = "journalCommitted"
      BY <1>0, <1>1 DEF TypeOK
    <2> QED
      BY <1>0, <1>1, <2>1 DEF CarriedOf, ApplyLabels
  <1>7. ASSUME NEW d \in Callers, d # c PROVE CarriedOf(R, d)'
    <2>1. pc'[d] = pc[d] /\ pc[d] \notin Locked
      BY <1>0, <1>1, <1>7, OthersOut DEF Locked, Labels
    <2> QED
      BY <2>1 DEF CarriedOf, Locked, Labels, ApplyLabels
  <1> QED
    BY <1>4, <1>5, <1>6, <1>7 DEF Traced, Good, Carried

\* A unit that is undone leaves R, and with it every write to its targets that
\* is not older: what lies there now is what the unit found.
LEMMA UndoneTraced ==
    ASSUME TagsDiffer, IInv, NEW R, NEW O, Good(R, O), NEW c \in Callers,
           MarkUndone(c) \/ UndoSnapshot(c)
    PROVE  Traced'
  <1>b. Busy(c)
    BY DEF MarkUndone, UndoSnapshot, At, Busy
  <1>0. /\ TypeOK /\ SerialHeld /\ ShapeOf(c) /\ BaseOf(c) /\ WrittenOf(c) /\ unit[c] \in Units
        /\ Known(R) /\ Ordered(O) /\ Size(unit[c]) \in Nat
    BY <1>b, Holding DEF Good
  <1>u. PICK u : u = unit[c]
    OBVIOUS
  <1>1. /\ pc[c] \in {"revert", "undoSnapshot"} /\ (pc[c] = "revert" => k[c] = 0)
        /\ pc' = [pc EXCEPT ![c] = IF pc[c] = "revert" THEN "journalUndone" ELSE "release"]
        /\ snapshot' = [snapshot EXCEPT ![u] = [state |-> "undone", before |-> seen[c]]]
        /\ UNCHANGED <<files, unit, seen, op, k>> /\ u \in Units
    BY <1>0, <1>u DEF MarkUndone, UndoSnapshot, At, Goto, SetState, Keep
  <1>2. snapshot[u].state # "none" /\ snapshot[u].before = seen[c]
    BY <1>0, <1>u, <1>1 DEF BaseOf, Busy, RecoverLabels, UndoLabels
  <1>3. \A v \in Units : /\ snapshot'[v].before = snapshot[v].before
                         /\ v # u => snapshot'[v] = snapshot[v]
                         /\ snapshot'[v].state = "none" <=> snapshot[v].state = "none"
    BY <1>0, <1>1, <1>2 DEF TypeOK
  <1>4. \A i \in 1..Size(u) : files[Target(u, i)] \in {snapshot[u].before[i]} \cup UserBytes
    BY <1>0, <1>u, <1>1, <1>2 DEF WrittenOf, Holds
  <1> DEFINE Mine(p) == \E i \in 1..Size(u) : Target(u, i) = p
  <1>5. PICK Kept : Kept = {e \in R : ~Mine(Target(e[1], e[2])) \/ <<e[1], u>> \in O}
    OBVIOUS
  <1>6. \A v, j : <<v, j>> \in Kept <=>
           <<v, j>> \in R /\ (~Mine(Target(v, j)) \/ <<v, u>> \in O)
    BY <1>5
  <1>7. ASSUME NEW v \in Units, NEW j \in 1..Size(v), files'[Target(v, j)] = After(v, j)
        PROVE  <<v, j>> \in Kept
    <2>1. <<v, j>> \in R /\ files[Target(v, j)] = After(v, j)
      BY <1>0, <1>1, <1>7 DEF Known
    <2>2. ASSUME NEW i \in 1..Size(u), Target(u, i) = Target(v, j) PROVE <<v, u>> \in O
      <3>1. After(v, j) \notin UserBytes
        BY DEF TagsDiffer
      <3>2. From(snapshot[u].before[i], u, i, v, j)
        BY <1>4, <2>1, <2>2, <3>1 DEF From
      <3> QED
        BY <1>0, <1>1, <1>2, <3>2 DEF Ordered
    <2> QED
      BY <1>6, <2>1, <2>2
  <1>8. ASSUME NEW v \in Units, NEW j \in 1..Size(v), <<v, j>> \in Kept
        PROVE  /\ Revertible(v)'
               /\ \A w \in Units : \A l \in 1..Size(w) :
                    From(snapshot'[v].before[j], v, j, w, l) => <<w, l>> \in Kept
    <2>1. <<v, j>> \in R /\ (~Mine(Target(v, j)) \/ <<v, u>> \in O)
      BY <1>6, <1>8
    <2>2. v # u
      BY <1>0, <1>1, <2>1 DEF Ordered
    <2>3. Revertible(v) /\ Revertible(v)'
      BY <1>0, <1>3, <2>1, <2>2 DEF Known, Revertible
    <2>4. ASSUME NEW w \in Units, NEW l \in 1..Size(w), From(snapshot[v].before[j], v, j, w, l)
          PROVE  <<w, l>> \in Kept
      <3>1. <<w, l>> \in R /\ Target(w, l) = Target(v, j)
        BY <1>0, <2>1, <2>4 DEF Known, From
      <3>2. <<w, v>> \in O
        BY <1>0, <2>3, <2>4 DEF Ordered, Revertible
      <3>3. <<v, u>> \in O => <<w, u>> \in O
        BY <1>0, <1>1, <3>2 DEF Ordered
      <3> QED
        BY <1>6, <2>1, <3>1, <3>3
    <2> QED
      BY <1>3, <2>3, <2>4
  <1>9. Known(Kept)'
    BY ONLY <1>7, <1>8, Zenon DEF Known
  <1>10. Ordered(O)'
    BY <1>0, <1>3 DEF Ordered
  <1>11. CarriedOf(Kept, c)'
    <2>1. pc'[c] \in {"journalUndone", "release"}
      BY <1>0, <1>1 DEF TypeOK
    <2> QED
      BY <2>1 DEF CarriedOf, ApplyLabels
  <1>12. ASSUME NEW d \in Callers, d # c PROVE CarriedOf(Kept, d)'
    <2>1. pc'[d] = pc[d] /\ pc[d] \notin Locked
      BY <1>0, <1>1, <1>12, OthersOut DEF Locked, Labels
    <2> QED
      BY <2>1 DEF CarriedOf, Locked, Labels, ApplyLabels
  <1> QED
    BY <1>9, <1>10, <1>11, <1>12 DEF Traced, Good, Carried

------------------------------------------------------------------------------
(* The theorem.                                                            *)

LEMMA TracedStep == TagsDiffer /\ IInv /\ Traced /\ [Next]_vars => Traced'
  <1> SUFFICES ASSUME TagsDiffer, IInv, [Next]_vars, NEW R, NEW O, Good(R, O) PROVE Traced'
    BY DEF Traced
  <1>1. ASSUME NEW c \in Callers, CallStep(c) \/ LockStep(c) PROVE Traced'
    BY <1>1, CallTraced DEF CallStep, LockStep
  <1>2. ASSUME NEW c \in Callers, ApplyStep(c) PROVE Traced'
    BY <1>2, ApplyQuiet, WriteTraced, BackTraced, PreparedTraced, CommitTraced DEF ApplyStep
  <1>3. ASSUME NEW c \in Callers, RecoverStep(c) \/ UndoStep(c) PROVE Traced'
    BY <1>3, RevertQuiet, BackTraced, UndoneTraced DEF RecoverStep, UndoStep
  <1>4. ASSUME NEW p \in Paths, NEW b \in UserBytes, UserEdit(p, b) PROVE Traced'
    <2>0. TypeOK /\ Known(R) /\ Ordered(O) /\ Carried(R)
      BY DEF Good, IInv, Inv, TypeInv
    <2>1. UNCHANGED <<snapshot, pc, unit, seen, k>> /\ files' = [files EXCEPT ![p] = b]
      BY <1>4 DEF UserEdit, local
    <2>2. ASSUME NEW u \in Units, NEW i \in 1..Size(u), files'[Target(u, i)] = After(u, i)
          PROVE  files[Target(u, i)] = After(u, i)
      <3>1. After(u, i) # b /\ Target(u, i) \in Paths
        BY PlanFacts DEF TagsDiffer
      <3> QED
        BY <2>0, <2>1, <2>2, <3>1 DEF TypeOK
    <2>3. Known(R)'
      <3>1. ASSUME NEW u \in Units, NEW i \in 1..Size(u), files'[Target(u, i)] = After(u, i)
            PROVE  <<u, i>> \in R
        BY <2>0, <2>2, <3>1 DEF Known
      <3>2. ASSUME NEW u \in Units, NEW i \in 1..Size(u), <<u, i>> \in R
            PROVE  /\ Revertible(u)'
                   /\ \A v \in Units : \A j \in 1..Size(v) :
                        From(snapshot'[u].before[i], u, i, v, j) => <<v, j>> \in R
        BY <2>0, <2>1, <3>2 DEF Known, Revertible
      <3> QED
        BY ONLY <3>1, <3>2, Zenon DEF Known
    <2>4. Ordered(O)' /\ Carried(R)'
      BY <2>0, <2>1 DEF Ordered, Carried, CarriedOf
    <2> QED
      BY <2>3, <2>4 DEF Traced, Good
  <1>5. CASE Crash
    <2>1. Known(R)' /\ Ordered(O)'
      BY <1>5 DEF Crash, disk, Good, Known, Ordered, Revertible
    <2>2. Carried(R)'
      BY <1>5 DEF Crash, Carried, CarriedOf, ApplyLabels
    <2> QED
      BY <2>1, <2>2 DEF Traced, Good
  <1>6. CASE UNCHANGED vars
    BY <1>6 DEF vars, disk, local, Good, Known, Ordered, Carried, CarriedOf, Revertible, Traced
  <1> QED
    BY <1>1, <1>2, <1>3, <1>4, <1>5, <1>6 DEF Next

\* For plans whose bytes tell who wrote them: whatever crashes, throws or
\* overlaps, and however often units are reverted and compensated, a unit's
\* bytes lie on disk only while its snapshot is prepared or committed.
THEOREM NothingOrphaned ==
    ASSUME TagsDiffer
    PROVE  Spec => []NoOrphanBytes
  <1>1. Traced => NoOrphanBytes
    BY DEF Traced, Good, Known, Revertible, NoOrphanBytes
  <1> QED
    BY <1>1, InitTraced, TracedStep, Invariance, TagsDiffer, PTL DEF Spec

------------------------------------------------------------------------------
(* One library on the root: no recovery reads a snapshot that another call *)
(* changes before the recovery has the lock.                               *)

OneLibrary == \A c, d \in Callers : c = d

\* What a recovery is about to revert is prepared still.
StillPrepared == \A c \in Callers :
    pc[c] \in {"queued", "acquire", "revert"} /\ op[c] = "recover" => snapshot[unit[c]].state = "prepared"

LEMMA PreparedStep ==
    OneLibrary /\ IInv /\ StillPrepared /\ [Next]_vars => StillPrepared'
  <1> SUFFICES ASSUME OneLibrary, IInv, StillPrepared, [Next]_vars PROVE StillPrepared'
    OBVIOUS
  <1>0. TypeOK
    BY DEF IInv, Inv, TypeInv
  <1> USE DEF Goto, At, Step, disk, local, bound, Keep
  <1>1. ASSUME NEW c \in Callers, CallStep(c) PROVE StillPrepared'
    <2>1. ASSUME NEW u \in Units, RecoverRead(c, u) PROVE StillPrepared'
      BY <1>0, <1>1, <2>1 DEF RecoverRead, StillPrepared, TypeOK
    <2>2. ASSUME NEW u \in Units, ApplyStart(c, u) \/ UndoRead(c, u) PROVE StillPrepared'
      BY <1>0, <1>1, <2>2 DEF ApplyStart, UndoRead, StillPrepared, TypeOK
    <2>3. CASE ListPrepared(c) \/ RecoveryFault(c) \/ NewLibrary(c)
      BY <1>0, <1>1, <2>3 DEF ListPrepared, RecoveryFault, NewLibrary, StillPrepared, TypeOK
    <2> QED
      BY <1>1, <2>1, <2>2, <2>3 DEF CallStep
  <1>2. ASSUME NEW c \in Callers, LockStep(c) PROVE StillPrepared'
    BY <1>0, <1>2 DEF LockStep, Enter, Acquire, LockFailed, Release, ReleaseFault, StillPrepared, TypeOK
  <1>3. ASSUME NEW c \in Callers, ApplyStep(c) PROVE StillPrepared'
    <2>1. pc[c] \in ApplyLabels
      BY <1>3 DEF ApplyStep, ReadTarget, RefuseDrift, Validate, WritePrepared, JournalPrepared, WriteTarget,
           JournalWritten, CommitSnapshot, JournalCommitted, ApplyThrows, RollbackTarget, RollbackEnds,
           JournalFailed, ApplyLabels
    <2>2. op' = op /\ op[c] = "apply"
      BY <1>3, <2>1 DEF ApplyStep, ReadTarget, RefuseDrift, Validate, WritePrepared, JournalPrepared, WriteTarget,
           JournalWritten, CommitSnapshot, JournalCommitted, ApplyThrows, RollbackTarget, RollbackEnds,
           JournalFailed, IInv, Inv, Bases, BaseOf
    <2> QED
      BY <1>3, <2>2 DEF OneLibrary, StillPrepared
  <1>4. ASSUME NEW c \in Callers, RecoverStep(c) PROVE StillPrepared'
    <2>1. CASE MarkUndone(c) \/ JournalUndone(c) \/ RecoverRefused(c)
      <3>1. pc'[c] \in {"journalUndone", "release"}
        BY <1>0, <2>1 DEF MarkUndone, JournalUndone, RecoverRefused, TypeOK
      <3> QED
        BY <1>4, <3>1 DEF OneLibrary, StillPrepared
    <2>2. CASE SkipTarget(c) \/ RevertTarget(c)
      BY <1>0, <1>4, <2>2 DEF SkipTarget, RevertTarget, StillPrepared, TypeOK
    <2> QED
      BY <1>4, <2>1, <2>2 DEF RecoverStep
  <1>5. ASSUME NEW c \in Callers, UndoStep(c) PROVE StillPrepared'
    <2>1. pc[c] \in UndoLabels
      BY <1>5 DEF UndoStep, Preflight, UnwriteTarget, UndoJournal, UndoSnapshot, UndoThrows, Compensate,
           CompensateFault, CompensateEnds, UndoLabels
    <2>2. op' = op /\ op[c] = "undo"
      BY <1>5, <2>1 DEF UndoStep, Preflight, UnwriteTarget, UndoJournal, UndoSnapshot, UndoThrows, Compensate,
           CompensateFault, CompensateEnds, IInv, Inv, Bases, BaseOf
    <2> QED
      BY <1>5, <2>2 DEF OneLibrary, StillPrepared
  <1>6. \A p \in Paths, b \in UserBytes : UserEdit(p, b) => StillPrepared'
    BY DEF UserEdit, StillPrepared
  <1>7. Crash \/ UNCHANGED vars => StillPrepared'
    BY DEF Crash, vars, StillPrepared
  <1> QED
    BY <1>1, <1>2, <1>3, <1>4, <1>5, <1>6, <1>7 DEF Next

\* With one library on the root, recovery never takes back a committed unit's
\* bytes, whatever crashes, throws or is edited: the race of run "raced" needs
\* a second one, which commits between the read and the lock of the recovery.
THEOREM RecoveryTakesNothing ==
    ASSUME TagsDiffer, OneLibrary
    PROVE  Spec => RecoveryKeepsCommitted
  <1> DEFINE Keeps == \A c \in Callers : At(c, "revert") /\ k'[c] # k[c] =>
                 \A p \in Paths : CommittedBytes(p) => files'[p] = files[p]
  <1>1. ASSUME IInv, StillPrepared, [Next]_vars, NEW c \in Callers, At(c, "revert"), k'[c] # k[c],
               NEW p \in Paths, CommittedBytes(p)
        PROVE  files'[p] = files[p]
    <2> USE DEF At, disk, local
    <2>0. TypeOK /\ BaseOf(c) /\ ShapeOf(c) /\ unit[c] \in Units /\ op[c] = "recover"
      BY <1>1, Holding DEF BaseOf, RecoverLabels, Busy
    <2>1. CASE RevertTarget(c)
      <3>1. /\ files' = [files EXCEPT ![Target(unit[c], k[c])] = seen[c][k[c]]]
            /\ files[Target(unit[c], k[c])] = After(unit[c], k[c]) /\ k[c] \in 1..Size(unit[c])
        BY <2>0, <2>1 DEF RevertTarget, WriteOne, ShapeOf
      <3>2. PICK v \in Units : /\ snapshot[v].state = "committed"
                               /\ \E i \in 1..Size(v) : Target(v, i) = p /\ After(v, i) = files[p]
        BY <1>1 DEF CommittedBytes
      <3>3. v # unit[c]
        BY <1>1, <2>0, <3>2 DEF StillPrepared
      <3>4. p # Target(unit[c], k[c])
        BY <2>0, <3>1, <3>2, <3>3, TagsDiffer DEF TagsDiffer
      <3> QED
        BY <2>0, <3>1, <3>4 DEF TypeOK
    <2>2. CASE ~RevertTarget(c)
      <3>1. ASSUME Next PROVE files' = files
        <4>1. ASSUME NEW d \in Callers, CallStep(d) PROVE files' = files
          BY <4>1 DEF CallStep, ListPrepared, RecoveryFault, NewLibrary, RecoverRead, ApplyStart, UndoRead
        <4>2. ASSUME NEW d \in Callers, LockStep(d) PROVE files' = files
          BY <4>2 DEF LockStep, Enter, Acquire, LockFailed, Release, ReleaseFault
        <4>3. ASSUME NEW d \in Callers PROVE ~ApplyStep(d) /\ ~UndoStep(d)
          <5>1. d = c
            BY OneLibrary DEF OneLibrary
          <5> QED
            BY <1>1, <5>1 DEF ApplyStep, ReadTarget, RefuseDrift, Validate, WritePrepared, JournalPrepared,
                 WriteTarget, JournalWritten, CommitSnapshot, JournalCommitted, ApplyThrows, RollbackTarget,
                 RollbackEnds, JournalFailed, UndoStep, Preflight, UnwriteTarget, UndoJournal, UndoSnapshot,
                 UndoThrows, Compensate, CompensateFault, CompensateEnds
        <4>4. ASSUME NEW d \in Callers, RecoverStep(d) PROVE files' = files
          <5>1. d = c
            BY OneLibrary DEF OneLibrary
          <5> QED
            BY <2>2, <4>4, <5>1 DEF RecoverStep, SkipTarget, RecoverRefused, MarkUndone, JournalUndone
        <4>5. ASSUME NEW q \in Paths, NEW b \in UserBytes PROVE ~UserEdit(q, b)
          BY <1>1 DEF UserEdit
        <4>6. Crash => files' = files
          BY DEF Crash
        <4> QED
          BY <3>1, <4>1, <4>2, <4>3, <4>4, <4>5, <4>6 DEF Next
      <3>2. CASE UNCHANGED vars
        BY <3>2 DEF vars
      <3> QED
        BY <1>1, <3>1, <3>2
    <2> QED
      BY <2>1, <2>2
  <1>2. IInv /\ StillPrepared /\ [Next]_vars => Keeps
    BY <1>1
  <1>3. Init => StillPrepared
    BY DEF Init, StillPrepared
  <1> QED
    BY <1>2, <1>3, PreparedStep, Invariance, OneLibrary, PTL DEF Spec, RecoveryKeepsCommitted
=============================================================================
