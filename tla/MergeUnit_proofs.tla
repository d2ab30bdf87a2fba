-------------------------- MODULE MergeUnit_proofs --------------------------
(***************************************************************************)
(* Proofs about MergeUnit for any calls, processes, units, skills and      *)
(* bounds.                                                                 *)
(***************************************************************************)
EXTENDS MergeUnit, SequenceTheorems, TLAPS

\* The parts of TypeOK: the tree, the files, the calls, and where a call may be.
TreeOK == live \in [Skills -> Bodies] /\ arch \in [Skills -> Bodies]
FilesOK ==
    /\ journal \in [Units -> [phase : Phases, cps : Nat]]
    /\ \A u \in Units : journal[u].cps <= Size(u)
    /\ snap \in [Units -> [Skills -> Bodies]]
    /\ receipt \subseteq Units /\ evidence \subseteq Units
CallsOK ==
    /\ lock \in Calls \cup {NoCall}
    /\ pc \in [Calls -> Labels] /\ unit \in [Calls -> Units \cup {NoUnit}]
    /\ n \in [Calls -> Nat] /\ seen \in [Calls -> Glances]
    /\ plan \in [Calls -> [Skills -> Bodies]] /\ todo \in [Calls -> SUBSET Units]
BoundsOK ==
    /\ touched \subseteq Editable
    /\ faults \in 0..MaxFaults /\ crashes \in 0..MaxCrashes /\ merges \in 0..MaxMerges
Place(p) ==
    /\ lock = p <=> pc[p] \in Inside
    /\ unit[p] = NoUnit <=> pc[p] \in Resting
    /\ n[p] <= IF pc[p] \in Inside THEN Size(unit[p]) ELSE 0
    /\ pc[p] = "archiving" => n[p] < Size(unit[p])
    /\ seen[p].cps <= IF pc[p] \in Resting THEN 0 ELSE Size(unit[p])

LEMMA TypeParts ==
    TypeOK <=> TreeOK /\ FilesOK /\ CallsOK /\ BoundsOK /\ \A p \in Calls : Place(p)
  BY DEF TypeOK, TreeOK, FilesOK, CallsOK, BoundsOK, Place

LEMMA TypedNext ==
    ASSUME TreeOK', FilesOK', CallsOK', BoundsOK', \A p \in Calls : Place(p)'
    PROVE  TypeOK'
  BY DEF TypeOK, TreeOK, FilesOK, CallsOK, BoundsOK, Place

\* What the constants say of a unit.
LEMMA UnitFacts ==
    ASSUME NEW u \in Units
    PROVE  /\ Size(u) \in Nat /\ Target[u] \in Skills
           /\ \A i \in 1..Size(u) : Sources[u][i] \in Skills /\ Sources[u][i] # Target[u]
           /\ \A i, j \in 1..Size(u) : Sources[u][i] = Sources[u][j] => i = j
  BY UnitsAssumption, LenProperties, ElementOfSeq DEF Size

LEMMA InitTyped == Init => TypeOK
  <1> SUFFICES ASSUME Init PROVE TypeOK
    OBVIOUS
  <1>1. TreeOK
    BY NamesAssumption DEF Init, TreeOK, NoBodies, Bodies
  <1>2. \A u \in Units : Size(u) \in Nat
    BY UnitFacts
  <1>3. FilesOK
    BY <1>2 DEF Init, FilesOK, NoJournal, NoBodies, Phases, Bodies
  <1>4. CallsOK /\ \A p \in Calls : pc[p] \in {"boot", "idle"} /\ n[p] = 0
    BY DEF Init, First, CallsOK, Unread, Glances, NoBodies, Phases, Bodies, Labels, Resting
  <1>5. \A p \in Calls : Place(p)
    BY <1>4, UnitsAssumption DEF Init, Unread, Place, Inside, Resting
  <1>6. BoundsOK
    BY BoundsAssumption DEF Init, BoundsOK
  <1> QED
    BY <1>1, <1>3, <1>4, <1>5, <1>6, TypeParts

------------------------------------------------------------------------------
(* One call takes a step.                                                  *)

\* A step of call p leaves the calls of the others, and their hold of the lock.
Alone(p) ==
    /\ \A q \in Calls \ {p} : /\ pc'[q] = pc[q] /\ unit'[q] = unit[q]
                               /\ n'[q] = n[q] /\ seen'[q] = seen[q]
    /\ lock' = lock \/ (lock \in {p, NoCall} /\ lock' \in {p, NoCall})

LEMMA OthersPlaced ==
    ASSUME TypeOK, NEW p \in Calls, CallsOK', Alone(p), Place(p)'
    PROVE  \A q \in Calls : Place(q)'
  <1> SUFFICES ASSUME NEW q \in Calls, q # p PROVE Place(q)'
    OBVIOUS
  <1>1. Place(q) /\ q # NoCall
    BY TypeParts, UnitsAssumption
  <1> QED
    BY <1>1 DEF Place, Alone

LEMMA Logged ==
    ASSUME FilesOK, NEW u \in Units, NEW ph \in Phases, NEW c \in 0..Size(u), Log(u, ph, c),
           snap' = snap, receipt' \subseteq Units, evidence' \subseteq Units
    PROVE  FilesOK'
  BY UnitFacts DEF FilesOK, Log

\* Locals after the call went on, or returned.
Going(p) == n' = n /\ UNCHANGED <<unit, plan, seen, todo>>
LEMMA Went ==
    ASSUME TypeOK, NEW p \in Calls, NEW l \in Labels, Goto(p, l), Going(p),
           lock' = lock \/ (lock \in {p, NoCall} /\ lock' \in {p, NoCall}),
           lock' = p <=> l \in Inside,
           pc[p] \in Resting <=> l \in Resting,
           n[p] <= IF l \in Inside THEN Size(unit[p]) ELSE 0,
           l = "archiving" => n[p] < Size(unit[p])
    PROVE  CallsOK' /\ \A q \in Calls : Place(q)'
  <1>1. CallsOK
    BY TypeParts
  <1>2. CallsOK' /\ Alone(p) /\ pc'[p] = l
    BY <1>1 DEF CallsOK, Goto, Going, Alone
  <1>3. Place(p)'
    BY <1>2, TypeParts DEF Going, Place
  <1> QED
    BY <1>2, <1>3, OthersPlaced

LEMMA Returned ==
    ASSUME TypeOK, NEW p \in Calls, NEW l \in Resting, Return(p, l), todo' \in [Calls -> SUBSET Units],
           lock' = lock \/ (lock \in {p, NoCall} /\ lock' \in {p, NoCall}), lock' # p
    PROVE  CallsOK' /\ \A q \in Calls : Place(q)'
  <1>1. CallsOK /\ l \in Labels /\ l \notin Inside
    BY TypeParts DEF Labels, Resting, Inside
  <1>2. /\ CallsOK' /\ Alone(p)
        /\ pc'[p] = l /\ unit'[p] = NoUnit /\ n'[p] = 0 /\ seen'[p].cps = 0
    BY <1>1 DEF CallsOK, Return, Goto, Alone, NoBodies, Bodies, Unread, Glances, Phases
  <1>3. Place(p)'
    BY <1>1, <1>2 DEF Place, Resting
  <1> QED
    BY <1>2, <1>3, OthersPlaced

\* What a call that runs works with.
LEMMA ActiveFacts ==
    ASSUME TypeOK, NEW p \in Calls, pc[p] \notin Resting
    PROVE  /\ unit[p] \in Units /\ T(p) \in Skills /\ Size(unit[p]) \in Nat
           /\ \A i \in 1..Size(unit[p]) : Source(p, i) \in Skills /\ Source(p, i) # T(p)
           /\ \A i, j \in 1..Size(unit[p]) : Source(p, i) = Source(p, j) => i = j
           /\ plan[p] \in [Skills -> Bodies] /\ After(p) \in Bodies
           /\ n[p] \in Nat /\ n[p] <= Size(unit[p]) /\ seen[p].cps \in 0..Size(unit[p])
  <1>1. CallsOK /\ Place(p)
    BY TypeParts
  <1>2. unit[p] \in Units
    BY <1>1 DEF CallsOK, Place
  <1>3. Size(unit[p]) \in Nat
    BY <1>2, UnitFacts
  <1>4. n[p] \in Nat /\ n[p] <= Size(unit[p]) /\ seen[p].cps \in 0..Size(unit[p])
    BY <1>1, <1>3 DEF CallsOK, Glances, Place
  <1>5. plan[p] \in [Skills -> Bodies] /\ After(p) \in Bodies
    BY <1>1, <1>2 DEF CallsOK, After, Bodies
  <1> QED
    BY <1>2, <1>3, <1>4, <1>5, UnitFacts DEF T, Source

\* One body changes, or a skill moves to or from the archive.
LEMMA TreeTyped ==
    ASSUME TreeOK, NEW s \in Skills,
           \/ \E b \in Bodies : live' = [live EXCEPT ![s] = b] /\ arch' = arch
           \/ Archived(s) \/ Restored(s) \/ UNCHANGED tree
    PROVE  TreeOK'
  BY DEF TreeOK, Archived, Restored, CanRestore, Bodies, tree

LEMMA ReadTyped ==
    ASSUME TreeOK, NEW u \in Units PROVE Read(u) \in [Skills -> Bodies]
  BY DEF TreeOK, Read, Bodies

LEMMA AssembleTyped == ASSUME TypeOK, NEW p \in Calls, NEW u \in Units, Assemble(p, u) PROVE TypeOK'
  <1>1. TreeOK /\ FilesOK /\ CallsOK /\ BoundsOK /\ Place(p)
    BY TypeParts
  <1>2. TreeOK' /\ FilesOK' /\ BoundsOK'
    BY <1>1, BoundsAssumption DEF Assemble, TreeOK, FilesOK, BoundsOK, tree, files
  <1>3. CallsOK' /\ Alone(p)
    BY <1>1, ReadTyped DEF Assemble, Goto, CallsOK, Alone, Labels
  <1>4. pc'[p] = "assembled" /\ unit'[p] = u /\ n'[p] = 0 /\ seen'[p].cps <= Size(u)
    BY <1>1, UnitFacts DEF Assemble, Goto, CallsOK, Glances, Place, Inside, Resting
  <1>5. lock' = lock /\ lock # p
    BY <1>1 DEF Assemble, Place, Inside
  <1>6. Place(p)'
    BY <1>4, <1>5, UnitsAssumption DEF Place, Inside, Resting
  <1> QED
    BY <1>2, <1>3, <1>6, OthersPlaced, TypedNext

LEMMA PrepareTyped == ASSUME TypeOK, NEW p \in Calls, Prepare(p) PROVE TypeOK'
  <1>1. TreeOK /\ FilesOK /\ CallsOK /\ BoundsOK /\ Place(p)
    BY TypeParts
  <1>2. unit[p] \in Units /\ Size(unit[p]) \in Nat /\ n[p] = 0 /\ lock # p
    BY <1>1, ActiveFacts DEF Prepare, Place, Inside, Resting, CallsOK
  <1>3. TreeOK' /\ BoundsOK'
    BY <1>1 DEF Prepare, TreeOK, BoundsOK, tree, bound
  <1>4. FilesOK'
    BY <1>1, <1>2, ReadTyped DEF Prepare, FilesOK, Log, Phases
  <1>5. CallsOK' /\ \A q \in Calls : Place(q)'
    <2>1. Goto(p, "prepared") /\ Going(p) /\ lock' = lock
      BY DEF Prepare, Going
    <2> QED
      BY <1>2, <2>1, Went DEF Prepare, Labels, Inside, Resting
  <1> QED
    BY <1>3, <1>4, <1>5, TypedNext

\* The call ends before it has the lock.
LEMMA QuitTyped ==
    ASSUME TypeOK, NEW p \in Calls, CommitOnce(p) \/ CommitBusy(p) \/ BackBusy(p)
    PROVE  TypeOK'
  <1>1. TreeOK /\ FilesOK /\ CallsOK /\ BoundsOK /\ Place(p)
    BY TypeParts
  <1>2. TreeOK' /\ FilesOK' /\ BoundsOK' /\ todo' = todo /\ lock' = lock /\ lock # p
    BY <1>1 DEF CommitOnce, CommitBusy, BackBusy, TreeOK, FilesOK, BoundsOK, tree, files, bound, Place, Inside
  <1>3. CASE Return(p, "idle") \/ Return(p, "recover")
    <2>1. CallsOK' /\ \A q \in Calls : Place(q)'
      BY <1>1, <1>2, <1>3, Returned DEF CallsOK, Resting
    <2> QED
      BY <1>2, <2>1, TypedNext
  <1>4. CASE Goto(p, "waiting") /\ UNCHANGED <<unit, plan, n, seen>> /\ pc[p] = "prepared"
    <2>1. n[p] <= 0
      BY <1>1, <1>4 DEF Place, Inside
    <2>2. CallsOK' /\ \A q \in Calls : Place(q)'
      BY <1>2, <1>4, <2>1, Went DEF Going, Labels, Inside, Resting, Reading
    <2> QED
      BY <1>2, <2>2, TypedNext
  <1> QED
    BY <1>3, <1>4 DEF CommitOnce, CommitBusy, BackBusy

LEMMA CommitLockTyped == ASSUME TypeOK, NEW p \in Calls, CommitLock(p) PROVE TypeOK'
  <1>1. TreeOK /\ FilesOK /\ CallsOK /\ BoundsOK /\ Place(p)
    BY TypeParts
  <1>2. unit[p] \in Units /\ Size(unit[p]) \in Nat
    BY ActiveFacts DEF CommitLock, Resting
  <1>3. TreeOK' /\ BoundsOK'
    BY <1>1 DEF CommitLock, TreeOK, BoundsOK, tree, bound
  <1>4. FilesOK'
    <2>1. Log(unit[p], "target-pending", 0) /\ UNCHANGED <<snap, receipt, evidence>>
      BY DEF CommitLock
    <2> QED
      BY <1>1, <1>2, <2>1, Logged DEF FilesOK, Phases
  <1>5. CallsOK' /\ Alone(p)
    BY <1>1 DEF CommitLock, Goto, CallsOK, Alone, Labels, Inside
  <1>6. pc'[p] = "locked" /\ unit'[p] = unit[p] /\ n'[p] <= Size(unit[p]) /\ lock' = p
        /\ seen'[p].cps <= Size(unit[p])
    BY <1>1, ActiveFacts DEF CommitLock, Goto, CallsOK, Resting
  <1>7. Place(p)'
    BY <1>2, <1>6, UnitsAssumption DEF Place, Inside, Resting
  <1> QED
    BY <1>3, <1>4, <1>5, <1>7, OthersPlaced, TypedNext

\* A step under the lock that writes the tree and goes on.
LEMMA TreeStepTyped ==
    ASSUME TypeOK, NEW p \in Calls, NEW s \in Skills, NEW l \in Inside \ {"archiving"},
           pc[p] \in Inside, lock' = lock, Goto(p, l), UNCHANGED <<files, unit, plan, n, todo, seen, bound>>,
           \/ \E b \in Bodies : live' = [live EXCEPT ![s] = b] /\ arch' = arch
           \/ Archived(s) \/ Restored(s) \/ UNCHANGED tree
    PROVE  TypeOK'
  <1>1. TreeOK /\ FilesOK /\ CallsOK /\ BoundsOK /\ Place(p)
    BY TypeParts
  <1>2. TreeOK' /\ FilesOK' /\ BoundsOK'
    BY <1>1, TreeTyped DEF FilesOK, BoundsOK, files, bound
  <1>3. lock = p /\ unit[p] # NoUnit /\ n[p] <= Size(unit[p])
    BY <1>1 DEF Place, Inside, Resting
  <1>4. pc[p] \notin Resting /\ l \notin Resting
    BY DEF Inside, Resting
  <1>5. CallsOK' /\ \A q \in Calls : Place(q)'
    BY <1>3, <1>4, Went DEF Going, Labels
  <1> QED
    BY <1>2, <1>5, TypedNext

\* A step under the lock that writes a phase, or another file, and goes on.
LEMMA FileStepTyped ==
    ASSUME TypeOK, NEW p \in Calls, NEW l \in Inside,
           pc[p] \in Inside, lock' = lock, Goto(p, l), UNCHANGED <<tree, unit, plan, n, todo, seen, bound>>,
           l = "archiving" => n[p] < Size(unit[p]), FilesOK'
    PROVE  TypeOK'
  <1>1. TreeOK /\ CallsOK /\ BoundsOK /\ Place(p)
    BY TypeParts
  <1>2. TreeOK' /\ BoundsOK'
    BY <1>1 DEF TreeOK, BoundsOK, tree, bound
  <1>3. lock = p /\ unit[p] # NoUnit /\ n[p] <= Size(unit[p])
    BY <1>1 DEF Place, Inside, Resting
  <1>4. pc[p] \notin Resting /\ l \notin Resting
    BY DEF Inside, Resting
  <1>5. CallsOK' /\ \A q \in Calls : Place(q)'
    BY <1>3, <1>4, Went DEF Going, Labels
  <1> QED
    BY <1>2, <1>5, TypedNext

\* A step under the lock that also counts, or drops the units left to recover.
LEMMA CountStepTyped ==
    ASSUME TypeOK, NEW p \in Calls, NEW l \in Inside \ {"archiving"}, NEW k \in 0..Size(unit[p]),
           pc[p] \in Inside, lock' = lock, Goto(p, l), n' = [n EXCEPT ![p] = k],
           UNCHANGED <<unit, plan, seen>>, todo' \in [Calls -> SUBSET Units],
           TreeOK', FilesOK', BoundsOK'
    PROVE  TypeOK'
  <1>1. CallsOK /\ Place(p) /\ Size(unit[p]) \in Nat
    BY TypeParts, ActiveFacts DEF Inside, Resting
  <1>2. CallsOK' /\ Alone(p) /\ pc'[p] = l /\ n'[p] = k
    BY <1>1 DEF CallsOK, Goto, Alone, Labels
  <1>3. Place(p)'
    BY <1>1, <1>2 DEF Place, Inside, Resting
  <1> QED
    BY <1>2, <1>3, OthersPlaced, TypedNext

\* The apply.
LEMMA ApplyTyped ==
    ASSUME TypeOK, NEW p \in Calls,
           WriteTarget(p) \/ Refuse(p) \/ GiveUp(p) \/ WriteSupport(p) \/ UndoTarget(p)
    PROVE  TypeOK'
  <1>1. TreeOK /\ unit[p] \in Units /\ T(p) \in Skills /\ After(p) \in Bodies
        /\ plan[p] \in [Skills -> Bodies] /\ pc[p] \in Inside
    BY TypeParts, ActiveFacts DEF WriteTarget, Refuse, GiveUp, WriteSupport, UndoTarget, Resting, Inside
  <1>2. unit[p] \in Bodies /\ plan[p][T(p)] \in Bodies /\ live[T(p)] \in Bodies
    BY <1>1 DEF Bodies, TreeOK
  <1>3. CASE WriteTarget(p)
    BY <1>1, <1>3, TreeStepTyped DEF WriteTarget, Inside
  <1>4. CASE Refuse(p)
    BY <1>1, <1>4, TreeStepTyped DEF Refuse, Inside
  <1>5. CASE GiveUp(p)
    BY <1>1, <1>5, TreeStepTyped DEF GiveUp, Inside
  <1>6. CASE WriteSupport(p)
    <2>1. live' = [live EXCEPT ![T(p)] = IF live[T(p)] = "bare" THEN unit[p] ELSE live[T(p)]]
      BY <1>6 DEF WriteSupport
    <2> QED
      BY <1>1, <1>2, <1>6, <2>1, TreeStepTyped DEF WriteSupport, Inside
  <1>7. CASE UndoTarget(p)
    <2>1. \/ \E b \in Bodies : live' = [live EXCEPT ![T(p)] = b] /\ arch' = arch
          \/ Archived(T(p)) \/ UNCHANGED tree
      <3>1. CASE Creates(p)
        BY <1>7, <3>1 DEF UndoTarget
      <3>2. CASE ~Creates(p)
        <4>1. live' = [live EXCEPT ![T(p)] = IF live[T(p)] = After(p) THEN plan[p][T(p)] ELSE live[T(p)]]
              /\ arch' = arch
          BY <1>7, <3>2 DEF UndoTarget
        <4> QED
          BY <1>2, <4>1
      <3> QED
        BY <3>1, <3>2
    <2>2. /\ Goto(p, "failed") /\ lock' = lock
          /\ UNCHANGED <<files, unit, plan, n, todo, seen, bound>>
      BY <1>7 DEF UndoTarget
    <2> QED
      BY <1>1, <2>1, <2>2, TreeStepTyped DEF Inside
  <1> QED
    BY <1>3, <1>4, <1>5, <1>6, <1>7

\* Its phases and files.
LEMMA PhaseTyped ==
    ASSUME TypeOK, NEW p \in Calls,
           \/ LogWritten(p) \/ LogSupport(p) \/ AllArchived(p)
           \/ WriteReceipt(p) \/ UnitWritten(p) \/ WriteEvidence(p) \/ Committed(p) \/ Failed(p)
    PROVE  TypeOK'
  <1>1. FilesOK /\ unit[p] \in Units /\ Size(unit[p]) \in Nat /\ n[p] \in 0..Size(unit[p])
        /\ seen[p].cps \in 0..Size(unit[p]) /\ pc[p] \in Inside
    BY TypeParts, ActiveFacts DEF LogWritten, LogSupport, AllArchived, WriteReceipt,
       UnitWritten, WriteEvidence, Committed, Failed, Resting, Inside
  <1>2. lock' = lock /\ UNCHANGED <<tree, unit, plan, n, todo, seen, bound>>
    BY DEF LogWritten, LogSupport, AllArchived, WriteReceipt,
       UnitWritten, WriteEvidence, Committed, Failed
  <1>3. \E l \in Inside \ {"archiving"} : Goto(p, l)
    BY DEF LogWritten, LogSupport, AllArchived, WriteReceipt,
       UnitWritten, WriteEvidence, Committed, Failed, Inside
  <1>4. FilesOK'
    <2>1. snap' = snap /\ receipt' \subseteq Units /\ evidence' \subseteq Units
      BY <1>1 DEF LogWritten, LogSupport, AllArchived, WriteReceipt,
         UnitWritten, WriteEvidence, Committed, Failed, FilesOK
    <2>2. CASE journal' = journal
      BY <1>1, <2>1, <2>2 DEF FilesOK
    <2>3. CASE journal' # journal
      <3>1. \E ph \in Phases, c \in 0..Size(unit[p]) : Log(unit[p], ph, c)
        BY <1>1, <2>3 DEF LogWritten, LogSupport, AllArchived, WriteReceipt,
           UnitWritten, WriteEvidence, Committed, Failed, Phases
      <3> QED
        BY <1>1, <2>1, <3>1, Logged
    <2> QED
      BY <2>2, <2>3
  <1> QED
    BY <1>1, <1>2, <1>3, <1>4, FileStepTyped

LEMMA CheckpointTyped == ASSUME TypeOK, NEW p \in Calls, Checkpoint(p) PROVE TypeOK'
  <1>1. /\ TreeOK /\ FilesOK /\ CallsOK /\ BoundsOK /\ Place(p) /\ pc[p] = "written"
        /\ unit[p] \in Units /\ Size(unit[p]) \in Nat /\ n[p] \in Nat /\ n[p] < Size(unit[p])
    BY TypeParts, ActiveFacts DEF Checkpoint, Resting
  <1>2. TreeOK' /\ BoundsOK'
    BY <1>1 DEF Checkpoint, TreeOK, BoundsOK, tree, bound
  <1>3. n[p] + 1 \in 0..Size(unit[p]) /\ "source-archiving" \in Phases
    BY <1>1 DEF Phases
  <1>4. FilesOK'
    BY <1>1, <1>3, Logged DEF Checkpoint, FilesOK
  <1>5. CallsOK' /\ Alone(p)
    <2>1. seen' \in [Calls -> Glances]
      BY <1>1, <1>3 DEF Checkpoint, CallsOK, Glances
    <2> QED
      BY <1>1, <2>1 DEF Checkpoint, Goto, CallsOK, Alone, Labels, Inside
  <1>6. pc'[p] = "archiving" /\ seen'[p].cps = n[p] + 1 /\ UNCHANGED <<lock, unit, n>>
    BY <1>1 DEF Checkpoint, Goto, CallsOK, Glances
  <1>7. Place(p)'
    BY <1>1, <1>3, <1>6 DEF Place, Inside, Resting
  <1> QED
    BY <1>2, <1>4, <1>5, <1>7, OthersPlaced, TypedNext

\* The steps that count sources.
LEMMA SourceTyped ==
    ASSUME TypeOK, NEW p \in Calls, ArchiveSource(p) \/ UndoSource(p) \/ RestoreSource(p)
    PROVE  TypeOK'
  <1>1. /\ TreeOK /\ FilesOK /\ CallsOK /\ BoundsOK
        /\ unit[p] \in Units /\ Size(unit[p]) \in Nat /\ n[p] \in 0..Size(unit[p]) /\ pc[p] \in Inside
        /\ \A i \in 1..Size(unit[p]) : Source(p, i) \in Skills
        /\ plan[p] \in [Skills -> Bodies]
    BY TypeParts, ActiveFacts DEF ArchiveSource, UndoSource, RestoreSource, Resting, Inside
  <1>2. FilesOK' /\ BoundsOK' /\ lock' = lock /\ UNCHANGED <<unit, plan, seen>>
    BY <1>1 DEF ArchiveSource, UndoSource, RestoreSource, files, bound, FilesOK, BoundsOK
  <1>3. todo' \in [Calls -> SUBSET Units]
    BY <1>1 DEF ArchiveSource, UndoSource, RestoreSource, Thrown, CallsOK
  <1>4. CASE ArchiveSource(p)
    <2>1. n[p] + 1 \in 1..Size(unit[p]) /\ n[p] + 1 \in 0..Size(unit[p])
      BY <1>1, <1>4, TypeParts DEF ArchiveSource, Place
    <2>2. TreeOK'
      BY <1>1, <1>4, <2>1, TreeTyped DEF ArchiveSource
    <2> QED
      BY <1>1, <1>2, <1>3, <1>4, <2>1, <2>2, CountStepTyped DEF ArchiveSource, Inside
  <1>5. CASE UndoSource(p)
    <2>1. n[p] \in 1..Size(unit[p]) /\ n[p] - 1 \in 0..Size(unit[p])
      BY <1>1, <1>5 DEF UndoSource
    <2>2. TreeOK'
      BY <1>1, <1>5, <2>1, TreeTyped DEF UndoSource
    <2>3. Goto(p, "undo")
      BY <1>1, <1>5 DEF UndoSource, Goto, CallsOK
    <2> QED
      BY <1>1, <1>2, <1>3, <1>5, <2>1, <2>2, <2>3, CountStepTyped DEF UndoSource, Inside
  <1>6. CASE RestoreSource(p)
    <2>1. n[p] + 1 \in 1..Size(unit[p]) /\ n[p] + 1 \in 0..Size(unit[p])
      BY <1>1, <1>6 DEF RestoreSource
    <2>2. Source(p, n[p] + 1) \in Skills /\ plan[p][Source(p, n[p] + 1)] \in Bodies
      BY <1>1, <2>1
    <2>3. TreeOK'
      BY <1>1, <1>6, <2>2, TreeTyped DEF RestoreSource, tree
    <2>4. \E l \in {"sources", "release"} : Goto(p, l)
      BY <1>1, <1>6 DEF RestoreSource, Thrown, Goto, CallsOK
    <2> QED
      BY <1>1, <1>2, <1>3, <1>6, <2>1, <2>3, <2>4, CountStepTyped DEF RestoreSource, Inside
  <1> QED
    BY <1>4, <1>5, <1>6

\* The end of a call under the lock, and of a recovery.
LEMMA EndTyped ==
    ASSUME TypeOK, NEW p \in Calls, Release(p) \/ Recovered(p) \/ Boot(p)
    PROVE  TypeOK'
  <1>1. TreeOK /\ FilesOK /\ CallsOK /\ BoundsOK /\ Place(p) /\ NoCall # p
    BY TypeParts, UnitsAssumption
  <1>2. TreeOK' /\ FilesOK' /\ BoundsOK'
    BY <1>1 DEF Release, Recovered, Boot, TreeOK, FilesOK, BoundsOK, tree, files, bound
  <1>3. todo' \in [Calls -> SUBSET Units]
    BY <1>1 DEF Release, Recovered, Boot, CallsOK
  <1>4. CASE Release(p)
    <2>1. \E l \in Resting : Return(p, l)
      BY <1>4 DEF Release, Resting
    <2>2. lock = p /\ lock' = NoCall
      BY <1>1, <1>4 DEF Release, Place, Inside
    <2> QED
      BY <1>1, <1>2, <1>3, <2>1, <2>2, Returned, TypedNext
  <1>5. CASE Recovered(p) \/ Boot(p)
    <2>1. \E l \in {"idle", "recover"} : Goto(p, l) /\ pc'[p] = l
      BY <1>1, <1>5 DEF Recovered, Boot, Goto, CallsOK
    <2>2. pc[p] \in Resting
      BY <1>5 DEF Recovered, Boot, Resting
    <2>3. CallsOK' /\ Alone(p) /\ UNCHANGED <<unit, n, seen, lock>>
      BY <1>1, <1>3, <1>5 DEF Recovered, Boot, Goto, CallsOK, Alone, Labels, Resting
    <2>4. Place(p)'
      BY <1>1, <2>1, <2>2, <2>3 DEF Place, Inside, Resting
    <2> QED
      BY <1>2, <2>3, <2>4, OthersPlaced, TypedNext
  <1> QED
    BY <1>4, <1>5

\* The end of a process, and of all its calls.
LEMMA CrashTyped == ASSUME TypeOK, NEW h, Crash(h) PROVE TypeOK'
  <1>1. TreeOK /\ FilesOK /\ CallsOK /\ BoundsOK /\ NoCall \notin Calls
    BY TypeParts, UnitsAssumption
  <1>2. TreeOK' /\ FilesOK' /\ BoundsOK'
    BY <1>1, BoundsAssumption DEF Crash, TreeOK, FilesOK, BoundsOK, tree, files
  <1>3. CallsOK'
    BY <1>1 DEF Crash, First, CallsOK, Unread, Glances, NoBodies, Phases, Bodies, Labels, Resting
  <1>4. ASSUME NEW p \in Calls PROVE Place(p)'
    <2>1. Place(p)
      BY TypeParts
    <2>2. CASE p \in Ended(h)
      <3>1. pc'[p] \in {"boot", "idle"} /\ unit'[p] = NoUnit /\ n'[p] = 0 /\ seen'[p].cps = 0
        BY <2>2 DEF Crash, First, Unread
      <3>2. lock' # p
        BY <1>1, <2>2 DEF Crash
      <3> QED
        BY <3>1, <3>2 DEF Place, Inside, Resting
    <2>3. CASE p \notin Ended(h)
      <3>1. pc'[p] = pc[p] /\ unit'[p] = unit[p] /\ n'[p] = n[p] /\ seen'[p] = seen[p]
        BY <2>3 DEF Crash
      <3>2. lock' = p <=> lock = p
        BY <1>1, <2>3 DEF Crash
      <3> QED
        BY <2>1, <3>1, <3>2 DEF Place
    <2> QED
      BY <2>2, <2>3
  <1> QED
    BY <1>2, <1>3, <1>4, TypedNext

\* The recovery of one unit: taken up, read again, recorded.
LEMMA DecideTyped ==
    ASSUME TypeOK, NEW p \in Calls, NEW u \in Units, Decide(p, u)
    PROVE  TypeOK'
  <1>1. TreeOK /\ FilesOK /\ CallsOK /\ BoundsOK /\ Place(p) /\ Size(u) \in Nat
    BY TypeParts, UnitFacts
  <1>2. TreeOK' /\ FilesOK' /\ BoundsOK'
    BY <1>1 DEF Decide, TreeOK, FilesOK, BoundsOK, tree, files, bound
  <1>3. Branch(u) \in Reading \ Resting /\ Branch(u) \in Labels \ (Inside \cup {"archiving"})
    BY DEF Branch, Reading, Labels, Inside, Resting
  <1>4. CallsOK' /\ Alone(p)
    BY <1>1, <1>3 DEF Decide, Goto, CallsOK, Alone
  <1>5. /\ pc'[p] = Branch(u) /\ unit'[p] = u
        /\ n'[p] = n[p] /\ seen'[p] = seen[p] /\ lock' = lock /\ pc[p] = "recover"
    BY <1>1 DEF Decide, Goto, CallsOK
  <1>6. n[p] <= 0 /\ seen[p].cps <= Size(u) /\ lock # p
    BY <1>1, <1>5 DEF Place, Inside, Resting, CallsOK, Glances
  <1>7. Place(p)'
    BY <1>3, <1>5, <1>6, UnitsAssumption DEF Place
  <1> QED
    BY <1>2, <1>4, <1>7, OthersPlaced, TypedNext

LEMMA UnitReadTyped ==
    ASSUME TypeOK, NEW p \in Calls, ReadForward(p) \/ ReadBack(p)
    PROVE  TypeOK'
  <1>1. TreeOK /\ FilesOK /\ CallsOK /\ BoundsOK /\ Place(p) /\ unit[p] \in Units
    BY TypeParts, ActiveFacts DEF ReadForward, ReadBack, Resting
  <1>2. TreeOK' /\ FilesOK' /\ BoundsOK' /\ todo' = todo /\ lock' = lock /\ lock # p
    BY <1>1 DEF ReadForward, ReadBack, TreeOK, FilesOK, BoundsOK, tree, files, bound, Place, Inside
  <1>3. CASE Return(p, "recover")
    BY <1>1, <1>2, <1>3, Returned, TypedNext DEF CallsOK, Resting
  <1>4. CASE /\ UNCHANGED <<unit, n>> /\ seen' = [seen EXCEPT ![p] = Glance(unit[p])]
             /\ \E l \in {"finalize", "back"}, b \in [Skills -> Bodies] :
                    Goto(p, l) /\ plan' = [plan EXCEPT ![p] = b]
    <2>1. Glance(unit[p]) \in Glances /\ Glance(unit[p]).cps <= Size(unit[p])
      BY <1>1 DEF Glance, Glances, FilesOK, Refused
    <2>2. CallsOK' /\ Alone(p)
      BY <1>1, <1>2, <1>4, <2>1 DEF Goto, CallsOK, Alone, Labels, Reading
    <2>3. pc'[p] \in {"finalize", "back"} /\ unit'[p] = unit[p] /\ n'[p] = n[p]
          /\ seen'[p].cps <= Size(unit[p])
      BY <1>1, <1>4, <2>1 DEF Goto, CallsOK
    <2>4. n[p] <= 0 /\ unit[p] # NoUnit
      BY <1>1, <1>2, UnitsAssumption DEF Place
    <2>5. Place(p)'
      BY <1>2, <2>3, <2>4 DEF Place, Inside, Resting
    <2> QED
      BY <1>2, <2>2, <2>5, OthersPlaced, TypedNext
  <1>5. snap[unit[p]] \in [Skills -> Bodies] /\ Read(unit[p]) \in [Skills -> Bodies]
    BY <1>1, ReadTyped DEF FilesOK
  <1> QED
    BY <1>3, <1>4, <1>5 DEF ReadForward, ReadBack

LEMMA FinalizeTyped ==
    ASSUME TypeOK, NEW p \in Calls, Finalize(p) \/ FinalizeLog(p)
    PROVE  TypeOK'
  <1>1. /\ TreeOK /\ FilesOK /\ CallsOK /\ BoundsOK /\ Place(p)
        /\ unit[p] \in Units /\ Size(unit[p]) \in Nat /\ seen[p].cps \in 0..Size(unit[p])
    BY TypeParts, ActiveFacts DEF Finalize, FinalizeLog, Resting
  <1>2. TreeOK' /\ BoundsOK' /\ lock' = lock /\ lock # p /\ todo' = todo
    BY <1>1 DEF Finalize, FinalizeLog, TreeOK, BoundsOK, tree, bound, Place, Inside
  <1>3. FilesOK'
    <2>1. snap' = snap /\ receipt' = receipt /\ evidence' \subseteq Units
      BY <1>1 DEF Finalize, FinalizeLog, FilesOK
    <2>2. CASE journal' = journal
      BY <1>1, <2>1, <2>2 DEF FilesOK
    <2>3. CASE Log(unit[p], "committed", seen[p].cps)
      BY <1>1, <2>1, <2>3, Logged DEF FilesOK, Phases
    <2> QED
      BY <2>2, <2>3 DEF Finalize, FinalizeLog
  <1>4. CASE Finalize(p)
    <2>1. n[p] <= 0
      BY <1>1, <1>2 DEF Place
    <2>2. CallsOK' /\ \A q \in Calls : Place(q)'
      BY <1>2, <1>4, <2>1, Went DEF Finalize, Going, Labels, Inside, Resting, Reading
    <2> QED
      BY <1>2, <1>3, <2>2, TypedNext
  <1>5. CASE FinalizeLog(p)
    <2>1. CallsOK' /\ \A q \in Calls : Place(q)'
      BY <1>1, <1>2, <1>5, Returned DEF FinalizeLog, CallsOK, Resting
    <2> QED
      BY <1>2, <1>3, <2>1, TypedNext
  <1> QED
    BY <1>4, <1>5

LEMMA BackTyped ==
    ASSUME TypeOK, NEW p \in Calls,
           BackLock(p) \/ BackCheck(p) \/ RestoreTarget(p) \/ RolledBack(p)
    PROVE  TypeOK'
  <1>1. TreeOK /\ FilesOK /\ CallsOK /\ BoundsOK /\ Place(p)
    BY TypeParts
  <1>2. /\ unit[p] \in Units /\ Size(unit[p]) \in Nat /\ n[p] \in 0..Size(unit[p])
        /\ T(p) \in Skills /\ plan[p] \in [Skills -> Bodies] /\ seen[p].cps \in 0..Size(unit[p])
    BY ActiveFacts DEF BackLock, BackCheck, RestoreTarget, RolledBack, Resting
  <1>3. CASE BackLock(p)
    <2>1. TreeOK' /\ FilesOK' /\ BoundsOK'
      BY <1>1, <1>3 DEF BackLock, TreeOK, FilesOK, BoundsOK, tree, files, bound
    <2>2. CallsOK' /\ \A q \in Calls : Place(q)'
      <3>1. Goto(p, "check") /\ Going(p) /\ lock = NoCall /\ lock' = p /\ n[p] <= Size(unit[p])
            /\ pc[p] = "back"
        BY <1>2, <1>3 DEF BackLock, Going
      <3> QED
        BY <3>1, Went DEF Labels, Inside, Resting
    <2> QED
      BY <2>1, <2>2, TypedNext
  <1>4. CASE BackCheck(p)
    <2>1. lock' = lock /\ UNCHANGED <<tree, files, unit, plan, n, todo, seen, bound>> /\ pc[p] = "check"
      BY <1>4 DEF BackCheck
    <2>2. \E l \in {"release", "restore"} : Goto(p, l)
      BY <1>4 DEF BackCheck
    <2> QED
      BY <1>2, <2>1, <2>2, TreeStepTyped DEF Inside
  <1>5. CASE RestoreTarget(p)
    <2>1. TreeOK'
      <3>1. \/ \E b \in Bodies : live' = [live EXCEPT ![T(p)] = b] /\ arch' = arch
            \/ Archived(T(p)) \/ UNCHANGED tree
        BY <1>2, <1>5 DEF RestoreTarget, tree
      <3> QED
        BY <1>1, <1>2, <3>1, TreeTyped
    <2>2. FilesOK' /\ BoundsOK' /\ lock' = lock /\ UNCHANGED <<unit, plan, seen, n>>
          /\ pc[p] = "restore" /\ n' = [n EXCEPT ![p] = n[p]]
      BY <1>1, <1>5 DEF RestoreTarget, FilesOK, BoundsOK, files, bound, CallsOK
    <2>3. \E l \in {"release", "sources"} : Goto(p, l)
      BY <1>5 DEF RestoreTarget, Thrown
    <2>4. todo' \in [Calls -> SUBSET Units]
      BY <1>1, <1>5 DEF RestoreTarget, Thrown, CallsOK
    <2> QED
      BY <1>2, <2>1, <2>2, <2>3, <2>4, CountStepTyped DEF Inside
  <1>6. CASE RolledBack(p)
    <2>1. Log(unit[p], "rolled-back", seen[p].cps) /\ snap' = snap
          /\ receipt' = receipt /\ evidence' = evidence
      BY <1>6 DEF RolledBack
    <2>2. FilesOK'
      BY <1>1, <1>2, <2>1, Logged DEF FilesOK, Phases
    <2> QED
      BY <1>6, <2>2, FileStepTyped DEF RolledBack, Inside
  <1> QED
    BY <1>3, <1>4, <1>5, <1>6

\* Failures, and people.
LEMMA FaultTyped == ASSUME TypeOK, NEW p \in Calls, Fault(p) PROVE TypeOK'
  <1>1. TreeOK /\ FilesOK /\ CallsOK /\ BoundsOK /\ Place(p)
    BY TypeParts
  <1>2. TreeOK' /\ FilesOK' /\ BoundsOK' /\ lock' = lock
    BY <1>1, BoundsAssumption DEF Fault, TreeOK, FilesOK, BoundsOK, tree, files
  <1>3. todo' \in [Calls -> SUBSET Units]
    BY <1>1 DEF Fault, Thrown, CallsOK
  <1>4. CASE Return(p, "idle") /\ pc[p] \notin Inside
    BY <1>1, <1>2, <1>3, <1>4, Returned, TypedNext DEF Resting, Place
  <1>5. CASE /\ \E l \in {"failed", "undo", "release"} : Goto(p, l)
             /\ UNCHANGED <<unit, plan, n, seen>> /\ pc[p] \in Inside
    <2>1. PICK l \in {"failed", "undo", "release"} : Goto(p, l)
      BY <1>5
    <2>2. CallsOK' /\ Alone(p) /\ pc'[p] = l
      BY <1>1, <1>2, <1>3, <1>5, <2>1 DEF CallsOK, Goto, Alone, Labels, Inside
    <2>3. Place(p)'
      BY <1>1, <1>2, <1>5, <2>2 DEF Place, Inside, Resting
    <2> QED
      BY <1>2, <2>2, <2>3, OthersPlaced, TypedNext
  <1> QED
    BY <1>4, <1>5 DEF Fault, Thrown, Inside, Reading

LEMMA HandTyped == ASSUME TypeOK, NEW s \in Skills, ByHand(s) PROVE TypeOK'
  <1>1. TreeOK /\ FilesOK /\ CallsOK /\ BoundsOK /\ \A p \in Calls : Place(p)
    BY TypeParts
  <1>2. FilesOK' /\ CallsOK' /\ UNCHANGED <<pc, unit, n, seen, lock>>
    BY <1>1 DEF ByHand, FilesOK, CallsOK, files, local
  <1>3. \A p \in Calls : Place(p)'
    BY <1>1, <1>2 DEF Place
  <1>4. TreeOK' /\ BoundsOK'
    BY <1>1, TreeTyped DEF ByHand, BoundsOK, Bodies
  <1> QED
    BY <1>2, <1>3, <1>4, TypedNext

LEMMA TypedStep == ASSUME TypeOK, [Next]_vars PROVE TypeOK'
  <1>1. CASE UNCHANGED vars
    BY <1>1 DEF TypeOK, vars, tree, files, local, bound
  <1>2. ASSUME NEW p \in Calls, NEW u \in Units, Assemble(p, u) PROVE TypeOK'
    BY <1>2, AssembleTyped
  <1>3. ASSUME NEW p \in Calls, Commit(p) PROVE TypeOK'
    BY <1>3, PrepareTyped, QuitTyped, CommitLockTyped, ApplyTyped, PhaseTyped, CheckpointTyped, SourceTyped
       DEF Commit
  <1>4. ASSUME NEW p \in Calls, Release(p) PROVE TypeOK'
    BY <1>4, EndTyped
  <1>5. ASSUME NEW p \in Calls, Recover(p) PROVE TypeOK'
    BY <1>5, EndTyped, DecideTyped, UnitReadTyped, FinalizeTyped, QuitTyped, BackTyped, SourceTyped
       DEF Recover, Rollback
  <1>6. ASSUME NEW p \in Calls, Fault(p) PROVE TypeOK'
    BY <1>6, FaultTyped
  <1>7. ASSUME NEW h, Crash(h) PROVE TypeOK'
    BY <1>7, CrashTyped
  <1>8. ASSUME NEW s \in Skills, ByHand(s) PROVE TypeOK'
    BY <1>8, HandTyped
  <1> QED
    BY <1>1, <1>2, <1>3, <1>4, <1>5, <1>6, <1>7, <1>8 DEF Next, Step

\* Every reachable state is typed: the tree lock is held exactly by the call
\* that is between taking and releasing it, and no checkpoint passes the sources.
THEOREM TypeCorrect == Spec => []TypeOK
  BY InitTyped, TypedStep, PTL DEF Spec

------------------------------------------------------------------------------
(* Who takes a step, and what it writes.                                   *)

\* A step of a call leaves the locals of every other.
LEMMA SoloStep ==
    ASSUME TypeOK, NEW q \in Calls, Step(q), NEW p \in Calls, p # q
    PROVE  /\ pc'[p] = pc[p] /\ unit'[p] = unit[p] /\ plan'[p] = plan[p]
           /\ n'[p] = n[p] /\ seen'[p] = seen[p]
  <1> USE DEF CallsOK, Goto
  <1>1. CallsOK
    BY TypeParts
  <1>2. CASE \E u \in Units : Assemble(q, u) \/ Decide(q, u)
    BY <1>1, <1>2 DEF Assemble, Decide
  <1>3. CASE Release(q) \/ Fault(q)
    BY <1>1, <1>3 DEF Release, Fault, Return, Thrown
  <1>4. CASE Commit(q)
    <2>1. CASE Prepare(q) \/ CommitOnce(q) \/ CommitLock(q) \/ CommitBusy(q)
      BY <1>1, <2>1 DEF Prepare, CommitOnce, CommitLock, CommitBusy, Return
    <2>2. CASE WriteTarget(q) \/ LogWritten(q) \/ Refuse(q) \/ Checkpoint(q) \/ ArchiveSource(q) \/ GiveUp(q)
      BY <1>1, <2>2 DEF WriteTarget, LogWritten, Refuse, Checkpoint, ArchiveSource, GiveUp
    <2>3. CASE LogSupport(q) \/ WriteSupport(q) \/ AllArchived(q) \/ WriteReceipt(q) \/ UnitWritten(q)
      BY <1>1, <2>3 DEF LogSupport, WriteSupport, AllArchived, WriteReceipt, UnitWritten
    <2>4. CASE WriteEvidence(q) \/ Committed(q) \/ UndoSource(q) \/ UndoTarget(q) \/ Failed(q)
      BY <1>1, <2>4 DEF WriteEvidence, Committed, UndoSource, UndoTarget, Failed
    <2> QED
      BY <1>4, <2>1, <2>2, <2>3, <2>4 DEF Commit
  <1>5. CASE Boot(q) \/ ReadForward(q) \/ Finalize(q) \/ FinalizeLog(q) \/ Recovered(q)
    BY <1>1, <1>5 DEF Boot, ReadForward, Finalize, FinalizeLog, Recovered, Return
  <1>6. CASE Rollback(q)
    BY <1>1, <1>6 DEF Rollback, ReadBack, BackBusy, BackLock, BackCheck, RestoreTarget, RestoreSource,
       RolledBack, Return, Thrown
  <1> QED
    BY <1>2, <1>3, <1>4, <1>5, <1>6 DEF Step, Recover

\* The steps that write the skill tree, all of them under the tree lock.
LEMMA TreeWritten ==
    ASSUME NEW p \in Calls, Step(p)
    PROVE  \/ UNCHANGED tree
           \/ WriteTarget(p) \/ ArchiveSource(p) \/ WriteSupport(p) \/ UndoSource(p) \/ UndoTarget(p)
           \/ RestoreTarget(p) \/ RestoreSource(p)
  <1>1. CASE Release(p) \/ Fault(p) \/ \E v \in Units : Assemble(p, v)
    BY <1>1 DEF Release, Fault, Assemble
  <1>2. CASE Commit(p)
    BY <1>2 DEF Commit, Prepare, CommitOnce, CommitLock, CommitBusy, LogWritten, Refuse,
       Checkpoint, GiveUp, LogSupport, AllArchived, WriteReceipt, UnitWritten, WriteEvidence,
       Committed, Failed
  <1>3. CASE Recover(p)
    BY <1>3 DEF Recover, Boot, Decide, ReadForward, Finalize, FinalizeLog, Rollback, ReadBack, BackBusy,
       BackLock, BackCheck, RolledBack, Recovered
  <1> QED
    BY <1>1, <1>2, <1>3 DEF Step

LEMMA WritersInside ==
    ASSUME NEW p \in Calls, Step(p), ~UNCHANGED tree
    PROVE  pc[p] \in Inside
  BY TreeWritten DEF WriteTarget, ArchiveSource, WriteSupport, UndoSource, UndoTarget, RestoreTarget,
     RestoreSource, Inside

\* A call that moves takes the step itself, unless its process ends.
LEMMA OwnStep ==
    ASSUME TypeOK, Next, NEW p \in Calls, pc'[p] # pc[p]
    PROVE  Step(p) \/ UNCHANGED tree
  <1>1. ASSUME NEW q \in Calls, Step(q) PROVE q = p
    BY <1>1, SoloStep
  <1>2. ASSUME NEW q \in Calls, Crash(Home[q]) PROVE UNCHANGED tree
    BY <1>2 DEF Crash
  <1>3. ~\E s \in Skills : ByHand(s)
    BY DEF ByHand, local
  <1> QED
    BY <1>1, <1>2, <1>3 DEF Next

\* A merge, and its undoing in place, never destroys a hand edit it had not
\* planned over: the edit stays live or is the archived copy.
THEOREM EditsAreKept == Spec => MergeKeepsEdits
  <1>1. ASSUME TypeOK, [Next]_vars,
               NEW p \in Calls, NEW s \in Skills,
               pc[p] \in {"locked", "archiving", "written", "undo"}, pc'[p] # pc[p],
               live[s] = "edit", live'[s] # "edit", plan[p][s] # "edit"
        PROVE  arch'[s] = "edit"
    <2>1. Step(p) /\ ~UNCHANGED tree
      BY <1>1, OwnStep DEF vars, local, tree
    <2>2. TreeOK /\ unit[p] \in Units /\ T(p) \in Skills /\ "edit" # Absent /\ "edit" # After(p)
      BY <1>1, TypeParts, ActiveFacts, NamesAssumption DEF Resting, After
    <2>3. CASE WriteTarget(p)
      <3>1. s # T(p)
        BY <1>1, <2>3 DEF WriteTarget, AsPlanned, Parts, T
      <3> QED
        BY <1>1, <2>2, <2>3, <3>1 DEF WriteTarget, TreeOK
    <2>4. ASSUME NEW x \in Skills, Archived(x) PROVE arch'[s] = "edit"
      BY <1>1, <2>2, <2>4 DEF Archived, TreeOK
    <2>5. CASE ArchiveSource(p)
      <3>1. n[p] + 1 \in 1..Size(unit[p])
        BY <1>1, <2>5, ActiveFacts, TypeParts DEF ArchiveSource, Place, Resting
      <3>2. Source(p, n[p] + 1) \in Skills
        BY <1>1, <3>1, ActiveFacts DEF Resting
      <3> QED
        BY <2>4, <2>5, <3>2 DEF ArchiveSource
    <2>6. CASE UndoTarget(p)
      <3>1. CASE Creates(p)
        BY <1>1, <2>2, <2>4, <2>6, <3>1 DEF UndoTarget, tree
      <3>2. CASE ~Creates(p)
        BY <1>1, <2>2, <2>6, <3>2 DEF UndoTarget, TreeOK
      <3> QED
        BY <3>1, <3>2
    <2>7. ~(WriteSupport(p) \/ UndoSource(p) \/ RestoreTarget(p) \/ RestoreSource(p))
      BY <1>1 DEF WriteSupport, UndoSource, RestoreTarget, RestoreSource
    <2> QED
      BY <2>1, <2>3, <2>5, <2>6, <2>7, TreeWritten
  <1>2. TypeOK /\ [Next]_vars =>
            [\A p \in Calls, s \in Skills :
                /\ pc[p] \in {"locked", "archiving", "written", "undo"} /\ pc'[p] # pc[p]
                /\ live[s] = "edit" /\ live'[s] # "edit" /\ plan[p][s] # "edit"
                => arch'[s] = "edit"]_vars
    BY <1>1
  <1> QED
    BY <1>2, TypeCorrect, PTL DEF Spec, MergeKeepsEdits

------------------------------------------------------------------------------
(* How far a merge, or its undoing, has come.                              *)

Rising  == {"applied", "written", "archiving", "support"}
Atop    == {"supported", "archived", "receipted", "unitWritten"}
Undoing == {"back", "check", "restore", "sources"}

\* The target is one of B, the first k sources are out, those from k on are
\* live, or as the plan knew them or out: each unless a person touched it.
TargetIn(p, B) == T(p) \in touched \/ live[T(p)] \in B
Gone(p, k) == \A i \in 1..k : Source(p, i) \in touched \/ live[Source(p, i)] = Absent
Left(p, i) == Source(p, i) \in touched \/ live[Source(p, i)] # Absent
AsIs(p, k) == \A i \in k..Size(unit[p]) :
                  Source(p, i) \in touched \/ live[Source(p, i)] \in {Absent, plan[p][Source(p, i)]}

\* The tree shows what the place of a call says has been done.
Forward(p) ==
    /\ pc[p] \in {"assembled", "prepared", "waiting", "locked"} =>
           \A i \in 1..Size(unit[p]) : plan[p][Source(p, i)] # Absent
    /\ pc[p] \in {"assembled", "prepared", "waiting", "locked", "applied"} => n[p] = 0
    /\ pc[p] \in Rising => TargetIn(p, {After(p)}) /\ Gone(p, n[p])
    /\ pc[p] \in {"applied", "written", "archiving"} =>
           \A i \in n[p] + 1..Size(unit[p]) : Left(p, i)
    /\ pc[p] = "support" => Supports(p)
    /\ pc[p] \in {"support"} \cup Atop => n[p] = Size(unit[p])
    /\ pc[p] \in Atop => TargetIn(p, {unit[p]}) /\ Gone(p, n[p])
\* A merge being undone is not whole; the drift check still holds for what is
\* yet to be restored, and the reading of a rollback found no commit.
Backward(p) ==
    /\ pc[p] = "undo" => TargetIn(p, {After(p)})
    /\ pc[p] = "undo" => Supports(p) \/ \E i \in n[p] + 1..Size(unit[p]) : Left(p, i)
    /\ pc[p] \in Undoing => ~seen[p].done
    /\ pc[p] = "restore" => TargetIn(p, {plan[p][T(p)]} \cup Merged(unit[p])) /\ AsIs(p, 1)
    /\ pc[p] = "sources" => AsIs(p, n[p] + 1)
\* What a recovery is about to record was merged as it read the tree.
Checked(p) ==
    pc[p] = "finalize" => \A s \in Parts(unit[p]) : Shows(plan[p], unit[p], s)
Kept(p)  == Forward(p) /\ Backward(p) /\ Checked(p)
Progress == \A p \in Calls : Kept(p)

\* Outside the places they speak of they say nothing.
Spoken == {"assembled", "prepared", "waiting", "locked", "undo", "finalize"} \cup Rising \cup Atop \cup Undoing
LEMMA Elsewhere ==
    ASSUME NEW p \in Calls
    PROVE  pc[p] \notin Spoken => Kept(p)
  BY DEF Spoken, Kept, Forward, Backward, Checked, Rising, Atop, Undoing

\* A call that does not move keeps its claims: while it holds the lock nobody
\* else but a person writes the tree.
LEMMA Beside ==
    ASSUME TypeOK, NEW p \in Calls, Kept(p), pc'[p] = pc[p], unit'[p] = unit[p], plan'[p] = plan[p],
           n'[p] = n[p], seen'[p] = seen[p], touched \subseteq touched',
           pc[p] \in Inside => \A s \in Skills : s \in touched' \/ live'[s] = live[s]
    PROVE  Kept(p)'
  <1> USE DEF Rising, Atop, Undoing
  <1>1. CASE pc[p] \notin Spoken
    BY <1>1 DEF Kept, Forward, Backward, Checked, Spoken
  <1>2. CASE pc[p] \in Spoken
    <2>1. /\ T(p) \in Skills /\ Size(unit[p]) \in Nat /\ n[p] \in Nat /\ n[p] <= Size(unit[p])
          /\ \A i \in 1..Size(unit[p]) : Source(p, i) \in Skills
      BY <1>2, ActiveFacts DEF Spoken, Resting
    <2>2. /\ T(p)' = T(p) /\ After(p)' = After(p) /\ Supports(p)' = Supports(p)
          /\ Merged(unit[p])' = Merged(unit[p]) /\ \A i : Source(p, i)' = Source(p, i)
      BY DEF T, After, Creates, Source, Supports, Merged
    <2>3. Checked(p)'
      BY DEF Kept, Checked, Shows
    <2>4. CASE pc[p] \notin Inside
      BY <2>2, <2>3, <2>4 DEF Kept, Forward, Backward, Inside
    <2>5. CASE pc[p] \in Inside
      <3>1. ASSUME NEW B, TargetIn(p, B) PROVE T(p) \in touched' \/ live'[T(p)] \in B
        BY <2>1, <2>5, <3>1 DEF TargetIn
      <3>2. ASSUME NEW i \in 1..Size(unit[p]), Left(p, i) PROVE Left(p, i)'
        BY <2>1, <2>2, <2>5, <3>2 DEF Left
      <3>3. \A i \in n[p] + 1..Size(unit[p]) : i \in 1..Size(unit[p])
        BY <2>1
      <3>4. ASSUME NEW i \in 1..Size(unit[p])
            PROVE  Source(p, i) \in touched' \/ live'[Source(p, i)] = live[Source(p, i)]
        BY <2>1, <2>5
      <3>5. Gone(p, n[p]) => Gone(p, n[p])'
        <4>1. \A i \in 1..n[p] : i \in 1..Size(unit[p])
          BY <2>1
        <4> QED
          BY <2>2, <3>4, <4>1 DEF Gone
      <3>6. AsIs(p, 1) => AsIs(p, 1)'
        BY <2>2, <3>4 DEF AsIs
      <3>7. AsIs(p, n[p] + 1) => AsIs(p, n[p] + 1)'
        BY <2>2, <3>3, <3>4 DEF AsIs
      <3>8. Forward(p)'
        <4>1. TargetIn(p, {After(p)}) => TargetIn(p, {After(p)})'
          BY <2>2, <3>1 DEF TargetIn
        <4>2. TargetIn(p, {unit[p]}) => TargetIn(p, {unit[p]})'
          BY <2>2, <3>1 DEF TargetIn
        <4> QED
          BY <2>2, <3>2, <3>3, <3>5, <4>1, <4>2 DEF Kept, Forward
      <3>9. Backward(p)'
        <4>1. TargetIn(p, {After(p)}) => TargetIn(p, {After(p)})'
          BY <2>2, <3>1 DEF TargetIn
        <4>2. LET B == {plan[p][T(p)]} \cup Merged(unit[p]) IN TargetIn(p, B) => TargetIn(p, B)'
          BY <2>2, <3>1 DEF TargetIn
        <4> QED
          BY <2>2, <3>2, <3>3, <3>6, <3>7, <4>1, <4>2 DEF Kept, Backward
      <3> QED
        BY <2>3, <3>8, <3>9 DEF Kept
    <2> QED
      BY <2>4, <2>5
  <1> QED
    BY <1>1, <1>2

\* What a call speaks of stays the same while its unit and plan do.
LEMMA SameNames ==
    ASSUME NEW p \in Calls, unit' = unit, plan' = plan
    PROVE  /\ T(p)' = T(p) /\ After(p)' = After(p) /\ Supports(p)' = Supports(p)
           /\ Creates(p)' = Creates(p) /\ \A i : Source(p, i)' = Source(p, i)
  BY DEF T, After, Creates, Source, Supports

\* What is to be shown of a merge on its way up, and of one that is up.
LEMMA RisingKept ==
    ASSUME NEW p \in Calls, pc'[p] \in Rising, TargetIn(p, {After(p)})', Gone(p, n[p])',
           pc'[p] = "applied" => n'[p] = 0,
           pc'[p] = "support" => Supports(p)' /\ n'[p] = Size(unit'[p]),
           pc'[p] # "support" => \A i \in n'[p] + 1..Size(unit'[p]) : Left(p, i)'
    PROVE  Kept(p)'
  BY DEF Kept, Forward, Backward, Checked, Rising, Atop, Undoing
LEMMA AtopKept ==
    ASSUME NEW p \in Calls, pc'[p] \in Atop, TargetIn(p, {unit[p]})', Gone(p, n[p])',
           n'[p] = Size(unit'[p])
    PROVE  Kept(p)'
  BY DEF Kept, Forward, Backward, Checked, Rising, Atop, Undoing
LEMMA UndoKept ==
    ASSUME NEW p \in Calls, pc'[p] = "undo", TargetIn(p, {After(p)})',
           Supports(p)' \/ \E i \in n'[p] + 1..Size(unit'[p]) : Left(p, i)'
    PROVE  Kept(p)'
  BY DEF Kept, Forward, Backward, Checked, Rising, Atop, Undoing

LEMMA InitProgress == Init => Progress
  <1> SUFFICES ASSUME Init, NEW p \in Calls PROVE Kept(p)
    BY DEF Progress
  <1>1. pc[p] \in {"boot", "idle"}
    BY DEF Init, First
  <1> QED
    BY <1>1, Elsewhere DEF Spoken, Rising, Atop, Undoing

\* Up to the lock the call has its plan, of sources that were all there.
LEMMA AssembleKept == ASSUME TypeOK, NEW p \in Calls, NEW u \in Units, Assemble(p, u) PROVE Kept(p)'
  <1>1. CallsOK /\ Place(p)
    BY TypeParts
  <1>2. pc'[p] = "assembled" /\ unit'[p] = u /\ plan'[p] = Read(u) /\ n'[p] = 0
    BY <1>1 DEF Assemble, Goto, CallsOK, Place, Inside
  <1>3. \A i \in 1..Size(u) : Read(u)[Sources[u][i]] # Absent
    BY UnitFacts DEF Assemble, Read, Parts
  <1> QED
    BY <1>2, <1>3 DEF Kept, Forward, Backward, Checked, Rising, Atop, Undoing, Source

LEMMA StartKept ==
    ASSUME TypeOK, NEW p \in Calls, Kept(p), Prepare(p) \/ CommitOnce(p) \/ CommitLock(p) \/ CommitBusy(p)
    PROVE  Kept(p)'
  <1>1. CallsOK
    BY TypeParts
  <1>2. CASE pc'[p] = "idle"
    BY <1>2, Elsewhere DEF Kept, Forward, Backward, Checked, Rising, Atop, Undoing
  <1>3. CASE pc'[p] # "idle"
    <2>1. /\ pc[p] \in {"assembled", "prepared", "waiting"} /\ pc'[p] \in {"prepared", "waiting", "locked"}
          /\ UNCHANGED <<unit, plan, n>>
      BY <1>1, <1>3 DEF Prepare, CommitOnce, CommitLock, CommitBusy, Goto, Return, CallsOK
    <2> QED
      BY <2>1 DEF Kept, Forward, Backward, Checked, Rising, Atop, Undoing, Source
  <1> QED
    BY <1>2, <1>3

\* The apply of a merge.
LEMMA WriteTargetKept == ASSUME TypeOK, NEW p \in Calls, Kept(p), WriteTarget(p) PROVE Kept(p)'
  <1>1. CallsOK /\ TreeOK /\ pc[p] = "locked"
    BY TypeParts DEF WriteTarget
  <1>2. /\ T(p) \in Skills /\ Size(unit[p]) \in Nat
        /\ \A i \in 1..Size(unit[p]) : Source(p, i) \in Skills /\ Source(p, i) # T(p)
    BY <1>1, ActiveFacts DEF Resting
  <1>3. n'[p] = 0 /\ \A i \in 1..Size(unit[p]) : plan[p][Source(p, i)] # Absent
    BY <1>1 DEF Kept, Forward, WriteTarget
  <1>4. UNCHANGED <<unit, plan, touched>> /\ pc'[p] = "applied"
    BY <1>1 DEF WriteTarget, bound, Goto, CallsOK
  <1>5. live'[T(p)] = After(p) /\ \A s \in Skills \ {T(p)} : live'[s] = live[s]
    BY <1>1, <1>2 DEF WriteTarget, TreeOK
  <1>6. TargetIn(p, {After(p)})' /\ Gone(p, n[p])'
    BY <1>3, <1>4, <1>5, SameNames DEF TargetIn, Gone
  <1>7. \A i \in 1..Size(unit[p]) : live[Source(p, i)] = plan[p][Source(p, i)]
    BY DEF WriteTarget, AsPlanned, Parts, Source
  <1>8. \A i \in 1..Size(unit[p]) : live'[Source(p, i)] # Absent
    BY <1>2, <1>3, <1>5, <1>7
  <1>9. \A i \in n'[p] + 1..Size(unit'[p]) : Left(p, i)'
    BY <1>2, <1>3, <1>4, <1>8, SameNames DEF Left
  <1> QED
    BY <1>3, <1>4, <1>6, <1>9, RisingKept DEF Rising

LEMMA LogsKept ==
    ASSUME TypeOK, NEW p \in Calls, Kept(p),
           \/ LogWritten(p) \/ Checkpoint(p) \/ LogSupport(p) \/ AllArchived(p)
           \/ WriteReceipt(p) \/ UnitWritten(p)
    PROVE  Kept(p)'
  <1> USE DEF LogWritten, Checkpoint, LogSupport, AllArchived, WriteReceipt, UnitWritten
  <1>1. CallsOK /\ TreeOK
    BY TypeParts
  <1>2. pc[p] \notin Resting
    BY DEF Resting
  <1>3. UNCHANGED <<unit, plan, live, n>> /\ touched' = touched
    BY DEF tree, bound
  <1>4. \A B : TargetIn(p, B) => T(p)' \in touched' \/ live'[T(p)'] \in B
    BY <1>3, SameNames DEF TargetIn
  <1>5. /\ TargetIn(p, {After(p)}) => TargetIn(p, {After(p)})'
        /\ TargetIn(p, {unit[p]}) => TargetIn(p, {unit[p]})'
    BY <1>3, <1>4, SameNames DEF TargetIn
  <1>6. (Gone(p, n[p]) => Gone(p, n[p])') /\ \A i : Left(p, i) => Left(p, i)'
    BY <1>3, SameNames DEF Gone, Left
  <1>7. CASE LogWritten(p) \/ Checkpoint(p) \/ LogSupport(p)
    <2>1. /\ pc[p] \in {"applied", "written"} /\ pc'[p] \in Rising \ {"applied"}
          /\ pc'[p] = "support" => Supports(p) /\ n[p] = Size(unit[p])
      BY <1>1, <1>7 DEF Goto, CallsOK, Rising
    <2>2. /\ TargetIn(p, {After(p)}) /\ Gone(p, n[p])
          /\ \A i \in n[p] + 1..Size(unit[p]) : Left(p, i)
      BY <2>1 DEF Kept, Forward, Rising
    <2> QED
      BY <1>3, <1>5, <1>6, <2>1, <2>2, SameNames, RisingKept DEF Rising
  <1>8. CASE AllArchived(p)
    <2>1. pc'[p] = "archived" /\ n[p] = Size(unit[p]) /\ pc[p] = IF Supports(p) THEN "supported" ELSE "written"
      BY <1>1, <1>8 DEF Goto, CallsOK
    <2>2. TargetIn(p, {unit[p]}) /\ Gone(p, n[p])
      BY <2>1 DEF Kept, Forward, Rising, Atop, Supports, After
    <2> QED
      BY <1>3, <1>5, <1>6, <2>1, <2>2, AtopKept DEF Atop
  <1>9. CASE WriteReceipt(p) \/ UnitWritten(p)
    <2>1. pc'[p] \in Atop /\ pc[p] \in Atop
      BY <1>1, <1>9 DEF Goto, CallsOK, Atop
    <2>2. TargetIn(p, {unit[p]}) /\ Gone(p, n[p]) /\ n[p] = Size(unit[p])
      BY <2>1 DEF Kept, Forward
    <2> QED
      BY <1>3, <1>5, <1>6, <2>1, <2>2, AtopKept
  <1> QED
    BY <1>7, <1>8, <1>9

LEMMA ArchiveKept == ASSUME TypeOK, NEW p \in Calls, Kept(p), ArchiveSource(p) PROVE Kept(p)'
  <1>1. CallsOK /\ TreeOK /\ Place(p) /\ pc[p] = "archiving"
    BY TypeParts DEF ArchiveSource
  <1>2. /\ T(p) \in Skills /\ Size(unit[p]) \in Nat
        /\ \A i \in 1..Size(unit[p]) : Source(p, i) \in Skills /\ Source(p, i) # T(p)
        /\ \A i, j \in 1..Size(unit[p]) : Source(p, i) = Source(p, j) => i = j
        /\ n[p] \in Nat /\ n[p] <= Size(unit[p])
    BY <1>1, ActiveFacts DEF Resting
  <1>3. n[p] + 1 \in 1..Size(unit[p])
    BY <1>1, <1>2 DEF Place
  <1>4. UNCHANGED <<unit, plan, touched>> /\ pc'[p] = "written" /\ n'[p] = n[p] + 1
    BY <1>1 DEF ArchiveSource, bound, Goto, CallsOK
  <1> DEFINE x == Source(p, n[p] + 1)
  <1>5. x \in Skills /\ live'[x] = Absent /\ \A s \in Skills \ {x} : live'[s] = live[s]
    BY <1>1, <1>2, <1>3 DEF ArchiveSource, Archived, TreeOK
  <1>6. /\ TargetIn(p, {After(p)}) /\ Gone(p, n[p]) /\ \A i \in n[p] + 1..Size(unit[p]) : Left(p, i)
    BY <1>1 DEF Kept, Forward, Rising
  <1>7. TargetIn(p, {After(p)})'
    BY <1>2, <1>3, <1>4, <1>5, <1>6, SameNames DEF TargetIn
  <1>8. Gone(p, n[p])'
    <2>1. ASSUME NEW i \in 1..n[p] + 1 PROVE Source(p, i) \in touched \/ live'[Source(p, i)] = Absent
      <3>1. CASE i = n[p] + 1
        BY <1>5, <3>1
      <3>2. CASE i \in 1..n[p]
        BY <1>2, <1>5, <1>6, <3>2 DEF Gone
      <3> QED
        BY <1>2, <3>1, <3>2
    <2> QED
      BY <1>4, <2>1, SameNames DEF Gone
  <1>9. ASSUME NEW i \in n[p] + 2..Size(unit[p]) PROVE Left(p, i)'
    <2>1. i \in n[p] + 1..Size(unit[p]) /\ i \in 1..Size(unit[p]) /\ i # n[p] + 1
      BY <1>2
    <2>2. Source(p, i) \in Skills \ {x}
      BY <1>2, <1>3, <2>1
    <2> QED
      BY <1>4, <1>5, <1>6, <2>1, <2>2, SameNames DEF Left
  <1>10. n'[p] + 1..Size(unit'[p]) = n[p] + 2..Size(unit[p])
    BY <1>2, <1>4
  <1> QED
    BY <1>4, <1>7, <1>8, <1>9, <1>10, RisingKept DEF Rising

LEMMA SupportKept == ASSUME TypeOK, NEW p \in Calls, Kept(p), WriteSupport(p) PROVE Kept(p)'
  <1>1. CallsOK /\ TreeOK /\ pc[p] = "support"
    BY TypeParts DEF WriteSupport
  <1>2. /\ T(p) \in Skills /\ Size(unit[p]) \in Nat
        /\ \A i \in 1..Size(unit[p]) : Source(p, i) \in Skills /\ Source(p, i) # T(p)
    BY <1>1, ActiveFacts DEF Resting
  <1>3. UNCHANGED <<unit, plan, n, touched>> /\ pc'[p] = "supported"
    BY <1>1 DEF WriteSupport, bound, Goto, CallsOK
  <1>4. /\ live'[T(p)] = IF live[T(p)] = "bare" THEN unit[p] ELSE live[T(p)]
        /\ \A s \in Skills \ {T(p)} : live'[s] = live[s]
    BY <1>1, <1>2 DEF WriteSupport, TreeOK
  <1>5. TargetIn(p, {After(p)}) /\ Gone(p, n[p]) /\ n[p] = Size(unit[p])
    BY <1>1 DEF Kept, Forward, Rising
  <1>6. TargetIn(p, {unit[p]})'
    BY <1>3, <1>4, <1>5, SameNames DEF TargetIn, After
  <1>7. Gone(p, n[p])'
    BY <1>2, <1>3, <1>4, <1>5, SameNames DEF Gone
  <1> QED
    BY <1>3, <1>5, <1>6, <1>7, AtopKept DEF Atop

\* A merge that is given up is not whole, and none of its undoing makes it so.
LEMMA GiveUpKept ==
    ASSUME TypeOK, NEW p \in Calls, Kept(p), pc[p] \in {"written", "archiving", "support"}, pc'[p] = "undo",
           n[p] < Size(unit[p]) \/ Supports(p), UNCHANGED <<tree, unit, plan, n, touched>>
    PROVE  Kept(p)'
  <1>1. /\ TargetIn(p, {After(p)}) /\ Size(unit[p]) \in Nat /\ n[p] \in Nat
        /\ pc[p] # "support" => \A i \in n[p] + 1..Size(unit[p]) : Left(p, i)
        /\ pc[p] = "support" => Supports(p)
    BY ActiveFacts DEF Kept, Forward, Rising, Resting
  <1>2. TargetIn(p, {After(p)})' /\ \A i : Left(p, i) => Left(p, i)'
    BY <1>1, SameNames DEF TargetIn, Left, tree
  <1>3. Supports(p) \/ \E i \in n[p] + 1..Size(unit[p]) : Left(p, i)
    <2>1. CASE Supports(p)
      BY <2>1
    <2>2. CASE ~Supports(p)
      <3>1. n[p] + 1 \in n[p] + 1..Size(unit[p])
        BY <1>1, <2>2
      <3> QED
        BY <1>1, <2>2, <3>1
    <2> QED
      BY <2>1, <2>2
  <1>4. Supports(p)' \/ \E i \in n'[p] + 1..Size(unit'[p]) : Left(p, i)'
    BY <1>2, <1>3, SameNames
  <1> QED
    BY <1>2, <1>4, UndoKept

LEMMA UndoSourceKept == ASSUME TypeOK, NEW p \in Calls, Kept(p), UndoSource(p) PROVE Kept(p)'
  <1>1. CallsOK /\ TreeOK /\ pc[p] = "undo" /\ n[p] > 0
    BY TypeParts DEF UndoSource
  <1>2. /\ T(p) \in Skills /\ Size(unit[p]) \in Nat
        /\ \A i \in 1..Size(unit[p]) : Source(p, i) \in Skills /\ Source(p, i) # T(p)
        /\ \A i, j \in 1..Size(unit[p]) : Source(p, i) = Source(p, j) => i = j
        /\ n[p] \in 1..Size(unit[p])
    BY <1>1, ActiveFacts DEF Resting
  <1>3. UNCHANGED <<unit, plan, touched>> /\ pc'[p] = "undo" /\ n'[p] = n[p] - 1
    BY <1>1 DEF UndoSource, bound, CallsOK
  <1>4. \A s \in Skills \ {Source(p, n[p])} : live'[s] = live[s]
    BY <1>1, <1>2 DEF UndoSource, Restored, TreeOK, tree
  <1>5. TargetIn(p, {After(p)}) /\ (Supports(p) \/ \E i \in n[p] + 1..Size(unit[p]) : Left(p, i))
    BY <1>1 DEF Kept, Backward
  <1>6. TargetIn(p, {After(p)})'
    BY <1>2, <1>3, <1>4, <1>5, SameNames DEF TargetIn
  <1>7. ASSUME NEW i \in n[p] + 1..Size(unit[p]), Left(p, i)
        PROVE  i \in n'[p] + 1..Size(unit'[p]) /\ Left(p, i)'
    <2>1. i \in 1..Size(unit[p]) /\ i # n[p] /\ i \in n[p]..Size(unit[p])
      BY <1>2
    <2>2. Source(p, i) \in Skills \ {Source(p, n[p])}
      BY <1>2, <2>1
    <2>3. Left(p, i)'
      BY <1>3, <1>4, <1>7, <2>2, SameNames DEF Left
    <2> QED
      BY <1>2, <1>3, <2>1, <2>3
  <1> QED
    BY <1>3, <1>5, <1>6, <1>7, SameNames, UndoKept

LEMMA CommitKept == ASSUME TypeOK, NEW p \in Calls, Kept(p), Commit(p) PROVE Kept(p)'
  <1>1. CallsOK /\ Place(p)
    BY TypeParts
  <1>2. CASE GiveUp(p)
    <2>1. /\ pc[p] \in {"written", "archiving"} /\ pc'[p] = "undo" /\ n[p] < Size(unit[p])
          /\ UNCHANGED <<tree, unit, plan, n, touched>>
      BY <1>1, <1>2 DEF GiveUp, Goto, CallsOK, Place, bound
    <2> QED
      BY <2>1, GiveUpKept
  <1>3. CASE Refuse(p) \/ WriteEvidence(p) \/ Committed(p) \/ UndoTarget(p) \/ Failed(p)
    <2>1. pc'[p] \in {"failed", "evident", "release"}
      BY <1>1, <1>3 DEF Refuse, WriteEvidence, Committed, UndoTarget, Failed, Goto, CallsOK
    <2> QED
      BY <2>1 DEF Kept, Forward, Backward, Checked, Rising, Atop, Undoing
  <1> QED
    BY <1>2, <1>3, StartKept, WriteTargetKept, LogsKept, ArchiveKept, SupportKept, UndoSourceKept DEF Commit

\* The recovery: what it reads, and what it undoes under the lock.
LEMMA ReadsKept ==
    ASSUME TypeOK, NEW p \in Calls, ReadForward(p) \/ ReadBack(p)
    PROVE  Kept(p)'
  <1>1. CallsOK
    BY TypeParts
  <1>2. CASE pc'[p] = "recover"
    BY <1>2 DEF Kept, Forward, Backward, Checked, Rising, Atop, Undoing
  <1>3. CASE pc'[p] # "recover" /\ ReadForward(p)
    <2>1. /\ pc'[p] = "finalize" /\ unit' = unit /\ plan'[p] = Read(unit[p]) /\ Complete(unit[p])
          /\ unit[p] \in Units
      BY <1>1, <1>3, ActiveFacts DEF ReadForward, Ready, Return, Goto, CallsOK, Resting
    <2>2. \A s \in Parts(unit[p]) : s \in Skills /\ Shows(live, unit[p], s)
      BY <2>1, UnitFacts DEF Complete, Parts, Shows
    <2>3. \A s \in Parts(unit[p]) : Shows(Read(unit[p]), unit[p], s)
      BY <2>2 DEF Shows, Read
    <2>4. Checked(p)'
      BY <2>1, <2>3 DEF Checked, Shows, Parts
    <2> QED
      BY <2>1, <2>4 DEF Kept, Forward, Backward, Rising, Atop, Undoing
  <1>4. CASE pc'[p] # "recover" /\ ReadBack(p)
    <2>1. pc'[p] = "back" /\ ~seen'[p].done
      BY <1>1, <1>4 DEF ReadBack, Return, Goto, CallsOK, Glance
    <2> QED
      BY <2>1 DEF Kept, Forward, Backward, Checked, Rising, Atop, Undoing
  <1> QED
    BY <1>2, <1>3, <1>4 DEF ReadForward, ReadBack

LEMMA RestoreTargetKept == ASSUME TypeOK, NEW p \in Calls, Kept(p), RestoreTarget(p) PROVE Kept(p)'
  <1>1. CallsOK /\ TreeOK /\ pc[p] = "restore"
    BY TypeParts DEF RestoreTarget
  <1>2. /\ T(p) \in Skills /\ Size(unit[p]) \in Nat /\ n[p] \in Nat
        /\ \A i \in 1..Size(unit[p]) : Source(p, i) \in Skills /\ Source(p, i) # T(p)
    BY <1>1, ActiveFacts DEF Resting
  <1>3. UNCHANGED <<unit, plan, n, seen, touched>> /\ pc'[p] \in {"release", "sources"}
    BY <1>1 DEF RestoreTarget, Thrown, bound, Goto, CallsOK
  <1>4. \A s \in Skills \ {T(p)} : live'[s] = live[s]
    BY <1>1, <1>2 DEF RestoreTarget, Archived, TreeOK, tree
  <1>5. AsIs(p, 1) /\ ~seen[p].done
    BY <1>1 DEF Kept, Backward, Undoing
  <1>6. AsIs(p, n[p] + 1)'
    <2>1. ASSUME NEW i \in n[p] + 1..Size(unit[p])
          PROVE  Source(p, i) \in touched \/ live'[Source(p, i)] \in {Absent, plan[p][Source(p, i)]}
      <3>1. i \in 1..Size(unit[p])
        BY <1>2
      <3> QED
        BY <1>2, <1>4, <1>5, <3>1 DEF AsIs
    <2> QED
      BY <1>3, <2>1, SameNames DEF AsIs
  <1> QED
    BY <1>3, <1>5, <1>6 DEF Kept, Forward, Backward, Checked, Rising, Atop, Undoing

LEMMA RestoreSourceKept == ASSUME TypeOK, NEW p \in Calls, Kept(p), RestoreSource(p) PROVE Kept(p)'
  <1>1. CallsOK /\ TreeOK /\ pc[p] = "sources" /\ n[p] < Size(unit[p])
    BY TypeParts DEF RestoreSource
  <1>2. /\ T(p) \in Skills /\ Size(unit[p]) \in Nat
        /\ \A i \in 1..Size(unit[p]) : Source(p, i) \in Skills
        /\ \A i, j \in 1..Size(unit[p]) : Source(p, i) = Source(p, j) => i = j
        /\ n[p] \in Nat /\ n[p] + 1 \in 1..Size(unit[p])
    BY <1>1, ActiveFacts DEF Resting
  <1>3. UNCHANGED <<unit, plan, seen, touched>> /\ n'[p] = n[p] + 1 /\ pc'[p] \in {"release", "sources"}
    BY <1>1 DEF RestoreSource, Thrown, bound, Goto, CallsOK
  <1>4. \A s \in Skills \ {Source(p, n[p] + 1)} : live'[s] = live[s]
    BY <1>1, <1>2 DEF RestoreSource, Restored, TreeOK, tree
  <1>5. AsIs(p, n[p] + 1) /\ ~seen[p].done
    BY <1>1 DEF Kept, Backward, Undoing
  <1>6. AsIs(p, n[p] + 1)'
    <2>1. ASSUME NEW i \in n[p] + 2..Size(unit[p])
          PROVE  Source(p, i) \in touched \/ live'[Source(p, i)] \in {Absent, plan[p][Source(p, i)]}
      <3>1. i \in 1..Size(unit[p]) /\ i # n[p] + 1 /\ i \in n[p] + 1..Size(unit[p])
        BY <1>2
      <3>2. Source(p, i) \in Skills \ {Source(p, n[p] + 1)}
        BY <1>2, <3>1
      <3> QED
        BY <1>4, <1>5, <3>1, <3>2 DEF AsIs
    <2>2. (n[p] + 1) + 1 = n[p] + 2
      BY <1>2
    <2> QED
      BY <1>3, <2>1, <2>2, SameNames DEF AsIs
  <1> QED
    BY <1>3, <1>5, <1>6 DEF Kept, Forward, Backward, Checked, Rising, Atop, Undoing

LEMMA RecoverKept == ASSUME TypeOK, NEW p \in Calls, Kept(p), Recover(p) PROVE Kept(p)'
  <1> USE DEF Goto, CallsOK
  <1>1. CallsOK
    BY TypeParts
  <1>2. CASE \/ Boot(p) \/ (\E u \in Units : Decide(p, u)) \/ Finalize(p) \/ FinalizeLog(p)
             \/ BackBusy(p) \/ RolledBack(p) \/ Recovered(p) \/ (BackCheck(p) /\ Drifted(p))
    <2>1. pc'[p] \in {"recover", "finalizing", "forwarding", "backing", "finalized", "release", "idle"}
      BY <1>1, <1>2 DEF Boot, Decide, Branch, Finalize, FinalizeLog, BackBusy, RolledBack, Recovered,
         BackCheck, Return
    <2> QED
      BY <2>1 DEF Kept, Forward, Backward, Checked, Rising, Atop, Undoing
  <1>3. CASE BackLock(p)
    <2>1. pc[p] = "back" /\ pc'[p] = "check" /\ seen' = seen
      BY <1>1, <1>3 DEF BackLock
    <2> QED
      BY <2>1 DEF Kept, Forward, Backward, Checked, Rising, Atop, Undoing
  <1>4. CASE BackCheck(p) /\ ~Drifted(p)
    <2>1. pc[p] = "check" /\ pc'[p] = "restore" /\ UNCHANGED <<live, unit, plan, n, seen, touched>>
      BY <1>1, <1>4 DEF BackCheck, tree, bound
    <2>2. live[T(p)] \in {plan[p][T(p)]} \cup Merged(unit[p]) /\ AsIs(p, 1)
      BY <1>4 DEF Drifted, AsIs
    <2>3. TargetIn(p, {plan[p][T(p)]} \cup Merged(unit[p]))'
      BY <2>1, <2>2, SameNames DEF TargetIn, Merged
    <2>4. AsIs(p, 1)'
      BY <2>1, <2>2, SameNames DEF AsIs
    <2> QED
      BY <2>1, <2>3, <2>4 DEF Kept, Forward, Backward, Checked, Rising, Atop, Undoing
  <1> QED
    BY <1>2, <1>3, <1>4, ReadsKept, RestoreTargetKept, RestoreSourceKept DEF Recover, Rollback

LEMMA FaultKept == ASSUME TypeOK, NEW p \in Calls, Kept(p), Fault(p) PROVE Kept(p)'
  <1>1. CallsOK /\ Place(p)
    BY TypeParts
  <1>2. CASE pc'[p] \in {"failed", "idle", "release"}
    BY <1>2 DEF Kept, Forward, Backward, Checked, Rising, Atop, Undoing
  <1>3. CASE pc'[p] \notin {"failed", "idle", "release"}
    <2>1. /\ pc[p] \in {"archiving", "support"} /\ pc'[p] = "undo"
          /\ UNCHANGED <<tree, unit, plan, n, touched>>
      BY <1>1, <1>3 DEF Fault, Thrown, Return, Goto, CallsOK
    <2>2. n[p] < Size(unit[p]) \/ Supports(p)
      BY <1>1, <2>1 DEF Kept, Forward, Place
    <2> QED
      BY <2>1, <2>2, GiveUpKept
  <1> QED
    BY <1>2, <1>3

LEMMA StepKept == ASSUME TypeOK, NEW p \in Calls, Kept(p), Step(p) PROVE Kept(p)'
  <1>1. CASE Release(p)
    <2>1. pc'[p] \in {"recover", "idle"}
      BY <1>1, TypeParts DEF Release, Return, Goto, CallsOK
    <2> QED
      BY <2>1 DEF Kept, Forward, Backward, Checked, Rising, Atop, Undoing
  <1> QED
    BY <1>1, AssembleKept, CommitKept, RecoverKept, FaultKept DEF Step

LEMMA StepBounds ==
    ASSUME NEW q \in Calls, Step(q)
    PROVE  (\E u \in Units : Assemble(q, u)) \/ Fault(q) \/ UNCHANGED bound
  <1>1. CASE Commit(q)
    BY <1>1 DEF Commit, Prepare, CommitOnce, CommitLock, CommitBusy, WriteTarget, LogWritten, Refuse,
       Checkpoint, ArchiveSource, GiveUp, LogSupport, WriteSupport, AllArchived, WriteReceipt, UnitWritten,
       WriteEvidence, Committed, UndoSource, UndoTarget, Failed
  <1>2. CASE Recover(q)
    BY <1>2 DEF Recover, Boot, Decide, ReadForward, Finalize, FinalizeLog, Rollback, ReadBack, BackBusy,
       BackLock, BackCheck, RestoreTarget, RestoreSource, RolledBack, Recovered
  <1> QED
    BY <1>1, <1>2 DEF Step, Release

\* A call of another process, or of the same, and a person beside it.
LEMMA OthersKept ==
    ASSUME TypeOK, NEW p \in Calls, Kept(p), NEW q \in Calls, p # q, Step(q)
    PROVE  Kept(p)'
  <1>1. touched' = touched
    <2>1. \/ \E u \in Units : Assemble(q, u)
          \/ Fault(q)
          \/ UNCHANGED bound
      BY StepBounds
    <2> QED
      BY <2>1 DEF Assemble, Fault, bound
  <1>2. pc[p] \in Inside => pc[q] \notin Inside
    BY TypeParts DEF Place
  <1>3. pc[p] \in Inside => live' = live
    BY <1>2, WritersInside DEF tree
  <1> QED
    BY <1>1, <1>3, SoloStep, Beside

LEMMA ProgressStep == ASSUME TypeOK, Progress, [Next]_vars PROVE Progress'
  <1> SUFFICES ASSUME NEW p \in Calls PROVE Kept(p)'
    BY DEF Progress
  <1>1. Kept(p)
    BY DEF Progress
  <1>2. CASE UNCHANGED vars
    BY <1>1, <1>2, Beside DEF vars, tree, local, bound
  <1>3. ASSUME NEW s \in Skills, ByHand(s) PROVE Kept(p)'
    <2>1. \A x \in Skills \ {s} : live'[x] = live[x]
      BY <1>3, TypeParts DEF ByHand, Archived, Restored, TreeOK
    <2>2. touched' = touched \cup {s} /\ UNCHANGED local
      BY <1>3 DEF ByHand
    <2> QED
      BY <1>1, <2>1, <2>2, Beside DEF local
  <1>4. ASSUME NEW h, Crash(h) PROVE Kept(p)'
    <2>1. CASE p \in Ended(h)
      <3>1. pc'[p] \in {"boot", "idle"}
        BY <1>4, <2>1 DEF Crash, First
      <3> QED
        BY <3>1 DEF Kept, Forward, Backward, Checked, Rising, Atop, Undoing
    <2>2. CASE p \notin Ended(h)
      <3>1. /\ pc'[p] = pc[p] /\ unit'[p] = unit[p] /\ plan'[p] = plan[p] /\ n'[p] = n[p]
            /\ seen'[p] = seen[p] /\ UNCHANGED <<live, touched>>
        BY <1>4, <2>2 DEF Crash, tree
      <3> QED
        BY <1>1, <3>1, Beside
    <2> QED
      BY <2>1, <2>2
  <1>5. ASSUME NEW q \in Calls, Step(q) PROVE Kept(p)'
    BY <1>1, <1>5, StepKept, OthersKept
  <1> QED
    BY <1>2, <1>3, <1>4, <1>5 DEF Next

\* Whatever runs beside it, a call that holds the lock finds the tree as its
\* place says, but for what a person touched.
THEOREM TreeKeepsPace == Spec => []Progress
  BY InitProgress, ProgressStep, TypeCorrect, PTL DEF Spec

\* Evidence is new at two places only.
LEMMA EvidenceWritten ==
    ASSUME Next, NEW u \in Units, u \in evidence', u \notin evidence
    PROVE  \E p \in Calls : unit[p] = u /\ (WriteEvidence(p) \/ Finalize(p))
  <1>1. ~(\E s \in Skills : ByHand(s)) /\ ~(\E p \in Calls : Crash(Home[p]))
    BY DEF ByHand, Crash, files
  <1>2. PICK p \in Calls : Step(p)
    BY <1>1 DEF Next
  <1>3. ~(Release(p) \/ Fault(p) \/ \E v \in Units : Assemble(p, v))
    BY DEF Release, Fault, Assemble, files
  <1>4. CASE Commit(p)
    <2>1. WriteEvidence(p)
      BY <1>4 DEF Commit, Prepare, CommitOnce, CommitLock, CommitBusy, WriteTarget, LogWritten, Refuse,
         Checkpoint, ArchiveSource, GiveUp, LogSupport, WriteSupport, AllArchived, WriteReceipt, UnitWritten,
         Committed, UndoSource, UndoTarget, Failed, files
    <2> QED
      BY <2>1 DEF WriteEvidence
  <1>5. CASE Recover(p)
    <2>1. Finalize(p)
      BY <1>5 DEF Recover, Boot, Decide, ReadForward, FinalizeLog, Rollback, ReadBack, BackBusy, BackLock,
         BackCheck, RestoreTarget, RestoreSource, RolledBack, Recovered, files
    <2> QED
      BY <2>1 DEF Finalize
  <1> QED
    BY <1>2, <1>3, <1>4, <1>5 DEF Step

\* Evidence of a merge is written by a commit over a tree in which every skill of
\* the unit that no person touched is merged, or by a recovery that had read a
\* tree in which the merge was whole.
THEOREM EvidenceTold == Spec => EvidenceIsHonest
  <1>1. ASSUME TypeOK, TypeOK', Progress, [Next]_vars, NEW u \in evidence' \ evidence
        PROVE  \E p \in Calls : unit[p] = u /\
                  \/ pc[p] = "unitWritten" /\ \A s \in Parts(u) \ touched : Shows(live, u, s)
                  \/ pc[p] = "finalize" /\ \A s \in Parts(u) : Shows(plan[p], u, s)
    <2>1. u \in Units /\ Next
      BY <1>1 DEF TypeOK, vars, files
    <2>2. PICK p \in Calls : unit[p] = u /\ (WriteEvidence(p) \/ Finalize(p))
      BY <1>1, <2>1, EvidenceWritten
    <2>3. Kept(p)
      BY <1>1 DEF Progress
    <2>4. CASE WriteEvidence(p)
      <3>1. pc[p] = "unitWritten" /\ TargetIn(p, {u}) /\ Gone(p, Size(u))
        BY <2>2, <2>3, <2>4 DEF WriteEvidence, Kept, Forward, Atop
      <3>2. \A s \in Parts(u) \ touched : Shows(live, u, s)
        BY <2>1, <2>2, <3>1, UnitFacts DEF TargetIn, Gone, Shows, Parts, T, Source
      <3> QED
        BY <2>2, <3>1, <3>2
    <2>5. CASE Finalize(p)
      BY <2>2, <2>3, <2>5 DEF Finalize, Kept, Checked
    <2> QED
      BY <2>2, <2>4, <2>5
  <1>2. TypeOK /\ TypeOK' /\ Progress /\ [Next]_vars =>
            [\A u \in evidence' \ evidence : \E p \in Calls : unit[p] = u /\
                \/ pc[p] = "unitWritten" /\ \A s \in Parts(u) \ touched : Shows(live, u, s)
                \/ pc[p] = "finalize" /\ \A s \in Parts(u) : Shows(plan[p], u, s)]_vars
    BY <1>1
  <1> QED
    BY <1>2, TypeCorrect, TreeKeepsPace, PTL DEF Spec, EvidenceIsHonest

------------------------------------------------------------------------------
(* What takes a merge with evidence apart.                                 *)

\* No skill is a source of two merges.
Apart == \A u, v \in Units : u # v =>
             \A i \in 1..Size(u), j \in 1..Size(v) : Sources[u][i] # Sources[v][j]

\* A skill of a merge that is whole, and what undoing another merge makes of it.
LEMMA PartStays ==
    ASSUME Apart, TypeOK, NEW u \in Units, Whole(u), NEW s \in Parts(u), s \notin touched,
           NEW p \in Calls, Kept(p), unit[p] # u,
           WriteSupport(p) \/ UndoSource(p) \/ UndoTarget(p) \/ RestoreTarget(p) \/ RestoreSource(p)
    PROVE  live'[s] = live[s]
  <1>1. TreeOK /\ CallsOK /\ Backward(p)
    BY TypeParts DEF Kept
  <1>2. /\ unit[p] \in Units /\ T(p) \in Skills /\ Size(unit[p]) \in Nat
        /\ n[p] \in Nat /\ n[p] <= Size(unit[p])
        /\ \A i \in 1..Size(unit[p]) : Source(p, i) \in Skills
    BY ActiveFacts DEF WriteSupport, UndoSource, UndoTarget, RestoreTarget, RestoreSource, Resting
  <1>3. s \in Skills
    BY UnitFacts DEF Parts
  <1>4. /\ s = Target[u] => live[s] = u
        /\ s # Target[u] => live[s] = Absent
        /\ u # Absent /\ "bare" # Absent /\ u # "bare" /\ unit[p] # Absent /\ unit[p] # "bare"
    BY <1>2, NamesAssumption DEF Whole, Parts
  <1>5. ASSUME NEW i \in 1..Size(unit[p]), s = Source(p, i) PROVE s = Target[u]
    BY <1>2, <1>5 DEF Apart, Parts, Source
  <1>6. CASE WriteSupport(p)
    BY <1>1, <1>2, <1>3, <1>4, <1>6 DEF WriteSupport, TreeOK
  <1>7. CASE UndoSource(p)
    <2>1. n[p] \in 1..Size(unit[p])
      BY <1>2, <1>7 DEF UndoSource
    <2>2. CASE s = Source(p, n[p])
      BY <1>4, <1>5, <1>7, <2>1, <2>2 DEF UndoSource, Restored, CanRestore, tree
    <2>3. CASE s # Source(p, n[p])
      BY <1>1, <1>3, <1>7, <2>3 DEF UndoSource, Restored, TreeOK, tree
    <2> QED
      BY <2>2, <2>3
  <1>8. CASE UndoTarget(p)
    <2>1. s # T(p)
      BY <1>1, <1>4, <1>8 DEF UndoTarget, Backward, TargetIn, After
    <2> QED
      BY <1>1, <1>3, <1>8, <2>1 DEF UndoTarget, Archived, TreeOK, tree
  <1>9. CASE RestoreTarget(p)
    <2>1. CASE s = T(p)
      <3>1. live[s] = plan[p][s]
        BY <1>1, <1>4, <1>9, <2>1 DEF RestoreTarget, Backward, TargetIn, Merged
      <3> QED
        BY <1>1, <1>2, <1>4, <1>9, <2>1, <3>1 DEF RestoreTarget, Archived, Creates, TreeOK, tree
    <2>2. CASE s # T(p)
      BY <1>1, <1>3, <1>9, <2>2 DEF RestoreTarget, Archived, TreeOK, tree
    <2> QED
      BY <2>1, <2>2
  <1>10. CASE RestoreSource(p)
    <2>1. n[p] + 1 \in 1..Size(unit[p]) /\ n[p] + 1 \in n[p] + 1..Size(unit[p])
      BY <1>2, <1>10 DEF RestoreSource
    <2>2. CASE s = Source(p, n[p] + 1)
      <3>1. s = Target[u] /\ live[s] = u
        BY <1>4, <1>5, <2>1, <2>2
      <3>2. plan[p][s] = u
        BY <1>1, <1>4, <1>10, <2>1, <2>2, <3>1 DEF RestoreSource, Backward, AsIs
      <3> QED
        BY <1>1, <1>2, <1>3, <1>4, <1>10, <2>2, <3>1, <3>2
           DEF RestoreSource, Restored, CanRestore, TreeOK, tree
    <2>3. CASE s # Source(p, n[p] + 1)
      BY <1>1, <1>3, <1>10, <2>3 DEF RestoreSource, Restored, TreeOK, tree
    <2> QED
      BY <2>2, <2>3
  <1> QED
    BY <1>6, <1>7, <1>8, <1>9, <1>10

\* A merge that is whole is not one that its own commit gave up.
LEMMA WholeNotGivenUp ==
    ASSUME TypeOK, NEW p \in Calls, Kept(p), unit[p] \in Units, Whole(unit[p]),
           Parts(unit[p]) \cap touched = {}
    PROVE  pc[p] # "undo"
  <1> SUFFICES ASSUME pc[p] = "undo" PROVE FALSE
    OBVIOUS
  <1>1. /\ TargetIn(p, {After(p)})
        /\ Supports(p) \/ \E i \in n[p] + 1..Size(unit[p]) : Left(p, i)
    BY DEF Kept, Backward
  <1>2. unit[p] # "bare" /\ T(p) \in Parts(unit[p])
    BY NamesAssumption DEF Parts, T
  <1>3. ~Supports(p)
    BY <1>1, <1>2 DEF TargetIn, After, Supports, Whole, T
  <1>4. n[p] \in Nat /\ Size(unit[p]) \in Nat
    BY ActiveFacts DEF Resting
  <1>5. PICK i \in 1..Size(unit[p]) : Left(p, i)
    BY <1>1, <1>3, <1>4
  <1>6. Source(p, i) \in Parts(unit[p]) /\ live[Source(p, i)] = Absent
    BY DEF Parts, Source, Whole
  <1> QED
    BY <1>5, <1>6 DEF Left

LEMMA UndoneBy ==
    ASSUME Apart, TypeOK, Progress, [Next]_vars, NEW u \in Units, Unmerged(u), Parts(u) \cap touched = {}
    PROVE  \E p \in Calls : /\ unit[p] = u /\ pc[p] \in {"restore", "sources"} /\ ~seen[p].done
  <1>1. Whole(u) /\ ~Whole(u)' /\ touched' = touched /\ ~MergedOver
    BY DEF Unmerged
  <1>2. ASSUME \A s \in Parts(u) : live'[s] = live[s] PROVE FALSE
    <2>1. Target[u] \in Parts(u) /\ \A i \in 1..Size(u) : Sources[u][i] \in Parts(u)
      BY DEF Parts
    <2> QED
      BY <1>1, <1>2, <2>1 DEF Whole
  <1>3. live' # live
    BY <1>2
  <1>4. ~(\E s \in Skills : ByHand(s)) /\ ~(\E p \in Calls : Crash(Home[p])) /\ ~UNCHANGED vars
    BY <1>1, <1>3 DEF ByHand, Crash, tree, vars
  <1>5. PICK p \in Calls : Step(p)
    BY <1>4 DEF Next
  <1>6. ~WriteTarget(p) /\ ~ArchiveSource(p)
    BY <1>1, TypeParts DEF MergedOver, WriteTarget, ArchiveSource, Goto, CallsOK
  <1>7. WriteSupport(p) \/ UndoSource(p) \/ UndoTarget(p) \/ RestoreTarget(p) \/ RestoreSource(p)
    BY <1>3, <1>5, <1>6, TreeWritten DEF tree
  <1>8. Kept(p)
    BY DEF Progress
  <1>9. unit[p] = u
    BY <1>1, <1>2, <1>7, <1>8, PartStays
  <1>10. pc[p] # "undo"
    BY <1>1, <1>8, <1>9, WholeNotGivenUp
  <1>11. ~WriteSupport(p)
    <2> SUFFICES ASSUME WriteSupport(p) PROVE FALSE
      OBVIOUS
    <2>1. live[T(p)] = u /\ u # "bare"
      BY <1>1, <1>9, NamesAssumption DEF Whole, T
    <2> QED
      BY <1>3, <2>1, TypeParts DEF WriteSupport, TreeOK
  <1>12. pc[p] \in {"restore", "sources"}
    BY <1>7, <1>10, <1>11 DEF UndoSource, UndoTarget, RestoreTarget, RestoreSource
  <1>13. ~seen[p].done
    BY <1>8, <1>12 DEF Kept, Backward, Undoing
  <1> QED
    BY <1>9, <1>12, <1>13

\* Where no skill is a source of two merges: whatever calls and processes run
\* beside each other, fail and crash, a merge with evidence whose skills nobody
\* touched by hand is taken apart only by a rollback of its own unit that had
\* read no evidence and no receipt.  A failed commit, and the rollback of another
\* unit, never do.
THEOREM OnlyItsRollback == ASSUME Apart PROVE Spec => OnlyStaleRollbackUndoes
  <1>1. TypeOK /\ Progress /\ [Next]_vars =>
            [\A u \in Units : Unmerged(u) =>
                \/ Parts(u) \cap touched # {}
                \/ \E p \in Calls : /\ unit[p] = u /\ pc[p] \in {"restore", "sources"}
                                    /\ ~seen[p].done]_vars
    BY UndoneBy
  <1> QED
    BY <1>1, TypeCorrect, TreeKeepsPace, PTL DEF Spec, OnlyStaleRollbackUndoes
=============================================================================
