------------------------- MODULE AtomicTree_proofs -------------------------
(***************************************************************************)
(* MutationUnit implements AtomicTree, for every tree, plan and number of  *)
(* callers and crashes, while no IO call fails and nobody edits by hand.   *)
(* The tree a recovery would leave (View) depends on the prepared unit; so *)
(* the invariant says that there is at most one, that it is being applied  *)
(* or every caller will recover it before anything else, and what is on    *)
(* disk at each place of a call.                                           *)
(***************************************************************************)
EXTENDS MutationTree_proofs

\* No IO call throws and nobody edits a file; crashes and overlaps remain.
Undisturbed == MaxFaults = 0 /\ MaxEdits = 0

Prepared(v)    == snapshot[v].state = "prepared"
Applies(c, v)  == op[c] = "apply" /\ unit[c] = v /\ pc[c] \in {"journalPrepared", "write", "commit"}
Recovers(c, v) == op[c] = "recover" /\ unit[c] = v /\ pc[c] \in {"queued", "acquire", "revert"}
\* c does nothing else before it has recovered v, or found it recovered.
Owes(c, v) == pc[c] = "cold" \/ (pc[c] = "ready" /\ v \in todo[c]) \/ Recovers(c, v)

\* One unit is prepared at a time, and it is taken care of.
Single   == \A u, v \in Units : Prepared(u) /\ Prepared(v) => u = v
Attended == \A v \in Units : Prepared(v) =>
                (\E c \in Callers : Applies(c, v)) \/ (\A c \in Callers : Owes(c, v))
ListOf(c) == (todo[c] # {} => pc[c] = "ready") /\ \A u, v \in todo[c] : u = v
Lists     == \A c \in Callers : ListOf(c)

\* No call has failed; a lock record of this process has a holder.
Calm == faults = 0 /\ edits = 0
        /\ \A c \in Callers : pc[c] \notin {"rollback", "journalFailed", "compensate"}
Leased == /\ lock.epoch <= epoch
          /\ lock.epoch = epoch => \E c \in Callers : pc[c] \in Locked

\* What the targets hold at each place of a call.
Before(c, j) == files[Target(unit[c], j)] = seen[c][j]
Done(c, j)   == files[Target(unit[c], j)] = After(unit[c], j)
PlaceOf(c) ==
    /\ pc[c] = "read" => \A j \in 1..Size(unit[c]) : j < k[c] => Before(c, j)
    /\ pc[c] \in {"prepare", "journalPrepared", "undoSnapshot"} => \A j \in 1..Size(unit[c]) : Before(c, j)
    /\ pc[c] = "write" => \A j \in 1..Size(unit[c]) : IF j < k[c] THEN Done(c, j) ELSE Before(c, j)
    /\ pc[c] = "commit" => \A j \in 1..Size(unit[c]) : Done(c, j)
    /\ pc[c] = "revert" => \A j \in 1..Size(unit[c]) : j > k[c] => Before(c, j)
    /\ pc[c] = "preflight" => \A j \in 1..Size(unit[c]) : j < k[c] => Done(c, j)
    /\ pc[c] = "unwrite" => \A j \in 1..Size(unit[c]) : IF j <= k[c] THEN Done(c, j) ELSE Before(c, j)
    /\ pc[c] \in {"journalPrepared", "write", "commit"} => Prepared(unit[c])
Place  == \A c \in Callers : PlaceOf(c)
Either == \A v \in Units : Prepared(v) => \A i \in 1..Size(v) :
              files[Target(v, i)] \in {snapshot[v].before[i], After(v, i)}

Steady == Single /\ Attended /\ Lists /\ Calm /\ Leased /\ Place /\ Either

LEMMA InitSteady == Undisturbed /\ Init => Steady
  BY DEF Init, Steady, Single, Attended, Lists, ListOf, Calm, Leased, Place, PlaceOf, Either, Prepared,
         NoSnapshot, Free

------------------------------------------------------------------------------
(* What cannot happen.                                                     *)

\* The holder of the lock is the one who takes care of the prepared unit.
LEMMA HolderAttends ==
    ASSUME SerialHeld, Attended, NEW c \in Callers, pc[c] \in Locked, NEW v \in Units, Prepared(v)
    PROVE  Applies(c, v) \/ (pc[c] = "revert" /\ Recovers(c, v))
  <1>1. CASE \E d \in Callers : Applies(d, v)
    <2>1. PICK d \in Callers : Applies(d, v)
      BY <1>1
    <2>2. pc[d] \in Locked
      BY <2>1 DEF Applies, Locked, Labels
    <2>3. d = c
      BY <2>2, OthersOut
    <2> QED
      BY <2>1, <2>3
  <1>2. CASE Owes(c, v)
    BY <1>2 DEF Owes, Recovers, Locked
  <1> QED
    BY <1>1, <1>2 DEF Attended

\* Without faults and edits the failure paths are not entered: every
\* compare-and-swap finds what the call left or read there.
LEMMA NoFailure ==
    ASSUME Undisturbed, IInv, Steady, NEW c \in Callers
    PROVE  /\ ~RecoveryFault(c) /\ ~LockFailed(c) /\ ~ReleaseFault(c)
           /\ ~ApplyThrows(c) /\ ~RollbackTarget(c) /\ ~RollbackEnds(c) /\ ~JournalFailed(c)
           /\ ~UndoThrows(c) /\ ~Compensate(c) /\ ~CompensateFault(c) /\ ~CompensateEnds(c)
  <1>0. ~Fault /\ Calm /\ Place /\ SerialHeld /\ TypeOK /\ ShapeOf(c)
    BY DEF Steady, Undisturbed, Calm, Fault, IInv, Inv, TypeInv, Shape
  <1>1. ~RecoveryFault(c) /\ ~ReleaseFault(c) /\ ~CompensateFault(c)
    BY <1>0 DEF RecoveryFault, ReleaseFault, CompensateFault
  <1>2. ~LockFailed(c)
    <2> SUFFICES ASSUME At(c, "acquire"), lock.epoch = epoch PROVE FALSE
      BY <1>0 DEF LockFailed
    <2>1. PICK d \in Callers : pc[d] \in Locked
      BY DEF Steady, Leased
    <2> QED
      BY <1>0, <2>1 DEF SerialHeld, At, Locked
  <1>3. ~ApplyThrows(c)
    <2> SUFFICES ASSUME At(c, "write"), k[c] <= Size(unit[c]),
                        files[Target(unit[c], k[c])] # seen[c][k[c]]
                 PROVE  FALSE
      BY <1>0 DEF ApplyThrows
    <2>1. k[c] \in 1..Size(unit[c])
      BY <1>0 DEF ShapeOf, At, TypeOK
    <2> QED
      BY <1>0, <2>1 DEF Place, PlaceOf, At, Before
  <1>4. ~UndoThrows(c)
    <2> SUFFICES ASSUME At(c, "unwrite"), k[c] >= 1,
                        files[Target(unit[c], k[c])] # After(unit[c], k[c])
                 PROVE  FALSE
      BY <1>0 DEF UndoThrows
    <2>1. k[c] \in 1..Size(unit[c])
      BY <1>0 DEF ShapeOf, At, TypeOK
    <2> QED
      BY <1>0, <2>1 DEF Place, PlaceOf, At, Done
  <1>5. ~RollbackTarget(c) /\ ~RollbackEnds(c) /\ ~JournalFailed(c) /\ ~Compensate(c) /\ ~CompensateEnds(c)
    BY <1>0 DEF Calm, RollbackTarget, RollbackEnds, JournalFailed, Compensate, CompensateEnds, At
  <1> QED
    BY <1>1, <1>2, <1>3, <1>4, <1>5

\* Nor is the recovery of a prepared unit refused.
LEMMA NotRefused ==
    ASSUME Undisturbed, IInv, Steady, NEW c \in Callers, RecoverRefused(c)
    PROVE  unit[c] \in Units /\ ~Prepared(unit[c])
  <1>1. /\ TypeOK /\ ShapeOf(c) /\ BaseOf(c) /\ ~Fault /\ Busy(c) /\ pc[c] = "revert"
        /\ unit[c] \in Units /\ Size(unit[c]) \in Nat
    BY Holding DEF Steady, Calm, Undisturbed, Fault, RecoverRefused, At, Busy
  <1>2. k[c] \in 1..Size(unit[c]) /\ files[Target(unit[c], k[c])] \notin {seen[c][k[c]], After(unit[c], k[c])}
    BY <1>1 DEF RecoverRefused, ShapeOf, TypeOK
  <1>3. snapshot[unit[c]].before = seen[c]
    BY <1>1 DEF BaseOf, RecoverLabels
  <1> QED
    BY <1>1, <1>2, <1>3 DEF Steady, Either


------------------------------------------------------------------------------
(* Frames: what a step of c leaves alone.                                  *)

LEMMA PlaceFrame ==
    ASSUME SerialHeld, Place, NEW c \in Callers, OnlyLocal(c), PlaceOf(c)',
           UNCHANGED <<files, snapshot>> \/ pc[c] \in Locked
    PROVE  Place'
  <1>1. ASSUME NEW d \in Callers, d # c PROVE PlaceOf(d)'
    <2>1. PlaceOf(d) /\ pc'[d] = pc[d] /\ unit'[d] = unit[d] /\ k'[d] = k[d] /\ seen'[d] = seen[d]
      BY <1>1 DEF Place, OnlyLocal
    <2>2. CASE UNCHANGED <<files, snapshot>>
      BY <2>1, <2>2 DEF PlaceOf, Before, Done, Prepared
    <2>3. CASE pc[c] \in Locked
      <3>1. pc[d] \notin Locked
        BY <1>1, <2>3, OthersOut
      <3> QED
        BY <2>1, <3>1 DEF PlaceOf, Locked, Labels
    <2> QED
      BY <2>2, <2>3
  <1> QED
    BY <1>1 DEF Place

LEMMA LeaseFrame ==
    ASSUME Leased, UNCHANGED <<lock, epoch>>, NEW c \in Callers, OnlyLocal(c),
           pc[c] \in Locked => pc'[c] \in Locked
    PROVE  Leased'
  BY DEF Leased, OnlyLocal

\* The prepared unit is taken care of as before.
Keeps(c) == \A v \in Units : Prepared(v) =>
    (Applies(c, v) => Applies(c, v)') /\ (Owes(c, v) => Owes(c, v)')

LEMMA AttendFrame ==
    ASSUME Attended, NEW c \in Callers, OnlyLocal(c), snapshot' = snapshot,
           \A d \in Callers \ {c} : todo'[d] = todo[d], Keeps(c)
    PROVE  Attended'
  <1> SUFFICES ASSUME NEW v \in Units, Prepared(v)
               PROVE  (\E d \in Callers : Applies(d, v)') \/ (\A d \in Callers : Owes(d, v)')
    BY DEF Attended, Prepared
  <1>1. ASSUME NEW d \in Callers, Applies(d, v) PROVE Applies(d, v)'
    BY <1>1 DEF Applies, OnlyLocal, Keeps
  <1>2. ASSUME NEW d \in Callers, Owes(d, v) PROVE Owes(d, v)'
    BY <1>2 DEF Owes, Recovers, OnlyLocal, Keeps
  <1> QED
    BY <1>1, <1>2 DEF Attended

\* A step of c that moves neither files nor snapshots.
LEMMA QuietSteady ==
    ASSUME IInv, Steady, NEW c \in Callers, OnlyLocal(c),
           UNCHANGED <<files, snapshot, edits, faults>>,
           \A d \in Callers \ {c} : todo'[d] = todo[d], ListOf(c)', Keeps(c),
           PlaceOf(c)', pc'[c] \notin {"rollback", "journalFailed", "compensate"}, Leased'
    PROVE  Steady'
  <1>1. Place' /\ Attended'
    BY PlaceFrame, AttendFrame DEF IInv, Inv, Steady
  <1>2. Single' /\ Either'
    BY DEF Steady, Single, Either, Prepared
  <1>3. Lists'
    BY DEF Steady, Lists, ListOf, OnlyLocal
  <1>4. Calm'
    BY DEF Steady, Calm, OnlyLocal
  <1> QED
    BY <1>1, <1>2, <1>3, <1>4 DEF Steady

------------------------------------------------------------------------------
(* The steps between calls, and of the lock.                               *)

LEMMA CallSteady ==
    ASSUME Undisturbed, IInv, Steady, NEW c \in Callers, CallStep(c)
    PROVE  Steady'
  <1> USE DEF Goto, At, Step, disk, local, bound
  <1>0. /\ TypeOK /\ Attended /\ Single /\ ListOf(c) /\ Calm /\ Leased /\ PlaceOf(c)
    BY DEF IInv, Inv, TypeInv, Steady, Lists, Place
  <1>1. ~RecoveryFault(c)
    BY NoFailure
  <1>2. /\ UNCHANGED <<files, snapshot, edits, faults, lock, epoch, k>> /\ OnlyLocal(c)
        /\ pc[c] \notin Locked /\ pc'[c] \in {"ready", "queued", "cold"}
        /\ \A d \in Callers \ {c} : todo'[d] = todo[d]
    <2>1. CASE ListPrepared(c) \/ NewLibrary(c)
      BY <1>0, <2>1 DEF ListPrepared, NewLibrary, OnlyLocal, TypeOK, Locked
    <2>2. ASSUME NEW u \in Units, RecoverRead(c, u) PROVE <1>2!:
      BY <1>0, <2>2 DEF RecoverRead, OnlyLocal, TypeOK, Locked
    <2>3. ASSUME NEW u \in Units, ApplyStart(c, u) \/ UndoRead(c, u) PROVE <1>2!:
      BY <1>0, <2>3 DEF ApplyStart, UndoRead, OnlyLocal, TypeOK, Locked
    <2> QED
      BY <1>1, <2>1, <2>2, <2>3 DEF CallStep
  <1>3. Leased' /\ PlaceOf(c)' /\ pc'[c] \notin {"rollback", "journalFailed", "compensate"}
    BY <1>0, <1>2, LeaseFrame DEF PlaceOf
  <1>4. \A v \in Units : ~Applies(c, v)
    BY <1>2 DEF Applies, Locked, Labels
  <1>5. ListOf(c)' /\ Keeps(c)
    <2>1. CASE ListPrepared(c)
      <3>1. pc'[c] = "ready" /\ todo'[c] = {u \in Units : Prepared(u)}
        BY <1>0, <2>1 DEF ListPrepared, TypeOK, Prepared
      <3> QED
        BY <1>0, <1>4, <3>1 DEF ListOf, Keeps, Owes, Single
    <2>2. CASE NewLibrary(c)
      BY <1>0, <1>4, <2>2 DEF NewLibrary, ListOf, Keeps, Owes, TypeOK
    <2>3. ASSUME NEW u \in Units, RecoverRead(c, u) PROVE ListOf(c)' /\ Keeps(c)
      <3>1. pc[c] = "ready" /\ u \in todo[c] /\ todo'[c] = {}
        BY <1>0, <2>3 DEF RecoverRead, TypeOK, ListOf
      <3>2. ASSUME NEW v \in Units, Prepared(v), Owes(c, v) PROVE Recovers(c, v)'
        <4>1. v = u
          BY <1>0, <3>1, <3>2 DEF Owes, Recovers, ListOf
        <4> QED
          BY <1>0, <2>3, <3>2, <4>1 DEF RecoverRead, Recovers, TypeOK, Prepared
      <3> QED
        BY <1>4, <3>1, <3>2 DEF ListOf, Keeps, Owes
    <2>4. ASSUME NEW u \in Units, ApplyStart(c, u) \/ UndoRead(c, u) PROVE ListOf(c)' /\ Keeps(c)
      BY <1>0, <1>4, <2>4 DEF ApplyStart, UndoRead, ListOf, Keeps, Owes, Recovers, TypeOK
    <2> QED
      BY <1>1, <2>1, <2>2, <2>3, <2>4 DEF CallStep
  <1> QED
    BY <1>2, <1>3, <1>5, QuietSteady

LEMMA LockSteady ==
    ASSUME Undisturbed, IInv, Steady, NEW c \in Callers, LockStep(c)
    PROVE  Steady'
  <1> USE DEF Goto, At, Step, disk, local, bound
  <1>0. /\ TypeOK /\ SerialHeld /\ ListOf(c) /\ Leased /\ PlaceOf(c) /\ ShapeOf(c) /\ BaseOf(c)
        /\ Busy(c) => unit[c] \in Units /\ Size(unit[c]) \in Nat
    BY Holding DEF Steady, Lists, Place
  <1>1. Enter(c) \/ Acquire(c) \/ Release(c)
    BY NoFailure DEF LockStep
  <1>2. UNCHANGED <<files, snapshot, edits, faults, epoch, todo, op, unit, seen>> /\ OnlyLocal(c)
    BY <1>0, <1>1 DEF Enter, Acquire, Release, OnlyLocal, TypeOK
  <1>3. Leased' /\ PlaceOf(c)' /\ pc'[c] \notin {"rollback", "journalFailed", "compensate"}
    <2>1. CASE Enter(c)
      BY <1>0, <1>2, <2>1, LeaseFrame DEF Enter, PlaceOf, TypeOK, Locked
    <2>2. CASE Acquire(c)
      <3>1. pc'[c] \in {"read", "revert", "preflight"} /\ lock'.epoch = epoch
            /\ (pc'[c] \in {"read", "preflight"} => k'[c] = 1)
            /\ (pc'[c] = "revert" => k'[c] = Size(unit[c]))
        BY <1>0, <2>2 DEF Acquire, TypeOK
      <3>2. Leased'
        <4>1. pc'[c] \in Locked
          BY <3>1 DEF Locked, Labels
        <4> QED
          BY <1>0, <1>2, <3>1, <4>1 DEF Leased, TypeOK
      <3>3. Size(unit[c]) \in Nat
        BY <1>0, <2>2 DEF Acquire, Busy
      <3>4. PlaceOf(c)'
        BY <1>2, <3>1, <3>3 DEF PlaceOf
      <3> QED
        BY <3>1, <3>2, <3>4
    <2>3. CASE Release(c)
      <3>1. pc'[c] = "ready" /\ lock = [epoch |-> epoch, holder |-> c] /\ lock' = Free
        BY <1>0, <2>3 DEF Release, TypeOK, SerialHeld, Locked, Labels
      <3>2. Leased'
        BY <1>0, <1>2, <3>1 DEF Leased, Free, TypeOK
      <3> QED
        BY <3>1, <3>2 DEF PlaceOf
    <2> QED
      BY <1>1, <2>1, <2>2, <2>3
  <1>4. ListOf(c)' /\ Keeps(c)
    <2>1. todo[c] = {}
      BY <1>0, <1>1 DEF Enter, Acquire, Release, ListOf
    <2>2. ASSUME NEW v \in Units PROVE ~Applies(c, v)
      BY <1>1 DEF Enter, Acquire, Release, Applies
    <2>3. ASSUME NEW v \in Units, Owes(c, v) PROVE Owes(c, v)'
      <3>1. Recovers(c, v)
        BY <2>1, <2>3, <1>1 DEF Owes, Enter, Acquire, Release
      <3>2. CASE Enter(c)
        BY <1>0, <1>2, <3>1, <3>2 DEF Enter, Owes, Recovers, TypeOK
      <3>3. CASE Acquire(c)
        BY <1>0, <1>2, <3>1, <3>3 DEF Acquire, Owes, Recovers, TypeOK
      <3> QED
        BY <1>1, <3>1, <3>2, <3>3 DEF Release, Recovers
    <2> QED
      BY <1>2, <2>1, <2>2, <2>3 DEF ListOf, Keeps
  <1> QED
    BY <1>2, <1>3, <1>4, QuietSteady

------------------------------------------------------------------------------
(* The steps of an apply, a recovery and an undo that change no snapshot.  *)

\* What a call in the lock has at hand.
LEMMA InLock ==
    ASSUME IInv, Steady, NEW c \in Callers, pc[c] \in Locked
    PROVE  /\ TypeOK /\ SerialHeld /\ Attended /\ Single /\ Leased /\ ShapeOf(c) /\ BaseOf(c) /\ PlaceOf(c)
           /\ todo[c] = {} /\ unit[c] \in Units /\ Size(unit[c]) \in Nat /\ Busy(c)
           /\ \A i \in 1..Size(unit[c]) : Target(unit[c], i) \in Paths
           /\ \A i, j \in 1..Size(unit[c]) : Target(unit[c], i) = Target(unit[c], j) => i = j
  <1>1. Busy(c) /\ pc[c] # "ready"
    BY DEF Busy, Locked
  <1> QED
    BY <1>1, Holding, PlanFacts DEF Steady, Lists, ListOf, Place

\* A step in the lock that stays in it, or leaves for the release.
LEMMA StillSteady ==
    ASSUME IInv, Steady, NEW c \in Callers, pc[c] \in Locked, OnlyLocal(c),
           UNCHANGED <<files, snapshot, edits, faults, todo, lock, epoch, op, unit>>,
           PlaceOf(c)', pc'[c] \in Locked \ {"rollback", "journalFailed", "compensate"},
           \/ pc[c] \in {"journalPrepared", "write"} /\ pc'[c] \in {"write", "commit"}
           \/ pc[c] = "revert" /\ (pc'[c] = "revert" \/ ~Prepared(unit[c]))
           \/ pc[c] \notin {"journalPrepared", "write", "commit", "revert"}
    PROVE  Steady'
  <1>1. Keeps(c)
    <2> SUFFICES ASSUME NEW v \in Units, Prepared(v)
                 PROVE  (Applies(c, v) => Applies(c, v)') /\ (Owes(c, v) => Owes(c, v)')
      BY DEF Keeps
    <2>1. Applies(c, v) => Applies(c, v)'
      BY DEF Applies
    <2>2. Owes(c, v) => Recovers(c, v) /\ pc[c] = "revert" /\ v = unit[c]
      BY DEF Owes, Recovers, Locked
    <2>3. Owes(c, v) => Owes(c, v)'
      BY <2>2 DEF Owes, Recovers
    <2> QED
      BY <2>1, <2>3
  <1>2. Leased' /\ ListOf(c)'
    BY InLock, LeaseFrame DEF ListOf
  <1>3. pc'[c] \notin {"rollback", "journalFailed", "compensate"}
    OBVIOUS
  <1> QED
    BY <1>1, <1>2, <1>3, QuietSteady

LEMMA ApplySteady ==
    ASSUME Undisturbed, IInv, Steady, NEW c \in Callers,
           ReadTarget(c) \/ RefuseDrift(c) \/ Validate(c) \/ JournalPrepared(c)
             \/ JournalWritten(c) \/ JournalCommitted(c)
    PROVE  Steady'
  <1> USE DEF Goto, At, Step, disk, local, bound, Keep, SetPhase
  <1>a. pc[c] \in Locked
    BY DEF ReadTarget, RefuseDrift, Validate, JournalPrepared, JournalWritten, JournalCommitted, Locked, Labels
  <1>0. /\ TypeOK /\ ShapeOf(c) /\ BaseOf(c) /\ PlaceOf(c) /\ unit[c] \in Units /\ Size(unit[c]) \in Nat
    BY <1>a, InLock
  <1>1. /\ UNCHANGED <<files, snapshot, edits, faults, todo, lock, epoch, op, unit>> /\ OnlyLocal(c)
        /\ pc'[c] \in Locked \ {"rollback", "journalFailed", "compensate"}
        /\ pc[c] \in {"journalPrepared", "write"} => pc'[c] \in {"write", "commit"}
        /\ pc[c] \notin {"commit", "revert"}
    BY <1>0 DEF ReadTarget, RefuseDrift, Validate, JournalPrepared, JournalWritten, JournalCommitted,
                OnlyLocal, TypeOK, Locked, Labels
  <1>2. PlaceOf(c)'
    <2>1. CASE ReadTarget(c)
      <3>1. /\ pc'[c] = "read" /\ k[c] \in 1..Size(unit[c]) /\ k'[c] = k[c] + 1
            /\ seen' = [seen EXCEPT ![c] = Append(seen[c], files[Target(unit[c], k[c])])]
            /\ Len(seen[c]) = k[c] - 1 /\ pc[c] = "read"
        BY <1>0, <2>1 DEF ReadTarget, ShapeOf, TypeOK
      <3>2. \A j \in 1..Size(unit[c]) : j < k[c] + 1 =>
               seen'[c][j] = IF j < k[c] THEN seen[c][j] ELSE files[Target(unit[c], k[c])]
        BY <1>0, <3>1 DEF TypeOK
      <3>3. \A j \in 1..Size(unit[c]) : j < k[c] + 1 => files[Target(unit[c], j)] = seen'[c][j]
        BY <1>0, <3>1, <3>2 DEF PlaceOf, Before
      <3> QED
        BY <1>1, <3>1, <3>3 DEF PlaceOf, Before
    <2>2. CASE RefuseDrift(c) \/ JournalCommitted(c)
      BY <1>0, <2>2 DEF RefuseDrift, JournalCommitted, PlaceOf, TypeOK
    <2>3. CASE Validate(c)
      <3>1. /\ pc[c] = "read" /\ pc'[c] \in {"prepare", "release"} /\ k[c] > Size(unit[c])
            /\ UNCHANGED <<seen, unit, k, files>>
        BY <1>0, <2>3 DEF Validate, TypeOK
      <3>2. k[c] \in Nat
        BY <1>0 DEF TypeOK
      <3>3. \A j \in 1..Size(unit[c]) : Before(c, j)
        BY <1>0, <3>1, <3>2 DEF PlaceOf
      <3> QED
        BY <3>1, <3>3 DEF PlaceOf, Before
    <2>4. CASE JournalPrepared(c)
      <3>1. /\ pc[c] = "journalPrepared" /\ pc'[c] = "write" /\ k'[c] = 1
            /\ UNCHANGED <<seen, unit, files, snapshot>>
        BY <1>0, <2>4 DEF JournalPrepared, TypeOK
      <3> QED
        BY <1>0, <3>1 DEF PlaceOf, Before, Done, Prepared
    <2>5. CASE JournalWritten(c)
      <3>1. /\ pc[c] = "write" /\ pc'[c] = "commit" /\ k[c] > Size(unit[c]) /\ k[c] \in Nat
            /\ UNCHANGED <<seen, unit, files, snapshot>>
        BY <1>0, <2>5 DEF JournalWritten, TypeOK
      <3>2. \A j \in 1..Size(unit[c]) : Done(c, j)
        BY <1>0, <3>1 DEF PlaceOf
      <3> QED
        BY <1>0, <3>1, <3>2 DEF PlaceOf, Done, Prepared
    <2> QED
      BY <2>1, <2>2, <2>3, <2>4, <2>5
  <1> QED
    BY <1>a, <1>1, <1>2, StillSteady

LEMMA RevertSteady ==
    ASSUME Undisturbed, IInv, Steady, NEW c \in Callers,
           SkipTarget(c) \/ RecoverRefused(c) \/ JournalUndone(c) \/ Preflight(c) \/ UndoJournal(c)
    PROVE  Steady'
  <1> USE DEF Goto, At, Step, disk, local, bound, Keep, SetPhase
  <1>a. pc[c] \in Locked
    BY DEF SkipTarget, RecoverRefused, JournalUndone, Preflight, UndoJournal, Locked, Labels
  <1>0. /\ TypeOK /\ ShapeOf(c) /\ BaseOf(c) /\ PlaceOf(c) /\ unit[c] \in Units /\ Size(unit[c]) \in Nat
        /\ ~Fault
    BY <1>a, InLock DEF Fault, Undisturbed, Steady, Calm
  <1>1. /\ UNCHANGED <<files, snapshot, edits, faults, todo, lock, epoch, op, unit, seen>> /\ OnlyLocal(c)
        /\ pc'[c] \in Locked \ {"rollback", "journalFailed", "compensate"}
        /\ pc[c] \notin {"journalPrepared", "write", "commit"}
    BY <1>0 DEF SkipTarget, RecoverRefused, JournalUndone, Preflight, UndoJournal,
                OnlyLocal, TypeOK, Locked, Labels
  <1>2. pc[c] = "revert" => pc'[c] = "revert" \/ ~Prepared(unit[c])
    BY <1>0, NotRefused DEF SkipTarget, JournalUndone, Preflight, UndoJournal
  <1>3. PlaceOf(c)'
    <2>1. CASE SkipTarget(c)
      <3>1. /\ pc[c] = "revert" /\ pc'[c] = "revert" /\ k[c] \in 1..Size(unit[c]) /\ k'[c] = k[c] - 1
            /\ Before(c, k[c])
        BY <1>0, <2>1 DEF SkipTarget, TypeOK, ShapeOf, Before
      <3> QED
        BY <1>0, <1>1, <3>1 DEF PlaceOf, Before
    <2>2. CASE RecoverRefused(c) \/ JournalUndone(c)
      BY <1>0, <2>2 DEF RecoverRefused, JournalUndone, PlaceOf, TypeOK
    <2>3. CASE Preflight(c)
      <3>0. pc[c] = "preflight" /\ k[c] \in Nat /\ k[c] >= 1
        BY <1>0, <2>3 DEF Preflight, TypeOK, ShapeOf
      <3>1. \/ pc'[c] = "unwrite" /\ k[c] > Size(unit[c]) /\ k'[c] = Size(unit[c])
            \/ pc'[c] = "preflight" /\ k[c] <= Size(unit[c]) /\ k'[c] = k[c] + 1 /\ Done(c, k[c])
            \/ pc'[c] = "release"
        BY <1>0, <2>3 DEF Preflight, TypeOK, Done
      <3>2. \A j \in 1..Size(unit[c]) : j < k[c] => Done(c, j)
        BY <1>0, <3>0 DEF PlaceOf
      <3> QED
        BY <1>0, <1>1, <3>0, <3>1, <3>2 DEF PlaceOf, Done, Before
    <2>4. CASE UndoJournal(c)
      <3>1. pc[c] = "unwrite" /\ pc'[c] = "undoSnapshot" /\ k[c] = 0
        BY <1>0, <2>4 DEF UndoJournal, TypeOK
      <3>2. \A j \in 1..Size(unit[c]) : Before(c, j)
        BY <1>0, <3>1 DEF PlaceOf
      <3> QED
        BY <1>1, <3>1, <3>2 DEF PlaceOf, Before
    <2> QED
      BY <2>1, <2>2, <2>3, <2>4
  <1> QED
    BY <1>a, <1>1, <1>2, <1>3, StillSteady

------------------------------------------------------------------------------
(* The steps that move a file.                                             *)

LEMMA MoveSteady ==
    ASSUME IInv, Steady, NEW c \in Callers, pc[c] \in {"write", "revert", "unwrite"}, OnlyLocal(c),
           UNCHANGED <<snapshot, edits, faults, todo, lock, epoch, pc, op, unit, seen>>,
           NEW i \in 1..Size(unit[c]), NEW w \in {seen[c][i], After(unit[c], i)},
           files' = [files EXCEPT ![Target(unit[c], i)] = w], PlaceOf(c)'
    PROVE  Steady'
  <1>a. pc[c] \in Locked
    BY DEF Locked, Labels
  <1>0. /\ TypeOK /\ SerialHeld /\ Attended /\ Leased /\ BaseOf(c) /\ unit[c] \in Units
        /\ \A j \in 1..Size(unit[c]) : Target(unit[c], j) \in Paths
        /\ \A j, l \in 1..Size(unit[c]) : Target(unit[c], j) = Target(unit[c], l) => j = l
    BY <1>a, InLock
  <1>1. snapshot[unit[c]].before = seen[c]
    BY <1>0 DEF BaseOf, Busy, RecoverLabels, UndoLabels
  <1>2. Either'
    <2> SUFFICES ASSUME NEW v \in Units, Prepared(v), NEW j \in 1..Size(v)
                 PROVE  files'[Target(v, j)] \in {snapshot[v].before[j], After(v, j)}
      BY DEF Either, Prepared
    <2>1. v = unit[c]
      BY <1>a, <1>0, HolderAttends DEF Applies, Recovers
    <2>2. CASE j = i
      BY <1>0, <1>1, <2>1, <2>2 DEF TypeOK
    <2>3. CASE j # i
      <3>1. files'[Target(v, j)] = files[Target(v, j)]
        BY <1>0, <2>1, <2>3 DEF TypeOK
      <3> QED
        BY <3>1 DEF Steady, Either
    <2> QED
      BY <2>2, <2>3
  <1>3. Keeps(c)
    BY DEF Keeps, Applies, Owes, Recovers
  <1>4. Attended' /\ Leased' /\ Place'
    BY <1>a, <1>0, <1>3, AttendFrame, LeaseFrame, PlaceFrame DEF Steady
  <1>5. Single' /\ Lists' /\ Calm'
    BY DEF Steady, Single, Prepared, Lists, ListOf, Calm
  <1> QED
    BY <1>2, <1>4, <1>5 DEF Steady

\* Around the target written, the others are as they were.
LEMMA OthersStay ==
    ASSUME IInv, Steady, NEW c \in Callers, pc[c] \in Locked, NEW i \in 1..Size(unit[c]), NEW w,
           files' = [files EXCEPT ![Target(unit[c], i)] = w], UNCHANGED <<unit, seen>>
    PROVE  /\ files'[Target(unit[c], i)] = w
           /\ \A j \in 1..Size(unit[c]) : j # i =>
                 (Before(c, j)' <=> Before(c, j)) /\ (Done(c, j)' <=> Done(c, j))
  <1>0. /\ TypeOK
        /\ \A j \in 1..Size(unit[c]) : Target(unit[c], j) \in Paths
        /\ \A j, l \in 1..Size(unit[c]) : Target(unit[c], j) = Target(unit[c], l) => j = l
    BY InLock
  <1>1. \A j \in 1..Size(unit[c]) : j # i => files'[Target(unit[c], j)] = files[Target(unit[c], j)]
    BY <1>0 DEF TypeOK
  <1> QED
    BY <1>0, <1>1 DEF TypeOK, Before, Done

LEMMA WriteSteady ==
    ASSUME Undisturbed, IInv, Steady, NEW c \in Callers,
           WriteTarget(c) \/ RevertTarget(c) \/ UnwriteTarget(c)
    PROVE  Steady'
  <1> USE DEF At, Step, Keep, WriteOne
  <1>a. pc[c] \in Locked /\ pc[c] \in {"write", "revert", "unwrite"}
    BY DEF WriteTarget, RevertTarget, UnwriteTarget, Locked, Labels
  <1>0. /\ TypeOK /\ ShapeOf(c) /\ PlaceOf(c) /\ unit[c] \in Units /\ Size(unit[c]) \in Nat
    BY <1>a, InLock
  <1>1. /\ UNCHANGED <<snapshot, edits, faults, todo, lock, epoch, pc, op, unit, seen>> /\ OnlyLocal(c)
        /\ k[c] \in 1..Size(unit[c])
    BY <1>0 DEF WriteTarget, RevertTarget, UnwriteTarget, OnlyLocal, TypeOK, ShapeOf
  <1>b. PICK i \in 1..Size(unit[c]) : i = k[c]
    BY <1>1
  <1>2. CASE WriteTarget(c)
    <2>1. /\ files' = [files EXCEPT ![Target(unit[c], i)] = After(unit[c], i)]
          /\ pc[c] = "write" /\ k'[c] = i + 1
      BY <1>0, <1>b, <1>2 DEF WriteTarget, TypeOK
    <2>2. /\ files'[Target(unit[c], i)] = After(unit[c], i)
          /\ \A j \in 1..Size(unit[c]) : j # i =>
               (Before(c, j)' <=> Before(c, j)) /\ (Done(c, j)' <=> Done(c, j))
      BY <1>a, <1>1, <2>1, OthersStay
    <2>3. \A j \in 1..Size(unit[c]) : IF j < i THEN Done(c, j) ELSE Before(c, j)
      BY <1>0, <1>b, <2>1 DEF PlaceOf
    <2>4. Done(c, i)'
      BY <1>1, <2>2 DEF Done
    <2>5. \A j \in 1..Size(unit[c]) : IF j < i + 1 THEN Done(c, j)' ELSE Before(c, j)'
      BY <2>2, <2>3, <2>4
    <2>6. PlaceOf(c)'
      BY <1>0, <1>1, <2>1, <2>5 DEF PlaceOf, Prepared
    <2> QED
      BY <1>a, <1>1, <2>1, <2>6, MoveSteady
  <1>3. CASE RevertTarget(c) \/ UnwriteTarget(c)
    <2>1. /\ files' = [files EXCEPT ![Target(unit[c], i)] = seen[c][i]]
          /\ k'[c] = i - 1 /\ pc[c] \in {"revert", "unwrite"}
      BY <1>0, <1>b, <1>3 DEF RevertTarget, UnwriteTarget, TypeOK
    <2>2. /\ files'[Target(unit[c], i)] = seen[c][i]
          /\ \A j \in 1..Size(unit[c]) : j # i =>
               (Before(c, j)' <=> Before(c, j)) /\ (Done(c, j)' <=> Done(c, j))
      BY <1>a, <1>1, <2>1, OthersStay
    <2>3. Before(c, i)'
      BY <1>1, <2>2 DEF Before
    <2>4. PlaceOf(c)'
      <3>1. CASE pc[c] = "revert"
        <4>1. \A j \in 1..Size(unit[c]) : j > i => Before(c, j)
          BY <1>0, <1>b, <3>1 DEF PlaceOf
        <4>2. \A j \in 1..Size(unit[c]) : j > i - 1 => Before(c, j)'
          BY <2>2, <2>3, <4>1
        <4> QED
          BY <1>1, <2>1, <3>1, <4>2 DEF PlaceOf
      <3>2. CASE pc[c] = "unwrite"
        <4>1. \A j \in 1..Size(unit[c]) : IF j <= i THEN Done(c, j) ELSE Before(c, j)
          BY <1>0, <1>b, <3>2 DEF PlaceOf
        <4>2. \A j \in 1..Size(unit[c]) : IF j <= i - 1 THEN Done(c, j)' ELSE Before(c, j)'
          BY <2>2, <2>3, <4>1
        <4> QED
          BY <1>1, <2>1, <3>2, <4>2 DEF PlaceOf
      <3> QED
        BY <2>1, <3>1, <3>2
    <2> QED
      BY <1>a, <1>1, <2>1, <2>4, MoveSteady
  <1> QED
    BY <1>2, <1>3

------------------------------------------------------------------------------
(* The steps that change a snapshot.                                       *)

\* They come from the holder of the lock, so no other unit is prepared.
LEMMA StateSteady ==
    ASSUME IInv, Steady, NEW c \in Callers, pc[c] \in Locked, OnlyLocal(c),
           UNCHANGED <<files, edits, faults, todo, lock, epoch, op, unit, seen, k>>,
           NEW s \in SnapshotStates,
           snapshot' = [snapshot EXCEPT ![unit[c]] = [state |-> s, before |-> seen[c]]],
           s = "prepared" => /\ op[c] = "apply" /\ pc'[c] = "journalPrepared"
                             /\ \A j \in 1..Size(unit[c]) : Before(c, j),
           PlaceOf(c)', pc'[c] \in Locked \ {"rollback", "journalFailed", "compensate"}
    PROVE  Steady'
  <1>0. /\ TypeOK /\ SerialHeld /\ Attended /\ Leased /\ unit[c] \in Units /\ todo[c] = {}
    BY InLock
  <1>1. \A v \in Units : Prepared(v) => v = unit[c]
    BY <1>0, HolderAttends DEF Applies, Recovers
  <1>2. \A v \in Units : Prepared(v)' => v = unit[c] /\ s = "prepared"
    BY <1>0, <1>1 DEF Prepared, TypeOK
  <1>3. Single'
    BY <1>2 DEF Single
  <1>4. Attended'
    <2>1. ASSUME NEW v \in Units, Prepared(v)' PROVE Applies(c, v)'
      BY <1>0, <1>2, <2>1 DEF Applies
    <2> QED
      BY <2>1 DEF Attended
  <1>5. Either'
    <2>1. ASSUME NEW v \in Units, Prepared(v)', NEW i \in 1..Size(v)
          PROVE  files'[Target(v, i)] = snapshot'[v].before[i]
      BY <1>0, <1>2, <2>1 DEF Before, TypeOK
    <2> QED
      BY <2>1 DEF Either
  <1>6. Place' /\ Leased'
    BY <1>0, PlaceFrame, LeaseFrame DEF Steady
  <1>7. Lists' /\ Calm'
    BY <1>0 DEF Steady, Lists, ListOf, Calm, OnlyLocal
  <1> QED
    BY <1>3, <1>4, <1>5, <1>6, <1>7 DEF Steady

LEMMA MarkSteady ==
    ASSUME Undisturbed, IInv, Steady, NEW c \in Callers,
           WritePrepared(c) \/ CommitSnapshot(c) \/ MarkUndone(c) \/ UndoSnapshot(c)
    PROVE  Steady'
  <1> USE DEF Goto, At, Keep, SetState
  <1>a. pc[c] \in Locked
    BY DEF WritePrepared, CommitSnapshot, MarkUndone, UndoSnapshot, Locked, Labels
  <1>0. /\ TypeOK /\ BaseOf(c) /\ PlaceOf(c) /\ unit[c] \in Units
    BY <1>a, InLock
  <1>1. /\ UNCHANGED <<files, edits, faults, todo, lock, epoch, op, unit, seen, k>> /\ OnlyLocal(c)
        /\ pc'[c] \in Locked \ {"rollback", "journalFailed", "compensate"}
    BY <1>0 DEF WritePrepared, CommitSnapshot, MarkUndone, UndoSnapshot, OnlyLocal, TypeOK, Locked, Labels
  <1>2. CASE WritePrepared(c)
    <2>1. /\ snapshot' = [snapshot EXCEPT ![unit[c]] = [state |-> "prepared", before |-> seen[c]]]
          /\ op[c] = "apply" /\ pc'[c] = "journalPrepared" /\ pc[c] = "prepare"
      BY <1>0, <1>2 DEF WritePrepared, BaseOf, ApplyLabels, TypeOK
    <2>2. \A j \in 1..Size(unit[c]) : Before(c, j)
      BY <1>0, <2>1 DEF PlaceOf
    <2>3. PlaceOf(c)'
      BY <1>0, <1>1, <2>1, <2>2 DEF PlaceOf, Before, Prepared, TypeOK
    <2> QED
      BY <1>a, <1>1, <2>1, <2>2, <2>3, StateSteady DEF SnapshotStates
  <1>3. CASE CommitSnapshot(c) \/ MarkUndone(c) \/ UndoSnapshot(c)
    <2>1. PICK s \in {"committed", "undone"} :
             snapshot' = [snapshot EXCEPT ![unit[c]] = [state |-> s, before |-> seen[c]]]
      BY <1>3 DEF CommitSnapshot, MarkUndone, UndoSnapshot
    <2>2. pc'[c] \in {"journalCommitted", "journalUndone", "release"}
      BY <1>0, <1>3 DEF CommitSnapshot, MarkUndone, UndoSnapshot, TypeOK
    <2>3. PlaceOf(c)'
      BY <2>2 DEF PlaceOf
    <2>4. s \in SnapshotStates /\ s # "prepared"
      BY <2>1 DEF SnapshotStates
    <2> QED
      BY <1>a, <1>1, <2>1, <2>3, <2>4, StateSteady
  <1> QED
    BY <1>2, <1>3

\* After a crash every caller is cold: whatever is prepared will be recovered.
LEMMA CrashSteady ==
    ASSUME IInv, Steady, Crash
    PROVE  Steady'
  <1>1. /\ UNCHANGED <<files, snapshot, lock, edits, faults>> /\ epoch' = epoch + 1
        /\ \A c \in Callers : pc'[c] = "cold" /\ todo'[c] = {}
    BY DEF Crash, disk
  <1>2. TypeOK
    BY DEF IInv, Inv, TypeInv
  <1>3. Leased'
    BY <1>1, <1>2 DEF Steady, Leased, TypeOK
  <1>4. Attended' /\ Place' /\ Lists'
    BY <1>1 DEF Attended, Owes, Place, PlaceOf, Lists, ListOf
  <1>5. Single' /\ Either' /\ Calm'
    BY <1>1 DEF Steady, Single, Either, Prepared, Calm
  <1> QED
    BY <1>3, <1>4, <1>5 DEF Steady

LEMMA SteadyStep == Undisturbed /\ IInv /\ Steady /\ [Next]_vars => Steady'
  <1> SUFFICES ASSUME Undisturbed, IInv, Steady, [Next]_vars PROVE Steady'
    OBVIOUS
  <1>1. ASSUME NEW c \in Callers, CallStep(c) \/ LockStep(c) PROVE Steady'
    BY <1>1, CallSteady, LockSteady
  <1>2. ASSUME NEW c \in Callers, ApplyStep(c) PROVE Steady'
    BY <1>2, NoFailure, ApplySteady, WriteSteady, MarkSteady DEF ApplyStep
  <1>3. ASSUME NEW c \in Callers, RecoverStep(c) \/ UndoStep(c) PROVE Steady'
    BY <1>3, NoFailure, RevertSteady, WriteSteady, MarkSteady DEF RecoverStep, UndoStep
  <1>4. \A p \in Paths, b \in UserBytes : ~UserEdit(p, b)
    BY DEF UserEdit, Undisturbed, Steady, Calm
  <1>5. CASE UNCHANGED vars
    BY <1>5 DEF vars, disk, local, bound, Steady, Single, Attended, Lists, ListOf, Calm, Leased, Place, PlaceOf,
                Either, Prepared, Applies, Owes, Recovers, Before, Done
  <1> QED
    BY <1>1, <1>2, <1>3, <1>4, <1>5, CrashSteady DEF Next

------------------------------------------------------------------------------
(* The tree that recovery would leave.                                     *)

\* View, as a function of the files f and the snapshots s.
ViewFrom(f, s) == [p \in Paths |->
    LET pending(u, i) == s[u].state = "prepared" /\ Target(u, i) = p /\ f[p] = After(u, i)
    IN IF \E u \in Units : \E i \in 1..Size(u) : pending(u, i)
       THEN LET u == CHOOSE u \in Units : \E i \in 1..Size(u) : pending(u, i)
                i == CHOOSE i \in 1..Size(u) : pending(u, i)
            IN s[u].before[i]
       ELSE f[p]]

LEMMA ViewIs == View = ViewFrom(files, snapshot) /\ View' = ViewFrom(files', snapshot')
  BY DEF View, ViewFrom

\* Where nothing is prepared the view is the files.
LEMMA ViewPlain ==
    ASSUME NEW f, NEW s, \A u \in Units : s[u].state # "prepared"
    PROVE  \A p \in Paths : ViewFrom(f, s)[p] = f[p]
  BY DEF ViewFrom

\* Where v alone is prepared, the view has v's before-bytes on its targets.
LEMMA ViewPrepared ==
    ASSUME NEW f, NEW s, NEW v \in Units, s[v].state = "prepared",
           \A u \in Units : s[u].state = "prepared" => u = v,
           \A i \in 1..Size(v) : f[Target(v, i)] \in {s[v].before[i], After(v, i)}
    PROVE  /\ \A i \in 1..Size(v) : ViewFrom(f, s)[Target(v, i)] = s[v].before[i]
           /\ \A p \in Paths : (\A i \in 1..Size(v) : Target(v, i) # p) => ViewFrom(f, s)[p] = f[p]
  <1> DEFINE pending(u, i, p) == s[u].state = "prepared" /\ Target(u, i) = p /\ f[p] = After(u, i)
             some(p) == \E u \in Units : \E i \in 1..Size(u) : pending(u, i, p)
             who(p) == CHOOSE u \in Units : \E i \in 1..Size(u) : pending(u, i, p)
             which(p) == CHOOSE i \in 1..Size(who(p)) : pending(who(p), i, p)
  <1>1. ASSUME NEW p \in Paths
        PROVE  ViewFrom(f, s)[p] = IF some(p) THEN s[who(p)].before[which(p)] ELSE f[p]
    BY DEF ViewFrom
  <1>2. ASSUME NEW p \in Paths, some(p)
        PROVE  who(p) = v /\ which(p) \in 1..Size(v) /\ pending(v, which(p), p)
    <2>1. who(p) \in Units /\ \E i \in 1..Size(who(p)) : pending(who(p), i, p)
      BY <1>2
    <2>2. who(p) = v
      BY <2>1
    <2> QED
      BY <2>1, <2>2
  <1>p. /\ \A i \in 1..Size(v) : Target(v, i) \in Paths
        /\ \A i, j \in 1..Size(v) : Target(v, i) = Target(v, j) => i = j
    BY PlanFacts
  <1>3. ASSUME NEW i \in 1..Size(v) PROVE ViewFrom(f, s)[Target(v, i)] = s[v].before[i]
    <2> DEFINE p == Target(v, i)
    <2>0. p \in Paths
      BY <1>p
    <2>1. CASE some(p)
      <3>1. who(p) = v /\ which(p) \in 1..Size(v) /\ Target(v, which(p)) = p
        BY <1>2, <2>0, <2>1
      <3>2. which(p) = i
        BY <1>p, <3>1
      <3> QED
        BY <1>1, <2>0, <2>1, <3>1, <3>2
    <2>2. CASE ~some(p)
      <3>1. ~pending(v, i, p)
        BY <2>2
      <3>2. f[p] = s[v].before[i]
        BY <3>1
      <3> QED
        BY <1>1, <2>0, <2>2, <3>2
    <2> QED
      BY <2>1, <2>2
  <1>4. ASSUME NEW p \in Paths, \A i \in 1..Size(v) : Target(v, i) # p PROVE ViewFrom(f, s)[p] = f[p]
    <2>1. ~some(p)
      BY <1>2, <1>4
    <2> QED
      BY <1>1, <2>1
  <1> QED
    BY <1>3, <1>4

\* What a state and its successor show of the tree.
LEMMA ViewNow ==
    ASSUME Steady
    PROVE  /\ (\A u \in Units : ~Prepared(u)) => \A p \in Paths : View[p] = files[p]
           /\ \A v \in Units : Prepared(v) =>
                /\ \A i \in 1..Size(v) : View[Target(v, i)] = snapshot[v].before[i]
                /\ \A p \in Paths : (\A i \in 1..Size(v) : Target(v, i) # p) => View[p] = files[p]
  <1>1. (\A u \in Units : ~Prepared(u)) => \A p \in Paths : View[p] = files[p]
    BY ViewIs, ViewPlain DEF Prepared
  <1>2. ASSUME NEW v \in Units, Prepared(v)
        PROVE  /\ \A i \in 1..Size(v) : View[Target(v, i)] = snapshot[v].before[i]
               /\ \A p \in Paths : (\A i \in 1..Size(v) : Target(v, i) # p) => View[p] = files[p]
    <2>1. /\ snapshot[v].state = "prepared"
          /\ \A u \in Units : snapshot[u].state = "prepared" => u = v
          /\ \A i \in 1..Size(v) : files[Target(v, i)] \in {snapshot[v].before[i], After(v, i)}
      BY <1>2 DEF Steady, Single, Either, Prepared
    <2>2. /\ \A i \in 1..Size(v) : ViewFrom(files, snapshot)[Target(v, i)] = snapshot[v].before[i]
          /\ \A p \in Paths : (\A i \in 1..Size(v) : Target(v, i) # p) =>
                ViewFrom(files, snapshot)[p] = files[p]
      BY ONLY <2>1, v \in Units, ViewPrepared
    <2> QED
      BY ONLY <2>2, ViewIs
  <1> QED
    BY <1>1, <1>2

LEMMA ViewNext ==
    ASSUME Steady'
    PROVE  /\ (\A u \in Units : ~Prepared(u)') => \A p \in Paths : View'[p] = files'[p]
           /\ \A v \in Units : Prepared(v)' =>
                /\ \A i \in 1..Size(v) : View'[Target(v, i)] = snapshot'[v].before[i]
                /\ \A p \in Paths : (\A i \in 1..Size(v) : Target(v, i) # p) => View'[p] = files'[p]
  <1>1. (\A u \in Units : ~Prepared(u)') => \A p \in Paths : View'[p] = files'[p]
    BY ViewIs, ViewPlain DEF Prepared
  <1>2. ASSUME NEW v \in Units, Prepared(v)'
        PROVE  /\ \A i \in 1..Size(v) : View'[Target(v, i)] = snapshot'[v].before[i]
               /\ \A p \in Paths : (\A i \in 1..Size(v) : Target(v, i) # p) => View'[p] = files'[p]
    <2>1. /\ snapshot'[v].state = "prepared"
          /\ \A u \in Units : snapshot'[u].state = "prepared" => u = v
          /\ \A i \in 1..Size(v) : files'[Target(v, i)] \in {snapshot'[v].before[i], After(v, i)}
      BY <1>2 DEF Steady, Single, Either, Prepared
    <2>2. /\ \A i \in 1..Size(v) : ViewFrom(files', snapshot')[Target(v, i)] = snapshot'[v].before[i]
          /\ \A p \in Paths : (\A i \in 1..Size(v) : Target(v, i) # p) =>
                ViewFrom(files', snapshot')[p] = files'[p]
      BY ONLY <2>1, v \in Units, ViewPrepared
    <2> QED
      BY ONLY <2>2, ViewIs
  <1> QED
    BY <1>1, <1>2

------------------------------------------------------------------------------
(* The refinement.                                                         *)

atomicVars == <<View, Status, Base>>
AtomicStep == Atomic!Next \/ UNCHANGED atomicVars

\* A view is a function of the paths, so it is told by its values.
LEMMA SameView == (\A p \in Paths : View'[p] = View[p]) => View' = View
  <1>1. View = [p \in Paths |-> View[p]] /\ View' = [p \in Paths |-> View'[p]]
    BY DEF View
  <1> QED
    BY <1>1

\* A write of a prepared unit, and its reversal, leave the view.
LEMMA PreparedMoves ==
    ASSUME Steady, Steady', UNCHANGED snapshot, NEW u \in Units, Prepared(u), NEW i \in 1..Size(u), NEW w,
           TypeOK, files' = [files EXCEPT ![Target(u, i)] = w]
    PROVE  UNCHANGED atomicVars
  <1>1. Prepared(u)'
    BY DEF Prepared
  <1>2. ASSUME NEW p \in Paths PROVE View'[p] = View[p]
    <2>1. CASE \E j \in 1..Size(u) : Target(u, j) = p
      BY <1>1, <2>1, ViewNow, ViewNext
    <2>2. CASE \A j \in 1..Size(u) : Target(u, j) # p
      <3>1. files'[p] = files[p]
        BY <2>2 DEF TypeOK
      <3> QED
        BY <1>1, <2>2, <3>1, ViewNow, ViewNext
    <2> QED
      BY <2>1, <2>2
  <1>3. View' = View
    BY <1>2, SameView
  <1> QED
    BY <1>3 DEF atomicVars, Status, Base

LEMMA WriteRefines ==
    ASSUME IInv, Steady, Steady', NEW c \in Callers, WriteTarget(c)
    PROVE  AtomicStep
  <1>a. pc[c] \in Locked
    BY DEF WriteTarget, At, Locked, Labels
  <1>0. /\ TypeOK /\ ShapeOf(c) /\ PlaceOf(c) /\ unit[c] \in Units
    BY <1>a, InLock
  <1>1. /\ UNCHANGED snapshot /\ Prepared(unit[c]) /\ k[c] \in 1..Size(unit[c])
        /\ files' = [files EXCEPT ![Target(unit[c], k[c])] = After(unit[c], k[c])]
    BY <1>0 DEF WriteTarget, At, WriteOne, PlaceOf, ShapeOf
  <1> QED
    BY <1>0, <1>1, PreparedMoves DEF AtomicStep

\* A reversal: of a prepared unit unseen, of a committed one an undo of that
\* target.  Bytes of a unit that is neither are not there to be reverted.
LEMMA RevertRefines ==
    ASSUME IInv, Traced, Steady, Steady', NEW c \in Callers, RevertTarget(c) \/ UnwriteTarget(c)
    PROVE  AtomicStep
  <1>a. pc[c] \in Locked /\ pc[c] \in {"revert", "unwrite"}
    BY DEF RevertTarget, UnwriteTarget, At, Locked, Labels
  <1>0. /\ TypeOK /\ SerialHeld /\ Attended /\ ShapeOf(c) /\ BaseOf(c)
        /\ \A j \in 1..Size(unit[c]) : Target(unit[c], j) \in Paths
    BY <1>a, InLock
  <1>b. PICK u \in Units : u = unit[c] /\ Size(u) \in Nat
    BY <1>a, InLock
  <1>c. PICK i \in 1..Size(u) : i = k[c]
    BY <1>a, <1>0, <1>b DEF RevertTarget, UnwriteTarget, ShapeOf
  <1>1. /\ UNCHANGED snapshot /\ files[Target(u, i)] = After(u, i)
        /\ files' = [files EXCEPT ![Target(u, i)] = seen[c][i]] /\ snapshot[u].before = seen[c]
    BY <1>a, <1>0, <1>b, <1>c DEF RevertTarget, UnwriteTarget, At, WriteOne, BaseOf, Busy, RecoverLabels, UndoLabels
  <1>2. snapshot[u].state \in {"prepared", "committed"}
    BY <1>1 DEF Traced, Good, Known, Revertible
  <1>3. CASE Prepared(u)
    BY <1>0, <1>1, <1>3, PreparedMoves DEF AtomicStep
  <1>4. CASE snapshot[u].state = "committed"
    <2>1. \A v \in Units : ~Prepared(v) /\ ~Prepared(v)'
      BY <1>a, <1>0, <1>b, <1>1, <1>4, HolderAttends DEF Applies, Recovers, Prepared
    <2>2. (\A p \in Paths : View[p] = files[p]) /\ (\A p \in Paths : View'[p] = files'[p])
      BY <2>1, ViewNow, ViewNext
    <2>3. Target(u, i) \in Paths
      BY <1>0, <1>b
    <2>4. View' = [View EXCEPT ![Target(u, i)] = seen[c][i]]
      <3>1. View = [p \in Paths |-> files[p]] /\ View' = [p \in Paths |-> files'[p]]
        BY <2>2 DEF View
      <3> QED
        BY <1>0, <1>1, <2>3, <3>1 DEF TypeOK
    <2>5. Status[u] = "committed" /\ Base[u] = seen[c] /\ UNCHANGED <<Status, Base>>
      BY <1>1, <1>4 DEF Status, Base
    <2>6. View[Target(u, i)] = After(u, i)
      BY <1>1, <2>2, <2>3
    <2>7. Atomic!UndoTarget(u, i)
      BY <2>4, <2>5, <2>6 DEF Atomic!UndoTarget, Target, After
    <2> QED
      BY <2>7 DEF AtomicStep, Atomic!Next, Atomic!OpsOf, Size
  <1> QED
    BY <1>2, <1>3, <1>4 DEF Prepared

\* The snapshot that declares a unit prepared is not seen either: its targets
\* still hold the before-bytes.
LEMMA PrepareRefines ==
    ASSUME IInv, Steady, Steady', NEW c \in Callers, WritePrepared(c)
    PROVE  AtomicStep
  <1>a. pc[c] \in Locked /\ pc[c] = "prepare"
    BY DEF WritePrepared, At, Locked, Labels
  <1>0. /\ TypeOK /\ SerialHeld /\ Attended /\ BaseOf(c) /\ PlaceOf(c)
    BY <1>a, InLock
  <1>b. PICK u \in Units : u = unit[c]
    BY <1>a, InLock
  <1>1. /\ files' = files /\ snapshot' = [snapshot EXCEPT ![u] = [state |-> "prepared", before |-> seen[c]]]
        /\ snapshot[u].state = "none" /\ \A j \in 1..Size(u) : files[Target(u, j)] = seen[c][j]
    BY <1>a, <1>0, <1>b DEF WritePrepared, SetState, BaseOf, ApplyLabels, PlaceOf, Before
  <1>2. \A v \in Units : ~Prepared(v)
    BY <1>a, <1>0, HolderAttends DEF Applies, Recovers
  <1>3. Prepared(u)' /\ snapshot'[u].before = seen[c]
    BY <1>0, <1>1 DEF Prepared, TypeOK
  <1>4. ASSUME NEW p \in Paths PROVE View'[p] = View[p]
    <2>1. View[p] = files[p]
      BY <1>2, ViewNow
    <2>2. View'[p] = files[p]
      BY <1>1, <1>3, ViewNext
    <2> QED
      BY <2>1, <2>2
  <1>5. View' = View
    BY <1>4, SameView
  <1>6. Status' = Status /\ Base' = Base
    BY <1>0, <1>1 DEF Status, Base, TypeOK
  <1> QED
    BY <1>5, <1>6 DEF AtomicStep, atomicVars

\* The committed snapshot is the step in which the whole unit takes effect.
LEMMA CommitRefines ==
    ASSUME IInv, Steady, Steady', NEW c \in Callers, CommitSnapshot(c)
    PROVE  AtomicStep
  <1>a. pc[c] \in Locked /\ pc[c] = "commit"
    BY DEF CommitSnapshot, At, Locked, Labels
  <1>0. /\ TypeOK /\ SerialHeld /\ Attended /\ BaseOf(c) /\ PlaceOf(c) /\ Single
    BY <1>a, InLock
  <1>b. PICK u \in Units : u = unit[c]
    BY <1>a, InLock
  <1>1. /\ files' = files /\ snapshot' = [snapshot EXCEPT ![u] = [state |-> "committed", before |-> seen[c]]]
        /\ Prepared(u) /\ snapshot[u].before = seen[c]
        /\ \A j \in 1..Size(u) : files[Target(u, j)] = After(u, j)
    BY <1>a, <1>0, <1>b DEF CommitSnapshot, SetState, BaseOf, PlaceOf, Done
  <1>2. \A v \in Units : ~Prepared(v)'
    BY <1>0, <1>1 DEF Single, Prepared, TypeOK
  <1>3. \A p \in Paths : View'[p] = files[p]
    BY <1>1, <1>2, ViewNext
  <1>4. /\ \A i \in 1..Size(u) : View[Target(u, i)] = seen[c][i]
        /\ \A p \in Paths : (\A i \in 1..Size(u) : Target(u, i) # p) => View[p] = files[p]
    BY <1>1, ViewNow
  <1>5. Status[u] = "pending" /\ Status' = [Status EXCEPT ![u] = "committed"]
    BY <1>0, <1>1 DEF Status, Prepared, TypeOK
  <1>6. Base'[u] = seen[c] /\ \A v \in Units \ {u} : Base'[v] = Base[v]
    BY <1>0, <1>1 DEF Base, TypeOK
  <1>p. \A i \in 1..Size(u) : Target(u, i) \in Paths
    BY PlanFacts
  <1>7. \A i \in 1..Size(u) : View'[Target(u, i)] = After(u, i) /\ Base'[u][i] = View[Target(u, i)]
    BY <1>p, <1>1, <1>3, <1>4, <1>6
  <1>8. \A p \in Paths \ Atomic!Targets(u) : View'[p] = View[p]
    BY <1>3, <1>4 DEF Atomic!Targets, Atomic!OpsOf, Target, Size
  <1>9. Atomic!Commit(u)
    BY <1>5, <1>6, <1>7, <1>8 DEF Atomic!Commit, Atomic!OpsOf, Target, After, Size
  <1> QED
    BY <1>9 DEF AtomicStep, Atomic!Next

\* A unit marked undone was abandoned, if it had not committed, or has been
\* taken back target by target; marking it again is not seen.
LEMMA UndoneRefines ==
    ASSUME IInv, Steady, Steady', NEW c \in Callers, MarkUndone(c) \/ UndoSnapshot(c)
    PROVE  AtomicStep
  <1>a. pc[c] \in Locked /\ pc[c] \in {"revert", "undoSnapshot"}
    BY DEF MarkUndone, UndoSnapshot, At, Locked, Labels
  <1>0. /\ TypeOK /\ SerialHeld /\ Attended /\ BaseOf(c) /\ PlaceOf(c) /\ ShapeOf(c) /\ Single
        /\ Size(unit[c]) \in Nat
    BY <1>a, InLock
  <1>b. PICK u \in Units : u = unit[c]
    BY <1>a, InLock
  <1>1. /\ files' = files /\ snapshot' = [snapshot EXCEPT ![u] = [state |-> "undone", before |-> seen[c]]]
        /\ snapshot[u].state # "none" /\ snapshot[u].before = seen[c]
    BY <1>a, <1>0, <1>b DEF MarkUndone, UndoSnapshot, SetState, BaseOf, Busy, RecoverLabels, UndoLabels
  <1>2. \A j \in 1..Size(u) : files[Target(u, j)] = seen[c][j]
    <2>1. CASE MarkUndone(c)
      BY <1>0, <1>b, <2>1 DEF MarkUndone, At, PlaceOf, Before
    <2>2. CASE UndoSnapshot(c)
      BY <1>0, <1>b, <2>2 DEF UndoSnapshot, At, PlaceOf, Before
    <2> QED
      BY <2>1, <2>2
  <1>3. \A v \in Units : Prepared(v) => v = u
    BY <1>a, <1>0, <1>b, HolderAttends DEF Applies, Recovers
  <1>4. \A v \in Units : ~Prepared(v)'
    BY <1>0, <1>1, <1>3 DEF Prepared, TypeOK
  <1>5. ASSUME NEW p \in Paths PROVE View[p] = files[p] /\ View'[p] = View[p]
    <2>1. View'[p] = files[p]
      BY <1>1, <1>4, ViewNext
    <2>2. CASE Prepared(u)
      BY <1>1, <1>2, <2>1, <2>2, ViewNow
    <2>3. CASE ~Prepared(u)
      BY <1>3, <2>1, <2>3, ViewNow
    <2> QED
      BY <2>2, <2>3
  <1>6. View' = View
    BY <1>5, SameView
  <1>p. \A i \in 1..Size(u) : Target(u, i) \in Paths
    BY PlanFacts
  <1>7. snapshot[u].state \in {"prepared", "committed", "undone"}
    BY <1>0, <1>1 DEF TypeOK, SnapshotStates
  <1>8. Status' = [Status EXCEPT ![u] = "undone"] /\ Base' = [Base EXCEPT ![u] = <<>>]
    BY <1>0, <1>1 DEF Status, Base, TypeOK
  <1>9. CASE Prepared(u)
    <2>1. Status[u] = "pending" /\ Base' = Base
      BY <1>0, <1>1, <1>9 DEF Status, Base, Prepared, TypeOK
    <2>2. Atomic!Abandon(u)
      BY <1>6, <1>8, <2>1 DEF Atomic!Abandon
    <2> QED
      BY <2>2 DEF AtomicStep, Atomic!Next
  <1>10. CASE snapshot[u].state = "committed"
    <2>1. Status[u] = "committed" /\ Base[u] = seen[c]
      BY <1>1, <1>10 DEF Status, Base
    <2>2. \A i \in 1..Size(u) : View[Target(u, i)] = Base[u][i]
      BY <1>2, <1>5, <1>p, <2>1
    <2>3. Atomic!Undone(u)
      BY <1>6, <1>8, <2>1, <2>2 DEF Atomic!Undone, Atomic!OpsOf, Target, Size
    <2> QED
      BY <2>3 DEF AtomicStep, Atomic!Next
  <1>11. CASE snapshot[u].state = "undone"
    <2>1. Status' = Status /\ Base' = Base
      BY <1>0, <1>1, <1>11 DEF Status, Base, TypeOK
    <2> QED
      BY <1>6, <2>1 DEF AtomicStep, atomicVars
  <1> QED
    BY <1>7, <1>9, <1>10, <1>11 DEF Prepared

LEMMA StepRefines ==
    ASSUME Undisturbed, IInv, Traced, Steady, Steady', [Next]_vars
    PROVE  AtomicStep
  <1>0. UNCHANGED <<files, snapshot>> => AtomicStep
    BY DEF AtomicStep, atomicVars, View, Status, Base
  <1> USE DEF Keep, disk, local, bound
  <1>1. ASSUME NEW c \in Callers, CallStep(c) PROVE AtomicStep
    BY <1>0, <1>1 DEF CallStep, ListPrepared, RecoveryFault, NewLibrary, RecoverRead, ApplyStart, UndoRead
  <1>2. ASSUME NEW c \in Callers, LockStep(c) PROVE AtomicStep
    BY <1>0, <1>2 DEF LockStep, Enter, Acquire, LockFailed, Release, ReleaseFault
  <1>3. ASSUME NEW c \in Callers, ApplyStep(c) PROVE AtomicStep
    <2>1. CASE WriteTarget(c) \/ WritePrepared(c) \/ CommitSnapshot(c)
      BY <2>1, WriteRefines, PrepareRefines, CommitRefines
    <2>2. CASE \/ ReadTarget(c) \/ RefuseDrift(c) \/ Validate(c) \/ JournalPrepared(c)
               \/ JournalWritten(c) \/ JournalCommitted(c)
      BY <1>0, <2>2 DEF ReadTarget, RefuseDrift, Validate, JournalPrepared, JournalWritten, JournalCommitted
    <2> QED
      BY <1>3, <2>1, <2>2, NoFailure DEF ApplyStep
  <1>4. ASSUME NEW c \in Callers, RecoverStep(c) PROVE AtomicStep
    <2>1. CASE RevertTarget(c) \/ MarkUndone(c)
      BY <2>1, RevertRefines, UndoneRefines
    <2>2. CASE SkipTarget(c) \/ RecoverRefused(c) \/ JournalUndone(c)
      BY <1>0, <2>2 DEF SkipTarget, RecoverRefused, JournalUndone
    <2> QED
      BY <1>4, <2>1, <2>2 DEF RecoverStep
  <1>5. ASSUME NEW c \in Callers, UndoStep(c) PROVE AtomicStep
    <2>1. CASE UnwriteTarget(c) \/ UndoSnapshot(c)
      BY <2>1, RevertRefines, UndoneRefines
    <2>2. CASE Preflight(c) \/ UndoJournal(c)
      BY <1>0, <2>2 DEF Preflight, UndoJournal
    <2> QED
      BY <1>5, <2>1, <2>2, NoFailure DEF UndoStep
  <1>6. \A p \in Paths, b \in UserBytes : ~UserEdit(p, b)
    BY DEF UserEdit, Undisturbed, Steady, Calm
  <1>7. Crash \/ UNCHANGED vars => UNCHANGED <<files, snapshot>>
    BY DEF Crash, vars
  <1> QED
    BY <1>0, <1>1, <1>2, <1>3, <1>4, <1>5, <1>6, <1>7 DEF Next

LEMMA InitRefines == Init => Atomic!Init
  <1> SUFFICES ASSUME Init PROVE Atomic!Init
    OBVIOUS
  <1>1. \A u \in Units : snapshot[u].state = "none"
    BY DEF Init, NoSnapshot
  <1>2. \A p \in Paths : View[p] = InitFiles[p]
    BY <1>1, ViewIs, ViewPlain DEF Init
  <1>3. View = [p \in Paths |-> View[p]] /\ InitFiles = [p \in Paths |-> InitFiles[p]]
    BY PlanAssumption DEF View
  <1>4. View = InitFiles
    BY <1>2, <1>3
  <1>5. Status = [u \in Units |-> "pending"] /\ Base = [u \in Units |-> <<>>]
    BY <1>1 DEF Status, Base
  <1> QED
    BY <1>4, <1>5 DEF Atomic!Init

\* While no IO call fails and nobody edits by hand, every unit takes effect on
\* the tree a recovery would leave in one step, or not at all, and undo takes
\* it back target by target, whatever callers overlap and whenever the process
\* crashes; for plans whose bytes tell who wrote them.
THEOREM UnitsAreAtomic ==
    ASSUME Undisturbed, TagsDiffer
    PROVE  Spec => ImplementsAtomicTree
  <1> DEFINE All == IInv /\ Traced /\ Steady
  <1>1. Spec => []All
    <2>1. Init => Traced /\ Steady
      BY InitTraced, InitSteady, TagsDiffer, Undisturbed
    <2>2. IInv /\ Traced /\ Steady /\ [Next]_vars => Traced' /\ Steady'
      BY TracedStep, SteadyStep, TagsDiffer, Undisturbed
    <2> QED
      BY <2>1, <2>2, Invariance, PTL DEF Spec
  <1>2. All /\ All' /\ [Next]_vars => [Atomic!Next]_(Atomic!treeVars)
    BY StepRefines, Undisturbed DEF AtomicStep, atomicVars, Atomic!treeVars
  <1> QED
    BY <1>1, <1>2, InitRefines, PTL DEF Spec, ImplementsAtomicTree, Atomic!Spec
=============================================================================
