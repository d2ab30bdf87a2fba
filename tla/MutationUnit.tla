---------------------------- MODULE MutationUnit ----------------------------
(***************************************************************************)
(* The tree-change unit of evolution-core (mutation-unit.ts): several      *)
(* library instances ("callers") of one process apply, recover and undo    *)
(* units of compare-and-swap file writes over one skills root, under the   *)
(* root's in-process serial queue and its lock file.  The process may      *)
(* crash at any await and boots again with every caller cold; a person may *)
(* edit a file at any time; an IO call may fail without landing.           *)
(***************************************************************************)
EXTENDS Integers, Sequences, FiniteSets

CONSTANTS
    Paths,        \* files under the skills root
    Bytes,        \* file contents, Absent among them
    Absent,       \* the content of a missing file (readText returns null)
    AnyBytes,     \* an op without "expected": the baseline is what is read
    Units,        \* unit ids, each minted by one apply
    Ops,          \* Ops[u]: the ordered operations of unit u
    Callers,      \* SkillLibrary instances sharing the root's serial queue
    UserBytes,    \* contents only a person writes
    InitFiles,    \* the tree before the first unit
    NoCaller, NoUnit,
    MaxEdits, MaxFaults, MaxCrashes

OpType == [target : Paths, expected : Bytes \cup {AnyBytes}, after : Bytes]

ASSUME PlanAssumption ==
    /\ Absent \in Bytes /\ UserBytes \subseteq Bytes
    /\ AnyBytes \notin Bytes
    /\ InitFiles \in [Paths -> Bytes]
    /\ Ops \in [Units -> Seq(OpType)]
    \* validateMutationRequest: at least one op, no duplicate target
    /\ \A u \in Units : Len(Ops[u]) > 0
    /\ \A u \in Units : \A i, j \in 1..Len(Ops[u]) :
            Ops[u][i].target = Ops[u][j].target => i = j
ASSUME NamesAssumption == NoCaller \notin Callers /\ NoUnit \notin Units
ASSUME BoundsAssumption == MaxEdits \in Nat /\ MaxFaults \in Nat /\ MaxCrashes \in Nat

VARIABLES
    files,      \* the skills tree
    snapshot,   \* units/skill/snapshots: state and before-bytes per unit
    journal,    \* units/skill/journals: the last phase written
    lock,       \* the .mutation-lock record: process epoch and token
    epoch,      \* which incarnation of the process is running
    serial,     \* the caller whose task the root's serial queue runs
    used,       \* unit ids handed out
    pc, op, unit, k, seen, todo,   \* the locals of each caller
    edits, faults

disk  == <<files, snapshot, journal>>
local == <<pc, op, unit, k, seen, todo>>
bound == <<epoch, edits, faults>>
vars  == <<disk, lock, serial, used, local, bound>>

NoSnapshot == [state |-> "none", before |-> <<>>]
Free       == [epoch |-> -1, holder |-> NoCaller]

Size(u)      == Len(Ops[u])
Target(u, i) == Ops[u][i].target
After(u, i)  == Ops[u][i].after

Init ==
    /\ files = InitFiles
    /\ snapshot = [u \in Units |-> NoSnapshot]
    /\ journal = [u \in Units |-> "none"]
    /\ lock = Free /\ serial = NoCaller /\ used = {}
    /\ pc = [c \in Callers |-> "cold"]
    /\ op = [c \in Callers |-> "none"]
    /\ unit = [c \in Callers |-> NoUnit]
    /\ k = [c \in Callers |-> 0]
    /\ seen = [c \in Callers |-> <<>>]
    /\ todo = [c \in Callers |-> {}]
    /\ epoch = 0 /\ edits = 0 /\ faults = 0

------------------------------------------------------------------------------
(* Helpers of the step actions.                                            *)

Goto(c, label) == pc' = [pc EXCEPT ![c] = label]
Step(c, n)     == k' = [k EXCEPT ![c] = n]
At(c, label)   == pc[c] = label

\* An IO call that throws without landing.
Fault == faults < MaxFaults /\ faults' = faults + 1

\* WriteKernel.writeOne: the baseline is compared inside the transaction.
WriteOne(p, expected, next) ==
    files[p] = expected /\ files' = [files EXCEPT ![p] = next]

SetState(c, s) ==
    snapshot' = [snapshot EXCEPT ![unit[c]] = [state |-> s, before |-> seen[c]]]
\* Mutant: the phase names of the port reach the file as they are.
SetPhase_unmapped(c, phase) == journal' = [journal EXCEPT ![unit[c]] = phase]
\* unitJournalPort.write: an undone unit reads rolled-back in its journal file.
SetPhase(c, phase) ==
    journal' = [journal EXCEPT ![unit[c]] = IF phase = "undone" THEN "rolled-back" ELSE phase]

\* A caller of this process other than c's own task never runs while c does.
Keep == UNCHANGED <<lock, serial, used, op, unit, seen, todo, epoch, edits>>

------------------------------------------------------------------------------
(* The library instance: boot recovery once, then units.                   *)

\* Mutant: the boot recovery is skipped.
ListPrepared_skips(c) ==
    /\ At(c, "cold") /\ Goto(c, "ready")
    /\ UNCHANGED <<disk, lock, serial, used, op, unit, k, seen, todo, bound>>
\* ensureRecovered -> recoverPrepared: list the prepared snapshots.
ListPrepared(c) ==
    /\ At(c, "cold")
    /\ todo' = [todo EXCEPT ![c] = {u \in Units : snapshot[u].state = "prepared"}]
    /\ Goto(c, "ready")
    /\ UNCHANGED <<disk, lock, serial, used, op, unit, k, seen, bound>>

\* recover, up to its serial task: the snapshot is read before the queue.
RecoverRead(c, u) ==
    /\ At(c, "ready") /\ u \in todo[c]
    /\ todo' = [todo EXCEPT ![c] = @ \ {u}]
    /\ IF snapshot[u].state = "prepared"
       THEN /\ Goto(c, "queued")
            /\ op' = [op EXCEPT ![c] = "recover"]
            /\ unit' = [unit EXCEPT ![c] = u]
            /\ seen' = [seen EXCEPT ![c] = snapshot[u].before]
       ELSE UNCHANGED <<pc, op, unit, seen>>
    /\ UNCHANGED <<disk, lock, serial, used, k, bound>>

\* Listing or reading a snapshot throws: a warning, and writes continue.
RecoveryFault(c) ==
    /\ At(c, "cold") \/ (At(c, "ready") /\ todo[c] # {})
    /\ Fault
    /\ todo' = [todo EXCEPT ![c] = {}]
    /\ Goto(c, "ready")
    /\ UNCHANGED <<disk, lock, serial, used, op, unit, k, seen, epoch, edits>>

\* apply, up to its serial task: the request is valid and not a dry run.
ApplyStart(c, u) ==
    /\ At(c, "ready") /\ todo[c] = {} /\ u \notin used
    /\ used' = used \cup {u}
    /\ Goto(c, "queued")
    /\ op' = [op EXCEPT ![c] = "apply"]
    /\ unit' = [unit EXCEPT ![c] = u]
    /\ seen' = [seen EXCEPT ![c] = <<>>]
    /\ UNCHANGED <<disk, lock, serial, k, todo, bound>>

\* undo, up to its serial task: only a committed snapshot passes.
UndoRead(c, u) ==
    /\ At(c, "ready") /\ todo[c] = {} /\ snapshot[u].state = "committed"
    /\ Goto(c, "queued")
    /\ op' = [op EXCEPT ![c] = "undo"]
    /\ unit' = [unit EXCEPT ![c] = u]
    /\ seen' = [seen EXCEPT ![c] = snapshot[u].before]
    /\ UNCHANGED <<disk, lock, serial, used, k, todo, bound>>

\* The next command builds a fresh library, cold again.
NewLibrary(c) ==
    /\ At(c, "ready") /\ todo[c] = {}
    /\ Goto(c, "cold")
    /\ UNCHANGED <<disk, lock, serial, used, op, unit, k, seen, todo, bound>>

\* Mutant: a library with a queue of its own.
Enter_ownQueue(c) ==
    /\ At(c, "queued") /\ serial' = c /\ Goto(c, "acquire")
    /\ UNCHANGED <<disk, lock, used, op, unit, k, seen, todo, bound>>
\* The root's serial queue starts c's task.
Enter(c) ==
    /\ At(c, "queued") /\ serial = NoCaller
    /\ serial' = c
    /\ Goto(c, "acquire")
    /\ UNCHANGED <<disk, lock, used, op, unit, k, seen, todo, bound>>

\* fileMutationLock.acquire: free, corrupt or held by a dead process.
Acquire(c) ==
    /\ At(c, "acquire") /\ lock.epoch # epoch
    /\ lock' = [epoch |-> epoch, holder |-> c]
    /\ \/ op[c] = "apply" /\ Goto(c, "read") /\ Step(c, 1)
       \/ op[c] = "recover" /\ Goto(c, "revert") /\ Step(c, Size(unit[c]))
       \/ op[c] = "undo" /\ Goto(c, "preflight") /\ Step(c, 1)
    /\ UNCHANGED <<disk, serial, used, op, unit, seen, todo, bound>>

\* mutation-lock-busy at the deadline, or the lock sidecar cannot be written.
LockFailed(c) ==
    /\ At(c, "acquire")
    /\ (lock.epoch = epoch /\ UNCHANGED faults) \/ (lock.epoch # epoch /\ Fault)
    /\ serial' = NoCaller
    /\ Goto(c, "ready")
    /\ UNCHANGED <<disk, lock, used, op, unit, k, seen, todo, epoch, edits>>

\* Mutant: the lease is released, the serial queue does not move on.
Release_keepsQueue(c) ==
    /\ At(c, "release")
    /\ lock' = IF lock = [epoch |-> epoch, holder |-> c] THEN Free ELSE lock
    /\ Goto(c, "ready")
    /\ UNCHANGED <<disk, serial, used, op, unit, k, seen, todo, bound>>
\* finally: lease.release, and the queue moves on.
Release(c) ==
    /\ At(c, "release")
    /\ lock' = IF lock = [epoch |-> epoch, holder |-> c] THEN Free ELSE lock
    /\ serial' = NoCaller
    /\ Goto(c, "ready")
    /\ UNCHANGED <<disk, used, op, unit, k, seen, todo, bound>>

\* The release itself throws: the record of a live process stays behind,
\* and a boot recovery in progress ends with it.
ReleaseFault(c) ==
    /\ At(c, "release") /\ Fault
    /\ serial' = NoCaller
    /\ todo' = [todo EXCEPT ![c] = {}]
    /\ Goto(c, "ready")
    /\ UNCHANGED <<disk, lock, used, op, unit, k, seen, epoch, edits>>

------------------------------------------------------------------------------
(* apply: plan, snapshot, write in order, commit; or roll back.            *)

Drifted(u, i) == Ops[u][i].expected \notin {AnyBytes, files[Target(u, i)]}

\* The guarded read of one target.
ReadTarget(c) ==
    LET u == unit[c]  i == k[c] IN
    /\ At(c, "read") /\ i <= Size(u) /\ ~Drifted(u, i)
    /\ seen' = [seen EXCEPT ![c] = Append(seen[c], files[Target(u, i)])]
    /\ Step(c, i + 1)
    /\ UNCHANGED <<disk, pc, lock, serial, used, op, unit, todo, bound>>

\* cas-drift: refused with nothing written, and no snapshot either.
RefuseDrift(c) ==
    /\ At(c, "read") /\ k[c] <= Size(unit[c]) /\ Drifted(unit[c], k[c])
    /\ Goto(c, "release")
    /\ UNCHANGED <<disk, k, faults>> /\ Keep

\* validateWrite accepts every write, or refuses one with nothing written.
Validate(c) ==
    /\ At(c, "read") /\ k[c] > Size(unit[c])
    /\ Goto(c, "prepare") \/ Goto(c, "release")
    /\ UNCHANGED <<disk, k, faults>> /\ Keep

WritePrepared(c) ==
    /\ At(c, "prepare")
    /\ SetState(c, "prepared")
    /\ Goto(c, "journalPrepared")
    /\ UNCHANGED <<files, journal, k, faults>> /\ Keep

JournalPrepared(c) ==
    /\ At(c, "journalPrepared")
    /\ SetPhase(c, "prepared")
    /\ Goto(c, "write") /\ Step(c, 1)
    /\ UNCHANGED <<files, snapshot, faults>> /\ Keep

WriteTarget(c) ==
    LET u == unit[c]  i == k[c] IN
    /\ At(c, "write") /\ i <= Size(u)
    /\ WriteOne(Target(u, i), seen[c][i], After(u, i))
    /\ Step(c, i + 1)
    /\ UNCHANGED <<snapshot, journal, pc, faults>> /\ Keep

\* Mutants: the loop ends one op early; the journal is told too much too soon.
JournalWritten_early(c) ==
    /\ At(c, "write") /\ k[c] >= Size(unit[c])
    /\ SetPhase(c, "unit-written") /\ Goto(c, "commit")
    /\ UNCHANGED <<files, snapshot, k, faults>> /\ Keep
JournalWritten_committed(c) ==
    /\ At(c, "write") /\ k[c] > Size(unit[c])
    /\ SetPhase(c, "committed") /\ Goto(c, "commit")
    /\ UNCHANGED <<files, snapshot, k, faults>> /\ Keep

JournalWritten(c) ==
    /\ At(c, "write") /\ k[c] > Size(unit[c])
    /\ SetPhase(c, "unit-written")
    /\ Goto(c, "commit")
    /\ UNCHANGED <<files, snapshot, k, faults>> /\ Keep

\* The committed snapshot is the recovery authority, before the journal.
CommitSnapshot(c) ==
    /\ At(c, "commit")
    /\ SetState(c, "committed")
    /\ Goto(c, "journalCommitted")
    /\ UNCHANGED <<files, journal, k, faults>> /\ Keep

JournalCommitted(c) ==
    /\ At(c, "journalCommitted")
    /\ SetPhase(c, "committed")
    /\ Goto(c, "release")
    /\ UNCHANGED <<files, snapshot, k, faults>> /\ Keep

\* A throw anywhere between the reads and the return: the catch block
\* rolls back the ops written so far, which are those before k.
ApplyThrows(c) ==
    LET u == unit[c]  i == k[c] IN
    /\ \/ At(c, "write") /\ i <= Size(u) /\ files[Target(u, i)] # seen[c][i]
            /\ UNCHANGED <<faults, k>>
       \/ At(c, "write") /\ Fault /\ UNCHANGED k
       \/ pc[c] \in {"commit", "journalCommitted"} /\ Fault /\ UNCHANGED k
       \/ pc[c] \in {"read", "prepare", "journalPrepared"} /\ Fault /\ Step(c, 1)
    /\ Goto(c, "rollback")
    /\ UNCHANGED disk /\ Keep

\* WriteKernel.restore, in reverse order.
RollbackTarget(c) ==
    LET u == unit[c]  i == k[c] - 1 IN
    /\ At(c, "rollback") /\ i >= 1
    /\ WriteOne(Target(u, i), After(u, i), seen[c][i])
    /\ Step(c, i)
    /\ UNCHANGED <<snapshot, journal, pc, faults>> /\ Keep

\* Nothing is left to roll back, or the first refusal or error ends it.
RollbackEnds(c) ==
    LET u == unit[c]  i == k[c] - 1 IN
    /\ At(c, "rollback")
    /\ \/ (i >= 1 => files[Target(u, i)] # After(u, i)) /\ UNCHANGED faults
       \/ i >= 1 /\ Fault
    /\ Goto(c, "journalFailed")
    /\ UNCHANGED <<disk, k>> /\ Keep

\* Mutant: the failed unit is filed as undone even when its rollback failed.
JournalFailed_filesUndone(c) ==
    /\ At(c, "journalFailed")
    /\ SetPhase(c, "failed") /\ SetState(c, "undone")
    /\ Goto(c, "release")
    /\ UNCHANGED <<files, k, faults>> /\ Keep
\* The prepared snapshot stays: only the journal learns of the failure.
JournalFailed(c) ==
    /\ At(c, "journalFailed")
    /\ \/ SetPhase(c, "failed") /\ UNCHANGED faults
       \/ Fault /\ UNCHANGED journal
    /\ Goto(c, "release")
    /\ UNCHANGED <<files, snapshot, k>> /\ Keep

------------------------------------------------------------------------------
(* recover: put back what a prepared unit wrote, in reverse order.         *)

\* A target already at its before-bytes is passed over.
SkipTarget(c) ==
    /\ At(c, "revert") /\ k[c] >= 1
    /\ files[Target(unit[c], k[c])] = seen[c][k[c]]
    /\ Step(c, k[c] - 1)
    /\ UNCHANGED <<disk, pc, faults>> /\ Keep

RevertTarget(c) ==
    LET u == unit[c]  i == k[c] IN
    /\ At(c, "revert") /\ i >= 1
    /\ WriteOne(Target(u, i), After(u, i), seen[c][i])
    /\ Step(c, i - 1)
    /\ UNCHANGED <<snapshot, journal, pc, faults>> /\ Keep

\* Neither before nor after; or a read, an inverse write or the snapshot throws.
RecoverRefused(c) ==
    LET u == unit[c]  i == k[c] IN
    /\ At(c, "revert")
    /\ \/ i >= 1 /\ files[Target(u, i)] \notin {seen[c][i], After(u, i)}
            /\ UNCHANGED faults
       \/ Fault
    /\ Goto(c, "release")
    /\ UNCHANGED <<disk, k>> /\ Keep

\* Mutant: the loop stops before the first op.
MarkUndone_early(c) ==
    /\ At(c, "revert") /\ k[c] <= 1
    /\ SetState(c, "undone") /\ Goto(c, "journalUndone")
    /\ UNCHANGED <<files, journal, k, faults>> /\ Keep
MarkUndone(c) ==
    /\ At(c, "revert") /\ k[c] = 0
    /\ SetState(c, "undone")
    /\ Goto(c, "journalUndone")
    /\ UNCHANGED <<files, journal, k, faults>> /\ Keep

JournalUndone(c) ==
    /\ At(c, "journalUndone")
    /\ \/ SetPhase(c, "undone") /\ UNCHANGED faults
       \/ Fault /\ UNCHANGED journal
    /\ Goto(c, "release")
    /\ UNCHANGED <<files, snapshot, k>> /\ Keep

------------------------------------------------------------------------------
(* undo: all targets still hold the unit's bytes, or nothing is written.   *)

Preflight(c) ==
    LET u == unit[c]  i == k[c] IN
    /\ At(c, "preflight")
    /\ \/ /\ i > Size(u)
          /\ Goto(c, "unwrite") /\ Step(c, Size(u)) /\ UNCHANGED faults
       \/ /\ i <= Size(u) /\ files[Target(u, i)] = After(u, i)
          /\ Step(c, i + 1) /\ UNCHANGED <<pc, faults>>
       \/ /\ i <= Size(u)
          /\ (files[Target(u, i)] # After(u, i) /\ UNCHANGED faults) \/ Fault
          /\ Goto(c, "release") /\ UNCHANGED k
    /\ UNCHANGED disk /\ Keep

UnwriteTarget(c) ==
    LET u == unit[c]  i == k[c] IN
    /\ At(c, "unwrite") /\ i >= 1
    /\ WriteOne(Target(u, i), After(u, i), seen[c][i])
    /\ Step(c, i - 1)
    /\ UNCHANGED <<snapshot, journal, pc, faults>> /\ Keep

\* undo journals first; recover marks the snapshot first.
UndoJournal(c) ==
    /\ At(c, "unwrite") /\ k[c] = 0
    /\ SetPhase(c, "undone")
    /\ Goto(c, "undoSnapshot")
    /\ UNCHANGED <<files, snapshot, k, faults>> /\ Keep

UndoSnapshot(c) ==
    /\ At(c, "undoSnapshot")
    /\ SetState(c, "undone")
    /\ Goto(c, "release")
    /\ UNCHANGED <<files, journal, k, faults>> /\ Keep

\* The catch block puts the unit's bytes back on the targets undone so far.
UndoThrows(c) ==
    LET u == unit[c]  i == k[c] IN
    /\ \/ At(c, "unwrite") /\ i >= 1 /\ files[Target(u, i)] # After(u, i)
            /\ UNCHANGED faults
       \/ pc[c] \in {"unwrite", "undoSnapshot"} /\ Fault
    /\ Goto(c, "compensate") /\ Step(c, i + 1)
    /\ UNCHANGED disk /\ Keep

\* io.writeText / io.remove: this write compares nothing.
Compensate(c) ==
    LET u == unit[c]  i == k[c] IN
    /\ At(c, "compensate") /\ i <= Size(u)
    /\ files' = [files EXCEPT ![Target(u, i)] = After(u, i)]
    /\ Step(c, i + 1)
    /\ UNCHANGED <<snapshot, journal, pc, faults>> /\ Keep

\* A target that cannot be put back is skipped.
CompensateFault(c) ==
    /\ At(c, "compensate") /\ k[c] <= Size(unit[c]) /\ Fault
    /\ Step(c, k[c] + 1)
    /\ UNCHANGED <<disk, pc>> /\ Keep

CompensateEnds(c) ==
    /\ At(c, "compensate") /\ k[c] > Size(unit[c])
    /\ Goto(c, "release")
    /\ UNCHANGED <<disk, k, faults>> /\ Keep

------------------------------------------------------------------------------
(* The environment.                                                        *)

UserEdit(p, b) ==
    /\ edits < MaxEdits /\ b # files[p]
    /\ edits' = edits + 1
    /\ files' = [files EXCEPT ![p] = b]
    /\ UNCHANGED <<snapshot, journal, lock, serial, used, local, epoch, faults>>

\* The process dies and starts again: the lock record outlives its holder.
Crash ==
    /\ epoch < MaxCrashes
    /\ epoch' = epoch + 1
    /\ serial' = NoCaller
    /\ pc' = [c \in Callers |-> "cold"]
    /\ op' = [c \in Callers |-> "none"]
    /\ unit' = [c \in Callers |-> NoUnit]
    /\ k' = [c \in Callers |-> 0]
    /\ seen' = [c \in Callers |-> <<>>]
    /\ todo' = [c \in Callers |-> {}]
    /\ UNCHANGED <<disk, lock, used, edits, faults>>

ApplyStep(c) ==
    \/ ReadTarget(c) \/ RefuseDrift(c) \/ Validate(c) \/ WritePrepared(c)
    \/ JournalPrepared(c) \/ WriteTarget(c) \/ JournalWritten(c)
    \/ CommitSnapshot(c) \/ JournalCommitted(c) \/ ApplyThrows(c)
    \/ RollbackTarget(c) \/ RollbackEnds(c) \/ JournalFailed(c)
RecoverStep(c) ==
    \/ SkipTarget(c) \/ RevertTarget(c) \/ RecoverRefused(c) \/ MarkUndone(c)
    \/ JournalUndone(c)
UndoStep(c) ==
    \/ Preflight(c) \/ UnwriteTarget(c) \/ UndoJournal(c) \/ UndoSnapshot(c)
    \/ UndoThrows(c) \/ Compensate(c) \/ CompensateFault(c) \/ CompensateEnds(c)
LockStep(c) == Enter(c) \/ Acquire(c) \/ LockFailed(c) \/ Release(c) \/ ReleaseFault(c)
CallStep(c) ==
    \/ ListPrepared(c) \/ RecoveryFault(c) \/ NewLibrary(c)
    \/ \E u \in Units : RecoverRead(c, u) \/ ApplyStart(c, u) \/ UndoRead(c, u)

Next ==
    \/ \E c \in Callers :
          CallStep(c) \/ LockStep(c) \/ ApplyStep(c) \/ RecoverStep(c) \/ UndoStep(c)
    \/ \E p \in Paths, b \in UserBytes : UserEdit(p, b)
    \/ Crash

Spec == Init /\ [][Next]_vars

\* Every call that has been made goes on: promises are eventually resolved.
\* Nothing obliges a caller to start another apply, undo or library.
Progress(c) ==
    \/ ListPrepared(c) \/ RecoveryFault(c) \/ (\E u \in Units : RecoverRead(c, u))
    \/ LockStep(c) \/ ApplyStep(c) \/ RecoverStep(c) \/ UndoStep(c)
\* The serial queue is FIFO, so a queued task is not overtaken for ever.
FairSpec == Spec /\ \A c \in Callers : WF_vars(Progress(c)) /\ SF_vars(Enter(c))

------------------------------------------------------------------------------
(* Properties.                                                             *)

SnapshotStates == {"none", "prepared", "committed", "undone"}
Phases == {"none", "prepared", "unit-written", "committed", "failed", "rolled-back"}
OpNames == {"none", "apply", "recover", "undo"}
Labels ==
    {"cold", "ready", "queued", "acquire", "release", "read", "prepare",
     "journalPrepared", "write", "commit", "journalCommitted", "rollback",
     "journalFailed", "revert", "journalUndone", "preflight", "unwrite",
     "undoSnapshot", "compensate"}
\* Inside the serial task, with the lock file written.
Locked == Labels \ {"cold", "ready", "queued", "acquire"}

\* Every variable has its type.
TypeOK ==
    /\ files \in [Paths -> Bytes]
    /\ snapshot \in [Units -> [state : SnapshotStates, before : Seq(Bytes)]]
    /\ journal \in [Units -> Phases]
    /\ lock \in [epoch : Int, holder : Callers \cup {NoCaller}]
    /\ serial \in Callers \cup {NoCaller}
    /\ used \in SUBSET Units
    /\ pc \in [Callers -> Labels] /\ op \in [Callers -> OpNames]
    /\ unit \in [Callers -> Units \cup {NoUnit}]
    /\ k \in [Callers -> Nat]
    /\ seen \in [Callers -> Seq(Bytes)]
    /\ todo \in [Callers -> SUBSET Units]
    /\ epoch \in Nat /\ edits \in Nat /\ faults \in Nat

\* Whoever is past acquire holds the serial queue and the lock record of this
\* process: no second unit, of any library, moves a file in between
\* (mutation-unit.ts:278-285, 397-403, 446-452).
OneUnitAtATime ==
    \A c \in Callers : pc[c] \in Locked =>
        serial = c /\ lock = [epoch |-> epoch, holder |-> c]

\* The bytes op i of unit u may leave on disk: w, or a person's later edit.
Holds(u, i, w) == files[Target(u, i)] \in {w} \cup UserBytes

\* The committed snapshot is written only when every target holds the unit's
\* bytes (or what a person wrote over them): no half-written unit is ever
\* declared the recovery authority.
CommitIsWhole ==
    [][\A u \in Units :
         snapshot[u].state # "committed" /\ snapshot'[u].state = "committed" =>
            \A i \in 1..Size(u) : Holds(u, i, After(u, i))]_vars

\* A unit is declared undone, by recover or by undo, only when every target is
\* back at the bytes it had before (or a person's): no half-reverted unit
\* leaves the set that recovery looks at.
UndoneIsWhole ==
    [][\A u \in Units :
         snapshot[u].state # "undone" /\ snapshot'[u].state = "undone" =>
            \A i \in 1..Size(u) : Holds(u, i, snapshot[u].before[i])]_vars

\* Bytes written by a unit lie on disk only while its snapshot says how to
\* take them back: whatever crashes, throws or overlaps, no unit's bytes are
\* orphaned (a failed rollback included).
NoOrphanBytes ==
    \A u \in Units : \A i \in 1..Size(u) :
        files[Target(u, i)] = After(u, i) =>
            snapshot[u].state \in {"prepared", "committed"}

\* The journal says committed only after the snapshot did: a reader of the
\* journal never trusts a unit that recovery would roll back.
JournalBehindSnapshot ==
    \A u \in Units : journal[u] = "committed" =>
        snapshot[u].state \in {"committed", "undone"}

\* p's bytes are what a committed unit left there.
CommittedBytes(p) ==
    \E u \in Units : /\ snapshot[u].state = "committed"
                     /\ \E i \in 1..Size(u) : Target(u, i) = p /\ After(u, i) = files[p]

\* Recovery never takes back the bytes of a committed unit.
RecoveryKeepsCommitted ==
    [][\A c \in Callers : At(c, "revert") /\ k'[c] # k[c] =>
         \A p \in Paths : CommittedBytes(p) => files'[p] = files[p]]_vars

\* A unit left prepared by a crash is resolved by the boot recovery of the next
\* process; one in progress commits or ends.
PreparedResolves ==
    \A u \in Units : snapshot[u].state = "prepared" ~> snapshot[u].state # "prepared"

\* Every call that is made returns: serial queue and lock never wedge a caller.
CallsReturn == \A c \in Callers : pc[c] = "queued" ~> pc[c] \in {"cold", "ready"}

------------------------------------------------------------------------------
(* Refinement: what the units promise is a tree that changes unit-wise.    *)

\* The tree recovery would leave: prepared units count as not written.
View == [p \in Paths |->
    LET pending(u, i) == /\ snapshot[u].state = "prepared"
                         /\ Target(u, i) = p /\ files[p] = After(u, i)
    IN IF \E u \in Units : \E i \in 1..Size(u) : pending(u, i)
       THEN LET u == CHOOSE u \in Units : \E i \in 1..Size(u) : pending(u, i)
                i == CHOOSE i \in 1..Size(u) : pending(u, i)
            IN snapshot[u].before[i]
       ELSE files[p]]

Status == [u \in Units |->
    IF snapshot[u].state \in {"none", "prepared"} THEN "pending" ELSE snapshot[u].state]
Base == [u \in Units |->
    IF snapshot[u].state = "committed" THEN snapshot[u].before ELSE <<>>]

Atomic == INSTANCE AtomicTree WITH tree <- View, status <- Status, base <- Base
\* With no IO fault (one in the journal write that follows the committed snapshot
\* rolls a committed unit back), every unit takes effect on the recovered tree in one step, at its committed
\* snapshot, whatever crashes and overlaps.
ImplementsAtomicTree == Atomic!Spec
==============================================================================
