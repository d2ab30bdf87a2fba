----------------------------- MODULE MergeUnit -----------------------------
(***************************************************************************)
(* A merge of skills (unit-transaction.ts over SkillLibrary.commitMerge)   *)
(* and its recovery at plugin mount (recovery-coordinator.ts).  The merge  *)
(* rewrites or creates a target skill and archives its sources, writing a  *)
(* journal phase before and after each step; evidence of completion comes  *)
(* last.  A process starts one recovery when the plugin mounts, waits for  *)
(* nothing of it, and runs merge calls beside it.  Calls of one process    *)
(* and of several share the skills, the unit files and the tree lock.      *)
(***************************************************************************)
EXTENDS Integers, Sequences, FiniteSets

CONSTANTS
    Calls,        \* merge calls and recoveries, each one at a time
    Mounts,       \* the calls that are the recovery of a process at mount
    Home,         \* Home[p]: the process a call runs in
    Approves,     \* Approves[p]: the units whose merge call p may be told to run
    Units,        \* unit ids: run id and pair key
    Skills,
    Target,       \* Target[u]: the skill a unit writes
    Sources,      \* Sources[u]: the sequence of skills it archives
    Bundled,      \* units whose plan has support files
    InitLive,     \* the bodies before the first merge, Absent for no skill
    Editable,     \* skills a person may change by hand, once each
    Absent, NoUnit, NoCall,
    MaxFaults, MaxCrashes, MaxEdits, MaxTroubles,  \* of each kind, and together
    MaxMerges     \* merges that are told to run

ASSUME UnitsAssumption ==
    /\ NoUnit \notin Units /\ NoCall \notin Calls
    /\ Target \in [Units -> Skills] /\ Sources \in [Units -> Seq(Skills)]
    /\ \A u \in Units : \A i, j \in 1..Len(Sources[u]) :
           Sources[u][i] # Target[u] /\ (Sources[u][i] = Sources[u][j] => i = j)
    /\ Bundled \subseteq Units /\ Editable \subseteq Skills
    /\ \A u, v \in Bundled : Target[u] = Target[v] => u = v   \* a "bare" body tells its unit
ASSUME CallsAssumption ==
    /\ Mounts \subseteq Calls /\ Approves \in [Calls -> SUBSET Units]
    /\ \A p \in Mounts : Approves[p] = {}
ASSUME NamesAssumption ==
    /\ Absent \notin {"orig", "edit", "bare"}
    /\ Units \cap {Absent, "orig", "edit", "bare"} = {}
    /\ InitLive \in [Skills -> {Absent, "orig"}]
ASSUME BoundsAssumption == {MaxFaults, MaxCrashes, MaxEdits, MaxTroubles, MaxMerges} \subseteq Nat

\* A body: what a skill started with, a hand edit, a unit's merged body
\* (with its support files), or a created target still without them.
Bodies == {Absent, "orig", "edit", "bare"} \cup Units
Phases == {"none", "prepared", "target-pending", "target-written",
           "source-archiving", "support-pending", "sources-archived",
           "unit-written", "committed", "failed", "rolled-back"}

VARIABLES
    live, arch,   \* the skill tree and the newest archived copy
    journal,      \* unit journal: phase and checkpointed sources
    snap,         \* unit snapshot: the bodies read by prepare
    receipt, evidence,
    lock,         \* the tree lock; a dead holder's record counts as free
    pc, unit, plan, n, todo, seen,    \* locals of each call
    touched,      \* skills a person has changed
    faults, crashes, merges

tree  == <<live, arch>>
files == <<journal, snap, receipt, evidence>>
local == <<pc, unit, plan, n, todo, seen>>
bound == <<touched, faults, crashes, merges>>
vars  == <<tree, files, lock, local, bound>>

NoJournal == [phase |-> "none", cps |-> 0]
NoBodies  == [s \in Skills |-> Absent]
\* What a call has read of its unit: the journal, and whether it is committed.
Unread    == [phase |-> "none", cps |-> 0, done |-> FALSE]
\* A recovery begins with its process, a merge when it is told to.
First(p)  == IF p \in Mounts THEN "boot" ELSE "idle"

Init ==
    /\ live = InitLive /\ arch = NoBodies
    /\ journal = [u \in Units |-> NoJournal]
    /\ snap = [u \in Units |-> NoBodies]
    /\ receipt = {} /\ evidence = {}
    /\ lock = NoCall
    /\ pc = [p \in Calls |-> First(p)] /\ unit = [p \in Calls |-> NoUnit]
    /\ plan = [p \in Calls |-> NoBodies] /\ n = [p \in Calls |-> 0]
    /\ todo = [p \in Calls |-> {}] /\ seen = [p \in Calls |-> Unread]
    /\ touched = {} /\ faults = 0 /\ crashes = 0 /\ merges = 0

------------------------------------------------------------------------------
Goto(p, l)   == pc' = [pc EXCEPT ![p] = l]
\* The call returns: its locals are gone.
Return(p, l) ==
    /\ Goto(p, l)
    /\ unit' = [unit EXCEPT ![p] = NoUnit] /\ plan' = [plan EXCEPT ![p] = NoBodies]
    /\ n' = [n EXCEPT ![p] = 0] /\ seen' = [seen EXCEPT ![p] = Unread]
T(p)         == Target[unit[p]]
Source(p, i) == Sources[unit[p]][i]
Size(u)      == Len(Sources[u])
Parts(u)     == {Target[u]} \cup {Sources[u][i] : i \in 1..Size(u)}
\* The bodies of a unit's skills, as one read finds them.
Read(u)      == [s \in Skills |-> IF s \in Parts(u) THEN live[s] ELSE Absent]
Log(u, ph, c) == journal' = [journal EXCEPT ![u] = [phase |-> ph, cps |-> c]]
Creates(p)   == plan[p][T(p)] = Absent
\* What the first write of the plan leaves of its target.
After(p)     == IF unit[p] \in Bundled /\ Creates(p) THEN "bare" ELSE unit[p]

\* archive: the directory moves, whatever it holds; refused without one.
Archived(s) ==
    /\ live[s] # Absent
    /\ live' = [live EXCEPT ![s] = Absent] /\ arch' = [arch EXCEPT ![s] = live[s]]
\* restoreFromArchive: the newest copy, never over a live skill.
CanRestore(s) == live[s] = Absent /\ arch[s] # Absent
Restored(s) ==
    /\ CanRestore(s)
    /\ live' = [live EXCEPT ![s] = arch[s]] /\ arch' = [arch EXCEPT ![s] = Absent]

------------------------------------------------------------------------------
(* The commit of a staged merge.                                           *)

\* commitStagedRun: the plan carries the bodies read while assembling.
Assemble(p, u) ==
    /\ pc[p] = "idle" /\ u \in Approves[p]
    /\ merges < MaxMerges /\ merges' = merges + 1
    /\ \A i \in 1..Size(u) : live[Sources[u][i]] # Absent
    /\ plan' = [plan EXCEPT ![p] = Read(u)] /\ unit' = [unit EXCEPT ![p] = u]
    /\ Goto(p, "assembled")
    /\ UNCHANGED <<tree, files, lock, n, todo, seen, touched, faults, crashes>>

\* prepare reads the skills again for the snapshot, then writes the journal.
Prepare(p) ==
    /\ pc[p] = "assembled"
    /\ snap' = [snap EXCEPT ![unit[p]] = Read(unit[p])]
    /\ Log(unit[p], "prepared", 0)
    /\ Goto(p, "prepared")
    /\ UNCHANGED <<tree, receipt, evidence, lock, unit, plan, n, todo, seen, bound>>

\* commitOnce before the lock: an evidence of this unit answers the call, and
\* without one the call goes to wait for the lock.
CommitOnce(p) ==
    /\ pc[p] = "prepared"
    /\ IF unit[p] \in evidence THEN Return(p, "idle")
       ELSE Goto(p, "waiting") /\ UNCHANGED <<unit, plan, n, seen>>
    /\ UNCHANGED <<tree, files, lock, todo, bound>>

\* The tree lock and, under it, the target's claim, which no other call then
\* holds.  Nothing takes the lock from a live holder, so assertHeld is true at
\* every later check of the code and is left out.  The journal says target-pending
\* before the library has checked anything; the evidence is not read again.
CommitLock(p) ==
    /\ pc[p] = "waiting"
    /\ lock = NoCall /\ lock' = p
    /\ Log(unit[p], "target-pending", 0)
    /\ Goto(p, "locked")
    /\ UNCHANGED <<tree, snap, receipt, evidence, unit, plan, n, todo, seen, bound>>
\* Five seconds of polling end with "busy"; so do an abort and a taken claim.
CommitBusy(p) ==
    /\ pc[p] = "waiting" /\ lock # NoCall
    /\ Return(p, "idle")
    /\ UNCHANGED <<tree, files, lock, todo, bound>>

\* commitMerge up to its first write: every body is still the planned one.
\* Mutant: a target changed since the plan is accepted.
AsPlanned_sources(p) == \A i \in 1..Size(unit[p]) : live[Source(p, i)] = plan[p][Source(p, i)]
AsPlanned(p) == \A s \in Parts(unit[p]) : live[s] = plan[p][s]
WriteTarget(p) ==
    /\ pc[p] = "locked" /\ AsPlanned(p)
    /\ live' = [live EXCEPT ![T(p)] = After(p)]
    /\ Goto(p, "applied")
    /\ UNCHANGED <<arch, files, lock, unit, plan, n, todo, seen, bound>>
LogWritten(p) ==
    /\ pc[p] = "applied" /\ Log(unit[p], "target-written", 0)
    /\ Goto(p, "written")
    /\ UNCHANGED <<tree, snap, receipt, evidence, lock, unit, plan, n, todo, seen, bound>>
Refuse(p) ==
    /\ pc[p] = "locked" /\ ~AsPlanned(p)
    /\ Goto(p, "failed")
    /\ UNCHANGED <<tree, files, lock, unit, plan, n, todo, seen, bound>>

\* The next source is read again; its checkpoint is written before it moves.
Fresh(p) == live[Source(p, n[p] + 1)] = plan[p][Source(p, n[p] + 1)]
Checkpoint(p) ==
    /\ pc[p] = "written" /\ n[p] < Size(unit[p]) /\ Fresh(p)
    /\ Log(unit[p], "source-archiving", n[p] + 1)
    /\ seen' = [seen EXCEPT ![p].cps = n[p] + 1]
    /\ Goto(p, "archiving")
    /\ UNCHANGED <<tree, snap, receipt, evidence, lock, unit, plan, n, todo, bound>>
ArchiveSource(p) ==
    /\ pc[p] = "archiving" /\ Archived(Source(p, n[p] + 1))
    /\ n' = [n EXCEPT ![p] = n[p] + 1]
    /\ Goto(p, "written")
    /\ UNCHANGED <<files, lock, unit, plan, todo, seen, bound>>
\* A changed source, an abort before a source, or an archive that is refused.
GiveUp(p) ==
    /\ \/ pc[p] = "written" /\ n[p] < Size(unit[p])
       \/ pc[p] = "archiving" /\ live[Source(p, n[p] + 1)] = Absent
    /\ Goto(p, "undo")
    /\ UNCHANGED <<tree, files, lock, unit, plan, n, todo, seen, bound>>

\* A created target gets its support files after the sources are archived.
Supports(p) == unit[p] \in Bundled /\ Creates(p)
LogSupport(p) ==
    /\ pc[p] = "written" /\ n[p] = Size(unit[p]) /\ Supports(p)
    /\ Log(unit[p], "support-pending", n[p])
    /\ Goto(p, "support")
    /\ UNCHANGED <<tree, snap, receipt, evidence, lock, unit, plan, n, todo, seen, bound>>
WriteSupport(p) ==
    /\ pc[p] = "support"
    /\ live' = [live EXCEPT ![T(p)] = IF @ = "bare" THEN unit[p] ELSE @]
    /\ Goto(p, "supported")
    /\ UNCHANGED <<arch, files, lock, unit, plan, n, todo, seen, bound>>
AllArchived(p) ==
    /\ pc[p] = IF Supports(p) THEN "supported" ELSE "written"
    /\ n[p] = Size(unit[p])
    /\ Log(unit[p], "sources-archived", n[p])
    /\ Goto(p, "archived")
    /\ UNCHANGED <<tree, snap, receipt, evidence, lock, unit, plan, n, todo, seen, bound>>
\* The receipt, then its phase; the evidence, then the last phase.
WriteReceipt(p) ==
    /\ pc[p] = "archived" /\ receipt' = receipt \cup {unit[p]}
    /\ Goto(p, "receipted")
    /\ UNCHANGED <<tree, journal, snap, evidence, lock, unit, plan, n, todo, seen, bound>>
UnitWritten(p) ==
    /\ pc[p] = "receipted" /\ Log(unit[p], "unit-written", n[p])
    /\ Goto(p, "unitWritten")
    /\ UNCHANGED <<tree, snap, receipt, evidence, lock, unit, plan, n, todo, seen, bound>>
WriteEvidence(p) ==
    /\ pc[p] = "unitWritten" /\ evidence' = evidence \cup {unit[p]}
    /\ Goto(p, "evident")
    /\ UNCHANGED <<tree, journal, snap, receipt, lock, unit, plan, n, todo, seen, bound>>
Committed(p) ==
    /\ pc[p] = "evident" /\ Log(unit[p], "committed", n[p])
    /\ Goto(p, "release")
    /\ UNCHANGED <<tree, snap, receipt, evidence, lock, unit, plan, n, todo, seen, bound>>

\* rollbackSources in reverse order, then rollbackTarget; what is stuck stays.
UndoSource(p) ==
    /\ pc[p] = "undo" /\ n[p] > 0
    /\ n' = [n EXCEPT ![p] = n[p] - 1]
    /\ Restored(Source(p, n[p])) \/ (~CanRestore(Source(p, n[p])) /\ UNCHANGED tree)
    /\ UNCHANGED <<files, lock, pc, unit, plan, todo, seen, bound>>
UndoTarget(p) ==
    /\ pc[p] = "undo" /\ n[p] = 0
    /\ IF Creates(p) THEN Archived(T(p)) \/ (live[T(p)] = Absent /\ UNCHANGED tree)
       ELSE /\ live' = [live EXCEPT ![T(p)] = IF @ = After(p) THEN plan[p][T(p)] ELSE @]
            /\ UNCHANGED arch
    /\ Goto(p, "failed")
    /\ UNCHANGED <<files, lock, unit, plan, n, todo, seen, bound>>
Failed(p) ==
    /\ pc[p] = "failed" /\ Log(unit[p], "failed", seen[p].cps)
    /\ Goto(p, "release")
    /\ UNCHANGED <<tree, snap, receipt, evidence, lock, unit, plan, n, todo, seen, bound>>

\* Mutant: the lock is left to the process.
Release_keeps(p) ==
    /\ pc[p] = "release"
    /\ Return(p, IF p \in Mounts THEN "recover" ELSE "idle")
    /\ UNCHANGED <<tree, files, lock, todo, bound>>
\* The finally block; a call that threw arrives here with its journal as is.
Release(p) ==
    /\ pc[p] = "release"
    /\ lock' = NoCall
    /\ Return(p, IF p \in Mounts THEN "recover" ELSE "idle")
    /\ UNCHANGED <<tree, files, todo, bound>>

Commit(p) ==
    \/ Prepare(p) \/ CommitOnce(p) \/ CommitLock(p) \/ CommitBusy(p)
    \/ WriteTarget(p) \/ LogWritten(p) \/ Refuse(p)
    \/ Checkpoint(p) \/ ArchiveSource(p) \/ GiveUp(p) \/ LogSupport(p) \/ WriteSupport(p)
    \/ AllArchived(p) \/ WriteReceipt(p) \/ UnitWritten(p) \/ WriteEvidence(p)
    \/ Committed(p) \/ UndoSource(p) \/ UndoTarget(p) \/ Failed(p)

------------------------------------------------------------------------------
(* Recovery at plugin mount: every journal of the home, one by one.        *)

Boot(p) ==
    /\ pc[p] = "boot"
    /\ todo' = [todo EXCEPT ![p] = {u \in Units : journal[u].phase # "none"}]
    /\ Goto(p, "recover")
    /\ UNCHANGED <<tree, files, lock, unit, plan, n, seen, bound>>

\* The coordinator reads a journal and the evidence and picks the branch:
\* finalize of a settled unit, rollForward of a half-done one, and rollback
\* for every other phase, the ended ones included.
Refused(u) == u \in evidence \/ u \in receipt
Glance(u)  == [phase |-> journal[u].phase, cps |-> journal[u].cps, done |-> Refused(u)]
Settled(u) ==
    u \in evidence \/ journal[u].phase \in {"committed", "unit-written", "sources-archived"}
HalfDone == {"target-written", "support-pending", "source-archiving"}
Branch(u) == CASE Settled(u) -> "finalizing"
               [] ~Settled(u) /\ journal[u].phase \in HalfDone -> "forwarding"
               [] OTHER -> "backing"
Decide(p, u) ==
    /\ pc[p] = "recover" /\ u \in todo[p]
    /\ todo' = [todo EXCEPT ![p] = @ \ {u}]
    /\ unit' = [unit EXCEPT ![p] = u]
    /\ Goto(p, Branch(u))
    /\ UNCHANGED <<tree, files, lock, plan, n, seen, bound>>

\* finalize and rollForward read the unit again.  Both demand every checkpoint,
\* the planned target and no live source; neither takes the tree lock.
\* Mutant: a checkpoint is taken for the archive it announces.
Complete_cps(u) == journal[u].cps = Size(u) /\ live[Target[u]] = u
Complete(u) ==
    /\ journal[u].cps = Size(u)
    /\ live[Target[u]] = u
    /\ \A i \in 1..Size(u) : live[Sources[u][i]] = Absent
Ready(p, u) ==
    /\ u \notin evidence /\ Complete(u)
    /\ IF pc[p] = "finalizing" THEN journal[u].phase = "committed" \/ u \in receipt
       ELSE journal[u].phase \in HalfDone \cup {"sources-archived", "unit-written"}
ReadForward(p) ==
    /\ pc[p] \in {"finalizing", "forwarding"}
    /\ IF Ready(p, unit[p])
       THEN /\ Goto(p, "finalize") /\ UNCHANGED <<unit, n>>
            /\ plan' = [plan EXCEPT ![p] = Read(unit[p])]
            /\ seen' = [seen EXCEPT ![p] = Glance(unit[p])]
       ELSE Return(p, "recover")      \* answered, or "manual recovery required"
    /\ UNCHANGED <<tree, files, lock, todo, bound>>
Finalize(p) ==
    /\ pc[p] = "finalize" /\ evidence' = evidence \cup {unit[p]}
    /\ Goto(p, "finalized")
    /\ UNCHANGED <<tree, journal, snap, receipt, lock, unit, plan, n, todo, seen, bound>>
\* The journal read before is written back with its last phase.
FinalizeLog(p) ==
    /\ pc[p] = "finalized"
    /\ IF seen[p].phase = "committed" THEN UNCHANGED journal
       ELSE Log(unit[p], "committed", seen[p].cps)
    /\ Return(p, "recover")
    /\ UNCHANGED <<tree, snap, receipt, evidence, lock, todo, bound>>

\* rollback reads evidence, receipt, snapshot and journal, and only then waits
\* for the lock.
ReadBack(p) ==
    /\ pc[p] = "backing"
    /\ IF Refused(unit[p]) THEN Return(p, "recover")
       ELSE /\ Goto(p, "back") /\ UNCHANGED <<unit, n>>
            /\ plan' = [plan EXCEPT ![p] = snap[unit[p]]]
            /\ seen' = [seen EXCEPT ![p] = Glance(unit[p])]
    /\ UNCHANGED <<tree, files, lock, todo, bound>>
BackBusy(p) ==
    /\ pc[p] = "back" /\ lock # NoCall
    /\ Return(p, "recover")
    /\ UNCHANGED <<tree, files, lock, todo, bound>>
BackLock(p) ==
    /\ pc[p] = "back" /\ lock = NoCall /\ lock' = p
    /\ Goto(p, "check")
    /\ UNCHANGED <<tree, files, unit, plan, n, todo, seen, bound>>

\* The planned bytes of a target, which say nothing of its support files.
Merged(u) == IF u \in Bundled THEN {u, "bare"} ELSE {u}
\* The drift checks; plan[p] holds the snapshot of the unit.
\* Mutant: the target may hold anything.
Drifted_source(p) ==
    \E i \in 1..Size(unit[p]) : live[Source(p, i)] \notin {Absent, plan[p][Source(p, i)]}
Drifted(p) ==
    \/ live[T(p)] \notin {plan[p][T(p)]} \cup Merged(unit[p])
    \/ \E i \in 1..Size(unit[p]) : live[Source(p, i)] \notin {Absent, plan[p][Source(p, i)]}
\* Mutant: a refusal returns before the finally block.
BackCheck_leaves(p) ==
    /\ pc[p] = "check"
    /\ Goto(p, IF Drifted(p) THEN "recover" ELSE "restore")
    /\ UNCHANGED <<tree, files, lock, unit, plan, n, todo, seen, bound>>
BackCheck(p) ==
    /\ pc[p] = "check"
    /\ Goto(p, IF Drifted(p) THEN "release" ELSE "restore")
    /\ UNCHANGED <<tree, files, lock, unit, plan, n, todo, seen, bound>>
\* A restore that fails throws out of the coordinator's loop.
Thrown(p) == Goto(p, "release") /\ todo' = [todo EXCEPT ![p] = {}]
RestoreTarget(p) ==
    /\ pc[p] = "restore"
    /\ IF Creates(p)
       THEN /\ Archived(T(p)) \/ (live[T(p)] = Absent /\ UNCHANGED tree)
            /\ Goto(p, "sources") /\ UNCHANGED todo
       ELSE /\ UNCHANGED arch
            /\ IF live[T(p)] = Absent THEN UNCHANGED live /\ Thrown(p)
               ELSE /\ live' = [live EXCEPT ![T(p)] = plan[p][T(p)]]
                    /\ Goto(p, "sources") /\ UNCHANGED todo
    /\ UNCHANGED <<files, lock, unit, plan, n, seen, bound>>
RestoreSource(p) ==
    /\ pc[p] = "sources" /\ n[p] < Size(unit[p])
    /\ n' = [n EXCEPT ![p] = n[p] + 1]
    /\ LET s == Source(p, n[p] + 1) IN
       \/ Restored(s) /\ UNCHANGED <<pc, todo>>
       \/ /\ live[s] # Absent /\ live' = [live EXCEPT ![s] = plan[p][s]]
          /\ UNCHANGED <<arch, pc, todo>>
       \/ live[s] = Absent /\ arch[s] = Absent /\ Thrown(p) /\ UNCHANGED tree
    /\ UNCHANGED <<files, lock, unit, plan, seen, bound>>
\* The journal read before the lock is written back with its last phase.
RolledBack(p) ==
    /\ pc[p] = "sources" /\ n[p] = Size(unit[p])
    /\ Log(unit[p], "rolled-back", seen[p].cps)
    /\ Goto(p, "release")
    /\ UNCHANGED <<tree, snap, receipt, evidence, lock, unit, plan, n, todo, seen, bound>>

Recovered(p) ==
    /\ pc[p] = "recover" /\ todo[p] = {}
    /\ Goto(p, "idle")
    /\ UNCHANGED <<tree, files, lock, unit, plan, n, todo, seen, bound>>

Rollback(p) ==
    \/ ReadBack(p) \/ BackBusy(p) \/ BackLock(p) \/ BackCheck(p)
    \/ RestoreTarget(p) \/ RestoreSource(p) \/ RolledBack(p)
Recover(p) ==
    \/ Boot(p) \/ (\E u \in Units : Decide(p, u))
    \/ ReadForward(p) \/ Finalize(p) \/ FinalizeLog(p) \/ Rollback(p) \/ Recovered(p)

------------------------------------------------------------------------------
(* Failures and people.                                                    *)

Trouble == faults + crashes + Cardinality(touched) < MaxTroubles

\* An IO call fails: the library answers a failure before its first write
\* and for an archive; everything else throws, to the finally block under the
\* lock, or out of the call or the coordinator's loop.
Reading == {"recover", "finalizing", "forwarding", "finalize", "finalized", "backing"}
Fault(p) ==
    /\ Trouble /\ faults < MaxFaults /\ faults' = faults + 1
    /\ \/ pc[p] = "locked" /\ Goto(p, "failed") /\ UNCHANGED <<unit, plan, n, todo, seen>>
       \/ pc[p] \in {"archiving", "support"} /\ Goto(p, "undo") /\ UNCHANGED <<unit, plan, n, todo, seen>>
       \/ /\ pc[p] \in {"applied", "written", "supported", "archived", "receipted",
                       "unitWritten", "evident", "failed"}
          /\ Goto(p, "release") /\ UNCHANGED <<unit, plan, n, todo, seen>>
       \/ pc[p] \in {"check", "restore", "sources"} /\ Thrown(p) /\ UNCHANGED <<unit, plan, n, seen>>
       \/ pc[p] \in {"assembled", "prepared", "waiting"} /\ Return(p, "idle") /\ UNCHANGED todo
       \/ pc[p] \in Reading /\ Return(p, "idle") /\ todo' = [todo EXCEPT ![p] = {}]
    /\ UNCHANGED <<tree, files, lock, touched, crashes, merges>>

\* A process ends, and every call in it; the next one mounts the plugin again.
Ended(h) == {p \in Calls : Home[p] = h}
Crash(h) ==
    /\ Trouble /\ crashes < MaxCrashes /\ crashes' = crashes + 1
    /\ lock' = IF lock \in Ended(h) THEN NoCall ELSE lock
    /\ pc' = [p \in Calls |-> IF p \in Ended(h) THEN First(p) ELSE pc[p]]
    /\ unit' = [p \in Calls |-> IF p \in Ended(h) THEN NoUnit ELSE unit[p]]
    /\ plan' = [p \in Calls |-> IF p \in Ended(h) THEN NoBodies ELSE plan[p]]
    /\ n' = [p \in Calls |-> IF p \in Ended(h) THEN 0 ELSE n[p]]
    /\ todo' = [p \in Calls |-> IF p \in Ended(h) THEN {} ELSE todo[p]]
    /\ seen' = [p \in Calls |-> IF p \in Ended(h) THEN Unread ELSE seen[p]]
    /\ UNCHANGED <<tree, files, touched, faults, merges>>

\* A person edits, archives or restores a skill.
ByHand(s) ==
    /\ Trouble /\ s \in Editable \ touched /\ Cardinality(touched) < MaxEdits
    /\ touched' = touched \cup {s}
    /\ \/ live[s] # Absent /\ live' = [live EXCEPT ![s] = "edit"] /\ UNCHANGED arch
       \/ Archived(s)
       \/ Restored(s)
    /\ UNCHANGED <<files, lock, local, faults, crashes, merges>>

Step(p) ==
    \/ \E u \in Units : Assemble(p, u)
    \/ Commit(p) \/ Release(p) \/ Recover(p) \/ Fault(p)
Next ==
    \/ \E p \in Calls : Step(p) \/ Crash(Home[p])
    \/ \E s \in Skills : ByHand(s)

Spec == Init /\ [][Next]_vars
\* Every await settles: a call that runs is carried on.
FairSpec == Spec /\ \A p \in Calls : WF_vars(Commit(p) \/ Release(p) \/ Recover(p))

------------------------------------------------------------------------------
(* Properties.                                                             *)

\* Where a call is while it holds the tree lock, and all its other places.
Inside == {"locked", "applied", "written", "archiving", "support", "supported", "archived",
           "receipted", "unitWritten", "evident", "undo", "failed", "release",
           "check", "restore", "sources"}
Resting == {"boot", "idle", "recover"}
Labels == Inside \cup Resting \cup Reading \cup {"assembled", "prepared", "waiting", "back"}
Glances == [phase : Phases, cps : Nat, done : BOOLEAN]

TypeOK ==
    /\ live \in [Skills -> Bodies] /\ arch \in [Skills -> Bodies]
    /\ journal \in [Units -> [phase : Phases, cps : Nat]]
    /\ \A u \in Units : journal[u].cps <= Size(u)
    /\ snap \in [Units -> [Skills -> Bodies]]
    /\ receipt \subseteq Units /\ evidence \subseteq Units
    /\ lock \in Calls \cup {NoCall}
    /\ pc \in [Calls -> Labels]
    /\ \A p \in Calls : lock = p <=> pc[p] \in Inside
    /\ unit \in [Calls -> Units \cup {NoUnit}]
    /\ \A p \in Calls : unit[p] = NoUnit <=> pc[p] \in Resting
    /\ n \in [Calls -> Nat]
    /\ \A p \in Calls : n[p] <= IF pc[p] \in Inside THEN Size(unit[p]) ELSE 0
    /\ \A p \in Calls : pc[p] = "archiving" => n[p] < Size(unit[p])
    /\ seen \in [Calls -> Glances]
    /\ \A p \in Calls : seen[p].cps <= IF pc[p] \in Resting THEN 0 ELSE Size(unit[p])
    /\ plan \in [Calls -> [Skills -> Bodies]]
    /\ todo \in [Calls -> SUBSET Units]
    /\ touched \subseteq Editable
    /\ faults \in 0..MaxFaults /\ crashes \in 0..MaxCrashes /\ merges \in 0..MaxMerges

Whole(u) ==
    /\ live[Target[u]] = u
    /\ \A i \in 1..Size(u) : live[Sources[u][i]] = Absent

\* Evidence of a merge tells the truth.  The commit writes it over a tree in
\* which every skill of the unit that nobody touched by hand is merged: its
\* target written, its sources archived.  A recovery, which holds no lock when
\* it writes, does so only if the tree it had checked was merged.
Shows(bodies, u, s) == bodies[s] = IF s = Target[u] THEN u ELSE Absent
EvidenceIsHonest ==
    [][\A u \in evidence' \ evidence : \E p \in Calls : unit[p] = u /\
        \/ pc[p] = "unitWritten" /\ \A s \in Parts(u) \ touched : Shows(live, u, s)
        \/ pc[p] = "finalize" /\ \A s \in Parts(u) : Shows(plan[p], u, s)]_vars

\* A merge never destroys a hand edit it had not planned over: the commit
\* and its rollback in place leave the edit live or in the archive.
MergeKeepsEdits ==
    [][\A p \in Calls, s \in Skills :
        /\ pc[p] \in {"locked", "archiving", "written", "undo"} /\ pc'[p] # pc[p]
        /\ live[s] = "edit" /\ live'[s] # "edit" /\ plan[p][s] # "edit"
        => arch'[s] = "edit"]_vars

\* A merge with evidence stays merged: only a person, or a later merge that
\* planned over it, changes its target or brings a source back.
MergedOver ==
    \E p \in Calls : <<pc[p], pc'[p]>> \in {<<"locked", "applied">>, <<"archiving", "written">>}
Unmerged(u) == u \in evidence /\ Whole(u) /\ ~Whole(u)' /\ touched' = touched /\ ~MergedOver
CommittedNeverRolledBack == [][\A u \in Units : ~Unmerged(u)]_vars

\* What of it holds: nothing takes apart a merge with evidence whose skills
\* nobody touched by hand, save the rollback of this very unit, when neither
\* evidence nor receipt was there as it read them, before it waited for the lock.
OnlyStaleRollbackUndoes ==
    [][\A u \in Units : Unmerged(u) =>
        \/ Parts(u) \cap touched # {}
        \/ \E p \in Calls : /\ unit[p] = u /\ pc[p] \in {"restore", "sources"}
                            /\ ~seen[p].done]_vars

\* Whatever the outcome of a call, the tree lock does not stay with it: the
\* lock is free again and again, and a call gets it only when it is free.
LockIsFreed == []<>(lock = NoCall)

\* A merge that stopped halfway, with nobody touching its skills, is in the
\* end either recorded as complete or rolled back.
HalfMergeResolves ==
    \A u \in Units :
        journal[u].phase \in HalfDone ~>
            (u \in evidence \/ journal[u].phase \notin HalfDone \/ touched # {})
=============================================================================
