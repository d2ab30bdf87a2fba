# Verification of dsh-evolution

This directory models the parts of dsh-evolution that decide what survives a
crash, a lost race or a failed write: the tree-change unit that every skill
write goes through, the merge of skills and its recovery at mount, the run
registry over the shared run index, the approval window over the pending
table, the curator's lifecycle pass, and the window of background reviews.
The models are TLA+ modules, checked by TLC on small instances; the safety of
all six is also proved with TLAPS, for every value of their constants.

Paths below are relative to `src/packages/`; *core* stands for
`evolution-core/src`, *merge* for `evolution-merge/src`.

## 1. The system

dsh-evolution is a set of plugins that let an agent maintain its own skills
and memory: it writes skill files, merges similar skills, asks a person to
approve risky writes, and records what ran.  All state is files under one
`DSH_HOME`.  There is no server: several processes ("planes": a web host, a
terminal, a second terminal) open the same home, each with its own plugin
instances, in-memory maps and promise chains.  Two mechanisms order them:

* `transact(path, task)` (*core*`/io.ts`), a read-modify-write of one file.
  `io.ts:45-52` documents it as excluding every process; the node backend
  (`io.ts:413-433`) serialises within its own process only;
* lock records in files (`.mutation-lock`, the tree lock, target claims), which
  name a pid and are taken over when that pid is dead.

Hence the shape of the hard behaviours: a chain of awaited file operations,
any of which may throw, interleaved with the chains of other callers, any
process of which may die between two of them.

### Components

| component | state | operations | talks to | what is hard | what makes it correct |
|---|---|---|---|---|---|
| **tree-change units** (*core*`/mutation-unit.ts`, `write-kernel.ts`) | skill files, a snapshot and a journal per unit, the lock record, the root's serial queue | apply, recover, recoverPrepared, undo | skill library above, IO below | a crash or a failing write at any await; decisions taken before the queue; recovery that stops halfway | a unit takes effect as a whole or not at all; recovery never takes back what committed |
| **skill library** (*core*`/skill-store.ts`) | the skill tree, the boot-recovery promise | create, edit, delete, archive, restore, support files | units, usage, history | first write races the boot recovery of another instance | every write is one unit, after recovery |
| **run registry** (*core*`/run-registry.ts`) | `runs.json`; own rows and foreign rows per registry | begin, stage, settle, cancel, load, settleRecovered, supersedeKind | commands, merge | one index, many writers, dead owners | one writer per row; a verdict is final; a dead run converges |
| **approval window** (`evolution-approval`) | claims in flight per service | request, approve, reject, release, TTL sweep | pending table, replay runners | two people decide at once; a crash in the middle of a replay | an effect lands once; a closed write was not executed |
| **pending table** (`evolution-state-json`, `-domain`, `-storage`) | pending records, resolved archive | stage, claim, release, resolve | approval | resolved cap against archive, legacy files, corrupt files | the claim discipline; a record is never in neither file |
| **merge units** (*core*`/unit-transaction.ts`, `unit-journal.ts`, `unit-storage.ts`) | snapshot, journal, receipt, evidence per merge | prepare, commit, finalize, rollForward, rollback, cancel | tree lock, target claims, skill library | seven phases to crash in; steps outside the lock | every crash point is rolled back or forward by the next boot |
| **merge commit and recovery** (*merge*`/commit-execute.ts`, `recovery-coordinator.ts`, `target-claim.ts`) | claims per target, projections | commitStagedRun, recoverCommitUnits, projectRecoveredUnit | merge units, registry, ledgers | recovery beside an active run; projection that fails halfway | recovery touches no active run; ledgers agree with evidence |
| **merge undo** (*core*`/unit-undo.ts`, *merge*`/undo-operation.ts`) | undo receipts, archived sources | plan, undo, reconcile | merge units, history | undo after a later edit | undo restores what the merge archived, once |
| **merge runs and ledgers** (*merge*`/index.ts`, `runtime.ts`, `state.ts`, `supersede.ts`) | pair ledger, staged runs | withMergeRun, stage, supersede, undo | registry | stale view at the undo guard | a superseded run is not undone |
| **merge authoring** (*merge*`/authoring-flow.ts`, ...) | two rounds with a model | author, retry, stage | child sessions | late answers | a stale answer stages nothing |
| **skill history** (*core*`/skill-history.ts`) | versions per skill | record, prune, undo | skill library | prune against undo | the version undo needs is kept |
| **memory store** (*core*`/memory-store.ts`, `tool-memory`) | memory files | batched add/replace/remove under a budget | IO | size check outside the transaction | a batch is all or nothing, inside the budget |
| **curator** (`evolution-curator`) | the usage sidecar, the schedule, a mutex and a run claim per instance | automatic and manual pass, restore, consolidate, pause, dispose | library, tree lock, usage, agents | a pass thinks for minutes over a sidecar it read before any lock; directories and sidecar are written apart | tree and sidecar agree in the end; uses, pauses and restores made meanwhile survive |
| **background review** (`evolution-review`) | counters per session (persisted), outstanding notice, latch (in memory) | count, latch, flush, settle | the agent's inbox and turns, state service | handlers of successive turn ends overlap; inbox events missed; reload | one prompt at a time, its turn not counted, the gate never shut for good |
| **usage and activity** (`skill-usage`, `evolution-activity`) | counters, pending flushes | bump, flush | IO | lost flushes | counts never go backwards |
| **commands** (`evolution-commands`) | a registry | maintain, mount, dispose | registry | the in-flight guard | one scan at a time |
| IO and locks (*core*`/io.ts`, `tree-lock.ts`, `serial.ts`) | lock records, queues | transact, acquire, release | all | takeover by two processes | mutual exclusion |
| the rest | | | | | see `PROJECT.json`: `skill_manage` and gates, discovery and catalog, health/maintenance/replay/feedback/learning graph, policy/threat/params, user interface, bundles, scripts, the vendored merge engine |

The hazards are listed with their lines in `PROJECT.json` ("hazards"); those
without a property are either planned (section 7) or described in section 5.

## 2. Modules

| module | models | role |
|---|---|---|
| `MutationUnit` | mutation-unit.ts, write-kernel.ts, the boot recovery of skill-store.ts | state machine |
| `AtomicTree` | the promise of a unit | abstract specification, refined by `MutationUnit` |
| `MutationUnit_proofs` | | types, exclusion, the order of the two files, whole commits and undos |
| `MutationTree_proofs` | | extends it: what the bytes on disk say of the units |
| `AtomicTree_proofs` | | extends both: the refinement of `AtomicTree` |
| `RunRegistry` | run-registry.ts and its callers' guards | state machine |
| `RunRegistry_proofs` | | theorems and their inductive invariant |
| `Approval` | evolution-approval, the claim transitions of the pending table | state machine |
| `Approval_proofs` | | theorems and their inductive invariant |
| `MergeUnit` | unit-transaction.ts, commitMerge of skill-store.ts, recovery-coordinator.ts | state machine |
| `MergeUnit_proofs` | | theorems and their inductive invariants |
| `Curator` | evolution-curator, foldCuratorFields, the recorded use of skill-usage | state machine |
| `Curator_proofs` | | theorems and their inductive invariants |
| `ReviewWindow` | evolution-review in inject mode, review-notice.ts | state machine |
| `ReviewWindow_proofs` | | theorems and their inductive invariant |
| `MC_*` | | constants of the TLC instances |

An operator whose name has a suffix (`Enter_ownQueue`) is a plausible bug of
the definition that follows it; it is not part of the specification and serves
to show that a property can fail.

### MutationUnit

A *caller* is a `SkillLibrary` instance; several of them share the serial
queue of one root.  A unit is an ordered list of compare-and-swap writes.

| model | code |
|---|---|
| `files` | the skill tree (content per path, `Absent` for a missing file) |
| `snapshot`, `journal` | `units/skill/snapshots`, `units/skill/journals`; the journal of an undone unit reads `rolled-back` (`SetPhase`, `unitJournalPort`) |
| `lock`, `epoch` | the lock record; a record of an earlier epoch is a dead pid's |
| `serial` | whose task the root's queue runs |
| `pc`, `op`, `unit`, `k`, `seen`, `todo` | the locals of each running call |
| `ListPrepared`, `RecoverRead`, `RecoveryFault` | `ensureRecovered`, `recoverPrepared`, the read of `recover` *before* the queue |
| `ApplyStart` .. `JournalCommitted` | `apply`: read, prepare, write each target, commit |
| `ApplyThrows`, `Rollback*`, `JournalFailed` | its `catch` |
| `SkipTarget`, `RevertTarget`, `RecoverRefused`, `MarkUndone`, `JournalUndone` | `recover` inside the lock, from the last target to the first |
| `UndoRead` .. `CompensateEnds` | `undo` and its compensation |
| `Enter`, `Acquire`, `LockFailed`, `Release`, `ReleaseFault` | serial queue and lock, takeover of a dead holder included |
| `UserEdit`, `Crash`, `Fault` | a person's editor, `kill -9`, a throwing IO call |

Each step is one awaited operation, so a crash or another caller may come
between any two.  After a crash every caller is cold and recovers before its
first write.

`AtomicTree` promises that a unit's writes appear together (`Commit`), that a
unit which has not committed may be abandoned without a trace, and that undo
takes the unit back target by target.  The refinement maps a tree with
prepared units to the tree their recovery would leave (`View`).

### RunRegistry

A registry is one mounted row (commands or merge) of one process.

| model | code |
|---|---|
| `index` | `runs.json` |
| `owned`, `foreign` | the two maps of a registry (run-registry.ts:275-279) |
| `loads` | bodies `load()` has read and not yet applied |
| `pending`, `window` | queued transactions, and the one between read and rename |
| `synced` | the maintain command is past its awaited `load()` |
| `told` | `begin()` has answered with the row written |
| `Laid`, `Repaired`, `Judged`, `Capped` | the four stages of `persist` |
| `Adopt`, `Divergent`, `LoadApply` | `load`: rebuild the view, write back what was judged |
| `BeginScan`, `BeginMerge`, `Stage`, `Settle`, `SettleRecovered`, `SupersedeKind` | the operations |
| `Mount`, `Dispose`, `Crash`, `TransactFault` | the life of a plane; an index write that throws |

`CrossProcess` selects the backend: TRUE is the exclusion `io.ts:45-52`
documents, FALSE is the node backend.

### Approval

A claim id is fresh and names its process.  `status` and `claim` are the
pending record; `job[p][op][x]` is where that call of process `p` stands.

| model | code |
|---|---|
| `ClaimPending`, `ResolvePending`, `ReleasePendingClaim` | `claimPending`, `resolvePending`, `releasePendingClaim` of the state providers |
| `Call`, `SweepSkips`, `SweepClaims`, `SweepCloses` | the entry of approve/reject/list and the TTL sweep |
| `ClaimWon`, `ClaimLost`, `AfterClaim` | the claim and its branch on kind and operation |
| `RunnerLands`, `RunnerFails`, `Giveback` | the replay runner; when it throws or refuses, before its write or after it, the claim is given back |
| `Resolve`, `Audit` | the claim-scoped resolve, the audit write after it |
| `RejectLooks`, `RejectForces` | the unscoped reject of an executing record |
| `ReleaseLooks`, `ReleaseJudges`, `ReleaseFrees` | the operator's release: look, judge in-flight work and pid, free |
| `StoreThrows`, `ClaimThrows`, `Crash` | a throwing store operation; a process that dies |

`landed`, `freed`, `denied`, `forced` and `dropped` are history: under which
claims the effect landed, which claims an operator released, which were given
back by a runner that had written, which records were rejected while executing,
which calls ended in a throwing store operation.

### MergeUnit

A *call* is a merge command (`Approves` lists the units it may be told to merge)
or the recovery a process starts when the plugin mounts (`Mounts`).  Nothing
waits for that recovery, so the calls of one process (`Home`) run beside each
other like those of several; they differ only in that a crash ends them
together.  A unit rewrites or creates a target and archives its sources, in
order.

| model | code |
|---|---|
| `live`, `arch` | the skill tree, the newest archived copy of each skill |
| `journal`, `snap`, `receipt`, `evidence` | the four files of a unit |
| `lock` | the tree lock; the record of a dead holder counts as free |
| `seen`, `plan`, `n`, `todo` | what a call has read before the lock, its progress |
| `Assemble`, `Prepare`, `CommitOnce`, `CommitLock` .. `Committed`, `Failed`, `Release` | `commitStagedRun`, `UnitTransactions.prepare`, `commitOnce` |
| `AsPlanned`, `WriteTarget`, `Checkpoint`, `ArchiveSource`, `Undo*` | `SkillLibrary.commitMerge` with its compensations in reverse |
| `Boot`, `Decide`, `Branch`, `Settled`, `HalfDone` | `recoverCommitUnits`: one journal after the other, a branch by phase |
| `ReadForward`, `Ready`, `Complete`, `Finalize`, `FinalizeLog` | `finalize` and `rollForward`: read and check, then write evidence and journal, all without the lock |
| `ReadBack`, `BackLock`, `Drifted`, `Restore*`, `RolledBack` | `rollback`, whose reads precede the lock |
| `ByHand`, `Fault`, `Crash` | a person; a failing call; `kill -9` of a process |

A body is what the skill started with, a hand edit, a unit's merged body, or
`bare`, a created target that has no support files yet.  The claim of a target
is taken with the tree lock, and the fences checked under them hold.

### Curator

A call is a pass or an operator's restore or consolidate; each runs in an
instance (`Home`), and instances share everything but the mutex and the claim.

| model | code |
|---|---|
| `live`, `usage`, `record` | the skill tree, the usage sidecar, the persisted schedule |
| `claim`, `chain`, `lock` | `runClaim`, the mutex chain, the tree lock |
| `call[t].seen`, `start`, `tree`, `cand`, `noms` | the locals of `runCore`: usage map, run-start states, listing, candidates, nominations |
| `PassStart`, `Defer`, `Load`, `Compute`, `Blocked`, `Snapshot` | `runCore` up to the mutex: gates, first sight, seed, judge, nominate |
| `AcquireMutex`, `LockTree`, `LockBusy`, `Unlock` | the mutex and the tree lock around `applyMutations` |
| `FoldMissing`, `ArchiveSkill`, `ArchiveRefused`, `Archived`, `Consolidate`, `Fold` | `applyMutations` |
| `Folded`, `Owned`, `Unmoved` | `foldCuratorFields`: state only, names the pass changed, compare-and-set on the start state |
| `Book`, `SetPaused` | the bookkeeping; pause and resume |
| `Ask`, `MoveSkill`, `MarkSkill` | `restore` and `consolidate`: mutex, directory, sidecar |

A use resets a skill's age; ages stand for the intervals between thresholds.
The `landed` and `moved` fields are history.

### ReviewWindow

| model | code |
|---|---|
| `queue`, `running` | the agent's inbox, the message the running turn took |
| `stored` | the persisted counter (the two counters of the code in one) |
| `mem[m]` | a mount's outstanding notice, cadence latch, completion flag |
| `chain[m]`, `slot` | the state lock; the turn-end handlers and settlements in flight |
| `TurnStart`, `Discard` | `claimed` and `discarded`/`inserted`, heard or missed |
| `TurnEnd`, `ReadState`, `Count`, `Reset`, `StateFails` | `runOnTurnEnd` up to the save, `settleNotice` |
| `Flush`, `Latch`, `Complete`, `Pass` | its decision |
| `Followed`, `QueueLost`, `Delivered`, `Refused` | `noticeIsOutstanding`, `deliverMessage` |
| `Unload`, `Load`, `Restart` | a reload leaves the old mount's handlers running; a restart does not |

`told` and `own` are history: who heard of a claim, whose turn a handler ends.

## 3. What the runs check

| run | instance | shows |
|---|---|---|
| `overlap` | 2 callers, 2 units on 2 files (they share one), 1 edit, 1 fault, 1 crash | `TypeOK`; one unit at a time (`OneUnitAtATime`); no bytes without the snapshot that takes them back (`NoOrphanBytes`); journal never ahead (`JournalBehindSnapshot`); commit and undo are whole |
| `live` | 2 callers, 2 crashes, no fault or edit | the units implement `AtomicTree`; every call returns; a unit left prepared is resolved |
| `raced` | 2 callers, nothing fails | finding: recovery reverts a committed unit |
| `planes` | 2 planes, 2 merge runs, history of 1 row, stages, crashes, recoveries, excluding transact | `TypeOK`; no verdict the living owner did not reach (`NoFabricatedVerdict`); a started run stays in the index (`StartedIsVisible`); a verdict changes only from orphan to recovered (`VerdictIsFinal`) |
| `node` | 2 planes, 1 scan run, 2 loads in flight each, disposes, 1 tree restore, 1 fault, crashes, node transact | `NoFabricatedVerdict`; a verdict that a registry shows is not turned back into a running row, and only a load of a body that has lost the row drops it (`VerdictIsNotReopened`); the runs of the dead converge (`OrphansConverge`) |
| `approval` | 2 processes, 1 record of any kind, 4 calls, 1 fault, crashes | `RunnerHoldsClaim`, `LandsOnce`, `ClosedWithoutExecuting`, `ApprovedHasLanded`, `DecisionIsFinal`, `ClaimsEnd` |
| `merge` | 1 process: its recovery beside merge calls; 2 merges into one target (the first creates it, with support files), told twice; two of 1 change of the target by hand, 1 fault, 1 crash | `TypeOK`; evidence is true of the tree it was written or checked on (`EvidenceIsHonest`); no hand edit lost (`MergeKeepsEdits`); only the stale rollback of a unit undoes a merge with evidence (`OnlyStaleRollbackUndoes`); the lock comes back (`LockIsFreed`) |
| `merge_stale` | the same process, 1 unit, nothing fails | finding: the recovery undoes a committed merge (`CommittedNeverRolledBack`) |
| `merge_halfway` | 1 process, 1 merge, 1 crash | finding: a half-done merge is never resolved (`HalfMergeResolves`) |
| `curator` | passes and 1 operator's action in one process, 2 skills, 1 fault or crash, 2 uses or days | `ApplyExcludes`; sidecar true to the tree (`FoldIsTrue`, `LandedIsRecorded`); clocks and pauses kept (`ClockIsTheUsers`, `PauseSurvives`); what went astray heals (`AstrayHeals`) |
| `review` | 1 session, 2 handlers in flight, interval 2, 1 user message queued at a time, 1 missed event, failure, reload or restart | one prompt waits at most (`NoPileUp`); the review's turn is not counted (`ReviewTurnNotCounted`); no stale save (`SavesAreCurrent`); the gate reopens (`ReviewsKeepComing`) |
| `review_chain` | the same, 2 user messages, nothing fails | finding: the turn of a review triggers the next (`NoSelfChain`) |

### Why the bounds are enough

* *MutationUnit.*  The unit `u1` rewrites one file and creates another, `u2`
  builds on whatever the shared file holds: a rewrite, a creation, an absent
  baseline, an overlap and an unconditional write all occur.  Two targets give
  a first and a last write with a gap between; two callers give the queue and
  the stale read; one crash reaches every gap, and the second crash of `live`
  reaches the recovery of a recovery.  Contents are distinct per unit, except
  where a person writes.
* *RunRegistry.*  Two writers are the fewest that can overwrite each other, two
  loads the fewest that can be applied out of order.  Rows
  interact only through the history cap and the scan's in-flight guard; two merge
  runs and a history of one row reach the cap (`planes`), elsewhere one run
  suffices.  Faults and restores are in `node` only: `planes` would not finish
  with them.
  `Calls` switches the rarer operations on per run, so that each question is
  asked of an instance that finishes.
* *Approval.*  Records do not interact except through their process, so one
  record of a nondeterministic kind stands for all.  Four calls are enough for
  approve, crash, release and a second approve; a second process gives the
  race, one fault every `catch`.
* *MergeUnit.*  Two units on one target give a creation with support files and
  a rewrite over the result of the first; the second has two sources, so there
  is a first and a last archive with a checkpoint between.  A recovery and a
  merge call are the fewest that overlap: the recovery reads a unit at any phase
  of its commit and acts on it at any later one.  Two merges are told
  (`MaxMerges`), so a unit may be merged, rolled back and merged again, or the
  second be written over the first.  A crash at any of some twenty steps and a
  fault reach every phase and every compensation; two troubles in all
  (`MaxTroubles`) give the recovery of a crash its fault or its edit.  The change
  by hand edits, archives or restores the target; changes of sources, and calls
  of several processes, are covered by the theorems, which bound nothing.
* *Curator.*  Two skills are the fewest that can be consolidated, and give a
  pass an archive that fails beside one that lands.  Two units of time take a
  skill from fresh to expired.  Failures and crashes share a bound, as do the
  operator's calls, pauses, disposals and manual passes.
* *ReviewWindow.*  Two handlers are the fewest that overlap.  Four notice
  identities are as many as can be in sight at once.  Missed events, failures,
  reloads and restarts share the bound of one.

All bounds are constants named `Max...`, guarded in the action they limit.  The
passing runs explore between some 80,000 and about a million distinct states,
each in a few minutes with two workers.  `CHECK_DEADLOCK FALSE`
is set except for MutationUnit: all runs begun, all calls made, all merges done
and an idle agent are legitimate ends.

### Fairness

* `MutationUnit!FairSpec`: weak fairness of the next awaited step of each call,
  strong fairness of `Enter`.  A pending promise is settled by the runtime, and
  the root's queue is a promise chain, so it is first-in first-out; strong
  fairness is the weaker assumption that replaces that order.  No fairness for
  edits, faults or crashes.
* `RunRegistry!Fairness`: commands keep arriving and each loads the index
  (weak fairness of `LoadRead`, `LoadApply`), a queued transaction gets its turn
  (strong, the process's queue is a promise chain), an open transaction ends,
  successfully or not.
* `Approval!Fairness`: weak fairness of the next step of each call, a throwing
  one included: a store operation answers or throws, a runner returns.  Nobody
  is assumed to call release.
* `MergeUnit!FairSpec`: weak fairness of the next step of each call: an awaited
  operation settles.  Nobody is assumed to tell a call to merge, and nothing is
  assumed of a person, a fault or a crash.
* `Curator!Fairness`: a call's awaits settle, the hourly tick starts an
  automatic pass whenever its gates stay open, the interval elapses, and an
  unloaded plugin is mounted again.  `AstrayHeals` assumes in its statement that
  in the end no session is active for good, the curator is not paused and the
  merge row leaves the tree lock alone: the code promises nothing otherwise.
* `ReviewWindow!FairSpec`: a handler's awaits settle, turns end and the agent
  takes what is in its inbox.  The user is not assumed to write anything.

## 4. What is proved

Every invariant and action property of a passing run, and the refinement, is a
theorem; liveness is not.  A theorem holds for every value of the constants
that satisfies the named assumptions of its module.  Where the code keeps a
property under a condition only, the theorem states the condition as a
hypothesis, in its statement.  The passing run that checks the property satisfies
it; `RecoveryKeepsCommitted` is checked by the run `raced` alone, which refutes
it for two libraries.

### Tree-change units

`MutationUnit_proofs` proves, for any paths, contents, units, operations,
callers and bounds that satisfy `PlanAssumption`, `NamesAssumption` and
`BoundsAssumption`:

| theorem | states |
|---|---|
| `TypeCorrect` | `Spec => []TypeOK` |
| `Exclusion` | `Spec => []OneUnitAtATime` |
| `JournalNeverAhead` | `Spec => []JournalBehindSnapshot` |
| `CommittedOnlyWhole` | `Spec => CommitIsWhole` |
| `UndoneOnlyWhole` | `Spec => UndoneIsWhole` |

The argument:

1. `TypeInv` strengthens `TypeOK` by the shape of each call's locals: at every
   label, how far `k` has come, how many baselines `seen` holds, and that a
   snapshot which exists has one baseline per operation.  Without it `before[i]`
   has no type.  `LocalStep` reduces an action of caller `c` to `c`'s locals.
2. `SerialHeld` says who holds the queue and the lock.  It is inductive given
   `TypeInv` and yields `Exclusion`: the queue excludes the callers of the
   running process, the epoch those of dead ones.
3. `Bases` relates locals to disk: the unit in progress is the caller's own,
   its snapshot holds the baselines the caller has read, no two callers apply
   the same unit.
4. `Written` says which targets already hold the unit's bytes at each label: up
   to `k` while writing, all at commit, from `k` on back to the baseline while
   reverting, or a person's edit in either case.  `CommitIsWhole` alone is not
   inductive: it speaks of the moment of the commit, and only `Written` says
   what each earlier write left behind.  That no other caller disturbs it is
   `SerialHeld`, hence the order of the lemmas.
5. `StateChanges` lists the only steps that change the state of a snapshot; at
   each, `Written` gives the two action properties.

`MutationTree_proofs` follows the bytes:

| theorem | hypotheses | states |
|---|---|---|
| `NothingOrphaned` | `TagsDiffer` | `Spec => []NoOrphanBytes` |
| `RecoveryTakesNothing` | `TagsDiffer`, `OneLibrary` | `Spec => RecoveryKeepsCommitted` |

`TagsDiffer`: no two units write the same bytes to one path, and neither a
person nor the first tree has them there.  Both properties ask who wrote the
bytes on disk, which the code cannot tell either; what happens to a retry with
the same bytes is in section 5.  Faults, edits, crashes and any number of
callers are allowed (`RecoveryTakesNothing`: one).

1. `NoOrphanBytes` is not inductive: reverting a unit puts back what it had
   found, and that may be the bytes of another unit which is gone by then.
   `Traced` follows them: a set `R` holds the writes whose bytes are on disk or
   would return if a write in `R` were taken back, and all of `R` belongs to
   units with a usable snapshot.  When a unit is undone, its writes leave `R`.
2. That they may leave needs an order: `O` says which unit found which one's
   bytes.  It is acyclic, so a unit does not bring its own bytes back.
3. The baselines in an apply's memory are traced as well (`Carried`), for they
   become a snapshot later.
4. `RecoveryTakesNothing` adds `StillPrepared`: with one library nobody changes
   a snapshot between its read and the lock.  With two the run `raced` refutes
   the property, so the hypothesis is needed.

`AtomicTree_proofs` proves the refinement:

| theorem | hypotheses | states |
|---|---|---|
| `UnitsAreAtomic` | `Undisturbed`, `TagsDiffer` | `Spec => ImplementsAtomicTree` |

`Undisturbed` is no failing IO call and no hand edit, as in the run `live`;
crashes, overlapping units, undo and any number of callers remain.  The code
does not refine `AtomicTree` without it: a failing journal write after the
committed snapshot rolls a committed unit back, and a recovery refused over an
edit leaves lower targets written while a later unit builds on them.

1. `View` is the tree a recovery would leave, so it depends on the prepared
   units.  `Steady` says that at most one is prepared (`Single`), and that it is
   being applied or every caller will recover it before it does anything else
   (`Attended`, `Lists`): otherwise a second unit could build on its bytes.
2. `Calm`, `Leased`, `Place` and `Either` say that no call is on a failure path,
   that a lock record of the running process has a holder, what the targets
   hold at each place of a call, and that a target of the prepared unit holds
   the baseline or the unit's bytes.  (Checked as an invariant of the instance
   of `live`, `Steady` has no counterexample.)
3. `ViewPrepared` computes the view with one prepared unit from `Either`.
   Writes and reverts of that unit leave it alone (`PreparedMoves`).
4. The committed snapshot is `Commit` (`CommitRefines`); an undo's write, or a
   recovery's revert of a unit another library has committed, is `UndoTarget`;
   the snapshot's end is `Abandon`, `Undone` or nothing (`UndoneRefines`); every
   other step is a stutter.  That a unit already undone is not reverted again
   takes `NoOrphanBytes`.

### Run registry

`RunRegistry_proofs` proves, for any processes, registries, runs and limits
that satisfy `PlanesAssumption`, `NoneAssumption` and `LimitsAssumption`, and
for a backend whose transactions exclude every process as well as for one whose
transactions exclude one process only:

| theorem | states |
|---|---|
| `TypeCorrect` | `Spec => []TypeOK` |
| `NobodyFabricates` | `Spec => []NoFabricatedVerdict` |
| `VerdictStaysShut` | `Spec => VerdictIsNotReopened` |
| `StartedStays` | `OneAtATime => (Spec => []StartedIsVisible)` |
| `VerdictStands` | `OneAtATime => (Spec => VerdictIsFinal)` |

`OneAtATime`: the backend excludes every process, as `io.ts:45-52` documents, or
there is one process.  Two processes on the node backend lose rows (section 5),
and the last two properties with them.

`NoFabricatedVerdict` speaks of the views the registries show; the invariant
must speak of every body of the index that is about, because any of them may become a view
or the file later.

1. `Honest` says of one body: a run that has not begun is absent, and of a run
   that some registry owns it tells nothing but that it runs, or the end its
   owner gave it.  `AllHonest` says it of the file, of the bodies loads have
   read and not applied, of the registries' views and of the writes under way.
2. An owner's rows move one way (`Moved`): they begin, end once, or disappear
   with their process.  A body that was honest stays so under such a move,
   however stale it is (`HonestKept`, `AllKept`).  This is why no exclusion
   between processes is needed.
3. The bodies the code computes are honest: capped, laid and judged by a
   persist, superseded, recovered, adopted (`CappedHonest`, `PersistHonest`,
   `SupersedeHonest`, `RecoverHonest`, `AdoptHonest`).  A body takes an owned
   run from its owner, and judges as an orphan a row whose process is dead;
   `Owners` and `Alive` give that the owner of a row lives, so no row of an
   owned run is judged.
4. `Tasks` says that a waiting begin names a begun run and a waiting recovery a
   run, so that what the next transaction computes is about known rows.
5. `VerdictStaysShut` needs no exclusion: a verdict that a mounted registry
   shows is its own row, which only it changes, or a foreign one that `Adopt`
   keeps over what it loads.  It is about each step; what may be shown after the
   row has been dropped is in section 5.
6. `Serial` adds what exclusion gives: at most one transaction is open, in its
   registry's process (`Turns`), and the body it will write keeps the rows of
   the file it was computed from (`Kept`).  So no row of a run that was answered
   as started is lost, and no verdict of the file is replaced, by a write.

### Approval window

`Approval_proofs` proves, for any processes, records and bounds that satisfy
`ApprovalAssumption`:

| theorem | states |
|---|---|
| `TypeCorrect` | `Spec => []TypeOK` |
| `RunsAlone` | `Spec => []RunnerHoldsClaim` |
| `ReplayedOnce` | `Spec => []LandsOnce` |
| `ClosedUnexecuted` | `Spec => []ClosedWithoutExecuting` |
| `ApprovedExecuted` | `Spec => []ApprovedHasLanded` |
| `DecidedForGood` | `Spec => DecisionIsFinal` |

1. The invariant is local to a record.  `StepFootprint` says that an action on
   one record changes that record's job, status, claim and effects alone, and
   otherwise only mints claims, releases them or ends calls;
   `FootprintElsewhere` and `ClaimantsKept` carry the other records across.
2. `Claimants`: a claim is minted once and held by one call (`Owned`,
   `Distinct`), at most one call answers a record between its claim and its end
   (`Single`), and a release past its checks holds a claim nobody answers under
   (`Abandoned`).  `Distinct` alone would not do: a release may free the record
   for a second approver while the first call is still in memory.
3. `Tabled` ties the table to the calls: a record under way is executing under
   that call's claim, unless an unscoped reject closed it.  `RunsAlone` follows.
4. `Effects` orders what has landed: every effect but the one of the record's
   present claim belongs to a claim an operator released, or to one given back
   by a runner that failed after its write (`Excused`).  `ReplayedOnce`,
   `ClosedUnexecuted` and `ApprovedExecuted` are its consequences.
5. `DecidedForGood` is about every step.  The audit write saves a whole record
   without condition; by `Tabled` the record still bears the verdict of the call
   that writes it, so the write repeats the decision.

### Merge units

`MergeUnit_proofs` proves, for any calls, processes, units, skills and bounds
that satisfy the module's assumptions, recoveries beside merges included:

| theorem | hypotheses | states |
|---|---|---|
| `TypeCorrect` | | `Spec => []TypeOK` |
| `EditsAreKept` | | `Spec => MergeKeepsEdits` |
| `TreeKeepsPace` | | `Spec => []Progress` |
| `EvidenceTold` | | `Spec => EvidenceIsHonest` |
| `OnlyItsRollback` | `Apart` | `Spec => OnlyStaleRollbackUndoes` |

1. The type invariant holds the tree lock together with the places of the
   calls: a call has the lock exactly between taking and releasing it.  This
   alone gives `EditsAreKept`: the compare-and-set is on what the call planned.
2. `Progress` says of every call what the tree shows.  Going forward, the target
   is written, the first `n` sources are out and the others still live
   (`Forward`); being given up, the merge is not whole; in a rollback, what is
   yet to be restored is as the drift check found it, and what was read showed
   no commit (`Backward`); before a recovery writes evidence, the tree it read
   was merged (`Checked`).  Each clause exempts what a person touched.
3. A step of another call keeps these claims (`OthersKept`): the clauses that
   speak of the tree belong to places under the lock, and every step that
   writes the tree is under it (`WritersInside`).  So no hypothesis on who runs
   beside whom is needed.
4. `EvidenceIsHonest` and `OnlyStaleRollbackUndoes` speak of one step, and do not
   follow from that step's guards: what they go by (receipt, checkpoints, drift
   check) was written or read by earlier steps.  `CommittedNeverRolledBack`,
   without the exception for a stale rollback, is false (`merge_stale`).
5. `Apart`, no skill is a source of two merges, keeps a rollback that comes too
   late from restoring a source a later merge archived (section 5).

### Curator

`Curator_proofs` proves, for any instances, processes, calls, skills and bounds
that satisfy the module's assumptions:

| theorem | hypotheses | states |
|---|---|---|
| `TypeCorrect` | | `Spec => []TypeOK` |
| `PassAppliesAlone` | | `Spec => []ApplyExcludes` |
| `UsesAreKept` | | `Spec => ClockIsTheUsers` |
| `PauseIsTheUsers` | | `Spec => PauseSurvives` |
| `FoldTellsTheTruth` | | `Spec => FoldIsTrue` |
| `LandedAreRecorded` | `OneProcess` | `Spec => LandedIsRecorded` |

1. `Ordered`: the mutex chain of an instance holds each of its calls once and
   only its head is past asking (`Mutexed`); who holds the tree lock applies, a
   pass runs under its instance's claim (`Roles`).  `PassAppliesAlone` follows.
2. `Informed` adds what a pass knows (`Facts`): a live skill is in its listing
   or was moved since; what its map newly calls archived is still a candidate,
   or out of the tree, or moved by another; what landed is marked in the map.
   The fold writes from the map, so `FoldTellsTheTruth` needs all three.
3. `Recorded` says that the states a pass started with are those on disk, moved
   skills apart, so that the compare-and-set of the fold succeeds for what has
   landed.  Passes of another process write states nobody tells this one
   (`OneProcess`).

### Background review

`ReviewWindow_proofs` proves, for any bounds, handlers and identities that
satisfy the module's assumptions, reloads and restarts included:

| theorem | states |
|---|---|
| `TypeCorrect` | `Spec => []TypeOK` |
| `PromptsDoNotPileUp` | `Spec => []NoPileUp` |
| `ReviewTurnsAreFree` | `Spec => []ReviewTurnNotCounted` |
| `NoSaveIsStale` | `Spec => SavesAreCurrent` |

1. `Inbox`: a message added or dropped keeps the rest distinct, and a notice is
   added only to an inbox that has none.
2. `Chained`: the chain of the state lock holds the mount's tasks that have not
   left it, each once, and only its head has read the counters; so what a
   handler read is what is stored when it saves (`Current`).
3. `Claimed`: while the turn of a notice that was heard runs, the mount's record
   says so.  `Current` and `Claimed` hold until the first reload or restart,
   which is as far as the two properties promise.

### Only model-checked

Liveness under fairness (`CallsReturn`, `PreparedResolves`, `OrphansConverge`,
`ClaimsEnd`, `LockIsFreed`, `AstrayHeals`, `ReviewsKeepComing`) is out of the
prover's reach and stays with TLC.  The four findings are behaviours, which TLC
exhibits.  No module computes by recursion, so no induction over data is left
out.

## 5. Findings

Four disagreements between what the code says of itself and what it does each
have a run that exhibits them.

1. `recover()` decides on a snapshot it read before it waits for the queue and
   the lock (mutation-unit.ts:394).  A second library whose first write runs
   the boot recovery while another library's apply is under way reverts a unit
   that has committed meanwhile (`raced`).
2. The rollback of a merge reads evidence, receipt, snapshot and journal before
   it waits up to five seconds for the tree lock (unit-transaction.ts:529-536).
   Nothing waits for the recovery of a mount (evolution-merge/src/index.ts:234-240)
   and merge commands run beside it: it undoes the merge that commits during
   its wait, in its own process or another (`merge_stale`).
3. A merge whose process died between the target write and the last archive is
   sent to a roll-forward that archives nothing and refuses it, at every boot
   (unit-transaction.ts:478, recovery-coordinator.ts:24-30, `merge_halfway`).
4. A review refused while a notice is outstanding stays latched, and the turn
   that ran the notice settles it and then flushes the latch: it does trigger
   the next delivery (evolution-review/src/index.ts:758, `review_chain`).  A
   user's turn queued ahead of the notice is enough.

Further behaviours met while modelling, listed as hazards without a property
because the code does not keep one:

* a failing write of the journal's committed phase rolls the files back after
  the committed snapshot has landed (mutation-unit.ts:338 and 349); the
  snapshot still says committed;
* the mark a tree restore leaves on a run is erased by the owner's next persist
  (run-registry.ts:349), and merge undo asks a view that is loaded only at
  mount (runtime.ts:389);
* `finalize` and `rollForward` take no tree lock: a merge or a rollback, of the
  same process too, may change the tree between their checks and the evidence
  they write, which then speaks of a tree that is no longer whole;
* a runner of an approved write may throw or refuse after the write has landed
  (`tool-skill-manage/src/index.ts:991` awaits a read after it): the claim is
  given back (evolution-approval/src/index.ts:739-742), so that the next approve
  lands it again, or a reject closes as not executed what was executed;
  `LandsOnce` and `ClosedWithoutExecuting` except exactly these claims;
* a retry of a merge that threw after its target write overwrites the snapshot
  that held the original body;
* the curator's fold compares states and not versions: a skill archived by the
  pass and restored by another process before the fold is marked archived while
  it lives (usage.ts:333); a later pass heals it;
* `pruneBuiltins` has no effect: the built-ins it names are protected names of
  the same pass (curator.ts:347), although PARAMETERS.md:35 documents it;
* the result of a branch review is announced with a summary that
  `isReviewNotice` takes for a prompt (evolution-review/src/index.ts:1060);
* the review channel is marked at delivery, also while a human turn runs
  (evolution-review/src/index.ts:922);
* two planes may take the target guard, or the tree lock, of a dead holder at
  once: read, judgement and unlink are three steps (target-claim.ts:37,
  tree-lock.ts:80);
* a retry with the same bytes, after a failed unit whose snapshot stayed
  prepared, can be taken for the failed unit by the next boot and reverted;
* a recovery refused because of a drift on an earlier target has already
  reverted the later ones, although the comment at mutation-unit.ts:388 says
  the whole recovery is refused (what holds, and is checked, is that no bytes
  are orphaned by it);
* the compensation of an undo overwrites an edit made since;
* two planes may both start a scan: each loads before either begins, although
  `evolution-commands/src/index.ts:942-944` means to refuse the second;
* with the node backend, one plane's stale body can drop the row another has
  just begun, or turn a settled row back into a running one; readers that saw
  the verdict keep it and re-assert it (`VerdictIsNotReopened`), unless they load
  a body that has lost the row: the view drops it (run-registry.ts:419-421), and
  an older body still being loaded may then show the run as running, which the
  comment of `adopt` (308-316) excludes;
* after a plugin reload in a living process, release takes the old service's
  running approve for a leftover: same pid, empty in-flight map;
* a merge that was prepared and abandoned, or rolled back, has a journal the
  coordinator takes for a merge to be rolled back at every boot
  (recovery-coordinator.ts:29); if a later merge shares one of its sources, the
  drift check accepts the missing source (unit-transaction.ts:529-585) and the
  rollback restores what the later merge archived;
* approve sweeps before it claims, so a record that another approve holds
  during the sweep and gives back before the claim is executed past its TTL.

## 6. What the models leave out

* *MutationUnit*: hooks, pruning of old units, cleanup sidecars, the content
  checks of `validate` (a refusal is possible at that point, for no stated
  reason), the layout of snapshot files.  The serial queue has no order.
* *RunRegistry*: `supersede(ids)` (no caller reaches it), the parsing of the
  index and a corrupt one, timestamps (the cap keeps any of the terminal rows,
  a superset of the newest), the text of failures (`settleOrphan` is a
  `Settle`), the order of one process's queued transactions, pid reuse.
* *Approval*: the policy that lets a write pass unstaged, previews, two
  services in one process, the resolved cap and its archive.  Store operations are atomic across
  processes, which is what `io.ts:45-52` documents, not what the node backend
  gives.  The sweep visits one record.
* *MergeUnit*: `cancel`, pruning of unit files, staging and projection, the
  race of two takers of a dead holder's lock, fences (always true), the
  five-second limit of the wait for the lock (a busy lock may refuse at any
  time).  The target claim is part of the lock, and the guard that keeps a
  process from a second merge of a busy target (runtime.ts) is not there: a call
  merges whatever it is told.  The reads of one decision, of one rollback and of
  one roll-forward are one step each.  `prepare` always takes a snapshot; the map
  of prepared units that answers a repeated call (unit-transaction.ts:199-203)
  belongs to an instance, and every command has its own (runtime.ts:119-124).
  Restoring a target restores no support files (560-564), of which the model
  keeps only whether a created target has them.  A compensation that fails for
  an IO error, and a plugin remounted in a living process, are left out.
* *Curator*: whole-tree snapshots and their restore, undo, dry runs, reports,
  suppression, built-ins and pins (all skills are managed), quality scores, the
  content of a consolidation, a missing state service.  `Remount` waits for the
  calls of the disposed instance, where the code gives the claim back at the
  dispose (evolution-curator/src/index.ts:463-466), so that a new instance may
  run beside an old pass.
* *ReviewWindow*: branch mode, the channel mark, settings, the sweep of dead
  sessions, hosts without an inbox, which of memory and skill is due.  The lock
  of an unloaded mount still serializes its last tasks, where the code clears
  the map of chains.
* Skill names, bodies and validation messages, prompts, rendering and HTTP
  routes are data no property here distinguishes.

`PROJECT.json` lists the components that are not modelled, with the reasons.

## 7. Plan

Done: 1. `MutationUnit` with `AtomicTree` and its proofs; 2. `RunRegistry`;
3. `Approval`; 4. `MergeUnit`; 5. `Curator`; 6. `ReviewWindow`.

Next, in this order:

7. `StatePending`: the pending table with resolved cap, archive and legacy
   merge; `Approval` is then shown to use an implementation of its table.
8. `MergeLedger`: pair ledger, staging, projection, undo receipts, reconcile.
9. Branch mode in `ReviewWindow`; snapshot restore and undo in `Curator`.
10. `SkillHistory`, `MemoryStore`: smaller modules, one or two properties each.

The number of runs stays small: a new question about a module joins the
instance that already reaches its states.

Theorems to add: the safety of each new module as it is written, and for the
present ones weaker hypotheses: the refinement of `AtomicTree` under hand edits
of paths no unit writes, `RecoveryKeepsCommitted` for several libraries as long
as no boot recovery overlaps an apply.  All modules are written without
recursion, with their parameters as constants under named assumptions.

## 8. Running

    tlc -workers 2 -config MC_MutationUnit_overlap.cfg MC_MutationUnit
    tlapm MutationUnit_proofs.tla
    tlapm MutationTree_proofs.tla
    tlapm AtomicTree_proofs.tla
    tlapm RunRegistry_proofs.tla
    tlapm Approval_proofs.tla
    tlapm MergeUnit_proofs.tla
    tlapm Curator_proofs.tla        # the longest, some five minutes
    tlapm ReviewWindow_proofs.tla

`PROJECT.json` maps every definition to the lines it models and every property
to a variant of the code that breaks it.
