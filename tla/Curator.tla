------------------------------ MODULE Curator ------------------------------
(***************************************************************************)
(* The curator's lifecycle pass (evolution-curator/src/index.ts) over the  *)
(* skill tree and the usage sidecar, beside the operator's restore and     *)
(* consolidate, the telemetry that records uses, and the persisted         *)
(* schedule.  A pass reads the sidecar and lists the tree without a lock,  *)
(* may think for minutes, and only then takes its instance's mutex and the *)
(* tree lock; directories move first, the sidecar is folded last.          *)
(***************************************************************************)
EXTENDS Integers, Sequences, FiniteSets

CONSTANTS
    Calls,         \* concurrent calls; each is a pass or an operator's call
    Instances,     \* curator instances, one per process
    Home,          \* Home[t]: the instance a call runs in
    Passes,        \* calls that run passes; the others restore, consolidate
    Skills,        \* managed skills without a protection marker
    NoCall,
    Merge,         \* the other user of the tree lock
    \* bounds: failures and crashes, the operator's calls, uses and days that pass
    MaxFaults, MaxManual, MaxDays

ASSUME CallsAssumption ==
    /\ {NoCall, Merge} \cap Calls = {} /\ NoCall # Merge
    /\ Home \in [Calls -> Instances] /\ Passes \subseteq Calls
    /\ MaxFaults \in Nat /\ MaxManual \in Nat /\ MaxDays \in Nat

\* How long a skill has not been used: less than the stale threshold (a warned
\* skill has a shorter one), between the two thresholds, or past the second.
Ages   == {"fresh", "idle", "old"}
States == {"none", "active", "stale", "archived"}
NoUse  == [state |-> "none", age |-> "fresh"]
Known(r) == r.state # "none"

VARIABLES
    live,      \* skills in the tree; the others are in the archive
    usage,     \* the usage sidecar
    record,    \* the persisted schedule: seeded, paused, due
    busy,      \* a session was active within minIdleHours
    gone,      \* instances that are disposed
    claim,     \* per instance: the pass that holds runClaim
    chain,     \* per instance: the mutex, its holder first
    lock,      \* the tree lock
    call,      \* the locals of each call
    faults, manual, days

locks  == <<claim, chain, lock>>
bound  == <<faults, manual, days>>
vars   == <<live, usage, record, busy, gone, locks, call, bound>>

\* seen: the pass's usage map; start: its states as loaded; tree: the listing;
\* cand, noms: what is left to archive, to merge; landed and moved are history:
\* skills this pass archived, skills others moved since it began.
NoWork == [pc |-> "idle", auto |-> FALSE, aborted |-> FALSE, arg |-> <<>>,
           seen |-> [s \in Skills |-> NoUse], start |-> [s \in Skills |-> NoUse],
           tree |-> {}, cand |-> {}, noms |-> {}, landed |-> {}, moved |-> {}]

Init ==
    /\ live = Skills /\ usage = [s \in Skills |-> NoUse]
    /\ record = [seeded |-> FALSE, paused |-> FALSE, due |-> FALSE]
    /\ busy = FALSE /\ gone = {}
    /\ claim = [i \in Instances |-> NoCall] /\ chain = [i \in Instances |-> <<>>]
    /\ lock = NoCall
    /\ call = [t \in Calls |-> NoWork]
    /\ faults = 0 /\ manual = 0 /\ days = 0

At(t, l)    == call[t].pc = l
Goto(t, l)  == call' = [call EXCEPT ![t].pc = l]
Ended(t)    == [call EXCEPT ![t] = NoWork]
Disposed(t) == Home[t] \in gone
\* Mutant: who has asked for the mutex does not wait for it.
Holds_asked(t) == \E k \in DOMAIN chain[Home[t]] : chain[Home[t]][k] = t
Holds(t)    == chain[Home[t]] # <<>> /\ Head(chain[Home[t]]) = t
Left(t)     == [chain EXCEPT ![Home[t]] = Tail(@)]
\* The end of run(): the claim is given back.
EndPass(t)  == call' = Ended(t) /\ claim' = [claim EXCEPT ![Home[t]] = NoCall]

------------------------------------------------------------------------------
(* The pass, without a lock.                                               *)

\* autoCheck and run(): a pass of this instance in flight, or a queued
\* operator's call, skips it; a manual run ignores the gates.
PassStart(t, auto) ==
    /\ t \in Passes /\ At(t, "idle") /\ ~Disposed(t)
    /\ claim[Home[t]] = NoCall /\ chain[Home[t]] = <<>>
    /\ auto => record.due /\ ~record.paused /\ ~busy
    /\ ~auto => manual < MaxManual
    /\ manual' = IF auto THEN manual ELSE manual + 1
    /\ claim' = [claim EXCEPT ![Home[t]] = t]
    /\ call' = [call EXCEPT ![t] = [NoWork EXCEPT !.auto = auto,
                    !.pc = IF auto /\ ~record.seeded THEN "defer" ELSE "load"]]
    /\ UNCHANGED <<live, usage, record, busy, gone, chain, lock, faults, days>>

\* Mutant: the whole record is saved, as if it were still absent.
Defer_saves(t) ==
    /\ At(t, "defer")
    /\ record' = [seeded |-> TRUE, paused |-> FALSE, due |-> FALSE]
    /\ EndPass(t)
    /\ UNCHANGED <<live, usage, busy, gone, chain, lock, bound>>
\* First sight: the clock is seeded, unless a record has come meanwhile.
Defer(t) ==
    /\ At(t, "defer")
    /\ record' = IF record.seeded THEN record
                 ELSE [seeded |-> TRUE, paused |-> FALSE, due |-> FALSE]
    /\ EndPass(t)
    /\ UNCHANGED <<live, usage, busy, gone, chain, lock, bound>>

Load(t) ==
    /\ At(t, "load")
    /\ IF Disposed(t) THEN EndPass(t)
       ELSE /\ call' = [call EXCEPT ![t].pc = "list", ![t].seen = usage, ![t].start = usage]
            /\ UNCHANGED claim
    /\ UNCHANGED <<live, usage, record, busy, gone, chain, lock, bound>>

\* Mutant: the record of a listed skill is left as it is.
Seeded_kept(u) == [s \in Skills |->
    IF s \in live /\ u[s].state = "none" THEN [state |-> "active", age |-> "fresh"] ELSE u[s]]
\* seedBaseline: a listed skill has a record, and not an archived one.
Seeded(u) == [s \in Skills |->
    IF s \notin live THEN u[s]
    ELSE IF u[s].state = "none" THEN [state |-> "active", age |-> "fresh"]
    ELSE IF u[s].state = "archived" THEN [u[s] EXCEPT !.state = "active"] ELSE u[s]]

\* lifecycleCandidate, for a managed skill without a protection marker.
Candidate(r) == r.state \in {"active", "stale"}
\* computeLifecycleTransitions, one record.
Judged(r) ==
    CASE r.age = "old" -> "archived"
      [] r.age = "idle" /\ r.state = "active" -> "stale"
      [] r.age = "fresh" /\ r.state = "stale" -> "active"
      [] OTHER -> r.state
Transited(u) ==
    [s \in Skills |-> IF Candidate(u[s]) THEN [u[s] EXCEPT !.state = Judged(u[s])] ELSE u[s]]

\* List the tree, seed, judge, and let the model nominate: prunings among the
\* newly stale, and a pair to consolidate (near duplicates join the pool).
Compute(t) ==
    LET base == Seeded(call[t].seen)
        next == Transited(base)
        stale == {s \in Skills : next[s].state = "stale" /\ base[s].state = "active"}
        expired == {s \in Skills : next[s].state = "archived" /\ base[s].state # "archived"}
        pairs == {q \in live \X live : q[1] # q[2]}
    IN  /\ At(t, "list")
        /\ \E prune \in SUBSET stale, merge \in {{}} \cup {{q} : q \in pairs} :
             call' = [call EXCEPT ![t].pc = "check", ![t].tree = live, ![t].seen = next,
                                  ![t].cand = expired \cup prune, ![t].noms = merge]
        /\ UNCHANGED <<live, usage, record, busy, gone, locks, bound>>

\* The min-idle gate again, before and after the snapshot.  A blocked pass
\* leaves the records it seeded, and nothing else.
Blocked(t) ==
    /\ call[t].pc \in {"check", "snapped"} /\ call[t].auto /\ busy
    /\ usage' = [s \in Skills |-> IF Known(usage[s]) THEN usage[s] ELSE call[t].seen[s]]
    /\ EndPass(t)
    /\ UNCHANGED <<live, record, busy, gone, chain, lock, bound>>
Snapshot(t) ==
    /\ At(t, "check") /\ ~(call[t].auto /\ busy)
    /\ Goto(t, "snapped")
    /\ UNCHANGED <<live, usage, record, busy, gone, locks, bound>>

------------------------------------------------------------------------------
(* applyMutations, under the mutex and the tree lock.                      *)

AcquireMutex(t) ==
    /\ At(t, "snapped") /\ ~(call[t].auto /\ busy)
    /\ chain' = [chain EXCEPT ![Home[t]] = Append(@, t)]
    /\ Goto(t, "queued")
    /\ UNCHANGED <<live, usage, record, busy, gone, claim, lock, bound>>
\* A disposed instance applies nothing.
LockTree(t) ==
    /\ At(t, "queued") /\ Holds(t) /\ lock = NoCall /\ lock' = t
    /\ call' = [call EXCEPT ![t].pc = IF Disposed(t) THEN "unlock" ELSE "archive",
                            ![t].aborted = Disposed(t)]
    /\ UNCHANGED <<live, usage, record, busy, gone, claim, chain, bound>>
\* The lock stays taken: the pass throws.
LockBusy(t) ==
    /\ At(t, "queued") /\ Holds(t) /\ lock # NoCall
    /\ chain' = Left(t) /\ EndPass(t)
    /\ UNCHANGED <<live, usage, record, busy, gone, lock, bound>>

\* What call t moves is news to the other passes.
Move(t, S) == [u \in Calls |->
    IF u = t \/ At(u, "idle") THEN call[u] ELSE [call[u] EXCEPT !.moved = @ \cup S]]

\* A candidate that was not listed left the tree in a pass that died.
FoldMissing(t, s) ==
    /\ At(t, "archive") /\ s \in call[t].cand \ call[t].tree
    /\ call' = [call EXCEPT ![t].cand = @ \ {s}, ![t].seen[s].state = "archived"]
    /\ UNCHANGED <<live, usage, record, busy, gone, locks, bound>>
ArchiveSkill(t, s) ==
    /\ At(t, "archive") /\ s \in call[t].cand \cap call[t].tree \cap live
    /\ live' = live \ {s}
    /\ call' = [Move(t, {s}) EXCEPT ![t].cand = @ \ {s}, ![t].seen[s].state = "archived",
                                    ![t].landed = @ \cup {s}]
    /\ UNCHANGED <<usage, record, busy, gone, locks, bound>>
\* Mutant: failedFrom is read for a pruning too, which has no entry.
Origin_undefined(t, s) ==
    IF call[t].seen[s].state # "archived" THEN "undefined" ELSE call[t].start[s].state
\* The state a transition to archived came from; a pruning had none.
Origin(t, s) ==
    IF call[t].seen[s].state # "archived" THEN call[t].seen[s].state
    ELSE IF call[t].start[s].state = "stale" THEN "stale" ELSE "active"
\* Mutant: the record keeps the state the pass had given it.
Refused_keeps(t, s) ==
    call' = [call EXCEPT ![t].cand = @ \ {s}]
Refused(t, s) ==
    call' = [call EXCEPT ![t].cand = @ \ {s}, ![t].seen[s].state = Origin(t, s)]
\* It is no longer there, or the move fails.
ArchiveRefused(t, s) ==
    /\ At(t, "archive") /\ s \in call[t].cand \cap call[t].tree
    /\ \/ s \notin live /\ UNCHANGED faults
       \/ faults < MaxFaults /\ faults' = faults + 1
    /\ Refused(t, s)
    /\ UNCHANGED <<live, usage, record, busy, gone, locks, manual, days>>

\* Mutant: a disposed pass returns at once.
Archived_returns(t) ==
    /\ At(t, "archive") /\ call[t].cand = {}
    /\ call' = [call EXCEPT ![t].pc = IF Disposed(t) THEN "unlock" ELSE "merge",
                            ![t].aborted = Disposed(t)]
    /\ UNCHANGED <<live, usage, record, busy, gone, locks, bound>>
\* Disposed by now: no consolidation, but what has landed is accounted for.
Archived(t) ==
    /\ At(t, "archive") /\ call[t].cand = {}
    /\ call' = [call EXCEPT ![t].pc = IF Disposed(t) THEN "fold" ELSE "merge",
                            ![t].aborted = Disposed(t)]
    /\ UNCHANGED <<live, usage, record, busy, gone, locks, bound>>

Mergeable(q) == {q[1], q[2]} \subseteq live
Consolidate(t) ==
    /\ At(t, "merge")
    /\ \/ \E q \in call[t].noms :
            /\ q[1] \notin call[t].landed /\ Mergeable(q)
            /\ live' = live \ {q[1]}
            /\ call' = [Move(t, {q[1]}) EXCEPT ![t].pc = "fold", ![t].seen[q[1]].state = "archived",
                                               ![t].landed = @ \cup {q[1]}]
            /\ UNCHANGED faults
       \/ /\ \A q \in call[t].noms : q[1] \in call[t].landed \/ ~Mergeable(q)
          /\ Goto(t, "fold") /\ UNCHANGED <<live, faults>>
       \/ /\ call[t].noms # {} /\ faults < MaxFaults /\ faults' = faults + 1
          /\ Goto(t, "fold") /\ UNCHANGED live
    /\ UNCHANGED <<usage, record, busy, gone, locks, manual, days>>

\* Skills in the pass's map whose state it has changed, and a compare-and-set on
\* the rest of the world: foldCuratorFields keeps every field but the state.
Owned(t) == {s \in Skills : LET was == call[t].start[s].state IN
    /\ Known(call[t].seen[s])
    /\ call[t].seen[s].state # (IF was = "none" THEN "active" ELSE was)}
Unmoved(t, s) == call[t].start[s].state \in {"none", usage[s].state}
\* Mutant: the record the pass computed on replaces the one on disk.
Folded_whole(t) == [s \in Skills |->
    IF ~Known(usage[s]) \/ (s \in Owned(t) /\ Unmoved(t, s)) THEN call[t].seen[s] ELSE usage[s]]
Folded(t) == [s \in Skills |->
    IF ~Known(usage[s]) THEN call[t].seen[s]
    ELSE IF s \in Owned(t) /\ Unmoved(t, s)
         THEN [usage[s] EXCEPT !.state = call[t].seen[s].state] ELSE usage[s]]
Fold(t) ==
    /\ At(t, "fold")
    /\ usage' = Folded(t)
    /\ Goto(t, "unlock")
    /\ UNCHANGED <<live, record, busy, gone, locks, bound>>
Unlock(t) ==
    /\ At(t, "unlock")
    /\ lock' = NoCall /\ chain' = Left(t)
    /\ Goto(t, "book")
    /\ UNCHANGED <<live, usage, record, busy, gone, claim, bound>>
\* The bookkeeping keeps the pause of its queue slot; an aborted pass does
\* not move the schedule.
Book(t) ==
    /\ At(t, "book")
    /\ record' = [seeded |-> TRUE, paused |-> record.paused,
                  due |-> call[t].aborted /\ record.due]
    /\ EndPass(t)
    /\ UNCHANGED <<live, usage, busy, gone, chain, lock, bound>>

PassStep(t) ==
    \/ Defer(t) \/ Load(t) \/ Compute(t) \/ Blocked(t) \/ Snapshot(t)
    \/ AcquireMutex(t) \/ LockTree(t) \/ LockBusy(t)
    \/ (\E s \in Skills : FoldMissing(t, s) \/ ArchiveSkill(t, s) \/ ArchiveRefused(t, s))
    \/ Archived(t) \/ Consolidate(t) \/ Fold(t) \/ Unlock(t) \/ Book(t)

------------------------------------------------------------------------------
(* The operator: restore and consolidate take the mutex, not the tree lock. *)

Ask(t, arg) ==
    /\ t \notin Passes /\ At(t, "idle") /\ ~Disposed(t)
    /\ manual < MaxManual /\ manual' = manual + 1
    /\ chain' = [chain EXCEPT ![Home[t]] = Append(@, t)]
    /\ call' = [call EXCEPT ![t] = [NoWork EXCEPT !.pc = "asked", !.arg = arg]]
    /\ UNCHANGED <<live, usage, record, busy, gone, claim, lock, faults, days>>
Restores(t) == Len(call[t].arg) = 1
Subject(t)  == call[t].arg[1]
Possible(t) == IF Restores(t) THEN Subject(t) \notin live
               ELSE Mergeable(call[t].arg)
MoveSkill(t) ==
    /\ At(t, "asked") /\ Holds(t) /\ Possible(t)
    /\ live' = IF Restores(t) THEN live \cup {Subject(t)} ELSE live \ {Subject(t)}
    /\ call' = [Move(t, {Subject(t)}) EXCEPT ![t].pc = "moved"]
    /\ UNCHANGED <<usage, record, busy, gone, locks, bound>>
MarkSkill(t) ==
    /\ At(t, "moved")
    /\ usage' = [usage EXCEPT ![Subject(t)].state =
            IF @ = "none" THEN @ ELSE IF Restores(t) THEN "active" ELSE "archived"]
    /\ call' = [Move(t, {Subject(t)}) EXCEPT ![t] = NoWork] /\ chain' = Left(t)
    /\ UNCHANGED <<live, record, busy, gone, claim, lock, bound>>
Refuse(t) ==
    /\ At(t, "asked") /\ Holds(t) /\ ~Possible(t)
    /\ call' = Ended(t) /\ chain' = Left(t)
    /\ UNCHANGED <<live, usage, record, busy, gone, claim, lock, bound>>
OperatorStep(t) == MoveSkill(t) \/ MarkSkill(t) \/ Refuse(t)

\* setPaused: one transaction; a fresh record starts its interval now.
SetPaused(b) ==
    /\ manual < MaxManual /\ manual' = manual + 1
    /\ record' = [seeded |-> TRUE, paused |-> b, due |-> record.seeded /\ record.due]
    /\ UNCHANGED <<live, usage, busy, gone, locks, call, faults, days>>

------------------------------------------------------------------------------
(* Telemetry, time, failures.                                              *)

\* A use in a session; only some kinds of use make a missing record.
UseSkill(s) ==
    /\ s \in live /\ busy' = TRUE /\ days < MaxDays /\ days' = days + 1
    /\ \E r \in {[usage[s] EXCEPT !.age = "fresh"],
                 [state |-> IF Known(usage[s]) THEN usage[s].state ELSE "active", age |-> "fresh"]} :
         usage' = [usage EXCEPT ![s] = r]
    /\ UNCHANGED <<live, record, gone, locks, call, faults, manual>>
Older(a) == IF a = "fresh" THEN "idle" ELSE "old"
Age(s) ==
    /\ Known(usage[s]) /\ usage[s].age # "old" /\ days < MaxDays /\ days' = days + 1
    /\ usage' = [usage EXCEPT ![s].age = Older(@)]
    /\ UNCHANGED <<live, record, busy, gone, locks, call, faults, manual>>
Quiet  == busy /\ busy' = FALSE /\ UNCHANGED <<live, usage, record, gone, locks, call, bound>>
Elapse == ~record.due /\ record' = [record EXCEPT !.due = TRUE]
          /\ UNCHANGED <<live, usage, busy, gone, locks, call, bound>>
MergeLocks   == lock = NoCall /\ lock' = Merge
                /\ UNCHANGED <<live, usage, record, busy, gone, claim, chain, call, bound>>
MergeUnlocks == lock = Merge /\ lock' = NoCall
                /\ UNCHANGED <<live, usage, record, busy, gone, claim, chain, call, bound>>

\* The plugin is unloaded and its calls go on; it is mounted again after them.
Dispose(i) ==
    /\ i \notin gone /\ gone' = gone \cup {i}
    /\ manual < MaxManual /\ manual' = manual + 1
    /\ UNCHANGED <<live, usage, record, busy, locks, call, faults, days>>
Remount(i) ==
    /\ i \in gone /\ \A t \in Calls : Home[t] = i => At(t, "idle")
    /\ gone' = gone \ {i}
    /\ UNCHANGED <<live, usage, record, busy, locks, call, bound>>

\* A sidecar or state write that fails is only logged.
Fault(t) ==
    /\ faults < MaxFaults /\ faults' = faults + 1
    /\ \/ At(t, "fold") /\ Goto(t, "unlock") /\ UNCHANGED <<claim, chain>>
       \/ call[t].pc \in {"defer", "list", "check", "book"} /\ EndPass(t) /\ UNCHANGED chain
       \/ At(t, "moved") /\ call' = Ended(t) /\ chain' = Left(t) /\ UNCHANGED claim
    /\ UNCHANGED <<live, usage, record, busy, gone, lock, manual, days>>
Crash(i) ==
    /\ faults < MaxFaults /\ faults' = faults + 1
    /\ call' = [t \in Calls |-> IF Home[t] = i THEN NoWork ELSE call[t]]
    /\ claim' = [claim EXCEPT ![i] = NoCall] /\ chain' = [chain EXCEPT ![i] = <<>>]
    /\ lock' = IF lock \in {t \in Calls : Home[t] = i} THEN NoCall ELSE lock
    /\ gone' = gone \ {i}
    /\ UNCHANGED <<live, usage, record, busy, manual, days>>

Next ==
    \/ \E t \in Calls : \/ \E auto \in BOOLEAN : PassStart(t, auto)
                        \/ \E s \in Skills : Ask(t, <<s>>)
                        \/ \E s, into \in Skills : s # into /\ Ask(t, <<s, into>>)
                        \/ PassStep(t) \/ OperatorStep(t) \/ Fault(t)
    \/ \E s \in Skills : UseSkill(s) \/ Age(s)
    \/ \E b \in BOOLEAN : SetPaused(b)
    \/ \E i \in Instances : Dispose(i) \/ Remount(i) \/ Crash(i)
    \/ Quiet \/ Elapse \/ MergeLocks \/ MergeUnlocks

Spec == Init /\ [][Next]_vars
\* Every await settles, the interval elapses, the hourly tick fires, and an
\* unloaded plugin is mounted again.
Fairness ==
    /\ \A t \in Calls : WF_vars(PassStep(t) \/ OperatorStep(t))
    /\ \A t \in Passes : WF_vars(PassStart(t, TRUE))
    /\ WF_vars(Elapse) /\ \A i \in Instances : WF_vars(Remount(i))
FairSpec == Spec /\ Fairness

------------------------------------------------------------------------------
(* Properties.                                                             *)

Record == [state : States, age : Ages]
Args   == {<<>>} \cup {<<s>> : s \in Skills} \cup (Skills \X Skills)
Work ==
    [pc : {"idle", "defer", "load", "list", "check", "snapped", "queued", "archive", "merge",
           "fold", "unlock", "book", "asked", "moved"},
     auto : BOOLEAN, aborted : BOOLEAN,
     arg : Args,
     seen : [Skills -> Record], start : [Skills -> Record],
     tree : SUBSET Skills, cand : SUBSET Skills, noms : SUBSET (Skills \X Skills),
     landed : SUBSET Skills, moved : SUBSET Skills]
TypeOK ==
    /\ live \subseteq Skills /\ usage \in [Skills -> Record]
    /\ record \in [seeded : BOOLEAN, paused : BOOLEAN, due : BOOLEAN]
    /\ busy \in BOOLEAN /\ gone \subseteq Instances
    /\ claim \in [Instances -> Calls \cup {NoCall}] /\ chain \in [Instances -> Seq(Calls)]
    /\ lock \in Calls \cup {NoCall, Merge}
    /\ call \in [Calls -> Work]
    /\ faults \in 0 .. MaxFaults /\ manual \in 0 .. MaxManual /\ days \in 0 .. MaxDays

\* A pass applies under the tree lock and its instance's mutex, where no
\* operator's call is between its directory move and its record.
ApplyExcludes ==
    \A t \in Passes : call[t].pc \in {"archive", "merge", "fold", "unlock"} =>
        /\ lock = t
        /\ \A u \in Calls \ {t} : Home[u] = Home[t] => ~At(u, "moved")

\* The fold says archived of no skill that is still in the tree, unless an
\* operator brought it back while the pass ran: a refused archive leaves no
\* trace in the sidecar.
FoldIsTrue ==
    [][\A t \in Calls, s \in Skills :
        At(t, "fold") /\ ~At(t, "fold")' /\ usage'[s] # usage[s] /\ usage'[s].state = "archived"
        => s \notin live \/ s \in call[t].moved]_vars

\* Whatever a pass has archived by the time it gives the locks back is
\* archived in the sidecar too, disposed in the middle or not.
LandedIsRecorded ==
    [][\A t \in Calls : At(t, "unlock") /\ call'[t].pc = "book" /\ faults = 0 =>
        \A s \in call[t].landed \ call[t].moved : usage[s].state = "archived"]_vars

\* The clock of a skill belongs to its users: no pass and no operator's call
\* loses a use recorded while it ran, or restarts the clock.
ClockIsTheUsers ==
    [][call' # call => \A s \in Skills : Known(usage[s]) => usage'[s].age = usage[s].age]_vars

\* A pause set while a pass runs survives the writes of that pass.
PauseSurvives == [][call' # call => record'.paused = record.paused]_vars

\* A crash or a failed write between the directory move and the fold, or the
\* race above, is healed by a later pass: while automatic passes can run to
\* their end, no skill stays in the tree with an archived record, nor out of
\* it with an unarchived one that has expired.
Astray(s) ==
    \/ s \in live /\ usage[s].state = "archived"
    \/ s \notin live /\ usage[s].state \in {"active", "stale"} /\ usage[s].age = "old"
Undisturbed == ~busy /\ ~record.paused /\ gone = {} /\ lock # Merge
AstrayHeals == \A s \in Skills : <>[]Undisturbed => (Astray(s) ~> ~Astray(s))
=============================================================================
