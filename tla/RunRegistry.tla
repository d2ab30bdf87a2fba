---------------------------- MODULE RunRegistry ----------------------------
(***************************************************************************)
(* The run registry of evolution-core (run-registry.ts): who is in flight, *)
(* how a run ended, and what the shared index <home>/runs.json says.  One  *)
(* registry per mounted row (the commands row and the merge row of each    *)
(* process), all over one index.  A registry's own rows live in its        *)
(* memory; everyone else's are read from the index.  A process may crash;  *)
(* an index write may fail.                                                *)
(***************************************************************************)
EXTENDS Integers, FiniteSets

CONSTANTS
    Procs,         \* process incarnations; a dead one never comes back
    Regs,          \* mounted registries
    Proc,          \* Proc[r]: the process registry r lives in
    Runs,          \* run ids, each begun once
    Kind,          \* Kind[x]: "maintain" or "merge"
    NoProc, NoRun,
    CrossProcess,  \* does io.transact exclude other processes?
    Calls,         \* bound: the rarer operations this instance issues
    Results,       \* bound: the outcomes a run's body settles with
    MaxRecords,    \* retained terminal rows per kind
    MaxLoads,      \* bound: load() calls a registry has in flight
    MaxFaults,     \* bound: index writes that throw
    MaxRestores    \* bound: restores of the skill tree

Kinds    == {"maintain", "merge"}
AllCalls == {"stage", "dispose", "recover"}
Outcomes == {"succeeded", "failed", "cancelled"}
States   == {"running"} \cup Outcomes

ASSUME PlanesAssumption == Proc \in [Regs -> Procs] /\ Kind \in [Runs -> Kinds]
ASSUME NoneAssumption   == NoProc \notin Procs /\ NoRun \notin Runs
ASSUME LimitsAssumption ==
    /\ CrossProcess \in BOOLEAN /\ Calls \subseteq AllCalls /\ Results \subseteq Outcomes
    /\ MaxRecords \in Nat /\ MaxLoads \in Nat /\ MaxFaults \in Nat /\ MaxRestores \in Nat

VARIABLES
    index,      \* runs.json: a row or NoRow for each run
    owned,      \* per registry: the rows it started
    foreign,    \* per registry: the rows it last read
    mode,       \* "unmounted", "mounted" or "disposed"
    up,         \* processes isProcessAlive answers yes for
    begun,      \* run ids handed out
    loads,      \* per registry: index bodies read and not yet applied
    synced,     \* registries whose maintain command re-read the index
    pending,    \* per registry: queued transactions over the index
    window,     \* per process: the transaction between its read and write
    told,       \* runs whose begin() resolved with the row written
    faults,
    restores    \* restores of the skill tree so far

vars == <<index, owned, foreign, mode, up, begun, loads, synced, pending,
          window, told, faults, restores>>

NoRow == [state |-> "absent", pid |-> NoProc, orphan |-> FALSE, superseded |-> FALSE]
Row   == [state : States, pid : Procs, orphan : BOOLEAN, superseded : BOOLEAN]
Index == [Runs -> Row \cup {NoRow}]

\* A transaction of a registry: why it runs, and the run it is about.
Task == [why : {"begin", "change", "load", "recover", "supersede"}, run : Runs \cup {NoRun}]
Window == [by : Regs \cup {NoProc}, why : {"none", "begin", "change", "load", "recover", "supersede"},
           run : Runs \cup {NoRun}, next : Index]
Idle == [by |-> NoProc, why |-> "none", run |-> NoRun, next |-> [x \in Runs |-> NoRow]]

Terminal(row)    == row.state \in Outcomes
Running(row)     == row.state = "running"
\* Mutant: a probe the system refuses (EPERM: another user's process) reads as gone.
OwnerIsGone_refused(row) == row.pid \in Procs
OwnerIsGone(row) == row.pid \notin up
\* Mutant: the legacy merge status is written as the state.
OrphanOf_legacy(row) == [row EXCEPT !.state = "orphan", !.orphan = TRUE]
OrphanOf(row)    == [row EXCEPT !.state = "failed", !.orphan = TRUE]
Owns(r, x)       == owned[r][x] # NoRow
View(r, x)       == IF Owns(r, x) THEN owned[r][x] ELSE foreign[r][x]

Init ==
    /\ index = [x \in Runs |-> NoRow]
    /\ owned = [r \in Regs |-> [x \in Runs |-> NoRow]]
    /\ foreign = [r \in Regs |-> [x \in Runs |-> NoRow]]
    /\ mode = [r \in Regs |-> "unmounted"]
    /\ up = Procs /\ begun = {} /\ synced = {} /\ told = {}
    /\ loads = [r \in Regs |-> {}]
    /\ pending = [r \in Regs |-> {}]
    /\ window = [p \in Procs |-> Idle]
    /\ faults = 0 /\ restores = 0

------------------------------------------------------------------------------
(* What a transaction computes.                                            *)

\* Retained history: every running row and MaxRecords terminal rows per kind
\* (which ones are the newest is left open).
Capped(rows) ==
    LET Done(kind) == {x \in Runs : Terminal(rows[x]) /\ Kind[x] = kind}
        Fits(D) == \A kind \in Kinds :
            LET n == Cardinality(Done(kind))
            IN  Cardinality(Done(kind) \ D) = IF n > MaxRecords THEN MaxRecords ELSE n
    IN  {[x \in Runs |-> IF x \in D THEN NoRow ELSE rows[x]] :
            D \in {D \in SUBSET {x \in Runs : Terminal(rows[x])} : Fits(D)}}

\* Mutant: only rows the file already has are updated.
Laid_update(r) ==
    [x \in Runs |-> IF Owns(r, x) /\ index[x] # NoRow THEN owned[r][x] ELSE index[x]]
\* This process's rows over the file.
Laid(r) == [x \in Runs |-> IF Owns(r, x) THEN owned[r][x] ELSE index[x]]

\* A terminal verdict this registry read is re-asserted over a stale running row.
Repaired(r, rows) == [x \in Runs |->
    IF Terminal(foreign[r][x]) /\ Running(rows[x]) THEN foreign[r][x] ELSE rows[x]]

\* The orphan verdict: the one write a non-owner makes.
Judged(r, rows) == [x \in Runs |->
    IF Running(rows[x]) /\ ~Owns(r, x) /\ OwnerIsGone(rows[x])
    THEN OrphanOf(rows[x]) ELSE rows[x]]

Persisted(r) == Judged(r, Repaired(r, Laid(r)))

Mark(row, kind, x) ==
    IF row # NoRow /\ Kind[x] = kind THEN [row EXCEPT !.superseded = TRUE] ELSE row
\* The task marks the registry's own records in memory as well.
MarkOwned(r) == [owned EXCEPT ![r] = [x \in Runs |-> Mark(@[x], "merge", x)]]
Superseded(r, kind) == [x \in Runs |-> Mark(Laid(r)[x], kind, x)]

\* Mutant: any failed row is upgraded.
Recoverable_failed(x) ==
    \/ Running(index[x]) /\ OwnerIsGone(index[x])
    \/ index[x].state = "failed"
\* settleRecovered: a dead owner's running row, or the orphan verdict.  The
\* failure text stays on the upgraded row; "succeeded" stands for "interrupted" too.
Recoverable(x) ==
    \/ Running(index[x]) /\ OwnerIsGone(index[x])
    \/ index[x].state = "failed" /\ index[x].orphan
Recovered(x) == [index EXCEPT ![x].state = "succeeded"]

\* The bodies a transaction may write.
Bodies(r, t) ==
    CASE t.why = "recover"   -> Capped(Recovered(t.run))
      [] t.why = "supersede" -> Capped(Superseded(r, "merge"))
      [] OTHER               -> Capped(Persisted(r))

Enqueue(r, why, x) == pending' = [pending EXCEPT ![r] = @ \cup {[why |-> why, run |-> x]}]

------------------------------------------------------------------------------
(* Registries come and go.                                                 *)

Mount(r) ==
    /\ mode[r] = "unmounted" /\ Proc[r] \in up
    /\ mode' = [mode EXCEPT ![r] = "mounted"]
    /\ UNCHANGED <<index, owned, foreign, up, begun, loads, synced, pending,
                   window, told, faults, restores>>

\* The fiber is disposed: cancelAll, without waiting for the index.  The
\* registry's queued transactions and its runs' late settles still come.
Dispose(r) ==
    LET live == {x \in Runs : Running(owned[r][x])}
    IN  /\ "dispose" \in Calls /\ mode[r] = "mounted"
        /\ mode' = [mode EXCEPT ![r] = "disposed"]
        /\ owned' = [owned EXCEPT ![r] = [x \in Runs |->
                IF x \in live THEN [@[x] EXCEPT !.state = "cancelled"] ELSE @[x]]]
        /\ pending' = [pending EXCEPT ![r] = @ \cup {[why |-> "change", run |-> x] : x \in live}]
        /\ synced' = synced \ {r}
        /\ UNCHANGED <<index, foreign, up, begun, loads, window, told, faults, restores>>

\* A process dies: its memory and whatever it had not yet renamed are gone.
Crash(p) ==
    LET mine == {r \in Regs : Proc[r] = p}
        Clear(f, empty) == [r \in Regs |-> IF r \in mine THEN empty ELSE f[r]]
        Nothing == [x \in Runs |-> NoRow]
    IN  /\ p \in up
        /\ up' = up \ {p}
        /\ mode' = Clear(mode, "disposed")
        /\ owned' = Clear(owned, Nothing) /\ foreign' = Clear(foreign, Nothing)
        /\ loads' = Clear(loads, {}) /\ pending' = Clear(pending, {})
        /\ synced' = synced \ mine
        /\ window' = [window EXCEPT ![p] = Idle]
        /\ UNCHANGED <<index, begun, told, faults, restores>>

------------------------------------------------------------------------------
(* load: read the index, then rebuild the foreign view.                    *)

LoadRead(r) ==
    /\ mode[r] = "mounted" /\ Cardinality(loads[r]) < MaxLoads
    /\ loads' = [loads EXCEPT ![r] = @ \cup {index}]
    /\ UNCHANGED <<index, owned, foreign, mode, up, begun, synced, pending,
                   window, told, faults, restores>>

\* Mutant: the row is taken as the body has it.
Adopt_blind(r, x, row) ==
    IF Owns(r, x) THEN NoRow
    ELSE IF Running(row) /\ OwnerIsGone(row) THEN OrphanOf(row) ELSE row
\* adopt: a row known terminal is never shown as running again; a row whose
\* owner is gone is shown as an orphan; a row that vanished is dropped.
Adopt(r, x, row) ==
    IF Owns(r, x) THEN NoRow
    ELSE IF Running(row) /\ OwnerIsGone(row) THEN OrphanOf(row)
    ELSE IF Running(row) /\ Terminal(foreign[r][x]) THEN foreign[r][x]
    ELSE row

\* Mutant: an orphan the view shows is not written back.
Divergent_shown(r, raw) == {x \in Runs :
    ~Owns(r, x) /\ Running(raw[x]) /\ ~OwnerIsGone(raw[x]) /\ Terminal(foreign[r][x])}
\* Rows load() must write back: orphans it judged, regressions it refused.
Divergent(r, raw) == {x \in Runs :
    ~Owns(r, x) /\ Running(raw[x]) /\ (OwnerIsGone(raw[x]) \/ Terminal(foreign[r][x]))}

LoadApply(r, raw) ==
    /\ raw \in loads[r]
    /\ loads' = [loads EXCEPT ![r] = @ \ {raw}]
    /\ foreign' = [foreign EXCEPT ![r] = [x \in Runs |-> Adopt(r, x, raw[x])]]
    /\ IF Divergent(r, raw) # {}
       THEN Enqueue(r, "load", NoRun) /\ UNCHANGED synced
       ELSE synced' = synced \cup {r} /\ UNCHANGED pending
    /\ UNCHANGED <<index, owned, mode, up, begun, window, told, faults, restores>>

------------------------------------------------------------------------------
(* Runs.                                                                   *)

Register(r, x) ==
    /\ x \notin begun /\ begun' = begun \cup {x}
    /\ owned' = [owned EXCEPT ![r][x] =
            [state |-> "running", pid |-> Proc[r], orphan |-> FALSE, superseded |-> FALSE]]
    /\ Enqueue(r, "begin", x)

\* The maintain command, after its load: refused while anything is in flight.
BeginScan(r, x) ==
    /\ mode[r] = "mounted" /\ r \in synced /\ Kind[x] = "maintain"
    /\ synced' = synced \ {r}
    /\ \A y \in Runs : ~Running(View(r, y))
    /\ Register(r, x)
    /\ UNCHANGED <<index, foreign, mode, up, loads, window, told, faults, restores>>

\* withMergeRun: no guard on other runs.
BeginMerge(r, x) ==
    /\ mode[r] = "mounted" /\ Kind[x] = "merge"
    /\ Register(r, x)
    /\ UNCHANGED <<index, foreign, mode, up, loads, synced, window, told, faults, restores>>

\* settle and settleOrphan on an own row, cancel: terminal once.
Settle(r, x, outcome) ==
    /\ Running(owned[r][x])
    /\ owned' = [owned EXCEPT ![r][x].state = outcome]
    /\ Enqueue(r, "change", x)
    /\ UNCHANGED <<index, foreign, mode, up, begun, loads, synced, window, told, faults, restores>>

\* stage: the row is written through while it runs.
Stage(r, x) ==
    /\ "stage" \in Calls /\ Running(owned[r][x])
    /\ Enqueue(r, "change", x)
    /\ UNCHANGED <<index, owned, foreign, mode, up, begun, loads, synced, window,
                   told, faults, restores>>

\* settleRecovered of a run of an earlier process whose unit proved committed.
SettleRecovered(r, x) ==
    /\ "recover" \in Calls /\ mode[r] = "mounted"
    /\ x \in begun /\ Kind[x] = "merge" /\ ~Owns(r, x)
    /\ Enqueue(r, "recover", x)
    /\ UNCHANGED <<index, owned, foreign, mode, up, begun, loads, synced, window,
                   told, faults, restores>>

\* A restore of the skill tree: supersedeKind("merge").
SupersedeKind(r) ==
    /\ mode[r] = "mounted" /\ restores < MaxRestores
    /\ restores' = restores + 1
    /\ Enqueue(r, "supersede", NoRun)
    /\ UNCHANGED <<index, owned, foreign, mode, up, begun, loads, synced, window,
                   told, faults>>

------------------------------------------------------------------------------
(* The index transactions: one per process at a time.                      *)

Exclusive(p) ==
    /\ window[p] = Idle
    /\ CrossProcess => \A q \in Procs : window[q] = Idle

\* A recovery that is refused returns the body it read: nothing is written.
RecoverRefused(r, t) ==
    /\ t \in pending[r] /\ t.why = "recover" /\ ~Recoverable(t.run)
    /\ Exclusive(Proc[r])
    /\ pending' = [pending EXCEPT ![r] = @ \ {t}]
    /\ UNCHANGED <<index, owned, foreign, mode, up, begun, loads, synced, window,
                   told, faults, restores>>

TransactRead(r, t) ==
    /\ t \in pending[r] /\ Exclusive(Proc[r])
    /\ t.why = "recover" => Recoverable(t.run)
    /\ pending' = [pending EXCEPT ![r] = @ \ {t}]
    /\ \E next \in Bodies(r, t) :
         window' = [window EXCEPT ![Proc[r]] =
            [by |-> r, why |-> t.why, run |-> t.run, next |-> next]]
    /\ owned' = IF t.why = "supersede" THEN MarkOwned(r) ELSE owned
    /\ UNCHANGED <<index, foreign, mode, up, begun, loads, synced, told, faults, restores>>

\* The write lands; what awaited it goes on.  A changed recovery reloads.
TransactWrite(p) ==
    LET w == window[p]
    IN  /\ w # Idle
        /\ index' = w.next
        /\ window' = [window EXCEPT ![p] = Idle]
        /\ told' = IF w.why = "begin" THEN told \cup {w.run} ELSE told
        /\ synced' = IF w.why = "load" /\ mode[w.by] = "mounted"
                     THEN synced \cup {w.by} ELSE synced
        /\ loads' = IF w.why = "recover"
                    THEN [loads EXCEPT ![w.by] = @ \cup {index'}] ELSE loads
        /\ UNCHANGED <<owned, foreign, mode, up, begun, pending, faults, restores>>

\* The transaction throws before its rename: persist() only warns.
TransactFault(p) ==
    LET w == window[p]
    IN  /\ w # Idle /\ faults < MaxFaults
        /\ faults' = faults + 1
        /\ window' = [window EXCEPT ![p] = Idle]
        /\ synced' = IF w.why = "load" /\ mode[w.by] = "mounted"
                     THEN synced \cup {w.by} ELSE synced
        /\ UNCHANGED <<index, owned, foreign, mode, up, begun, loads, pending, told, restores>>

Next ==
    \/ \E r \in Regs : Mount(r) \/ Dispose(r) \/ LoadRead(r) \/ SupersedeKind(r)
    \/ \E r \in Regs : \E raw \in loads[r] : LoadApply(r, raw)
    \/ \E r \in Regs, x \in Runs :
        \/ BeginScan(r, x) \/ BeginMerge(r, x) \/ Stage(r, x)
        \/ SettleRecovered(r, x)
        \/ \E outcome \in Results : Settle(r, x, outcome)
    \/ \E r \in Regs : \E t \in pending[r] : TransactRead(r, t) \/ RecoverRefused(r, t)
    \/ \E p \in Procs : TransactWrite(p) \/ TransactFault(p) \/ Crash(p)

Spec == Init /\ [][Next]_vars

\* Commands keep arriving (each one loads) and transactions complete.
Persists == {"begin", "change", "load"}
Fairness ==
    /\ \A r \in Regs : WF_vars(LoadRead(r))
    /\ \A r \in Regs : WF_vars(\E raw \in loads[r] : LoadApply(r, raw))
    /\ \A r \in Regs : SF_vars(\E t \in pending[r] : TransactRead(r, t) /\ t.why \in Persists)
    /\ \A p \in Procs : WF_vars(TransactWrite(p) \/ TransactFault(p))

FairSpec == Spec /\ Fairness

------------------------------------------------------------------------------
(* Properties.                                                             *)

\* Every variable holds values of its kind.
TypeOK ==
    /\ index \in Index
    /\ owned \in [Regs -> Index] /\ foreign \in [Regs -> Index]
    /\ mode \in [Regs -> {"unmounted", "mounted", "disposed"}]
    /\ up \subseteq Procs /\ begun \subseteq Runs /\ synced \subseteq Regs
    /\ loads \in [Regs -> SUBSET Index] /\ pending \in [Regs -> SUBSET Task]
    /\ window \in [Procs -> Window]
    /\ told \subseteq begun /\ faults \in 0..MaxFaults /\ restores \in 0..MaxRestores

\* One writer per row: while a run's owner lives, the index never holds a
\* verdict the owner did not reach (settle, cancel; no orphan verdict).
NoFabricatedVerdict ==
    \A r \in Regs, x \in Runs :
        (Owns(r, x) /\ Terminal(index[x])) =>
            index[x].state = owned[r][x].state /\ ~index[x].orphan

\* A plane that reads the "started" answer finds the run: once begin resolved
\* with its row written, the row of a live run stays in the index.
StartedIsVisible ==
    \A r \in Regs, x \in Runs : (Running(owned[r][x]) /\ x \in told) => index[x] # NoRow

\* A terminal answer of the index is final: only the orphan verdict may still
\* be upgraded, by settleRecovered.
VerdictIsFinal ==
    [][\A x \in Runs :
        (Terminal(index[x]) /\ index'[x] # NoRow) =>
            \/ index'[x].state = index[x].state
            \/ index[x].state = "failed" /\ index[x].orphan /\ index'[x].state = "succeeded"]_vars

\* What a mounted registry shows of a settled run is not reopened: no load,
\* however old the body it applies, and no transaction turns it back into a
\* running one; only a load of a body that has lost the row drops it (adopt,
\* run-registry.ts:308-336, 419-421).  What is shown after such a drop is not
\* bound by the verdict any more.
VerdictIsNotReopened ==
    [][\A r \in Regs, x \in Runs :
        (mode[r] = "mounted" /\ Terminal(View(r, x))) =>
            \/ Terminal(View(r, x)')
            \/ /\ View(r, x)' = NoRow
               /\ Proc[r] \in up' => \E raw \in loads[r] : raw[x] = NoRow /\ raw \notin loads'[r]]_vars

\* A run whose process died is converged: it does not read as running for ever
\* while some registry still answers commands.
OrphansConverge ==
    \A x \in Runs :
        (Running(index[x]) /\ OwnerIsGone(index[x]) /\ \E r \in Regs : mode[r] = "mounted")
            ~> (~Running(index[x]) \/ \A r \in Regs : mode[r] # "mounted")
==============================================================================
