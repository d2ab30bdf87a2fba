------------------------------ MODULE Approval ------------------------------
(***************************************************************************)
(* The staged-write window: evolution-approval's request, approve, reject, *)
(* release and the TTL sweep, over the claim discipline of the pending     *)
(* table.                                                                  *)
(*                                                                         *)
(* Each process runs one approval service.  A call is a chain of awaited   *)
(* store operations; between two of them any other call of any process may *)
(* run.  A store operation is one transaction of the pending table (the    *)
(* storage-domain provider, or the JSON one over a backend whose transact  *)
(* excludes every process, io.ts:45-52).                                   *)
(*                                                                         *)
(* A claim id is fresh for every claim and carries the pid of its process: *)
(* it is the index of its process in `minted`.                             *)
(***************************************************************************)
EXTENDS Naturals, Sequences, FiniteSets

CONSTANTS
    Procs,        \* processes over one DSH_HOME, one approval service in each
    Records,      \* staged writes
    MaxCalls,     \* bound: calls made
    MaxFaults     \* bound: store operations that throw

ASSUME ApprovalAssumption == MaxCalls \in Nat /\ MaxFaults \in Nat

VARIABLES
    kind,      \* the record's kind, by how it is answered
    status,    \* the record's status in the pending table
    claim,     \* its claimedBy: a claim id, or 0
    stale,     \* records older than pendingTtlMs
    minted,    \* the process of every claim id
    job,       \* job[p][op][x]: where that call of p stands
    up,        \* processes alive
    landed,    \* claims under which the record's effect has landed
    denied,    \* claims whose runner failed after its effect had landed
    freed,     \* claims an operator's release rolled back
    forced,    \* records rejected while executing, without a claim
    dropped,   \* claims whose call threw in a store operation
    calls, faults

table   == <<status, claim>>
history == <<landed, denied, freed, forced, dropped>>
bounds  == <<kind, up, calls, faults>>
vars    == <<kind, status, claim, stale, minted, job, up, landed, denied, freed, forced, dropped, calls, faults>>

\* A kind with a replay runner; the one answered without; one without a runner.
Kinds   == {"runnable", "capability", "unreplayable"}
Status  == {"none", "pending", "executing", "approved", "rejected"}
Ops     == {"approve", "reject", "expire", "release"}
Claims  == 1..Len(minted)
Stages  == {"idle", "sweep", "expire", "claim", "run", "giveback", "resolve", "audit",
            "stuck", "force", "look", "judge", "free"}
Idle    == [pc |-> "idle", n |-> 0]

At(p, op, x, pc)      == job[p][op][x].pc = pc
Held(p, op, x)        == job[p][op][x].n
Goto(p, op, x, pc, n) == job' = [job EXCEPT ![p][op][x] = [pc |-> pc, n |-> n]]
Return(p, op, x)      == Goto(p, op, x, "idle", 0)

Init ==
    /\ kind \in [Records -> Kinds]
    /\ status = [x \in Records |-> "none"] /\ claim = [x \in Records |-> 0]
    /\ stale = {} /\ minted = <<>> /\ up = Procs
    /\ job = [p \in Procs |-> [op \in Ops |-> [x \in Records |-> Idle]]]
    /\ landed = [x \in Records |-> {}]
    /\ denied = {} /\ freed = {} /\ forced = {} /\ dropped = {}
    /\ calls = 0 /\ faults = 0

------------------------------------------------------------------------------
(* The pending table: one transaction each.                                *)

\* Mutant: an executing record may be claimed again.
CanClaim_again(x) == status[x] \in {"pending", "executing"}
CanClaim(x)   == status[x] = "pending"
\* Mutant: a resolved record may be resolved again.
CanResolve_any(x) == status[x] # "none"
CanResolve(x) == status[x] \in {"pending", "executing"}

\* claimPending: the record is executing, under a fresh claim.
ClaimPending(p, x) ==
    /\ minted' = Append(minted, p)
    /\ status' = [status EXCEPT ![x] = "executing"]
    /\ claim' = [claim EXCEPT ![x] = Len(minted')]

\* tryResolvePending with the caller's claim.
Applies(x, n) == CanResolve(x) /\ claim[x] = n

ResolvePending(x, verdict) ==
    status' = [status EXCEPT ![x] = verdict] /\ UNCHANGED claim

\* releasePendingClaim: rolls the record back if the claim is still its.
ReleasePendingClaim(x, n) ==
    IF claim[x] = n /\ CanResolve(x)
    THEN /\ status' = [status EXCEPT ![x] = "pending"]
         /\ claim' = [claim EXCEPT ![x] = 0]
    ELSE UNCHANGED table

------------------------------------------------------------------------------
(* Staging and time.                                                       *)

\* request: the write is staged.  (An allowed write leaves no state here.)
Stage(x) ==
    /\ status[x] = "none"
    /\ status' = [status EXCEPT ![x] = "pending"]
    /\ UNCHANGED <<bounds, claim, stale, minted, job, history>>

\* The record passes its TTL.
Age(x) ==
    /\ status[x] # "none" /\ x \notin stale
    /\ stale' = stale \cup {x}
    /\ UNCHANGED <<bounds, table, minted, job, history>>

------------------------------------------------------------------------------
(* Calls.                                                                  *)

\* A decision arrives.  approve sweeps the window first, as list does (expire
\* is the sweep of one record by list); approve and reject of one record are
\* deduplicated within the service.
Call(p, op, x) ==
    /\ p \in up /\ At(p, op, x, "idle") /\ status[x] # "none"
    /\ calls < MaxCalls /\ calls' = calls + 1
    /\ Goto(p, op, x, CASE op \in {"approve", "expire"} -> "sweep"
                        [] op = "reject"  -> "claim"
                        [] op = "release" -> "look", 0)
    /\ UNCHANGED <<kind, table, stale, minted, up, history, faults>>

\* The sweep leaves a record alone that is not stale or no longer pending.
SweepSkips(p, op, x) ==
    /\ At(p, op, x, "sweep") /\ ~(x \in stale /\ CanClaim(x))
    /\ Goto(p, op, x, IF op = "approve" THEN "claim" ELSE "idle", 0)
    /\ UNCHANGED <<bounds, table, stale, minted, history>>

SweepClaims(p, op, x) ==
    /\ At(p, op, x, "sweep") /\ x \in stale /\ CanClaim(x)
    /\ ClaimPending(p, x)
    /\ Goto(p, op, x, "expire", Len(minted'))
    /\ UNCHANGED <<bounds, stale, history>>

\* Mutant: an expired record gets a status of its own.
Expired_own == "expired"
\* The swept record is closed like a reject; no runner is called.
Expired == "rejected"
SweepCloses(p, op, x) ==
    /\ At(p, op, x, "expire")
    /\ IF Applies(x, Held(p, op, x)) THEN ResolvePending(x, Expired) ELSE UNCHANGED table
    /\ Goto(p, op, x, IF op = "approve" THEN "claim" ELSE "idle", 0)
    /\ UNCHANGED <<bounds, stale, minted, history>>

\* Mutant: a record without a runner keeps its claim.
AfterClaim_keep(op, x) ==
    IF op = "reject" \/ kind[x] = "capability" THEN "resolve"
    ELSE IF kind[x] = "runnable" THEN "run" ELSE "idle"
\* Where a won claim leads: the runner, the answer, or back.
AfterClaim(op, x) ==
    IF op = "reject" \/ kind[x] = "capability" THEN "resolve"
    ELSE IF kind[x] = "runnable" THEN "run" ELSE "giveback"

ClaimWon(p, op, x) ==
    /\ At(p, op, x, "claim") /\ CanClaim(x)
    /\ ClaimPending(p, x)
    /\ Goto(p, op, x, AfterClaim(op, x), Len(minted'))
    /\ UNCHANGED <<bounds, stale, history>>

\* approve never re-runs an executing record; reject looks for one.
ClaimLost(p, op, x) ==
    /\ At(p, op, x, "claim") /\ ~CanClaim(x)
    /\ Goto(p, op, x, IF op = "reject" THEN "stuck" ELSE "idle", 0)
    /\ UNCHANGED <<bounds, table, stale, minted, history>>

\* The runner replays the write and says so.
RunnerLands(p, x) ==
    /\ At(p, "approve", x, "run")
    /\ landed' = [landed EXCEPT ![x] = @ \cup {Held(p, "approve", x)}]
    /\ Goto(p, "approve", x, "resolve", Held(p, "approve", x))
    /\ UNCHANGED <<bounds, table, stale, minted, denied, freed, forced, dropped>>

\* Mutant: the runner's refusal is resolved like its success.
RunnerFails_resolves(p, x) ==
    /\ At(p, "approve", x, "run")
    /\ Goto(p, "approve", x, "resolve", Held(p, "approve", x))
    /\ UNCHANGED <<bounds, table, stale, minted, history>>
\* It refuses or throws: before it wrote anything, or after, since a runner
\* reads its write back.  The claim is given back either way.
RunnerFails(p, x) ==
    LET n == Held(p, "approve", x) IN
    /\ At(p, "approve", x, "run")
    /\ \/ UNCHANGED <<landed, denied>>
       \/ landed' = [landed EXCEPT ![x] = @ \cup {n}] /\ denied' = denied \cup {n}
    /\ Goto(p, "approve", x, "giveback", n)
    /\ UNCHANGED <<bounds, table, stale, minted, freed, forced, dropped>>

Giveback(p, op, x) ==
    /\ At(p, op, x, "giveback")
    /\ ReleasePendingClaim(x, Held(p, op, x))
    /\ Return(p, op, x)
    /\ UNCHANGED <<bounds, stale, minted, history>>

Verdict(op) == IF op = "approve" THEN "approved" ELSE "rejected"

\* The claim-scoped resolve.  When it does not apply, approve reports the
\* divergence and reject gives its claim back.
Resolve(p, op, x) ==
    /\ At(p, op, x, "resolve")
    /\ IF Applies(x, Held(p, op, x))
       THEN /\ ResolvePending(x, Verdict(op))
            /\ Goto(p, op, x, "audit", Held(p, op, x))
       ELSE /\ UNCHANGED table
            /\ IF op = "reject" THEN Goto(p, op, x, "giveback", Held(p, op, x))
                                ELSE Return(p, op, x)
    /\ UNCHANGED <<bounds, stale, minted, history>>

\* recordDecision saves the whole resolved record again, unconditionally.
Audit(p, op, x) ==
    /\ At(p, op, x, "audit")
    /\ status' = [status EXCEPT ![x] = Verdict(op)]
    /\ claim' = [claim EXCEPT ![x] = Held(p, op, x)]
    /\ Return(p, op, x)
    /\ UNCHANGED <<bounds, stale, minted, history>>

\* reject's clean-up of an executing record: it looks, then resolves unscoped.
RejectLooks(p, x) ==
    /\ At(p, "reject", x, "stuck")
    /\ Goto(p, "reject", x, IF status[x] = "executing" THEN "force" ELSE "idle", 0)
    /\ UNCHANGED <<bounds, table, stale, minted, history>>

RejectForces(p, x) ==
    /\ At(p, "reject", x, "force")
    /\ IF CanResolve(x)
       THEN ResolvePending(x, "rejected") /\ forced' = forced \cup {x}
       ELSE UNCHANGED <<table, forced>>
    /\ Return(p, "reject", x)
    /\ UNCHANGED <<bounds, stale, minted, landed, denied, freed, dropped>>

------------------------------------------------------------------------------
(* release: an orphaned executing record goes back to the window.          *)

InFlight(p, x) == \E op \in {"approve", "reject"} :
    job[p][op][x].pc \notin {"idle", "sweep", "expire"}
\* Mutant: the liveness of a foreign holder is not probed.
HolderMayRun_own(p, n) == FALSE
HolderMayRun(p, n) == minted[n] # p /\ minted[n] \in up

ReleaseLooks(p, x) ==
    /\ At(p, "release", x, "look")
    /\ IF status[x] = "executing" THEN Goto(p, "release", x, "judge", claim[x])
                                  ELSE Return(p, "release", x)
    /\ UNCHANGED <<bounds, table, stale, minted, history>>

ReleaseJudges(p, x) ==
    /\ At(p, "release", x, "judge")
    /\ IF InFlight(p, x) \/ HolderMayRun(p, Held(p, "release", x))
       THEN Return(p, "release", x)
       ELSE Goto(p, "release", x, "free", Held(p, "release", x))
    /\ UNCHANGED <<bounds, table, stale, minted, history>>

ReleaseFrees(p, x) ==
    /\ At(p, "release", x, "free")
    /\ ReleasePendingClaim(x, Held(p, "release", x))
    /\ freed' = IF table' # table THEN freed \cup {Held(p, "release", x)} ELSE freed
    /\ Return(p, "release", x)
    /\ UNCHANGED <<bounds, stale, minted, landed, denied, forced, dropped>>

------------------------------------------------------------------------------
(* What goes wrong.                                                        *)

\* A store operation throws before it lands: the call ends, whatever claim it
\* holds stays on the record.
StoreThrows(p, op, x) ==
    /\ faults < MaxFaults /\ faults' = faults + 1
    /\ job[p][op][x].pc \notin {"idle", "run", "judge"}
    /\ dropped' = IF job[p][op][x].pc \in {"expire", "resolve", "giveback"}
                  THEN dropped \cup {Held(p, op, x)} ELSE dropped
    /\ Return(p, op, x)
    /\ UNCHANGED <<kind, table, stale, minted, up, landed, denied, freed, forced, calls>>

\* claimPending re-reads the table after its transaction and may throw there.
ClaimThrows(p, op, x) ==
    /\ faults < MaxFaults /\ faults' = faults + 1
    /\ job[p][op][x].pc \in {"claim", "sweep"} /\ CanClaim(x)
    /\ At(p, op, x, "sweep") => x \in stale
    /\ ClaimPending(p, x)
    /\ dropped' = dropped \cup {Len(minted')}
    /\ Return(p, op, x)
    /\ UNCHANGED <<kind, stale, up, landed, denied, freed, forced, calls>>

Crash(p) ==
    /\ p \in up /\ up' = up \ {p}
    /\ job' = [job EXCEPT ![p] = [op \in Ops |-> [x \in Records |-> Idle]]]
    /\ UNCHANGED <<kind, table, stale, minted, history, calls, faults>>

------------------------------------------------------------------------------

\* The next awaited operation of a call.
JobStep(p, op, x) ==
    \/ op \in {"approve", "expire"} /\
        (SweepSkips(p, op, x) \/ SweepClaims(p, op, x) \/ SweepCloses(p, op, x))
    \/ op \in {"approve", "reject"} /\
        (ClaimWon(p, op, x) \/ ClaimLost(p, op, x) \/ Giveback(p, op, x)
            \/ Resolve(p, op, x) \/ Audit(p, op, x))
    \/ op = "approve" /\ (RunnerLands(p, x) \/ RunnerFails(p, x))
    \/ op = "reject" /\ (RejectLooks(p, x) \/ RejectForces(p, x))
    \/ op = "release" /\ (ReleaseLooks(p, x) \/ ReleaseJudges(p, x) \/ ReleaseFrees(p, x))

Next ==
    \/ \E x \in Records : Stage(x) \/ Age(x)
    \/ \E p \in Procs, op \in Ops, x \in Records :
        Call(p, op, x) \/ JobStep(p, op, x) \/ StoreThrows(p, op, x) \/ ClaimThrows(p, op, x)
    \/ \E p \in Procs : Crash(p)

Spec == Init /\ [][Next]_vars

\* An awaited promise settles: the store answers or throws, the runner returns.
Fairness == \A p \in Procs, op \in Ops, x \in Records :
    WF_vars(JobStep(p, op, x) \/ StoreThrows(p, op, x) \/ ClaimThrows(p, op, x))

FairSpec == Spec /\ Fairness

------------------------------------------------------------------------------
(* Properties.                                                             *)

\* Every variable holds values of its kind.
TypeOK ==
    /\ kind \in [Records -> Kinds] /\ status \in [Records -> Status]
    /\ claim \in [Records -> Claims \cup {0}]
    /\ stale \subseteq Records /\ minted \in Seq(Procs) /\ up \subseteq Procs
    /\ calls \in 0..MaxCalls /\ faults \in 0..MaxFaults
    /\ landed \in [Records -> SUBSET Claims]
    /\ denied \subseteq Claims /\ freed \subseteq Claims /\ dropped \subseteq Claims /\ forced \subseteq Records
    /\ job \in [Procs -> [Ops -> [Records -> [pc : Stages, n : Claims \cup {0}]]]]

\* While a runner replays a record, the record is executing under that runner's
\* claim, so nobody else can run it; only the operator's unscoped reject may
\* have closed it meanwhile (index.ts:557-589, release 501-553).
RunnerHoldsClaim ==
    \A p \in Procs, x \in Records : At(p, "approve", x, "run") =>
        \/ status[x] = "executing" /\ claim[x] = Held(p, "approve", x)
        \/ status[x] = "rejected" /\ x \in forced

\* Why a claim under which the effect landed may be followed by another: an
\* operator released it, or its runner failed after the write.
Excused == freed \cup denied

\* "NEVER auto-replay an executing record": an effect lands a second time only
\* if the claim it landed under first is excused; crashes, overlapping calls,
\* sweeps and store failures replay nothing (index.ts:663-684, 710-743).
LandsOnce ==
    \A x \in Records : \A m, n \in landed[x] : m < n => m \in Excused

\* A record closed by reject's claim or by the TTL has not been executed under
\* any claim that is not excused: "WITHOUT executing" (index.ts:454-464, 596).
ClosedWithoutExecuting ==
    \A x \in Records : (status[x] = "rejected" /\ x \notin forced) => landed[x] \subseteq Excused

\* A record reads approved only if its effect has landed.
ApprovedHasLanded ==
    \A x \in Records :
        (kind[x] = "runnable" /\ status[x] = "approved") => landed[x] # {}

\* A decision is final, the unconditional audit write included.
DecisionIsFinal ==
    [][\A x \in Records : status[x] \in {"approved", "rejected"} => status'[x] = status[x]]_vars

\* Every claim is given back or resolved: a record stays executing only if the
\* claim's process died or a store operation of its call threw.
ClaimsEnd ==
    \A x \in Records : status[x] = "executing" ~>
        \/ status[x] # "executing"
        \/ claim[x] \in dropped
        \/ claim[x] # 0 /\ minted[claim[x]] \notin up
==============================================================================
