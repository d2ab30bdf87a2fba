--------------------------- MODULE Approval_proofs ---------------------------
(***************************************************************************)
(* Proofs about Approval for every set of processes and records and every  *)
(* bound.  The invariant is local to a record: what the calls on it hold   *)
(* (Claimants), what the table says of it (Tabled), what has landed        *)
(* (Effects).  An action on one record leaves the others' parts alone.     *)
(***************************************************************************)
EXTENDS Approval, TLAPS

Active    == {"run", "resolve", "giveback"}     \* between the claim and its end
Answering == Active \cup {"audit"}
Holding   == Answering \cup {"expire"}

Pc(p, o, x) == job[p][o][x].pc

\* The claim of a call is its own, minted by its process; a dead process runs
\* nothing.
Owned(x) == \A p \in Procs, o \in Ops :
    /\ Pc(p, o, x) \in Holding =>
         Held(p, o, x) \in Claims /\ minted[Held(p, o, x)] = p
    /\ p \notin up => Pc(p, o, x) = "idle"
    /\ Pc(p, o, x) \in Answering => o \in {"approve", "reject"}
    /\ Pc(p, o, x) = "run" => o = "approve"
\* No two calls hold one claim, one call at a time answers a record, and a
\* release past its checks has an abandoned claim.
Distinct(x) == \A p, q \in Procs, o, r \in Ops :
    Pc(p, o, x) \in Holding /\ Pc(q, r, x) \in Holding /\ Held(p, o, x) = Held(q, r, x)
        => p = q /\ o = r
Single(x) == \A p, q \in Procs, o, r \in Ops :
    Pc(p, o, x) \in Active /\ Pc(q, r, x) \in Active => p = q /\ o = r
Abandoned(x) == \A p, q \in Procs, o, r \in Ops :
    Pc(p, o, x) = "free" /\ Pc(q, r, x) \in Answering => Held(q, r, x) # Held(p, o, x)
Claimants(x) == Owned(x) /\ Distinct(x) /\ Single(x) /\ Abandoned(x)

\* The table agrees with the calls: a record under way is executing under
\* that call's claim, unless it was rejected without one.
Tabled(x) ==
    /\ status[x] \in {"none", "pending"} => claim[x] = 0
    /\ status[x] = "executing" => claim[x] \in Claims
    /\ \A p \in Procs, o \in Ops :
         /\ Pc(p, o, x) \in Active =>
              \/ status[x] = "executing" /\ claim[x] = Held(p, o, x)
              \/ status[x] = "rejected" /\ x \in forced
         /\ Pc(p, o, x) = "audit" => status[x] = Verdict(o) /\ claim[x] = Held(p, o, x)

\* An effect whose claim is not excused is that of the claim on the record.
Effects(x) ==
    /\ status[x] \in {"none", "pending"} => landed[x] \subseteq Excused
    /\ status[x] = "executing" => landed[x] \subseteq Excused \cup {claim[x]}
    /\ (status[x] = "rejected" /\ x \notin forced) => landed[x] \subseteq Excused
    /\ (kind[x] = "runnable" /\ status[x] = "approved") => landed[x] # {}
    /\ \A m, n \in landed[x] : m < n => m \in Excused
    /\ \A p \in Procs, o \in Ops :
         /\ Pc(p, o, x) = "run" => \A m \in landed[x] : m < Held(p, o, x) /\ m \in Excused
         /\ Pc(p, o, x) \in {"giveback", "expire"} => Held(p, o, x) \notin landed[x] \ denied
         /\ Pc(p, o, x) = "resolve" =>
              IF o = "reject" THEN Held(p, o, x) \notin landed[x] \ denied
              ELSE kind[x] = "runnable" => Held(p, o, x) \in landed[x]

RecordInv(x) == Claimants(x) /\ Tabled(x) /\ Effects(x)
Inv == TypeOK /\ \A x \in Records : RecordInv(x)

Jobs(S) == [Procs -> [Ops -> [Records -> [pc : Stages, n : S]]]]

\* Before the first write is staged nothing is under way.
LEMMA InitInv == Init => Inv
  <1> SUFFICES ASSUME Init PROVE Inv
    OBVIOUS
  <1>1. TypeOK
    BY ApprovalAssumption DEF Init, TypeOK, Status, Claims, Stages, Idle
  <1>2. ASSUME NEW x \in Records PROVE RecordInv(x)
    BY <1>2 DEF Init, RecordInv, Claimants, Owned, Distinct, Single, Abandoned, Tabled, Effects, Excused, Pc, Held, Idle, Active, Answering, Holding
  <1> QED
    BY <1>1, <1>2 DEF Inv

\* Only one call of a record moves: the others stand still.
Alone(p, o, x, pc, n) ==
    /\ Pc(p, o, x)' = pc /\ Held(p, o, x)' = n
    /\ \A q \in Procs, r \in Ops :
         <<q, r>> # <<p, o>> => Pc(q, r, x)' = Pc(q, r, x) /\ Held(q, r, x)' = Held(q, r, x)

\* No call on the record moves.
Still(x) == \A q \in Procs, r \in Ops :
    Pc(q, r, x)' = Pc(q, r, x) /\ Held(q, r, x)' = Held(q, r, x)

\* What a jump of one call does to the calls.
LEMMA GotoFacts ==
    ASSUME NEW p \in Procs, NEW o \in Ops, NEW x \in Records, NEW pc \in Stages,
           NEW S, NEW n \in S, Goto(p, o, x, pc, n), job \in Jobs(S)
    PROVE  job' \in Jobs(S) /\ Alone(p, o, x, pc, n) /\ \A y \in Records \ {x} : Still(y)
  BY DEF Goto, Pc, Held, Jobs, Alone, Still

\* A fresh claim is one more, minted by its process.
LEMMA MintFacts ==
    ASSUME NEW p \in Procs, minted \in Seq(Procs), minted' = Append(minted, p)
    PROVE  /\ minted' \in Seq(Procs) /\ Len(minted') = Len(minted) + 1
           /\ Claims \subseteq Claims' /\ Len(minted') \in Claims' /\ Len(minted') \notin Claims
           /\ \A n \in Claims : minted'[n] = minted[n] /\ n < Len(minted')
           /\ minted'[Len(minted')] = p
  BY DEF Claims

\* The part of a record that no call on it disturbs: its row and its effects
\* stand, claims are only added, releases only recorded, and each of its calls
\* stands still or lets go of what it held.
Quiet(x) ==
    /\ status'[x] = status[x] /\ claim'[x] = claim[x] /\ landed'[x] = landed[x]
    /\ kind' = kind /\ (x \in forced' <=> x \in forced) /\ freed \subseteq freed' /\ denied \subseteq denied'
    /\ Claims \subseteq Claims' /\ \A n \in Claims : minted'[n] = minted[n]
    /\ \A p \in Procs, o \in Ops :
         /\ \/ Pc(p, o, x)' = Pc(p, o, x) /\ Held(p, o, x)' = Held(p, o, x)
            \/ Pc(p, o, x)' \notin Holding \cup {"free"}
         /\ p \notin up' => Pc(p, o, x)' = "idle"

LEMMA QuietKeeps ==
    ASSUME NEW x \in Records, RecordInv(x), Quiet(x)
    PROVE  RecordInv(x)'
  <1> USE DEF RecordInv, Quiet, Pc, Held, Active, Answering, Holding
  <1>1. Claimants(x)'
    <2>1. Owned(x)' /\ Distinct(x)'
      BY DEF Claimants, Owned, Distinct
    <2>2. Single(x)' /\ Abandoned(x)'
      BY DEF Claimants, Single, Abandoned
    <2> QED
      BY <2>1, <2>2 DEF Claimants
  <1>2. Tabled(x)'
    BY DEF Tabled, Verdict
  <1>3. Effects(x)'
    BY DEF Effects, Excused
  <1> QED
    BY <1>1, <1>2, <1>3

\* A record is staged, or a call on it wins a claim: it was pending, so no
\* call answers it, and whatever landed on it is excused.
LEMMA StageKeeps ==
    ASSUME NEW x \in Records, TypeOK, RecordInv(x), Stage(x)
    PROVE  RecordInv(x)'
  <1> USE DEF Stage, TypeOK, RecordInv, Pc, Held, Active, Answering, Holding,
              bounds, history
  <1>0. Claims' = Claims
    BY DEF Claims
  <1>1. Claimants(x)'
    BY <1>0 DEF Claimants, Owned, Distinct, Single, Abandoned
  <1>2. Tabled(x)'
    BY <1>0 DEF Tabled, Verdict
  <1>3. Effects(x)'
    BY DEF Effects, Excused, Tabled
  <1> QED
    BY <1>1, <1>2, <1>3

\* What a step that claims x for a call leaves behind.
Won(p, o, x, pc, n) ==
    /\ CanClaim(x) /\ ClaimPending(p, x) /\ p \in up
    /\ \/ pc = "idle"
       \/ /\ pc \in {"expire"} \cup Active /\ n = Len(minted')
          /\ pc \in Active => o \in {"approve", "reject"}
          /\ pc = "run" => o = "approve"
          /\ pc = "resolve" => o = "reject" \/ kind[x] # "runnable"
    /\ Alone(p, o, x, pc, n)
    /\ UNCHANGED <<kind, landed, denied, freed, forced, up>>

LEMMA WonKeeps ==
    ASSUME NEW p \in Procs, NEW o \in Ops, NEW x \in Records, NEW pc, NEW n,
           TypeOK, RecordInv(x), Won(p, o, x, pc, n)
    PROVE  RecordInv(x)'
  <1> USE DEF RecordInv, Alone, Pc, Held, Active, Answering, Holding
  <1>0. /\ status[x] = "pending" /\ status'[x] = "executing"
        /\ claim'[x] = Len(minted') /\ Len(minted') \in Nat
        /\ Claims \subseteq Claims' /\ Len(minted') \in Claims' /\ Len(minted') \notin Claims
        /\ \A m \in Claims : minted'[m] = minted[m] /\ m < Len(minted')
        /\ minted'[Len(minted')] = p
        /\ landed[x] \subseteq Claims
    <2>1. minted \in Seq(Procs) /\ minted' = Append(minted, p)
      BY DEF Won, ClaimPending, TypeOK
    <2>2. status'[x] = "executing" /\ claim'[x] = Len(minted') /\ status[x] = "pending"
      BY DEF Won, ClaimPending, CanClaim, TypeOK
    <2>3. landed[x] \subseteq Claims
      BY DEF TypeOK
    <2> QED
      BY <2>1, <2>2, <2>3, MintFacts DEF Claims
  <1>t. \A q \in Procs, r \in Ops : Held(q, r, x) \in Claims \cup {0}
    BY DEF TypeOK
  <1>1. Claimants(x)'
    <2>1. \A q \in Procs, r \in Ops : Pc(q, r, x) \notin Active
      BY <1>0 DEF Tabled
    <2>2. Owned(x)'
      BY <1>0 DEF Claimants, Owned, Won
    <2>3. Distinct(x)'
      BY <1>0 DEF Claimants, Owned, Distinct, Won
    <2>4. Single(x)'
      BY <2>1 DEF Single, Won
    <2>5. Abandoned(x)'
      <3>1. \A q \in Procs, r \in Ops : Held(q, r, x) # Len(minted')
        BY <1>0, <1>t DEF Claims
      <3> QED
        BY <3>1 DEF Claimants, Abandoned, Won
    <2> QED
      BY <2>2, <2>3, <2>4, <2>5 DEF Claimants
  <1>2. Tabled(x)'
    BY <1>0 DEF Tabled, Won, Verdict
  <1>3. Effects(x)'
    <2>1. landed[x] \subseteq Excused /\ landed' = landed /\ freed' = freed /\ kind' = kind
      BY <1>0 DEF Effects, Excused, Won
    <2> QED
      BY <1>0, <2>1 DEF Effects, Excused, Won, Tabled
  <1> QED
    BY <1>1, <1>2, <1>3

\* The claims of a call that moves from one stage that holds them to another,
\* or lets go, stay its own.
LEMMA ClaimantsKept ==
    ASSUME NEW p \in Procs, NEW o \in Ops, NEW x \in Records, NEW pc, NEW n,
           Claimants(x), Alone(p, o, x, pc, n), minted' = minted, up' = up,
           \/ pc \notin Holding \cup {"free"} /\ (pc # "idle" => p \in up)
           \/ /\ Pc(p, o, x) \in Active /\ pc \in Answering \ {"run"} /\ n = Held(p, o, x)
    PROVE  Claimants(x)'
  <1> USE DEF Alone, Pc, Held, Active, Answering, Holding
  <1>0. Claims' = Claims
    BY DEF Claims
  <1>1. Owned(x)'
    BY <1>0 DEF Claimants, Owned
  <1>2. Distinct(x)'
    BY DEF Claimants, Distinct
  <1>3. Single(x)'
    BY DEF Claimants, Single
  <1>4. Abandoned(x)'
    BY DEF Claimants, Abandoned
  <1> QED
    BY <1>1, <1>2, <1>3, <1>4 DEF Claimants

\* The runner: its effect lands under the claim on the record, or nothing does.
LEMMA RunnerKeeps ==
    ASSUME NEW p \in Procs, NEW x \in Records, TypeOK, RecordInv(x),
           RunnerLands(p, x) \/ RunnerFails(p, x)
    PROVE  RecordInv(x)'
  <1> DEFINE n == Held(p, "approve", x)
  <1> USE DEF At, RecordInv
  <1>0. /\ Pc(p, "approve", x) = "run" /\ n \in Claims /\ "approve" \in Ops /\ p \in up
        /\ table' = table /\ UNCHANGED <<kind, minted, up, freed, forced>>
    BY DEF RunnerLands, RunnerFails, Pc, Claimants, Owned, Holding, Answering, Active, Ops,
           bounds, history
  <1>j. job \in Jobs(Claims \cup {0})
    BY DEF TypeOK, Jobs
  <1>1. \/ Alone(p, "approve", x, "resolve", n) /\ landed' = [landed EXCEPT ![x] = @ \cup {n}]
           /\ denied' = denied
        \/ /\ Alone(p, "approve", x, "giveback", n)
           /\ \/ UNCHANGED <<landed, denied>>
              \/ landed' = [landed EXCEPT ![x] = @ \cup {n}] /\ denied' = denied \cup {n}
    <2>1. CASE RunnerLands(p, x)
      <3>1. Goto(p, "approve", x, "resolve", n)
        BY <2>1 DEF RunnerLands
      <3> QED
        BY <2>1, <3>1, <1>0, <1>j, GotoFacts DEF RunnerLands, Stages
    <2>2. CASE RunnerFails(p, x)
      <3>1. Goto(p, "approve", x, "giveback", n)
        BY <2>2 DEF RunnerFails
      <3> QED
        BY <2>2, <3>1, <1>0, <1>j, GotoFacts DEF RunnerFails, Stages, history
    <2> QED
      BY <2>1, <2>2
  <1> HIDE DEF n
  <1>n. n = Held(p, "approve", x)
    BY DEF n
  <1>2. Claimants(x)'
    BY <1>0, <1>1, <1>n, ClaimantsKept DEF Active, Answering
  <1>3. Tabled(x)'
    BY <1>0, <1>1, <1>n DEF Tabled, Alone, Active, Pc, Held, Verdict, table, Claims
  <1>4. Effects(x)'
    <2>1. landed[x] \subseteq Excused /\ \A m \in landed[x] : m < n
      BY <1>0, <1>n DEF Effects, Excused
    <2>2. \/ status[x] = "executing" /\ claim[x] = n
          \/ status[x] = "rejected" /\ x \in forced
      BY <1>0, <1>n DEF Tabled, Active
    <2>3. \A q \in Procs, r \in Ops : <<q, r>> # <<p, "approve">> =>
            /\ Pc(q, r, x) \in Holding => Held(q, r, x) # n
            /\ Pc(q, r, x) \notin Active
      BY <1>0, <1>n DEF Claimants, Distinct, Single, Active, Answering, Holding
    <2>4. landed[x] \subseteq Claims /\ landed \in [Records -> SUBSET Claims]
      BY DEF TypeOK
    <2>5. \/ landed'[x] = landed[x] /\ denied' = denied
          \/ landed'[x] = landed[x] \cup {n} /\ denied' = denied
          \/ landed'[x] = landed[x] \cup {n} /\ denied' = denied \cup {n}
      BY <1>1, <2>4
    <2>6. Excused \subseteq Excused' /\ (n \in landed'[x] => Pc(p, "approve", x)' = "resolve" \/ n \in Excused')
      BY <1>0, <1>1, <2>1, <2>4, <2>5 DEF Excused, Alone, Pc
    <2>7. (\A m \in landed'[x] : m < n => m \in Excused') /\ (\A m \in landed'[x] : m <= n)
      BY <1>0, <2>1, <2>4, <2>5, <2>6 DEF Claims
    <2>8. \A l, m \in landed'[x] : l < m => l \in Excused'
      BY <1>0, <2>4, <2>5, <2>7 DEF Claims
    <2>9. /\ status'[x] \in {"none", "pending"} => landed'[x] \subseteq Excused'
          /\ status'[x] = "executing" => landed'[x] \subseteq Excused' \cup {claim'[x]}
          /\ (status'[x] = "rejected" /\ x \notin forced') => landed'[x] \subseteq Excused'
      BY <1>0, <2>1, <2>2, <2>5, <2>6 DEF table
    <2>10. (kind'[x] = "runnable" /\ status'[x] = "approved") => landed'[x] # {}
      BY <1>0, <2>2 DEF table
    <2>11. ASSUME NEW q \in Procs, NEW r \in Ops
           PROVE  /\ Pc(q, r, x)' = "run" => \A m \in landed'[x] : m < Held(q, r, x)' /\ m \in Excused'
                  /\ Pc(q, r, x)' \in {"giveback", "expire"} => Held(q, r, x)' \notin landed'[x] \ denied'
                  /\ Pc(q, r, x)' = "resolve" =>
                       IF r = "reject" THEN Held(q, r, x)' \notin landed'[x] \ denied'
                       ELSE kind'[x] = "runnable" => Held(q, r, x)' \in landed'[x]
      <3>1. CASE <<q, r>> = <<p, "approve">>
        <4>1. CASE Alone(p, "approve", x, "resolve", n) /\ landed'[x] = landed[x] \cup {n}
          BY <3>1, <4>1 DEF Alone
        <4>2. CASE /\ Alone(p, "approve", x, "giveback", n)
                   /\ \/ landed'[x] = landed[x]
                      \/ denied' = denied \cup {n}
          BY <3>1, <4>2, <1>0, <2>1, <2>4 DEF Alone, Claims
        <4> QED
          BY <1>1, <2>4, <4>1, <4>2
      <3>2. CASE <<q, r>> # <<p, "approve">>
        <4>1. Pc(q, r, x)' = Pc(q, r, x) /\ Held(q, r, x)' = Held(q, r, x) /\ Pc(q, r, x)' \notin Active
          BY <3>2, <1>1, <2>3 DEF Alone
        <4>2. CASE Pc(q, r, x) = "expire"
          <5>1. Held(q, r, x) # n /\ Held(q, r, x) \notin landed[x] \ denied
            BY <3>2, <4>2, <2>3, <1>0 DEF Effects, Holding
          <5> QED
            BY <4>1, <4>2, <5>1, <2>5
        <4> QED
          BY <4>1, <4>2 DEF Active
      <3> QED
        BY <3>1, <3>2
    <2> QED
      BY <2>8, <2>9, <2>10, <2>11 DEF Effects
  <1> QED
    BY <1>2, <1>3, <1>4

\* A claim that still applies is the claim of an executing record, and nobody
\* else answers that record.
LEMMA Sole ==
    ASSUME NEW p \in Procs, NEW o \in Ops, NEW x \in Records, RecordInv(x),
           Pc(p, o, x) \in Holding, Applies(x, Held(p, o, x))
    PROVE  /\ status[x] = "executing" /\ landed[x] \subseteq Excused \cup {Held(p, o, x)}
           /\ \A q \in Procs, r \in Ops : <<q, r>> # <<p, o>> => Pc(q, r, x) \notin Answering
           /\ Pc(p, o, x) # "audit"
  <1> USE DEF RecordInv, Applies, CanResolve
  <1>1. Held(p, o, x) \in Claims /\ claim[x] = Held(p, o, x)
    BY DEF Claimants, Owned
  <1>2. status[x] = "executing"
    BY <1>1 DEF Tabled, Claims
  <1>3. \A q \in Procs, r \in Ops : Pc(q, r, x) # "audit"
    BY <1>2 DEF Tabled, Verdict
  <1>4. ASSUME NEW q \in Procs, NEW r \in Ops, <<q, r>> # <<p, o>>, Pc(q, r, x) \in Active
        PROVE  FALSE
    <2>1. claim[x] = Held(q, r, x)
      BY <1>2, <1>4 DEF Tabled
    <2> QED
      BY <1>1, <1>4, <2>1 DEF Claimants, Distinct, Holding, Answering
  <1> QED
    BY <1>1, <1>2, <1>3, <1>4 DEF Effects, Excused, Answering

\* A call ends its claim: it closes the record, gives it back, or finds that
\* the claim no longer applies.
LEMMA EndKeeps ==
    ASSUME NEW p \in Procs, NEW o \in Ops, NEW x \in Records, NEW pc, NEW n,
           TypeOK, RecordInv(x), Pc(p, o, x) \in {"expire", "giveback"},
           Alone(p, o, x, pc, n), pc \in {"claim", "idle"},
           UNCHANGED <<kind, minted, up, landed, denied, freed, forced>>,
           \/ UNCHANGED table
           \/ /\ Applies(x, Held(p, o, x))
              /\ \/ status'[x] = "rejected" /\ claim'[x] = claim[x]
                 \/ status'[x] = "pending" /\ claim'[x] = 0
    PROVE  RecordInv(x)'
  <1> USE DEF RecordInv
  <1>0. Claims' = Claims
    BY DEF Claims
  <1>1. Claimants(x)'
    <2>1. p \in up
      BY DEF Claimants, Owned
    <2> QED
      BY <2>1, ClaimantsKept DEF Holding, Answering, Active
  <1>2. CASE UNCHANGED table
    <2>1. Tabled(x)'
      BY <1>0, <1>2 DEF Tabled, Alone, Pc, Held, table, Verdict, Active
    <2>2. Effects(x)'
      BY <1>2 DEF Effects, Excused, Alone, Pc, Held, table
    <2> QED
      BY <1>1, <2>1, <2>2
  <1>3. CASE Applies(x, Held(p, o, x)) /\ status'[x] = "rejected" /\ claim'[x] = claim[x]
    <2>0. Pc(p, o, x) \in Holding
      BY DEF Holding, Answering, Active
    <2>1. Tabled(x)'
      BY <1>0, <1>3, <2>0, Sole DEF Tabled, Alone, Pc, Held, Answering, Active
    <2>2. landed[x] \subseteq Excused
      BY <1>3, <2>0, Sole DEF Effects, Excused
    <2>3. Effects(x)'
      BY <1>3, <2>2 DEF Effects, Excused, Alone, Pc, Held
    <2> QED
      BY <1>1, <2>1, <2>3
  <1>4. CASE Applies(x, Held(p, o, x)) /\ status'[x] = "pending" /\ claim'[x] = 0
    <2>0. Pc(p, o, x) \in Holding
      BY DEF Holding, Answering, Active
    <2>1. Tabled(x)'
      BY <1>0, <1>4, <2>0, Sole DEF Tabled, Alone, Pc, Held, Answering, Active
    <2>2. landed[x] \subseteq Excused
      BY <1>4, <2>0, Sole DEF Effects, Excused
    <2>3. Effects(x)'
      BY <1>4, <2>2 DEF Effects, Excused, Alone, Pc, Held
    <2> QED
      BY <1>1, <2>1, <2>3
  <1> QED
    BY <1>2, <1>3, <1>4

\* The claim-scoped resolve: the decision is recorded over the effect, or the
\* claim is found gone.
LEMMA ResolveKeeps ==
    ASSUME NEW p \in Procs, NEW o \in {"approve", "reject"}, NEW x \in Records,
           TypeOK, RecordInv(x), Resolve(p, o, x)
    PROVE  RecordInv(x)'
  <1> DEFINE n == Held(p, o, x)
  <1> USE DEF RecordInv, At
  <1>0. /\ o \in Ops /\ Pc(p, o, x) = "resolve" /\ Claims' = Claims
        /\ UNCHANGED <<kind, minted, up, landed, denied, freed, forced>>
        /\ status \in [Records -> Status] /\ job \in Jobs(Claims \cup {0})
        /\ n \in Claims
    BY DEF Resolve, Pc, Ops, Claims, bounds, history, TypeOK, Jobs, Claimants, Owned,
           Holding, Answering, Active
  <1>1. CASE Applies(x, n)
    <2>1. Goto(p, o, x, "audit", n) /\ status' = [status EXCEPT ![x] = Verdict(o)] /\ claim' = claim
      BY <1>1 DEF Resolve, ResolvePending
    <2>2. Alone(p, o, x, "audit", n)
      BY <1>0, <2>1, GotoFacts DEF Stages
    <2>3. Pc(p, o, x) \in Holding
      BY <1>0 DEF Holding, Answering, Active
    <2>4. Claimants(x)'
      BY <1>0, <2>2, ClaimantsKept DEF Answering, Active
    <2>5. Tabled(x)'
      BY <1>0, <1>1, <2>1, <2>2, <2>3, Sole
         DEF Tabled, Applies, Alone, Pc, Held, Verdict, Answering, Active
    <2>6. Effects(x)'
      <3>1. landed[x] \subseteq Excused \cup {n}
        BY <1>0, <1>1, <2>3, Sole
      <3>2. IF o = "reject" THEN n \notin landed[x] \ denied ELSE kind[x] = "runnable" => n \in landed[x]
        BY <1>0 DEF Effects, Excused
      <3>3. status'[x] = IF o = "approve" THEN "approved" ELSE "rejected"
        BY <1>0, <2>1 DEF Verdict
      <3>4. IF o = "reject" THEN landed[x] \subseteq Excused ELSE kind[x] = "runnable" => landed[x] # {}
        BY <3>1, <3>2 DEF Excused
      <3>5. Excused' = Excused /\ UNCHANGED <<kind, landed, denied, forced>>
        BY <1>0 DEF Excused
      <3> QED
        BY <2>2, <3>3, <3>4, <3>5 DEF Effects, Alone, Pc, Held
    <2> QED
      BY <2>4, <2>5, <2>6
  <1>2. CASE ~Applies(x, n)
    <2>1. PICK pc \in {"idle", "giveback"}, m \in {0, n} :
            /\ Goto(p, o, x, pc, m)
            /\ (pc = "giveback" => m = n /\ o = "reject")
      BY <1>2 DEF Resolve, Return
    <2>2. Alone(p, o, x, pc, m)
      BY <1>0, <2>1, GotoFacts DEF Stages
    <2>3. table' = table
      BY <1>2 DEF Resolve
    <2>4. Claimants(x)'
      BY <1>0, <2>1, <2>2, ClaimantsKept DEF Holding, Answering, Active
    <2>5. Tabled(x)'
      BY <1>0, <2>1, <2>2, <2>3 DEF Tabled, Alone, Pc, Held, Verdict, Active, table
    <2>6. Effects(x)'
      BY <1>0, <2>1, <2>2, <2>3 DEF Effects, Excused, Alone, Pc, Held, table
    <2> QED
      BY <2>4, <2>5, <2>6
  <1> QED
    BY <1>1, <1>2

\* The audit write repeats the decision that is there.
LEMMA AuditKeeps ==
    ASSUME NEW p \in Procs, NEW o \in {"approve", "reject"}, NEW x \in Records,
           TypeOK, RecordInv(x), Audit(p, o, x)
    PROVE  RecordInv(x)' /\ table' = table
  <1> USE DEF RecordInv, At
  <1>0. /\ o \in Ops /\ Pc(p, o, x) = "audit" /\ Claims' = Claims
        /\ UNCHANGED <<kind, minted, up, landed, denied, freed, forced>>
        /\ status \in [Records -> Status] /\ claim \in [Records -> Claims \cup {0}]
        /\ job \in Jobs(Claims \cup {0})
    BY DEF Audit, Pc, Ops, Claims, bounds, history, TypeOK, Jobs
  <1>1. status[x] = Verdict(o) /\ claim[x] = Held(p, o, x)
    BY <1>0 DEF Tabled
  <1>2. table' = table
    BY <1>0, <1>1 DEF Audit, table
  <1>3. Alone(p, o, x, "idle", 0)
    <2>1. Goto(p, o, x, "idle", 0)
      BY DEF Audit, Return
    <2> QED
      BY <1>0, <2>1, GotoFacts DEF Stages
  <1>4. Claimants(x)'
    BY <1>0, <1>3, ClaimantsKept DEF Holding, Answering, Active
  <1>5. Tabled(x)'
    BY <1>0, <1>2, <1>3 DEF Tabled, Alone, Pc, Held, Verdict, Active, table
  <1>6. Effects(x)'
    BY <1>0, <1>2, <1>3 DEF Effects, Excused, Alone, Pc, Held, table
  <1> QED
    BY <1>2, <1>4, <1>5, <1>6

\* The unscoped reject closes the record under whoever holds it.
LEMMA ForceKeeps ==
    ASSUME NEW p \in Procs, NEW x \in Records,
           TypeOK, RecordInv(x), RejectForces(p, x)
    PROVE  RecordInv(x)'
  <1> USE DEF RecordInv, At
  <1>0. /\ "reject" \in Ops /\ Claims' = Claims
        /\ UNCHANGED <<kind, minted, up, landed, denied, freed>>
        /\ status \in [Records -> Status] /\ job \in Jobs(Claims \cup {0})
    BY DEF RejectForces, Ops, Claims, bounds, TypeOK, Jobs
  <1>1. Alone(p, "reject", x, "idle", 0)
    <2>1. Goto(p, "reject", x, "idle", 0)
      BY DEF RejectForces, Return
    <2> QED
      BY <1>0, <2>1, GotoFacts DEF Stages
  <1>2. Claimants(x)'
    BY <1>0, <1>1, ClaimantsKept DEF Holding, Answering, Active
  <1>3. CASE CanResolve(x)
    <2>1. status'[x] = "rejected" /\ claim' = claim /\ x \in forced'
      BY <1>0, <1>3 DEF RejectForces, ResolvePending
    <2>2. Tabled(x)'
      BY <1>0, <1>1, <1>3, <2>1 DEF Tabled, CanResolve, Alone, Pc, Held, Verdict, Active
    <2>3. Effects(x)'
      BY <1>0, <1>1, <2>1 DEF Effects, Excused, Alone, Pc, Held
    <2> QED
      BY <1>2, <2>2, <2>3
  <1>4. CASE ~CanResolve(x)
    <2>1. table' = table /\ forced' = forced
      BY <1>4 DEF RejectForces
    <2>2. Tabled(x)'
      BY <1>0, <1>1, <2>1 DEF Tabled, Alone, Pc, Held, Verdict, Active, table
    <2>3. Effects(x)'
      BY <1>0, <1>1, <2>1 DEF Effects, Excused, Alone, Pc, Held, table
    <2> QED
      BY <1>2, <2>2, <2>3
  <1> QED
    BY <1>3, <1>4

\* release lets a claim pass only if no call can still act under it: its
\* process is dead, or is this one and has nothing in flight on the record.
LEMMA JudgeKeeps ==
    ASSUME NEW p \in Procs, NEW x \in Records,
           TypeOK, RecordInv(x), ReleaseJudges(p, x)
    PROVE  RecordInv(x)'
  <1> DEFINE n == Held(p, "release", x)
  <1> USE DEF RecordInv, At
  <1>0. /\ "release" \in Ops /\ Pc(p, "release", x) = "judge" /\ Claims' = Claims
        /\ UNCHANGED <<kind, minted, up, landed, denied, freed, forced, table>>
        /\ job \in Jobs(Claims \cup {0}) /\ n \in Claims \cup {0} /\ p \in up
    <2>1. "release" \in Ops /\ Pc(p, "release", x) = "judge"
      BY DEF ReleaseJudges, Pc, Ops
    <2>2. UNCHANGED <<kind, minted, up, landed, denied, freed, forced, table>> /\ Claims' = Claims
      BY DEF ReleaseJudges, bounds, history, table, Claims
    <2>3. job \in Jobs(Claims \cup {0})
      BY DEF TypeOK, Jobs
    <2>4. n \in Claims \cup {0}
      BY <2>1, <2>3 DEF Jobs, Held
    <2>5. p \in up
      BY <2>1 DEF Claimants, Owned
    <2> QED
      BY <2>1, <2>2, <2>3, <2>4, <2>5
  <1>1. PICK pc \in {"idle", "free"}, m \in {0, n} :
          /\ Alone(p, "release", x, pc, m)
          /\ (pc = "free" => m = n /\ ~InFlight(p, x) /\ ~HolderMayRun(p, n))
    <2>1. PICK pc \in {"idle", "free"}, m \in {0, n} :
            /\ Goto(p, "release", x, pc, m)
            /\ (pc = "free" => m = n /\ ~InFlight(p, x) /\ ~HolderMayRun(p, n))
      BY DEF ReleaseJudges, Return
    <2> QED
      BY <1>0, <2>1, GotoFacts DEF Stages
  <1>2. Claimants(x)'
    <2>1. Owned(x)'
      BY <1>0, <1>1 DEF Claimants, Owned, Alone, Pc, Held, Holding, Answering, Active
    <2>2. Distinct(x)' /\ Single(x)'
      <3>1. Pc(p, "release", x)' \notin Holding
        BY <1>1 DEF Alone, Holding, Answering, Active
      <3>2. Distinct(x)'
        BY <1>0, <1>1, <3>1 DEF Claimants, Distinct, Alone, Pc, Held
      <3>3. Single(x)'
        BY <1>0, <1>1, <3>1 DEF Claimants, Single, Alone, Pc, Held, Holding, Answering
      <3> QED
        BY <3>2, <3>3
    <2>3. ASSUME NEW q \in Procs, NEW r \in Ops, Pc(q, r, x) \in Answering, Held(q, r, x) = n,
                 ~InFlight(p, x), ~HolderMayRun(p, n)
          PROVE  FALSE
      <3>1. minted[n] = q /\ q \in up /\ r \in {"approve", "reject"}
        BY <2>3 DEF Claimants, Owned, Holding, Answering, Active
      <3>2. q = p
        BY <2>3, <3>1 DEF HolderMayRun
      <3> QED
        BY <2>3, <3>1, <3>2 DEF InFlight, Pc, Answering, Active
    <2>4. Abandoned(x)'
      BY <1>0, <1>1, <2>3 DEF Claimants, Abandoned, Alone, Pc, Held, Answering, Active
    <2> QED
      BY <2>1, <2>2, <2>4 DEF Claimants
  <1>3. Tabled(x)'
    BY <1>0, <1>1 DEF Tabled, Alone, Pc, Held, Verdict, Active, table
  <1>4. Effects(x)'
    BY <1>0, <1>1 DEF Effects, Excused, Alone, Pc, Held, table
  <1> QED
    BY <1>2, <1>3, <1>4

\* release gives back a record nobody answers; whatever landed on it is freed.
LEMMA FreeKeeps ==
    ASSUME NEW p \in Procs, NEW x \in Records,
           TypeOK, RecordInv(x), ReleaseFrees(p, x)
    PROVE  RecordInv(x)' /\ freed' \subseteq freed \cup Claims
  <1> DEFINE n == Held(p, "release", x)
  <1> USE DEF RecordInv, At
  <1>0. /\ "release" \in Ops /\ Pc(p, "release", x) = "free" /\ Claims' = Claims
        /\ UNCHANGED <<kind, minted, up, landed, denied, forced>>
        /\ job \in Jobs(Claims \cup {0}) /\ n \in Claims \cup {0}
        /\ status \in [Records -> Status] /\ claim \in [Records -> Claims \cup {0}]
    <2>1. "release" \in Ops /\ Pc(p, "release", x) = "free"
      BY DEF ReleaseFrees, Pc, Ops
    <2>2. UNCHANGED <<kind, minted, up, landed, denied, forced>> /\ Claims' = Claims
      BY DEF ReleaseFrees, bounds, Claims
    <2>3. job \in Jobs(Claims \cup {0})
      BY DEF TypeOK, Jobs
    <2>4. n \in Claims \cup {0}
      BY <2>1, <2>3 DEF Jobs, Held
    <2>5. status \in [Records -> Status] /\ claim \in [Records -> Claims \cup {0}]
      BY DEF TypeOK
    <2> QED
      BY <2>1, <2>2, <2>3, <2>4, <2>5
  <1>1. Alone(p, "release", x, "idle", 0)
    <2>1. Goto(p, "release", x, "idle", 0)
      BY DEF ReleaseFrees, Return
    <2> QED
      BY <1>0, <2>1, GotoFacts DEF Stages
  <1>2. Claimants(x)'
    BY <1>0, <1>1, ClaimantsKept DEF Holding, Answering, Active
  <1>3. CASE table' = table
    <2>1. freed' = freed
      BY <1>3 DEF ReleaseFrees
    <2>2. Tabled(x)'
      BY <1>0, <1>1, <1>3 DEF Tabled, Alone, Pc, Held, Verdict, Active, table
    <2>3. Effects(x)'
      BY <1>0, <1>1, <1>3, <2>1 DEF Effects, Excused, Alone, Pc, Held, table
    <2> QED
      BY <1>2, <2>1, <2>2, <2>3
  <1>4. CASE table' # table
    <2>1. /\ claim[x] = n /\ CanResolve(x) /\ freed' = freed \cup {n}
          /\ status' = [status EXCEPT ![x] = "pending"] /\ claim' = [claim EXCEPT ![x] = 0]
      BY <1>4 DEF ReleaseFrees, ReleasePendingClaim
    <2>2. status[x] = "executing"
      <3>1. ASSUME status[x] = "pending" PROVE FALSE
        <4>1. claim[x] = 0
          BY <3>1 DEF Tabled
        <4>2. status' = status /\ claim' = claim
          BY <1>0, <2>1, <3>1, <4>1
        <4> QED
          BY <1>4, <4>2 DEF table
      <3> QED
        BY <2>1, <3>1 DEF CanResolve
    <2>3. n \in Claims
      BY <2>1, <2>2 DEF Tabled
    <2>4. \A q \in Procs, r \in Ops : Pc(q, r, x) \notin Answering
      <3>1. \A q \in Procs, r \in Ops : Pc(q, r, x) # "audit"
        BY <2>2 DEF Tabled, Verdict
      <3>2. \A q \in Procs, r \in Ops : Pc(q, r, x) \in Active => Held(q, r, x) = n
        BY <2>1, <2>2 DEF Tabled
      <3>3. \A q \in Procs, r \in Ops : Pc(q, r, x) \in Answering => Held(q, r, x) # n
        BY <1>0 DEF Claimants, Abandoned
      <3> QED
        BY <3>1, <3>2, <3>3 DEF Answering
    <2>5. status'[x] = "pending" /\ claim'[x] = 0
      BY <1>0, <2>1
    <2>6. Tabled(x)'
      BY <1>0, <1>1, <2>4, <2>5 DEF Tabled, Alone, Pc, Held, Answering, Active
    <2>7. landed[x] \subseteq Excused'
      BY <1>0, <2>1, <2>2 DEF Effects, Excused
    <2>8. Effects(x)'
      BY <1>0, <1>1, <2>1, <2>5, <2>7 DEF Effects, Excused, Alone, Pc, Held
    <2> QED
      BY <1>2, <2>1, <2>3, <2>6, <2>8
  <1> QED
    BY <1>3, <1>4

\* What a step of one call may touch: its own stage, the row and the effects
\* of its record, and the histories, which only grow.
Footprint(p, o, x) ==
    /\ \E pc \in Stages, n \in Claims' \cup {0} : Goto(p, o, x, pc, n)
    /\ status' = status \/ \E s \in Status : status' = [status EXCEPT ![x] = s]
    /\ claim' = claim \/ \E c \in Claims' \cup {0} : claim' = [claim EXCEPT ![x] = c]
    /\ minted' = minted \/ minted' = Append(minted, p)
    /\ landed' = landed \/ \E n \in Claims : landed' = [landed EXCEPT ![x] = @ \cup {n}]
    /\ freed \subseteq freed' /\ freed' \subseteq freed \cup Claims
    /\ denied \subseteq denied' /\ denied' \subseteq denied \cup Claims
    /\ forced' = forced \/ forced' = forced \cup {x}
    /\ dropped' \subseteq dropped \cup Claims'
    /\ calls' \in 0..MaxCalls /\ faults' \in 0..MaxFaults
    /\ UNCHANGED <<kind, stale, up>>

LEMMA StepFootprint ==
    ASSUME NEW p \in Procs, NEW o \in Ops, NEW x \in Records, TypeOK, RecordInv(x),
           Call(p, o, x) \/ JobStep(p, o, x) \/ StoreThrows(p, o, x) \/ ClaimThrows(p, o, x)
    PROVE  Footprint(p, o, x)
  <1> USE DEF At
  <1>t. /\ job \in Jobs(Claims \cup {0}) /\ minted \in Seq(Procs)
        /\ Held(p, o, x) \in Claims \cup {0} /\ claim[x] \in Claims \cup {0}
        /\ status \in [Records -> Status]
        /\ calls \in 0..MaxCalls /\ faults \in 0..MaxFaults
        /\ MaxCalls \in Nat /\ MaxFaults \in Nat
    <2>1. job \in Jobs(Claims \cup {0})
      BY DEF TypeOK, Jobs
    <2>2. Held(p, o, x) \in Claims \cup {0}
      BY <2>1 DEF Jobs, Held
    <2> QED
      BY <2>1, <2>2, ApprovalAssumption DEF TypeOK
  <1>c. minted' = minted => Claims' = Claims
    BY DEF Claims
  <1>m. ASSUME ClaimPending(p, x)
        PROVE  /\ minted' = Append(minted, p) /\ Len(minted') \in Claims'
               /\ status' = [status EXCEPT ![x] = "executing"]
               /\ claim' = [claim EXCEPT ![x] = Len(minted')]
    BY <1>m, <1>t, MintFacts DEF ClaimPending
  <1>1. CASE Call(p, o, x)
    BY <1>1, <1>t, <1>c DEF Call, Footprint, Stages, Ops, table, history
  <1>2. CASE JobStep(p, o, x)
    <2>1. CASE SweepSkips(p, o, x)
      BY <2>1, <1>t, <1>c DEF SweepSkips, Footprint, Stages, bounds, table, history
    <2>2. CASE SweepClaims(p, o, x)
      BY <2>2, <1>t, <1>m DEF SweepClaims, Footprint, Stages, Status, bounds, history
    <2>3. CASE SweepCloses(p, o, x)
      BY <2>3, <1>t, <1>c DEF SweepCloses, ResolvePending, Expired, Footprint, Stages, Status, bounds, table, history
    <2>4. CASE ClaimWon(p, o, x)
      BY <2>4, <1>t, <1>m DEF ClaimWon, AfterClaim, Footprint, Stages, Status, bounds, history
    <2>5. CASE ClaimLost(p, o, x)
      BY <2>5, <1>t, <1>c DEF ClaimLost, Footprint, Stages, bounds, table, history
    <2>6. CASE Giveback(p, o, x)
      BY <2>6, <1>t, <1>c DEF Giveback, Return, ReleasePendingClaim, Footprint, Stages, Status, bounds, table, history
    <2>7. CASE Resolve(p, o, x)
      BY <2>7, <1>t, <1>c DEF Resolve, Return, ResolvePending, Verdict, Footprint, Stages, Status, bounds, table, history
    <2>8. CASE Audit(p, o, x)
      BY <2>8, <1>t, <1>c DEF Audit, Return, Verdict, Footprint, Stages, Status, bounds, table, history
    <2>9. CASE o = "approve" /\ RunnerLands(p, x)
      <3>1. Held(p, o, x) \in Claims
        BY <2>9 DEF RunnerLands, RecordInv, Claimants, Owned, Pc, Holding, Answering, Active
      <3> QED
        BY <2>9, <3>1, <1>t, <1>c DEF RunnerLands, Footprint, Stages, bounds, table
    <2>10. CASE o = "approve" /\ RunnerFails(p, x)
      <3>1. Held(p, o, x) \in Claims
        BY <2>10 DEF RunnerFails, RecordInv, Claimants, Owned, Pc, Holding, Answering, Active
      <3> QED
        BY <2>10, <3>1, <1>t, <1>c DEF RunnerFails, Footprint, Stages, bounds, table
    <2>11. CASE o = "reject" /\ RejectLooks(p, x)
      BY <2>11, <1>t, <1>c DEF RejectLooks, Footprint, Stages, bounds, table, history
    <2>12. CASE o = "reject" /\ RejectForces(p, x)
      BY <2>12, <1>t, <1>c DEF RejectForces, Return, ResolvePending, Footprint, Stages, Status, bounds, table
    <2>13. CASE o = "release" /\ ReleaseLooks(p, x)
      BY <2>13, <1>t, <1>c DEF ReleaseLooks, Return, Footprint, Stages, bounds, table, history
    <2>14. CASE o = "release" /\ ReleaseJudges(p, x)
      BY <2>14, <1>t, <1>c DEF ReleaseJudges, Return, Footprint, Stages, bounds, table, history
    <2>15. CASE o = "release" /\ ReleaseFrees(p, x)
      <3>1. freed \subseteq freed' /\ freed' \subseteq freed \cup Claims
        BY <2>15, FreeKeeps DEF ReleaseFrees
      <3> QED
        BY <2>15, <3>1, <1>t, <1>c DEF ReleaseFrees, ReleasePendingClaim, Return, Footprint, Stages, Status, bounds, table
    <2> QED
      BY <1>2, <2>1, <2>2, <2>3, <2>4, <2>5, <2>6, <2>7, <2>8, <2>9, <2>10, <2>11, <2>12,
         <2>13, <2>14, <2>15 DEF JobStep
  <1>3. CASE StoreThrows(p, o, x)
    <2>1. job[p][o][x].pc \in {"expire", "resolve", "giveback"} => Held(p, o, x) \in Claims
      BY DEF RecordInv, Claimants, Owned, Pc, Holding, Answering, Active
    <2> QED
      BY <1>3, <2>1, <1>t, <1>c DEF StoreThrows, Return, Footprint, Stages, table
  <1>4. CASE ClaimThrows(p, o, x)
    BY <1>4, <1>t, <1>m DEF ClaimThrows, Return, Footprint, Stages, Status
  <1> QED
    BY <1>1, <1>2, <1>3, <1>4

\* The types survive a footprint.
LEMMA FootprintTypes ==
    ASSUME NEW p \in Procs, NEW o \in Ops, NEW x \in Records, TypeOK, Footprint(p, o, x)
    PROVE  TypeOK' /\ Claims \subseteq Claims' /\ \A n \in Claims : minted'[n] = minted[n]
  <1>1. minted' \in Seq(Procs) /\ Claims \subseteq Claims' /\ \A n \in Claims : minted'[n] = minted[n]
    <2>1. CASE minted' = minted
      BY <2>1 DEF TypeOK, Claims
    <2>2. CASE minted' = Append(minted, p)
      <3>1. minted \in Seq(Procs)
        BY DEF TypeOK
      <3> QED
        BY <2>2, <3>1, MintFacts
    <2> QED
      BY <2>1, <2>2 DEF Footprint
  <1>2. job' \in Jobs(Claims' \cup {0})
    <2>1. job \in Jobs(Claims' \cup {0})
      BY <1>1 DEF TypeOK, Jobs
    <2> QED
      BY <2>1, GotoFacts DEF Footprint
  <1>3. status' \in [Records -> Status]
    BY DEF TypeOK, Footprint
  <1>4. claim' \in [Records -> Claims' \cup {0}]
    <2>1. claim \in [Records -> Claims' \cup {0}]
      BY <1>1 DEF TypeOK
    <2> QED
      BY <2>1 DEF Footprint
  <1>5. landed' \in [Records -> SUBSET Claims']
    <2>1. landed \in [Records -> SUBSET Claims']
      BY <1>1 DEF TypeOK
    <2>2. ASSUME NEW n \in Claims, landed' = [landed EXCEPT ![x] = @ \cup {n}]
          PROVE  landed' \in [Records -> SUBSET Claims']
      <3>1. landed[x] \cup {n} \in SUBSET Claims'
        BY <1>1, <2>1
      <3> QED
        BY <2>1, <2>2, <3>1
    <2> QED
      BY <2>1, <2>2 DEF Footprint
  <1>6. denied' \subseteq Claims' /\ freed' \subseteq Claims' /\ dropped' \subseteq Claims' /\ forced' \subseteq Records
    BY <1>1 DEF TypeOK, Footprint
  <1>7. kind' \in [Records -> Kinds] /\ stale' \subseteq Records /\ up' \subseteq Procs
        /\ calls' \in 0..MaxCalls /\ faults' \in 0..MaxFaults
    BY DEF TypeOK, Footprint
  <1> QED
    BY <1>1, <1>2, <1>3, <1>4, <1>5, <1>6, <1>7 DEF TypeOK, Jobs

\* A footprint on one record is quiet on the others.
LEMMA FootprintElsewhere ==
    ASSUME NEW p \in Procs, NEW o \in Ops, NEW x \in Records, TypeOK, Footprint(p, o, x),
           NEW y \in Records \ {x}, RecordInv(y)
    PROVE  Quiet(y)
  <1>1. Claims \subseteq Claims' /\ \A n \in Claims : minted'[n] = minted[n]
    BY FootprintTypes
  <1>2. Still(y)
    <2>1. PICK pc \in Stages, n \in Claims' \cup {0} : Goto(p, o, x, pc, n)
      BY DEF Footprint
    <2>2. job \in Jobs(Claims' \cup {0})
      BY <1>1 DEF TypeOK, Jobs
    <2> QED
      BY <2>1, <2>2, GotoFacts
  <1>3. status'[y] = status[y] /\ claim'[y] = claim[y] /\ landed'[y] = landed[y]
    BY DEF Footprint, TypeOK
  <1>4. kind' = kind /\ up' = up /\ (y \in forced' <=> y \in forced) /\ freed \subseteq freed' /\ denied \subseteq denied'
    BY DEF Footprint
  <1>5. \A q \in Procs, r \in Ops : q \notin up => Pc(q, r, y) = "idle"
    BY DEF RecordInv, Claimants, Owned
  <1> QED
    BY <1>1, <1>2, <1>3, <1>4, <1>5 DEF Quiet, Still, Pc, Held

\* A call that neither holds a claim nor takes one leaves its record quiet.
LEMMA IdleStep ==
    ASSUME NEW p \in Procs, NEW o \in Ops, NEW x \in Records, TypeOK, RecordInv(x),
           NEW pc \in Stages \ (Holding \cup {"free"}), NEW n \in Claims \cup {0},
           p \in up, Goto(p, o, x, pc, n),
           UNCHANGED <<table, kind, minted, up, landed, denied, freed, forced>>
    PROVE  Quiet(x)
  <1>1. Alone(p, o, x, pc, n)
    <2>1. job \in Jobs(Claims \cup {0})
      BY DEF TypeOK, Jobs
    <2> QED
      BY <2>1, GotoFacts
  <1>2. \A q \in Procs, r \in Ops : q \notin up => Pc(q, r, x) = "idle"
    BY DEF RecordInv, Claimants, Owned
  <1> QED
    BY <1>1, <1>2 DEF Quiet, Alone, Pc, Held, table, Claims

\* Every step of a call keeps the invariant of its own record.
LEMMA OwnStep ==
    ASSUME NEW p \in Procs, NEW o \in Ops, NEW x \in Records, TypeOK, RecordInv(x),
           Call(p, o, x) \/ JobStep(p, o, x) \/ StoreThrows(p, o, x) \/ ClaimThrows(p, o, x)
    PROVE  RecordInv(x)'
  <1> USE DEF At
  <1>t. /\ job \in Jobs(Claims \cup {0}) /\ claim[x] \in Claims \cup {0}
        /\ minted \in Seq(Procs)
    BY DEF TypeOK, Jobs
  <1>u. job[p][o][x].pc # "idle" => p \in up
    BY DEF RecordInv, Claimants, Owned, Pc
  <1>w. ASSUME NEW pc \in Stages, NEW n, Goto(p, o, x, pc, n), CanClaim(x), ClaimPending(p, x),
               UNCHANGED <<kind, landed, denied, freed, forced, up>>, p \in up,
               \/ pc = "idle" /\ n = 0
               \/ /\ pc \in {"expire"} \cup Active /\ n = Len(minted')
                  /\ (pc \in Active => o \in {"approve", "reject"})
                  /\ (pc = "run" => o = "approve")
                  /\ (pc = "resolve" => o = "reject" \/ kind[x] # "runnable")
        PROVE  RecordInv(x)'
    <2>1. Claims \subseteq Claims' /\ Len(minted') \in Claims'
      BY <1>w, <1>t, MintFacts DEF ClaimPending
    <2>2. job \in Jobs(Claims' \cup {0})
      BY <1>t, <2>1 DEF Jobs
    <2>3. Alone(p, o, x, pc, n)
      BY <1>w, <2>1, <2>2, GotoFacts
    <2>4. Won(p, o, x, pc, n)
      BY <1>w, <2>3 DEF Won
    <2> QED
      BY <2>4, WonKeeps
  <1>i. ASSUME NEW pc \in {"idle", "sweep", "claim", "stuck", "force", "look", "judge"},
               NEW n \in Claims \cup {0}, p \in up, Goto(p, o, x, pc, n),
               UNCHANGED <<table, kind, minted, up, landed, denied, freed, forced>>
        PROVE  RecordInv(x)'
    <2>1. pc \in Stages \ (Holding \cup {"free"})
      BY DEF Stages, Holding, Answering, Active
    <2>2. Quiet(x)
      BY <1>i, <2>1, IdleStep
    <2> QED
      BY <2>2, QuietKeeps
  <1>e. ASSUME NEW pc \in {"claim", "idle"}, Goto(p, o, x, pc, 0),
               Pc(p, o, x) \in {"expire", "giveback"},
               UNCHANGED <<kind, minted, up, landed, denied, freed, forced>>,
               \/ UNCHANGED table
               \/ /\ Applies(x, Held(p, o, x))
                  /\ \/ status'[x] = "rejected" /\ claim'[x] = claim[x]
                     \/ status'[x] = "pending" /\ claim'[x] = 0
        PROVE  RecordInv(x)'
    <2>1. Alone(p, o, x, pc, 0)
      BY <1>e, <1>t, GotoFacts DEF Stages
    <2> QED
      BY <1>e, <2>1, EndKeeps
  <1>1. CASE Call(p, o, x)
    BY <1>1, <1>i DEF Call, table, history, Ops
  <1>2. CASE JobStep(p, o, x)
    <2>1. CASE SweepSkips(p, o, x)
      BY <2>1, <1>i, <1>u DEF SweepSkips, bounds, table, history
    <2>2. CASE SweepClaims(p, o, x)
      BY <2>2, <1>w, <1>u DEF SweepClaims, Stages, Active, bounds, history
    <2>3. CASE SweepCloses(p, o, x)
      <3>1. /\ Pc(p, o, x) = "expire" /\ UNCHANGED <<kind, minted, up, landed, denied, freed, forced>>
            /\ \E pc \in {"claim", "idle"} : Goto(p, o, x, pc, 0)
        BY <2>3 DEF SweepCloses, Pc, bounds, history
      <3>2. \/ UNCHANGED table
            \/ Applies(x, Held(p, o, x)) /\ status'[x] = "rejected" /\ claim'[x] = claim[x]
        BY <2>3 DEF SweepCloses, ResolvePending, Expired, TypeOK
      <3> QED
        BY <3>1, <3>2, <1>e
    <2>4. CASE o \in {"approve", "reject"} /\ ClaimWon(p, o, x)
      BY <2>4, <1>w, <1>u DEF ClaimWon, AfterClaim, Stages, Active, bounds, history
    <2>5. CASE ClaimLost(p, o, x)
      BY <2>5, <1>i, <1>u DEF ClaimLost, bounds, table, history
    <2>6. CASE Giveback(p, o, x)
      <3>1. /\ Pc(p, o, x) = "giveback" /\ UNCHANGED <<kind, minted, up, landed, denied, freed, forced>>
            /\ Goto(p, o, x, "idle", 0)
        BY <2>6 DEF Giveback, Return, Pc, bounds, history
      <3>2. \/ UNCHANGED table
            \/ Applies(x, Held(p, o, x)) /\ status'[x] = "pending" /\ claim'[x] = 0
        BY <2>6 DEF Giveback, ReleasePendingClaim, Applies, TypeOK
      <3> QED
        BY <3>1, <3>2, <1>e
    <2>7. CASE o \in {"approve", "reject"} /\ Resolve(p, o, x)
      BY <2>7, ResolveKeeps
    <2>8. CASE o \in {"approve", "reject"} /\ Audit(p, o, x)
      BY <2>8, AuditKeeps
    <2>9. CASE o = "approve" /\ (RunnerLands(p, x) \/ RunnerFails(p, x))
      BY <2>9, RunnerKeeps
    <2>10. CASE o = "reject" /\ RejectLooks(p, x)
      BY <2>10, <1>i, <1>u DEF RejectLooks, bounds, table, history
    <2>11. CASE o = "reject" /\ RejectForces(p, x)
      BY <2>11, ForceKeeps
    <2>12. CASE o = "release" /\ ReleaseLooks(p, x)
      BY <2>12, <1>i, <1>u, <1>t DEF ReleaseLooks, Return, bounds, table, history
    <2>13. CASE o = "release" /\ ReleaseJudges(p, x)
      BY <2>13, JudgeKeeps
    <2>14. CASE o = "release" /\ ReleaseFrees(p, x)
      BY <2>14, FreeKeeps
    <2> QED
      BY <1>2, <2>1, <2>2, <2>3, <2>4, <2>5, <2>6, <2>7, <2>8, <2>9, <2>10, <2>11, <2>12,
         <2>13, <2>14 DEF JobStep
  <1>3. CASE StoreThrows(p, o, x)
    BY <1>3, <1>i, <1>u DEF StoreThrows, Return, table
  <1>4. CASE ClaimThrows(p, o, x)
    BY <1>4, <1>w, <1>u DEF ClaimThrows, Return, Stages
  <1> QED
    BY <1>1, <1>2, <1>3, <1>4

\* Every step keeps the invariant of every record.
LEMMA InvStep == Inv /\ [Next]_vars => Inv'
  <1> SUFFICES ASSUME Inv, [Next]_vars PROVE Inv'
    OBVIOUS
  <1>0. TypeOK /\ \A y \in Records : RecordInv(y)
    BY DEF Inv
  <1>1. ASSUME NEW p \in Procs, NEW o \in Ops, NEW x \in Records,
               Call(p, o, x) \/ JobStep(p, o, x) \/ StoreThrows(p, o, x) \/ ClaimThrows(p, o, x)
        PROVE  Inv'
    <2>1. Footprint(p, o, x)
      BY <1>0, <1>1, StepFootprint
    <2>2. TypeOK'
      BY <1>0, <2>1, FootprintTypes
    <2>3. RecordInv(x)'
      BY <1>0, <1>1, OwnStep
    <2>4. ASSUME NEW y \in Records \ {x} PROVE RecordInv(y)'
      <3>1. Quiet(y)
        BY <1>0, <2>1, FootprintElsewhere
      <3> QED
        BY <1>0, <3>1, QuietKeeps
    <2> QED
      BY <2>2, <2>3, <2>4 DEF Inv
  <1>2. ASSUME NEW x \in Records, Stage(x) PROVE Inv'
    <2>1. TypeOK'
      BY <1>0, <1>2 DEF Stage, TypeOK, Status, Claims, bounds, history
    <2>2. RecordInv(x)'
      BY <1>0, <1>2, StageKeeps
    <2>3. ASSUME NEW y \in Records \ {x} PROVE RecordInv(y)'
      <3>1. \A q \in Procs, r \in Ops : q \notin up => Pc(q, r, y) = "idle"
        BY <1>0 DEF RecordInv, Claimants, Owned
      <3>2. Quiet(y)
        BY <1>0, <1>2, <3>1 DEF Stage, TypeOK, Quiet, Pc, Held, Claims, bounds, history
      <3> QED
        BY <1>0, <3>2, QuietKeeps
    <2> QED
      BY <2>1, <2>2, <2>3 DEF Inv
  <1>3. ASSUME NEW x \in Records, Age(x) PROVE Inv'
    <2>1. TypeOK'
      BY <1>0, <1>3 DEF Age, TypeOK, Claims, bounds, table, history
    <2>2. ASSUME NEW y \in Records PROVE RecordInv(y)'
      <3>1. \A q \in Procs, r \in Ops : q \notin up => Pc(q, r, y) = "idle"
        BY <1>0 DEF RecordInv, Claimants, Owned
      <3>2. Quiet(y)
        BY <1>3, <3>1 DEF Age, Quiet, Pc, Held, Claims, bounds, table, history
      <3> QED
        BY <1>0, <3>2, QuietKeeps
    <2> QED
      BY <2>1, <2>2 DEF Inv
  <1>4. ASSUME NEW p \in Procs, Crash(p) PROVE Inv'
    <2>0. /\ job' = [job EXCEPT ![p] = [o \in Ops |-> [x \in Records |-> Idle]]]
          /\ up' = up \ {p} /\ UNCHANGED <<kind, table, stale, minted, history, calls, faults>>
      BY <1>4 DEF Crash
    <2>1. TypeOK'
      <3>1. [o \in Ops |-> [x \in Records |-> Idle]]
              \in [Ops -> [Records -> [pc : Stages, n : Claims \cup {0}]]]
        BY DEF Idle, Stages
      <3> QED
        BY <1>0, <2>0, <3>1 DEF TypeOK, Claims, table, history
    <2>2. ASSUME NEW y \in Records PROVE RecordInv(y)'
      <3>1. \A q \in Procs, r \in Ops : q \notin up => Pc(q, r, y) = "idle"
        BY <1>0 DEF RecordInv, Claimants, Owned
      <3>2. \A q \in Procs, r \in Ops :
              IF q = p THEN Pc(q, r, y)' = "idle"
              ELSE Pc(q, r, y)' = Pc(q, r, y) /\ Held(q, r, y)' = Held(q, r, y)
        BY <1>0, <2>0 DEF TypeOK, Pc, Held, Idle
      <3>3. Quiet(y)
        BY <2>0, <3>1, <3>2 DEF Quiet, Pc, Held, Claims, table, history, Holding, Answering, Active
      <3> QED
        BY <1>0, <3>3, QuietKeeps
    <2> QED
      BY <2>1, <2>2 DEF Inv
  <1>5. ASSUME UNCHANGED vars PROVE Inv'
    <2>1. TypeOK'
      BY <1>0, <1>5 DEF vars, TypeOK, Claims
    <2>2. ASSUME NEW y \in Records PROVE RecordInv(y)'
      <3>1. \A q \in Procs, r \in Ops : q \notin up => Pc(q, r, y) = "idle"
        BY <1>0 DEF RecordInv, Claimants, Owned
      <3>2. Quiet(y)
        BY <1>5, <3>1 DEF vars, Quiet, Pc, Held, Claims
      <3> QED
        BY <1>0, <3>2, QuietKeeps
    <2> QED
      BY <2>1, <2>2 DEF Inv
  <1> QED
    BY <1>1, <1>2, <1>3, <1>4, <1>5 DEF Next

\* Every reachable state has typed variables and keeps each record's invariant.
THEOREM Invariance == Spec => []Inv
  BY InitInv, InvStep, PTL DEF Spec

\* Every variable holds values of its kind; claims are those minted.
THEOREM TypeCorrect == Spec => []TypeOK
  <1>1. Inv => TypeOK
    BY DEF Inv
  <1> QED
    BY <1>1, Invariance, PTL

\* Whatever the processes, records and calls, a runner runs alone: its record
\* is executing under its claim unless an unscoped reject closed it.
THEOREM RunsAlone == Spec => []RunnerHoldsClaim
  <1>1. Inv => RunnerHoldsClaim
    BY DEF Inv, RecordInv, Tabled, RunnerHoldsClaim, At, Pc, Active, Ops
  <1> QED
    BY <1>1, Invariance, PTL

\* A staged write is replayed again only after its claim was released or its
\* runner failed with the write done.
THEOREM ReplayedOnce == Spec => []LandsOnce
  <1>1. Inv => LandsOnce
    BY DEF Inv, RecordInv, Effects, Excused, LandsOnce
  <1> QED
    BY <1>1, Invariance, PTL

\* A record closed by a reject under a claim, or by its expiry, was executed
\* under no claim but those released or given back by a failing runner.
THEOREM ClosedUnexecuted == Spec => []ClosedWithoutExecuting
  <1>1. Inv => ClosedWithoutExecuting
    BY DEF Inv, RecordInv, Effects, Excused, ClosedWithoutExecuting
  <1> QED
    BY <1>1, Invariance, PTL

\* What reads approved has been executed.
THEOREM ApprovedExecuted == Spec => []ApprovedHasLanded
  <1>1. Inv => ApprovedHasLanded
    BY DEF Inv, RecordInv, Effects, Excused, ApprovedHasLanded
  <1> QED
    BY <1>1, Invariance, PTL

\* A step leaves a decided record as it is.
LEMMA DecidedStays ==
    ASSUME Inv, [Next]_vars, NEW x \in Records, status[x] \in {"approved", "rejected"}
    PROVE  status'[x] = status[x]
  <1>0. TypeOK /\ RecordInv(x) /\ status \in [Records -> Status]
    BY DEF Inv, TypeOK
  <1>1. ASSUME NEW p \in Procs, NEW o \in Ops, NEW y \in Records,
               Call(p, o, y) \/ JobStep(p, o, y) \/ StoreThrows(p, o, y) \/ ClaimThrows(p, o, y)
        PROVE  status'[x] = status[x]
    <2>1. CASE y # x
      <3>1. Footprint(p, o, y)
        BY <1>1, StepFootprint DEF Inv
      <3> QED
        BY <1>0, <2>1, <3>1 DEF Footprint
    <2>2. CASE y = x
      <3>1. ~CanClaim(x) /\ ~CanResolve(x)
        BY DEF CanClaim, CanResolve
      <3>2. CASE o \in {"approve", "reject"} /\ Audit(p, o, x)
        BY <1>0, <3>2, AuditKeeps DEF table
      <3>3. CASE ~(o \in {"approve", "reject"} /\ Audit(p, o, x))
        BY <1>1, <2>2, <3>1, <3>3
           DEF Call, JobStep, SweepSkips, SweepClaims, SweepCloses, ClaimWon, ClaimLost,
               Giveback, Resolve, RunnerLands, RunnerFails, RejectLooks, RejectForces,
               ReleaseLooks, ReleaseJudges, ReleaseFrees, ReleasePendingClaim, Applies,
               StoreThrows, ClaimThrows, table
      <3> QED
        BY <3>2, <3>3
    <2> QED
      BY <2>1, <2>2
  <1>2. ASSUME NEW y \in Records, Stage(y) \/ Age(y) PROVE status'[x] = status[x]
    BY <1>0, <1>2 DEF Stage, Age, table
  <1>3. ASSUME NEW p \in Procs, Crash(p) PROVE status'[x] = status[x]
    BY <1>3 DEF Crash, table
  <1>4. ASSUME UNCHANGED vars PROVE status'[x] = status[x]
    BY <1>4 DEF vars
  <1> QED
    BY <1>1, <1>2, <1>3, <1>4 DEF Next

\* A decision is final, the unconditional audit write included.
THEOREM DecidedForGood == Spec => DecisionIsFinal
  <1>1. Inv /\ [Next]_vars =>
          \A x \in Records : status[x] \in {"approved", "rejected"} => status'[x] = status[x]
    BY DecidedStays
  <1> QED
    BY <1>1, Invariance, PTL DEF Spec, DecisionIsFinal
=============================================================================
