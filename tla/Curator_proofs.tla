--------------------------- MODULE Curator_proofs ---------------------------
(***************************************************************************)
(* Proofs about Curator for any number of instances, calls and skills.     *)
(***************************************************************************)
EXTENDS Curator, SequenceTheorems, TLAPS

\* The types, a pause is never without a record, and an operator's call has its
\* argument.
Typed ==
    /\ TypeOK /\ (record.paused => record.seeded)
    /\ \A t \in Calls : call[t].pc \in {"asked", "moved"} => call[t].arg # <<>>

\* Phases under the tree lock, and those in the mutex's chain.
Applying == {"archive", "merge", "fold", "unlock"}
InMutex  == Applying \cup {"queued", "asked", "moved"}
Asking   == {"queued", "asked"}

\* The chain of an instance holds its calls that are in the mutex, each once;
\* only its head is past asking.
InChain(i) ==
    /\ \A j, k \in DOMAIN chain[i] : chain[i][j] = chain[i][k] => j = k
    /\ \A k \in DOMAIN chain[i] :
         /\ Home[chain[i][k]] = i /\ call[chain[i][k]].pc \in InMutex
         /\ k # 1 => call[chain[i][k]].pc \in Asking
Mutexed ==
    /\ \A i \in Instances : InChain(i)
    /\ \A t \in Calls : call[t].pc \in InMutex => \E k \in DOMAIN chain[Home[t]] : chain[Home[t]][k] = t

\* Who holds the tree lock applies, a pass runs under its instance's claim, and
\* an operator's call is none.
Role(t) ==
    /\ lock = t <=> call[t].pc \in Applying
    /\ IF t \in Passes THEN call[t].pc \notin {"asked", "moved"}
       ELSE call[t].pc \in {"idle", "asked", "moved"}
    /\ t \in Passes /\ ~At(t, "idle") => claim[Home[t]] = t
Roles == \A t \in Calls : Role(t)

Ordered == Typed /\ Mutexed /\ Roles

------------------------------------------------------------------------------
(* Types.                                                                  *)

LEMMA JudgedTyped == ASSUME NEW r \in Record PROVE Judged(r) \in States
  BY DEF Judged, Record, States

LEMMA SeededTyped ==
    ASSUME NEW u \in [Skills -> Record]
    PROVE  Seeded(u) \in [Skills -> Record] /\ Transited(u) \in [Skills -> Record]
  <1>1. \A s \in Skills : u[s] \in Record
    OBVIOUS
  <1>2. \A r \in Record : [r EXCEPT !.state = Judged(r)] \in Record
    BY JudgedTyped DEF Record
  <1>3. Transited(u) \in [Skills -> Record]
    BY <1>1, <1>2 DEF Transited
  <1>4. /\ \A r \in Record : [r EXCEPT !.state = "active"] \in Record
        /\ [state |-> "active", age |-> "fresh"] \in Record
    BY DEF Record, States, Ages
  <1>5. Seeded(u) \in [Skills -> Record]
    BY <1>1, <1>4 DEF Seeded
  <1> QED
    BY <1>3, <1>5

LEMMA IdleTyped ==
    /\ NoWork \in Work /\ NoWork.pc = "idle" /\ NoWork.landed = {}
    /\ NoUse \in Record
  BY DEF NoWork, NoUse, Work, Record, States, Ages, Args

LEMMA SubjectTyped ==
    ASSUME Typed, NEW t \in Calls, call[t].pc \in {"asked", "moved"}
    PROVE  Subject(t) \in Skills
  <1>1. call[t].arg \in {<<s>> : s \in Skills} \cup (Skills \X Skills)
    BY DEF Typed, TypeOK, Work, Args
  <1> QED
    BY <1>1 DEF Subject

\* What a move tells the other calls.
LEMMA MoveTyped ==
    ASSUME call \in [Calls -> Work], NEW t \in Calls, NEW S \in SUBSET Skills
    PROVE  /\ Move(t, S) \in [Calls -> Work] /\ Move(t, S)[t] = call[t]
           /\ \A u \in Calls : \/ Move(t, S)[u] = call[u] /\ (u = t \/ At(u, "idle"))
                               \/ Move(t, S)[u] = [call[u] EXCEPT !.moved = @ \cup S]
  <1>1. \A u \in Calls : [call[u] EXCEPT !.moved = @ \cup S] \in Work
    <2> SUFFICES ASSUME NEW u \in Calls PROVE [call[u] EXCEPT !.moved = @ \cup S] \in Work
      OBVIOUS
    <2>1. call[u] \in Work /\ call[u].moved \cup S \in SUBSET Skills
      BY DEF Work
    <2> QED
      BY <2>1 DEF Work
  <1> QED
    BY <1>1 DEF Move

\* The chain of a call's instance loses its head or takes one more call.
LEMMA ChainTyped ==
    ASSUME TypeOK, NEW t \in Calls
    PROVE  /\ Home[t] \in Instances
           /\ [chain EXCEPT ![Home[t]] = Append(@, t)] \in [Instances -> Seq(Calls)]
           /\ Holds(t) => Left(t) \in [Instances -> Seq(Calls)]
  <1>1. Home[t] \in Instances /\ chain[Home[t]] \in Seq(Calls)
    BY CallsAssumption DEF TypeOK
  <1>2. Append(chain[Home[t]], t) \in Seq(Calls)
    BY <1>1, AppendProperties
  <1>3. Holds(t) => Tail(chain[Home[t]]) \in Seq(Calls)
    BY <1>1, HeadTailProperties DEF Holds
  <1> QED
    BY <1>1, <1>2, <1>3 DEF TypeOK, Left

LEMMA InitTyped == Init => Typed
  <1> SUFFICES ASSUME Init PROVE Typed
    OBVIOUS
  <1>1. \A i \in Instances : <<>> \in Seq(Calls)
    BY EmptySeq
  <1>2. chain \in [Instances -> Seq(Calls)] /\ call \in [Calls -> Work] /\ usage \in [Skills -> Record]
    BY <1>1, IdleTyped DEF Init
  <1>3. claim \in [Instances -> Calls \cup {NoCall}] /\ lock \in Calls \cup {NoCall, Merge}
    BY DEF Init
  <1>4. \A t \in Calls : call[t].pc = "idle"
    BY IdleTyped DEF Init
  <1>5. /\ live \subseteq Skills /\ gone \subseteq Instances /\ busy \in BOOLEAN
        /\ record \in [seeded : BOOLEAN, paused : BOOLEAN, due : BOOLEAN] /\ ~record.paused
    BY DEF Init
  <1>6. faults \in 0 .. MaxFaults /\ manual \in 0 .. MaxManual /\ days \in 0 .. MaxDays
    BY CallsAssumption DEF Init
  <1> QED
    BY <1>2, <1>3, <1>4, <1>5, <1>6 DEF Typed, TypeOK

\* One call changes.
LEMMA CallTyped ==
    ASSUME Typed, NEW t \in Calls, NEW w \in Work,
           w.pc \in {"asked", "moved"} => w.arg # <<>>,
           call' = [call EXCEPT ![t] = w]
    PROVE  /\ call' \in [Calls -> Work]
           /\ \A u \in Calls : call'[u].pc \in {"asked", "moved"} => call'[u].arg # <<>>
  <1>1. call \in [Calls -> Work]
    BY DEF Typed, TypeOK
  <1>2. call'[t] = w /\ \A u \in Calls \ {t} : call'[u] = call[u]
    BY <1>1
  <1> QED
    BY <1>1, <1>2 DEF Typed

LEMMA PassStartTyped ==
    ASSUME Typed, NEW t \in Calls, NEW auto \in BOOLEAN, PassStart(t, auto)
    PROVE  Typed'
  <1> DEFINE w == [NoWork EXCEPT !.auto = auto,
                       !.pc = IF auto /\ ~record.seeded THEN "defer" ELSE "load"]
  <1>1. w \in Work /\ w.pc \notin {"asked", "moved"}
    BY IdleTyped DEF Work
  <1>2. call' = [call EXCEPT ![t] = w]
    BY DEF PassStart
  <1> HIDE DEF w
  <1>3. /\ call' \in [Calls -> Work]
        /\ \A u \in Calls : call'[u].pc \in {"asked", "moved"} => call'[u].arg # <<>>
    BY <1>1, <1>2, CallTyped
  <1> QED
    BY <1>3, CallsAssumption DEF PassStart, Typed, TypeOK

\* A call goes on.
LEMMA GotoTyped ==
    ASSUME Typed, NEW t \in Calls, NEW l \in {"snapped", "queued", "fold", "unlock", "book"}, Goto(t, l)
    PROVE  /\ call' \in [Calls -> Work]
           /\ \A u \in Calls : call'[u].pc \in {"asked", "moved"} => call'[u].arg # <<>>
  <1> DEFINE w == [call[t] EXCEPT !.pc = l]
  <1>1. call \in [Calls -> Work]
    BY DEF Typed, TypeOK
  <1>2. w \in Work /\ w.pc = l /\ call' = [call EXCEPT ![t] = w]
    BY <1>1 DEF Goto, Work
  <1> HIDE DEF w
  <1> QED
    BY <1>2, CallTyped

\* A call ends.
LEMMA EndedTyped ==
    ASSUME Typed, NEW t \in Calls, call' = Ended(t)
    PROVE  /\ call' \in [Calls -> Work]
           /\ \A u \in Calls : call'[u].pc \in {"asked", "moved"} => call'[u].arg # <<>>
  BY IdleTyped, CallTyped DEF Ended

LEMMA EndPassTyped ==
    ASSUME Typed, NEW t \in Calls, EndPass(t)
    PROVE  /\ call' \in [Calls -> Work]
           /\ \A u \in Calls : call'[u].pc \in {"asked", "moved"} => call'[u].arg # <<>>
           /\ claim' \in [Instances -> Calls \cup {NoCall}]
  <1>1. claim' \in [Instances -> Calls \cup {NoCall}]
    BY DEF EndPass, Typed, TypeOK
  <1> QED
    BY <1>1, EndedTyped DEF EndPass
\* What Typed says of a step that leaves most variables alone.
LEMMA TypedStays ==
    ASSUME Typed, call' \in [Calls -> Work],
           \A u \in Calls : call'[u].pc \in {"asked", "moved"} => call'[u].arg # <<>>,
           live' \subseteq Skills, usage' \in [Skills -> Record],
           record' \in [seeded : BOOLEAN, paused : BOOLEAN, due : BOOLEAN],
           record'.paused => record'.seeded,
           claim' \in [Instances -> Calls \cup {NoCall}], chain' \in [Instances -> Seq(Calls)],
           lock' \in Calls \cup {NoCall, Merge},
           UNCHANGED <<busy, gone, manual, days>>,
           faults' = faults \/ (faults' = faults + 1 /\ faults < MaxFaults)
    PROVE  Typed'
  <1>1. faults' \in 0 .. MaxFaults
    BY CallsAssumption DEF Typed, TypeOK
  <1> QED
    BY <1>1 DEF Typed, TypeOK

LEMMA DeferTyped == ASSUME Typed, NEW t \in Calls, Defer(t) PROVE Typed'
  <1>1. record' \in [seeded : BOOLEAN, paused : BOOLEAN, due : BOOLEAN] /\ (record'.paused => record'.seeded)
    BY DEF Typed, TypeOK, Defer
  <1> QED
    BY <1>1, EndPassTyped, TypedStays DEF Typed, TypeOK, Defer, bound

LEMMA LoadTyped == ASSUME Typed, NEW t \in Calls, Load(t) PROVE Typed'
  <1> DEFINE w == [call[t] EXCEPT !.pc = "list", !.seen = usage, !.start = usage]
  <1>1. w \in Work /\ w.pc = "list"
    <2>1. call[t] \in Work /\ usage \in [Skills -> Record]
      BY DEF Typed, TypeOK
    <2> QED
      BY <2>1 DEF Work
  <1>2. \/ EndPass(t)
        \/ call' = [call EXCEPT ![t] = w] /\ claim' = claim
    BY DEF Load
  <1> HIDE DEF w
  <1>3. /\ call' \in [Calls -> Work]
        /\ \A u \in Calls : call'[u].pc \in {"asked", "moved"} => call'[u].arg # <<>>
        /\ claim' \in [Instances -> Calls \cup {NoCall}]
    BY <1>1, <1>2, EndPassTyped, CallTyped DEF Typed, TypeOK
  <1> QED
    BY <1>3, TypedStays DEF Typed, TypeOK, Load, bound

\* What a pass knows once it has judged the tree.
LEMMA ComputeWork ==
    ASSUME Typed, NEW t \in Calls, Compute(t)
    PROVE  \E w \in Work :
             /\ call' = [call EXCEPT ![t] = w] /\ w.pc = "check" /\ w.tree = live
             /\ w.seen = Transited(Seeded(call[t].seen)) /\ w.start = call[t].start
             /\ w.landed = call[t].landed /\ w.moved = call[t].moved
             /\ \A s \in Skills :
                  w.seen[s].state = "archived" /\ Seeded(call[t].seen)[s].state # "archived"
                  => s \in w.cand
  <1> DEFINE base == Seeded(call[t].seen)
             next == Transited(base)
             stale == {s \in Skills : next[s].state = "stale" /\ base[s].state = "active"}
             expired == {s \in Skills : next[s].state = "archived" /\ base[s].state # "archived"}
             pairs == {q \in live \X live : q[1] # q[2]}
  <1>1. call[t] \in Work /\ live \in SUBSET Skills
    BY DEF Typed, TypeOK
  <1>2. base \in [Skills -> Record] /\ next \in [Skills -> Record]
    BY <1>1, SeededTyped DEF Work
  <1>3. PICK prune \in SUBSET stale, merge \in {{}} \cup {{q} : q \in pairs} :
          call' = [call EXCEPT ![t].pc = "check", ![t].tree = live, ![t].seen = next,
                               ![t].cand = expired \cup prune, ![t].noms = merge]
    BY DEF Compute
  <1>4. expired \cup prune \in SUBSET Skills /\ merge \in SUBSET (Skills \X Skills)
    <2>1. pairs \subseteq Skills \X Skills
      BY <1>1
    <2>2. expired \subseteq Skills /\ stale \subseteq Skills
      OBVIOUS
    <2> HIDE DEF pairs, expired, stale
    <2>3. merge \in SUBSET (Skills \X Skills)
      BY <1>3, <2>1
    <2> QED
      BY <1>3, <2>2, <2>3
  <1>5. \A s \in Skills : next[s].state = "archived" /\ base[s].state # "archived" => s \in expired
    OBVIOUS
  <1> HIDE DEF base, next, stale, expired, pairs
  <1> DEFINE w == [call[t] EXCEPT !.pc = "check", !.tree = live, !.seen = next,
                                  !.cand = expired \cup prune, !.noms = merge]
  <1>6. w \in Work
    BY <1>1, <1>2, <1>4 DEF Work
  <1>7. /\ w.pc = "check" /\ w.tree = live /\ w.seen = next /\ w.start = call[t].start
        /\ w.landed = call[t].landed /\ w.moved = call[t].moved /\ w.cand = expired \cup prune
    BY <1>1 DEF Work
  <1>8. call' = [call EXCEPT ![t] = w]
    BY <1>3
  <1> HIDE DEF w
  <1>9. w.seen = Transited(Seeded(call[t].seen))
    BY <1>7 DEF base, next
  <1>10. \A s \in Skills : w.seen[s].state = "archived" /\ Seeded(call[t].seen)[s].state # "archived"
                           => s \in w.cand
    BY <1>5, <1>7 DEF base
  <1> QED
    BY <1>6, <1>7, <1>8, <1>9, <1>10

LEMMA ComputeTyped == ASSUME Typed, NEW t \in Calls, Compute(t) PROVE Typed'
  <1>1. /\ call' \in [Calls -> Work]
        /\ \A u \in Calls : call'[u].pc \in {"asked", "moved"} => call'[u].arg # <<>>
    BY ComputeWork, CallTyped
  <1> QED
    BY <1>1, TypedStays DEF Typed, TypeOK, Compute, locks, bound

LEMMA BlockedTyped == ASSUME Typed, NEW t \in Calls, Blocked(t) PROVE Typed'
  <1>1. usage' \in [Skills -> Record]
    BY DEF Typed, TypeOK, Blocked, Work
  <1> QED
    BY <1>1, EndPassTyped, TypedStays DEF Typed, TypeOK, Blocked, bound

LEMMA GoingTyped ==
    ASSUME Typed, NEW t \in Calls, Snapshot(t) \/ AcquireMutex(t)
    PROVE  Typed'
  <1>1. chain' \in [Instances -> Seq(Calls)]
    BY ChainTyped DEF Snapshot, AcquireMutex, Typed, TypeOK, locks
  <1>2. Goto(t, "snapped") \/ Goto(t, "queued")
    BY DEF Snapshot, AcquireMutex
  <1>3. /\ call' \in [Calls -> Work]
        /\ \A u \in Calls : call'[u].pc \in {"asked", "moved"} => call'[u].arg # <<>>
    BY <1>2, GotoTyped
  <1> QED
    BY <1>1, <1>3, TypedStays DEF Typed, TypeOK, Snapshot, AcquireMutex, locks, bound

LEMMA LockTreeTyped == ASSUME Typed, NEW t \in Calls, LockTree(t) PROVE Typed'
  <1> DEFINE w == [call[t] EXCEPT !.pc = IF Disposed(t) THEN "unlock" ELSE "archive",
                                  !.aborted = Disposed(t)]
  <1>1. call[t] \in Work /\ Disposed(t) \in BOOLEAN
    BY DEF Typed, TypeOK, Disposed
  <1>2. w \in Work /\ w.pc \in {"unlock", "archive"}
    BY <1>1 DEF Work
  <1>3. call' = [call EXCEPT ![t] = w]
    BY DEF LockTree
  <1> HIDE DEF w
  <1>4. /\ call' \in [Calls -> Work]
        /\ \A u \in Calls : call'[u].pc \in {"asked", "moved"} => call'[u].arg # <<>>
    BY <1>2, <1>3, CallTyped
  <1> QED
    BY <1>4, TypedStays DEF Typed, TypeOK, LockTree, bound

LEMMA LockBusyTyped == ASSUME Typed, NEW t \in Calls, LockBusy(t) PROVE Typed'
  <1>1. chain' \in [Instances -> Seq(Calls)]
    BY ChainTyped DEF LockBusy, Typed
  <1> QED
    BY <1>1, EndPassTyped, TypedStays DEF Typed, TypeOK, LockBusy, bound

\* A candidate the pass is done with, and the state it has in the pass's map.
Verdict(t, s, st, w) ==
    /\ call' = [call EXCEPT ![t] = w] /\ w.pc = call[t].pc
    /\ w.start = call[t].start /\ w.tree = call[t].tree /\ w.moved = call[t].moved
    /\ w.landed = call[t].landed /\ w.cand = call[t].cand \ {s}
    /\ w.seen[s].state = st /\ \A r \in Skills \ {s} : w.seen[r] = call[t].seen[r]

LEMMA VerdictWork ==
    ASSUME Typed, NEW t \in Calls, NEW s \in Skills, NEW st \in States,
           call' = [call EXCEPT ![t].cand = @ \ {s}, ![t].seen[s].state = st]
    PROVE  \E w \in Work : Verdict(t, s, st, w)
  <1> DEFINE w == [call[t] EXCEPT !.cand = @ \ {s}, !.seen[s].state = st]
  <1>1. call[t] \in Work /\ call[t].seen \in [Skills -> Record] /\ call[t].seen[s] \in Record
    BY DEF Typed, TypeOK, Work
  <1>2. /\ [call[t].seen EXCEPT ![s].state = st] \in [Skills -> Record]
        /\ [call[t].seen EXCEPT ![s].state = st][s].state = st
        /\ \A r \in Skills \ {s} : [call[t].seen EXCEPT ![s].state = st][r] = call[t].seen[r]
    BY <1>1 DEF Record
  <1>3. w \in Work
    BY <1>1, <1>2 DEF Work
  <1>4. /\ w.pc = call[t].pc /\ w.start = call[t].start /\ w.tree = call[t].tree
        /\ w.moved = call[t].moved /\ w.landed = call[t].landed /\ w.cand = call[t].cand \ {s}
        /\ w.seen = [call[t].seen EXCEPT ![s].state = st]
    BY <1>1 DEF Work
  <1>5. call' = [call EXCEPT ![t] = w]
    OBVIOUS
  <1> HIDE DEF w
  <1>6. Verdict(t, s, st, w)
    BY <1>2, <1>4, <1>5 DEF Verdict
  <1> QED
    BY <1>3, <1>6

LEMMA OriginTyped ==
    ASSUME Typed, NEW t \in Calls, NEW s \in Skills
    PROVE  Origin(t, s) \in States \ {"archived"}
  <1>1. call[t].seen[s] \in Record
    BY DEF Typed, TypeOK, Work
  <1> QED
    BY <1>1 DEF Origin, States, Record

LEMMA FoldMissingTyped ==
    ASSUME Typed, NEW t \in Calls, NEW s \in Skills, FoldMissing(t, s)
    PROVE  Typed'
  <1>1. call' = [call EXCEPT ![t].cand = @ \ {s}, ![t].seen[s].state = "archived"] /\ call[t].pc = "archive"
    BY DEF FoldMissing, At
  <1>a. PICK w \in Work : Verdict(t, s, "archived", w)
    <2>1. "archived" \in States
      BY DEF States
    <2> QED
      BY <1>1, <2>1, VerdictWork
  <1>2. call' = [call EXCEPT ![t] = w] /\ w.pc = "archive"
    BY <1>1, <1>a DEF Verdict
  <1>3. /\ call' \in [Calls -> Work]
        /\ \A u \in Calls : call'[u].pc \in {"asked", "moved"} => call'[u].arg # <<>>
    BY <1>2, CallTyped
  <1> QED
    BY <1>3, TypedStays DEF Typed, TypeOK, FoldMissing, locks, bound

LEMMA RefusedTyped ==
    ASSUME Typed, NEW t \in Calls, NEW s \in Skills, ArchiveRefused(t, s)
    PROVE  Typed'
  <1>1. /\ call' = [call EXCEPT ![t].cand = @ \ {s}, ![t].seen[s].state = Origin(t, s)]
        /\ call[t].pc = "archive"
    BY DEF ArchiveRefused, Refused, At
  <1>a. PICK w \in Work : Verdict(t, s, Origin(t, s), w)
    <2>1. PICK st \in States : st = Origin(t, s)
      BY OriginTyped
    <2>2. call' = [call EXCEPT ![t].cand = @ \ {s}, ![t].seen[s].state = st]
      BY <1>1, <2>1
    <2> QED
      BY <2>1, <2>2, VerdictWork
  <1>2. call' = [call EXCEPT ![t] = w] /\ w.pc = "archive"
    BY <1>1, <1>a DEF Verdict
  <1>3. /\ call' \in [Calls -> Work]
        /\ \A u \in Calls : call'[u].pc \in {"asked", "moved"} => call'[u].arg # <<>>
    BY <1>2, CallTyped
  <1> QED
    BY <1>3, TypedStays DEF Typed, TypeOK, ArchiveRefused, locks

\* A step that moves a skill and changes its own call's locals.
LEMMA MovingTyped ==
    ASSUME Typed, NEW t \in Calls, NEW S \in SUBSET Skills, NEW w \in Work,
           w.pc \in {"asked", "moved"} => w.arg # <<>>,
           call' = [Move(t, S) EXCEPT ![t] = w]
    PROVE  /\ call' \in [Calls -> Work] /\ call'[t] = w
           /\ \A u \in Calls : call'[u].pc \in {"asked", "moved"} => call'[u].arg # <<>>
           /\ \A u \in Calls \ {t} : \/ call'[u] = call[u] /\ At(u, "idle")
                                     \/ call'[u] = [call[u] EXCEPT !.moved = @ \cup S]
  <1>1. call \in [Calls -> Work]
    BY DEF Typed, TypeOK
  <1> DEFINE c == Move(t, S)
  <1>2. /\ c \in [Calls -> Work]
        /\ \A u \in Calls : \/ c[u] = call[u] /\ (u = t \/ At(u, "idle"))
                            \/ c[u] = [call[u] EXCEPT !.moved = @ \cup S]
    BY <1>1, MoveTyped
  <1> HIDE DEF c
  <1>3. call' = [c EXCEPT ![t] = w]
    BY DEF c
  <1>4. call' \in [Calls -> Work] /\ call'[t] = w /\ \A u \in Calls \ {t} : call'[u] = c[u]
    BY <1>2, <1>3
  <1>5. \A u \in Calls \ {t} : \/ call'[u] = call[u] /\ At(u, "idle")
                               \/ call'[u] = [call[u] EXCEPT !.moved = @ \cup S]
    BY <1>2, <1>4
  <1>6. \A u \in Calls \ {t} : call'[u].pc = call[u].pc /\ call'[u].arg = call[u].arg
    <2> SUFFICES ASSUME NEW u \in Calls \ {t}
                 PROVE  call'[u].pc = call[u].pc /\ call'[u].arg = call[u].arg
      OBVIOUS
    <2>1. call[u] \in Work
      BY <1>1
    <2>2. CASE call'[u] = call[u]
      BY <2>2
    <2>3. CASE call'[u] = [call[u] EXCEPT !.moved = @ \cup S]
      BY <2>1, <2>3 DEF Work
    <2> QED
      BY <1>5, <2>2, <2>3
  <1> QED
    BY <1>4, <1>5, <1>6 DEF Typed

\* The pass moves a skill out of the tree.
Lands(t, s, w) ==
    /\ s \in live /\ live' = live \ {s}
    /\ call' = [Move(t, {s}) EXCEPT ![t] = w]
    /\ w.start = call[t].start /\ w.tree = call[t].tree /\ w.moved = call[t].moved
    /\ w.landed = call[t].landed \cup {s}
    /\ w.seen[s].state = "archived" /\ \A r \in Skills \ {s} : w.seen[r] = call[t].seen[r]

Landing(t, s, l, C) == [call[t] EXCEPT !.pc = l, !.cand = C, !.seen[s].state = "archived",
                                       !.landed = @ \cup {s}]

LEMMA LandingWork ==
    ASSUME Typed, NEW t \in Calls, NEW s \in Skills, NEW l \in {"archive", "fold"}, NEW C \in SUBSET Skills,
           s \in live, live' = live \ {s}, call' = [Move(t, {s}) EXCEPT ![t] = Landing(t, s, l, C)]
    PROVE  \E w \in Work : w.pc = l /\ w.cand = C /\ Lands(t, s, w)
  <1> DEFINE w == Landing(t, s, l, C)
  <1>1. /\ call[t] \in Work /\ call[t].seen \in [Skills -> Record] /\ call[t].seen[s] \in Record
        /\ call[t].landed \cup {s} \in SUBSET Skills
    BY DEF Typed, TypeOK, Work
  <1>2. /\ [call[t].seen EXCEPT ![s].state = "archived"] \in [Skills -> Record]
        /\ [call[t].seen EXCEPT ![s].state = "archived"][s].state = "archived"
        /\ \A r \in Skills \ {s} : [call[t].seen EXCEPT ![s].state = "archived"][r] = call[t].seen[r]
    BY <1>1 DEF Record, States
  <1>3. w \in Work
    BY <1>1, <1>2 DEF Work, Landing
  <1>4. /\ w.pc = l /\ w.cand = C /\ w.start = call[t].start /\ w.tree = call[t].tree
        /\ w.moved = call[t].moved /\ w.landed = call[t].landed \cup {s}
        /\ w.seen = [call[t].seen EXCEPT ![s].state = "archived"]
    BY <1>1 DEF Work, Landing
  <1> HIDE DEF w
  <1>5. call' = [Move(t, {s}) EXCEPT ![t] = w]
    BY DEF w
  <1>6. Lands(t, s, w)
    BY <1>2, <1>4, <1>5 DEF Lands
  <1> QED
    BY <1>3, <1>4, <1>6

LEMMA ArchiveSkillWork ==
    ASSUME Typed, NEW t \in Calls, NEW s \in Skills, ArchiveSkill(t, s)
    PROVE  \E w \in Work : w.pc = "archive" /\ w.cand = call[t].cand \ {s} /\ Lands(t, s, w)
  <1> DEFINE c == Move(t, {s})
             C == call[t].cand \ {s}
             w == Landing(t, s, "archive", C)
  <1>1. call[t] \in Work /\ call[t].pc = "archive" /\ C \in SUBSET Skills
    BY DEF Typed, TypeOK, ArchiveSkill, At, Work
  <1>2. c[t] = call[t] /\ c \in [Calls -> Work]
    BY MoveTyped DEF Typed, TypeOK
  <1>3. call' = [c EXCEPT ![t].cand = @ \ {s}, ![t].seen[s].state = "archived",
                          ![t].landed = @ \cup {s}]
    BY DEF ArchiveSkill
  <1>4. call' = [c EXCEPT ![t] = w]
    <2>1. w = [call[t] EXCEPT !.cand = call[t].cand \ {s}, !.seen[s].state = "archived",
                              !.landed = @ \cup {s}]
      BY <1>1 DEF Work, Landing
    <2> HIDE DEF c, w
    <2> QED
      BY <1>2, <1>3, <2>1
  <1>5. s \in live /\ live' = live \ {s}
    BY DEF ArchiveSkill
  <1>6. \E v \in Work : v.pc = "archive" /\ v.cand = C /\ Lands(t, s, v)
    <2> HIDE DEF C
    <2> QED
      BY <1>1, <1>4, <1>5, LandingWork
  <1> QED
    BY <1>6

\* A consolidation moves its source, or the pass goes on without.
LEMMA ConsolidateWork ==
    ASSUME Typed, NEW t \in Calls, Consolidate(t)
    PROVE  \/ Goto(t, "fold") /\ live' = live
           \/ \E s \in Skills, w \in Work : w.pc = "fold" /\ w.cand = call[t].cand /\ Lands(t, s, w)
  <1>1. CASE Goto(t, "fold") /\ live' = live
    BY <1>1
  <1>2. ASSUME NEW q \in call[t].noms, q[1] \notin call[t].landed, Mergeable(q), live' = live \ {q[1]},
               call' = [Move(t, {q[1]}) EXCEPT ![t].pc = "fold", ![t].seen[q[1]].state = "archived",
                                               ![t].landed = @ \cup {q[1]}]
        PROVE  \E s \in Skills, w \in Work : w.pc = "fold" /\ w.cand = call[t].cand /\ Lands(t, s, w)
    <2>1. PICK s : s = q[1]
      OBVIOUS
    <2>2. s \in live /\ s \in Skills /\ live' = live \ {s}
      BY <1>2, <2>1 DEF Mergeable, Typed, TypeOK
    <2> DEFINE c == Move(t, {s})
               C == call[t].cand
               w == Landing(t, s, "fold", C)
    <2>3. c[t] = call[t] /\ c \in [Calls -> Work] /\ call[t] \in Work /\ C \in SUBSET Skills
      <3>1. call \in [Calls -> Work] /\ {s} \in SUBSET Skills
        BY <2>2 DEF Typed, TypeOK
      <3>2. call[t] \in Work /\ call[t].cand \in SUBSET Skills
        BY <3>1 DEF Work
      <3> QED
        BY <3>1, <3>2, MoveTyped
    <2>4. call' = [c EXCEPT ![t].pc = "fold", ![t].seen[s].state = "archived",
                            ![t].landed = @ \cup {s}]
      BY <1>2, <2>1
    <2>5. call' = [c EXCEPT ![t] = w]
      <3>1. w = [call[t] EXCEPT !.pc = "fold", !.seen[s].state = "archived", !.landed = @ \cup {s}]
        BY <2>3 DEF Work, Landing
      <3> HIDE DEF c, w
      <3> QED
        BY <2>3, <2>4, <3>1
    <2>6. \E v \in Work : v.pc = "fold" /\ v.cand = C /\ Lands(t, s, v)
      <3> HIDE DEF C
      <3> QED
        BY <2>2, <2>3, <2>5, LandingWork
    <2> QED
      BY <2>2, <2>6
  <1> QED
    BY <1>1, <1>2 DEF Consolidate

LEMMA LandsTyped ==
    ASSUME Typed, NEW t \in Calls, NEW s \in Skills, NEW w \in Work, w.pc \in {"archive", "fold"},
           Lands(t, s, w)
    PROVE  /\ call' \in [Calls -> Work] /\ live' \subseteq Skills
           /\ \A u \in Calls : call'[u].pc \in {"asked", "moved"} => call'[u].arg # <<>>
  <1>1. call' = [Move(t, {s}) EXCEPT ![t] = w] /\ {s} \in SUBSET Skills /\ live' \subseteq Skills
    BY DEF Lands, Typed, TypeOK
  <1> QED
    BY <1>1, MovingTyped

LEMMA ArchiveSkillTyped ==
    ASSUME Typed, NEW t \in Calls, NEW s \in Skills, ArchiveSkill(t, s)
    PROVE  Typed'
  <1>1. /\ call' \in [Calls -> Work] /\ live' \subseteq Skills
        /\ \A u \in Calls : call'[u].pc \in {"asked", "moved"} => call'[u].arg # <<>>
    BY ArchiveSkillWork, LandsTyped
  <1> QED
    BY <1>1, TypedStays DEF Typed, TypeOK, ArchiveSkill, locks, bound

LEMMA ConsolidateTyped == ASSUME Typed, NEW t \in Calls, Consolidate(t) PROVE Typed'
  <1>1. /\ call' \in [Calls -> Work] /\ live' \subseteq Skills
        /\ \A u \in Calls : call'[u].pc \in {"asked", "moved"} => call'[u].arg # <<>>
    BY ConsolidateWork, LandsTyped, GotoTyped DEF Typed, TypeOK
  <1> QED
    BY <1>1, TypedStays DEF Typed, TypeOK, Consolidate, locks

LEMMA ArchivedTyped == ASSUME Typed, NEW t \in Calls, Archived(t) PROVE Typed'
  <1> DEFINE w == [call[t] EXCEPT !.pc = IF Disposed(t) THEN "fold" ELSE "merge",
                                  !.aborted = Disposed(t)]
  <1>1. call[t] \in Work /\ Disposed(t) \in BOOLEAN
    BY DEF Typed, TypeOK, Disposed
  <1>2. w \in Work /\ w.pc \in {"fold", "merge"}
    BY <1>1 DEF Work
  <1>3. call' = [call EXCEPT ![t] = w]
    BY DEF Archived
  <1> HIDE DEF w
  <1>4. /\ call' \in [Calls -> Work]
        /\ \A u \in Calls : call'[u].pc \in {"asked", "moved"} => call'[u].arg # <<>>
    BY <1>2, <1>3, CallTyped
  <1> QED
    BY <1>4, TypedStays DEF Typed, TypeOK, Archived, locks, bound

LEMMA FoldTyped == ASSUME Typed, NEW t \in Calls, Fold(t) PROVE Typed'
  <1>1. call[t].seen \in [Skills -> Record] /\ usage \in [Skills -> Record]
    BY DEF Typed, TypeOK, Work
  <1>2. Folded(t) \in [Skills -> Record]
    <2>1. \A s \in Skills : [usage[s] EXCEPT !.state = call[t].seen[s].state] \in Record
      BY <1>1 DEF Record
    <2> QED
      BY <1>1, <2>1 DEF Folded
  <1> QED
    BY <1>2, GotoTyped, TypedStays DEF Typed, TypeOK, Fold, locks, bound
LEMMA UnlockTyped == ASSUME Typed, NEW t \in Calls, Holds(t), Unlock(t) PROVE Typed'
  <1>1. chain' \in [Instances -> Seq(Calls)]
    BY ChainTyped DEF Unlock, Typed
  <1> QED
    BY <1>1, GotoTyped, TypedStays DEF Typed, TypeOK, Unlock, bound

LEMMA BookTyped == ASSUME Typed, NEW t \in Calls, Book(t) PROVE Typed'
  <1>1. call[t] \in Work
    BY DEF Typed, TypeOK
  <1>2. record' \in [seeded : BOOLEAN, paused : BOOLEAN, due : BOOLEAN] /\ record'.seeded
    BY <1>1 DEF Typed, TypeOK, Book, Work
  <1> QED
    BY <1>2, EndPassTyped, TypedStays DEF Typed, TypeOK, Book, bound

LEMMA AskTyped ==
    ASSUME Typed, NEW t \in Calls, NEW arg \in Args \ {<<>>}, Ask(t, arg)
    PROVE  Typed'
  <1> DEFINE w == [NoWork EXCEPT !.pc = "asked", !.arg = arg]
  <1>1. w \in Work /\ w.arg # <<>>
    BY IdleTyped DEF Work
  <1>2. call' = [call EXCEPT ![t] = w]
    BY DEF Ask
  <1> HIDE DEF w
  <1>3. /\ call' \in [Calls -> Work]
        /\ \A u \in Calls : call'[u].pc \in {"asked", "moved"} => call'[u].arg # <<>>
    BY <1>1, <1>2, CallTyped
  <1>4. chain' \in [Instances -> Seq(Calls)]
    BY ChainTyped DEF Ask, Typed
  <1>5. manual' \in 0 .. MaxManual
    BY CallsAssumption DEF Ask, Typed, TypeOK
  <1> QED
    BY <1>3, <1>4, <1>5 DEF Ask, Typed, TypeOK

LEMMA MoveSkillWork ==
    ASSUME Typed, NEW t \in Calls, MoveSkill(t)
    PROVE  /\ Subject(t) \in Skills
           /\ \E w \in Work : /\ w.pc = "moved" /\ w.arg = call[t].arg
                              /\ call' = [Move(t, {Subject(t)}) EXCEPT ![t] = w]
  <1>1. Subject(t) \in Skills /\ call[t] \in Work
    BY SubjectTyped DEF Typed, TypeOK, MoveSkill, At
  <1> DEFINE w == [call[t] EXCEPT !.pc = "moved"]
             S == {Subject(t)}
  <1>2. w \in Work /\ w.pc = "moved" /\ w.arg = call[t].arg
    BY <1>1 DEF Work
  <1>3. Move(t, S)[t] = call[t] /\ Move(t, S) \in [Calls -> Work]
    BY <1>1, MoveTyped DEF Typed, TypeOK
  <1>4. call' = [Move(t, S) EXCEPT ![t].pc = "moved"]
    BY DEF MoveSkill
  <1>5. call' = [Move(t, S) EXCEPT ![t] = w]
    <2> HIDE DEF S
    <2> QED
      BY <1>3, <1>4
  <1> HIDE DEF w
  <1> QED
    BY <1>1, <1>2, <1>5

LEMMA MoveSkillTyped == ASSUME Typed, NEW t \in Calls, MoveSkill(t) PROVE Typed'
  <1>1. Subject(t) \in Skills /\ {Subject(t)} \in SUBSET Skills /\ call[t].arg # <<>>
    BY SubjectTyped DEF Typed, MoveSkill, At
  <1>2. /\ call' \in [Calls -> Work]
        /\ \A u \in Calls : call'[u].pc \in {"asked", "moved"} => call'[u].arg # <<>>
    BY <1>1, MoveSkillWork, MovingTyped
  <1>3. live' \subseteq Skills
    BY <1>1 DEF MoveSkill, Typed, TypeOK
  <1> QED
    BY <1>2, <1>3, TypedStays DEF Typed, TypeOK, MoveSkill, locks, bound

LEMMA MarkSkillTyped == ASSUME Typed, NEW t \in Calls, Holds(t), MarkSkill(t) PROVE Typed'
  <1> DEFINE S == {Subject(t)}
  <1>1. Subject(t) \in Skills /\ S \in SUBSET Skills
    BY SubjectTyped DEF Typed, TypeOK, MarkSkill, At
  <1>2. usage' \in [Skills -> Record]
    <2>1. usage[Subject(t)] \in Record /\ usage \in [Skills -> Record]
      BY <1>1 DEF Typed, TypeOK
    <2> QED
      BY <1>1, <2>1 DEF MarkSkill, Record, States
  <1>3. call' = [Move(t, S) EXCEPT ![t] = NoWork]
    BY DEF MarkSkill
  <1> HIDE DEF S
  <1>4. /\ call' \in [Calls -> Work]
        /\ \A u \in Calls : call'[u].pc \in {"asked", "moved"} => call'[u].arg # <<>>
    BY <1>1, <1>3, IdleTyped, MovingTyped
  <1>5. chain' \in [Instances -> Seq(Calls)]
    BY ChainTyped DEF MarkSkill, Typed
  <1> QED
    BY <1>2, <1>4, <1>5, TypedStays DEF Typed, TypeOK, MarkSkill, bound

LEMMA RefuseTyped == ASSUME Typed, NEW t \in Calls, Refuse(t) PROVE Typed'
  <1>1. chain' \in [Instances -> Seq(Calls)]
    BY ChainTyped DEF Refuse, Typed
  <1> QED
    BY <1>1, EndedTyped, TypedStays DEF Typed, TypeOK, Refuse, bound

LEMMA WorldTyped ==
    ASSUME Typed,
           \/ \E b \in BOOLEAN : SetPaused(b)
           \/ \E s \in Skills : UseSkill(s) \/ Age(s)
           \/ \E i \in Instances : Dispose(i) \/ Remount(i)
           \/ Quiet \/ Elapse \/ MergeLocks \/ MergeUnlocks
    PROVE  Typed'
  <1>1. CASE \E b \in BOOLEAN : SetPaused(b)
    <2>1. PICK b \in BOOLEAN : SetPaused(b)
      BY <1>1
    <2>2. record' \in [seeded : BOOLEAN, paused : BOOLEAN, due : BOOLEAN] /\ record'.seeded
      BY <2>1 DEF SetPaused, Typed, TypeOK
    <2>3. manual' \in 0 .. MaxManual
      BY <2>1, CallsAssumption DEF SetPaused, Typed, TypeOK
    <2> QED
      BY <2>1, <2>2, <2>3 DEF SetPaused, Typed, TypeOK, locks
  <1>2. ASSUME NEW s \in Skills, UseSkill(s) \/ Age(s) PROVE Typed'
    <2>1. usage[s] \in Record /\ usage \in [Skills -> Record]
      BY DEF Typed, TypeOK
    <2>2. usage' \in [Skills -> Record]
      <3>1. ASSUME UseSkill(s) PROVE usage' \in [Skills -> Record]
        BY <2>1, <3>1 DEF UseSkill, Known, Record, States, Ages
      <3>2. ASSUME Age(s) PROVE usage' \in [Skills -> Record]
        BY <2>1, <3>2 DEF Age, Older, Record, Ages
      <3> QED
        BY <1>2, <3>1, <3>2
    <2>3. days' \in 0 .. MaxDays
      BY <1>2, CallsAssumption DEF UseSkill, Age, Typed, TypeOK
    <2> QED
      BY <1>2, <2>2, <2>3 DEF UseSkill, Age, Typed, TypeOK, locks
  <1>3. ASSUME NEW i \in Instances, Dispose(i) \/ Remount(i) PROVE Typed'
    <2>1. manual' \in 0 .. MaxManual
      BY <1>3, CallsAssumption DEF Dispose, Remount, bound, Typed, TypeOK
    <2> QED
      BY <1>3, <2>1 DEF Dispose, Remount, bound, Typed, TypeOK, locks
  <1>4. CASE Quiet \/ MergeLocks \/ MergeUnlocks
    BY <1>4 DEF Quiet, MergeLocks, MergeUnlocks, Typed, TypeOK, locks, bound
  <1>5. CASE Elapse
    BY <1>5 DEF Elapse, Typed, TypeOK, locks, bound
  <1> QED
    BY <1>1, <1>2, <1>3, <1>4, <1>5

LEMMA FaultTyped ==
    ASSUME Typed, NEW t \in Calls, At(t, "moved") => Holds(t), Fault(t)
    PROVE  Typed'
  <1>1. CASE At(t, "fold") /\ Goto(t, "unlock") /\ UNCHANGED <<claim, chain>>
    BY <1>1, GotoTyped, TypedStays DEF Typed, TypeOK, Fault
  <1>2. CASE EndPass(t) /\ UNCHANGED chain
    BY <1>2, EndPassTyped, TypedStays DEF Typed, TypeOK, Fault
  <1>3. CASE At(t, "moved") /\ call' = Ended(t) /\ chain' = Left(t) /\ UNCHANGED claim
    <2>1. chain' \in [Instances -> Seq(Calls)]
      BY <1>3, ChainTyped DEF Typed
    <2> QED
      BY <1>3, <2>1, EndedTyped, TypedStays DEF Typed, TypeOK, Fault
  <1> QED
    BY <1>1, <1>2, <1>3 DEF Fault

LEMMA CrashTyped == ASSUME Typed, NEW i \in Instances, Crash(i) PROVE Typed'
  <1>1. /\ call' \in [Calls -> Work]
        /\ \A u \in Calls : call'[u].pc \in {"asked", "moved"} => call'[u].arg # <<>>
    BY IdleTyped DEF Crash, Typed, TypeOK
  <1>2. chain' \in [Instances -> Seq(Calls)] /\ claim' \in [Instances -> Calls \cup {NoCall}]
    BY EmptySeq DEF Crash, Typed, TypeOK
  <1>3. faults' \in 0 .. MaxFaults
    BY CallsAssumption DEF Crash, Typed, TypeOK
  <1>4. lock' \in Calls \cup {NoCall, Merge} /\ gone' \subseteq Instances
    BY DEF Crash, Typed, TypeOK
  <1> QED
    BY <1>1, <1>2, <1>3, <1>4 DEF Crash, Typed, TypeOK
------------------------------------------------------------------------------
(* Who is where: the phase of every call after a step of call t.           *)

Keeps(t) == \A u \in Calls \ {t} : call'[u].pc = call[u].pc

LEMMA PhaseSet ==
    ASSUME Typed, NEW t \in Calls, NEW w \in Work, call' = [call EXCEPT ![t] = w]
    PROVE  Keeps(t) /\ call'[t] = w
  BY DEF Typed, TypeOK, Keeps

LEMMA PhaseGoto ==
    ASSUME Typed, NEW t \in Calls, NEW l, Goto(t, l)
    PROVE  Keeps(t) /\ call'[t].pc = l
  <1>1. call[t] \in Work /\ call \in [Calls -> Work]
    BY DEF Typed, TypeOK
  <1> QED
    BY <1>1 DEF Goto, Keeps, Work

LEMMA PhaseEnded ==
    ASSUME Typed, NEW t \in Calls, call' = Ended(t)
    PROVE  Keeps(t) /\ call'[t] = NoWork /\ At(t, "idle")'
  BY IdleTyped, PhaseSet DEF Ended, At

LEMMA PhasePass ==
    ASSUME Typed, NEW t \in Calls
    PROVE  /\ \A auto \in BOOLEAN : PassStart(t, auto) => Keeps(t) /\ call'[t].pc \in {"defer", "load"}
           /\ Load(t) => Keeps(t) /\ (At(t, "idle")' \/ (At(t, "list")' /\ UNCHANGED claim))
           /\ Compute(t) => Keeps(t) /\ At(t, "check")'
           /\ LockTree(t) => Keeps(t) /\ call'[t].pc \in {"unlock", "archive"}
           /\ Archived(t) => Keeps(t) /\ call'[t].pc \in {"fold", "merge"}
  <1>1. call[t] \in Work /\ call \in [Calls -> Work] /\ usage \in [Skills -> Record] /\ live \in SUBSET Skills
    BY DEF Typed, TypeOK
  <1>2. ASSUME NEW auto \in BOOLEAN, PassStart(t, auto)
        PROVE  Keeps(t) /\ call'[t].pc \in {"defer", "load"}
    BY <1>1, <1>2, IdleTyped DEF PassStart, Keeps, Work
  <1>3. ASSUME Load(t) PROVE Keeps(t) /\ (At(t, "idle")' \/ (At(t, "list")' /\ UNCHANGED claim))
    <2>1. CASE EndPass(t)
      BY <2>1, PhaseEnded DEF EndPass
    <2>2. CASE /\ call' = [call EXCEPT ![t].pc = "list", ![t].seen = usage, ![t].start = usage]
               /\ UNCHANGED claim
      BY <1>1, <2>2 DEF Keeps, At, Work
    <2> QED
      BY <1>3, <2>1, <2>2 DEF Load
  <1>4. ASSUME Compute(t) PROVE Keeps(t) /\ At(t, "check")'
    BY <1>4, ComputeWork, PhaseSet DEF At
  <1>5. ASSUME LockTree(t) PROVE Keeps(t) /\ call'[t].pc \in {"unlock", "archive"}
    BY <1>1, <1>5 DEF LockTree, Keeps, Work
  <1>6. ASSUME Archived(t) PROVE Keeps(t) /\ call'[t].pc \in {"fold", "merge"}
    BY <1>1, <1>6 DEF Archived, Keeps, Work
  <1> QED
    BY <1>2, <1>3, <1>4, <1>5, <1>6

\* A step that moves a skill touches what the other calls have been told, only.
LEMMA PhaseMoving ==
    ASSUME Typed, NEW t \in Calls, NEW S \in SUBSET Skills, NEW w \in Work,
           call' = [Move(t, S) EXCEPT ![t] = w]
    PROVE  Keeps(t) /\ call'[t] = w
  <1>1. call \in [Calls -> Work]
    BY DEF Typed, TypeOK
  <1> DEFINE c == Move(t, S)
  <1>2. /\ c \in [Calls -> Work]
        /\ \A u \in Calls : \/ c[u] = call[u] /\ (u = t \/ At(u, "idle"))
                            \/ c[u] = [call[u] EXCEPT !.moved = @ \cup S]
    BY <1>1, MoveTyped
  <1> HIDE DEF c
  <1>3. call' = [c EXCEPT ![t] = w]
    BY DEF c
  <1>4. call'[t] = w /\ \A u \in Calls \ {t} : call'[u] = c[u]
    BY <1>2, <1>3
  <1>5. ASSUME NEW u \in Calls \ {t} PROVE call'[u].pc = call[u].pc
    <2>1. call[u] \in Work
      BY <1>1
    <2>2. c[u].pc = call[u].pc
      BY <1>2, <2>1 DEF Work
    <2> QED
      BY <1>4, <2>2
  <1> QED
    BY <1>4, <1>5 DEF Keeps
LEMMA PhaseArchive ==
    ASSUME Typed, NEW t \in Calls
    PROVE  /\ \A s \in Skills : FoldMissing(t, s) \/ ArchiveSkill(t, s) \/ ArchiveRefused(t, s)
                                => Keeps(t) /\ At(t, "archive")'
           /\ Consolidate(t) => Keeps(t) /\ At(t, "fold")'
  <1>1. \A s \in Skills, w \in Work : Lands(t, s, w) => Keeps(t) /\ call'[t] = w
    <2> SUFFICES ASSUME NEW s \in Skills, NEW w \in Work, Lands(t, s, w)
                 PROVE  Keeps(t) /\ call'[t] = w
      OBVIOUS
    <2>1. call' = [Move(t, {s}) EXCEPT ![t] = w] /\ {s} \in SUBSET Skills
      BY DEF Lands
    <2> QED
      BY <2>1, PhaseMoving
  <1>2. \A s \in Skills, st, w \in Work : Verdict(t, s, st, w) => Keeps(t) /\ call'[t].pc = call[t].pc
    BY PhaseSet DEF Verdict
  <1>3. ASSUME NEW s \in Skills, FoldMissing(t, s) PROVE Keeps(t) /\ At(t, "archive")'
    <2>1. /\ call' = [call EXCEPT ![t].cand = @ \ {s}, ![t].seen[s].state = "archived"]
          /\ call[t].pc = "archive" /\ "archived" \in States
      BY <1>3 DEF FoldMissing, At, States
    <2>2. PICK w \in Work : Verdict(t, s, "archived", w)
      BY <2>1, VerdictWork
    <2> QED
      BY <2>1, <2>2, PhaseSet DEF Verdict, At
  <1>4. ASSUME NEW s \in Skills, ArchiveRefused(t, s) PROVE Keeps(t) /\ At(t, "archive")'
    <2>1. PICK st \in States : st = Origin(t, s)
      BY OriginTyped
    <2>2. call' = [call EXCEPT ![t].cand = @ \ {s}, ![t].seen[s].state = st] /\ call[t].pc = "archive"
      BY <1>4, <2>1 DEF ArchiveRefused, Refused, At
    <2>3. PICK w \in Work : Verdict(t, s, st, w)
      BY <2>2, VerdictWork
    <2> QED
      BY <2>2, <2>3, PhaseSet DEF Verdict, At
  <1>5. ASSUME NEW s \in Skills, ArchiveSkill(t, s) PROVE Keeps(t) /\ At(t, "archive")'
    BY <1>1, <1>5, ArchiveSkillWork DEF At
  <1>6. ASSUME Consolidate(t) PROVE Keeps(t) /\ At(t, "fold")'
    BY <1>1, <1>6, ConsolidateWork, PhaseGoto DEF At
  <1> QED
    BY <1>3, <1>4, <1>5, <1>6

LEMMA PhaseOperator ==
    ASSUME Typed, NEW t \in Calls
    PROVE  /\ \A arg \in Args : Ask(t, arg) => Keeps(t) /\ At(t, "asked")'
           /\ MoveSkill(t) => Keeps(t) /\ At(t, "moved")'
           /\ MarkSkill(t) => Keeps(t) /\ At(t, "idle")'
  <1>1. ASSUME NEW arg \in Args, Ask(t, arg) PROVE Keeps(t) /\ At(t, "asked")'
    <2> DEFINE w == [NoWork EXCEPT !.pc = "asked", !.arg = arg]
    <2>1. w \in Work /\ w.pc = "asked"
      BY IdleTyped DEF Work
    <2>2. call' = [call EXCEPT ![t] = w]
      BY <1>1 DEF Ask
    <2> HIDE DEF w
    <2> QED
      BY <2>1, <2>2, PhaseSet DEF At
  <1>2. ASSUME MoveSkill(t) PROVE Keeps(t) /\ At(t, "moved")'
    <2>1. PICK w \in Work : w.pc = "moved" /\ call' = [Move(t, {Subject(t)}) EXCEPT ![t] = w]
      BY <1>2, MoveSkillWork
    <2>2. {Subject(t)} \in SUBSET Skills
      BY <1>2, MoveSkillWork
    <2> QED
      BY <2>1, <2>2, PhaseMoving DEF At
  <1>3. ASSUME MarkSkill(t) PROVE Keeps(t) /\ At(t, "idle")'
    <2>1. {Subject(t)} \in SUBSET Skills /\ call' = [Move(t, {Subject(t)}) EXCEPT ![t] = NoWork]
      BY <1>3, SubjectTyped DEF MarkSkill, At
    <2> QED
      BY <2>1, PhaseMoving, IdleTyped DEF At
  <1> QED
    BY <1>1, <1>2, <1>3

------------------------------------------------------------------------------
(* The mutex of an instance and the tree lock.                             *)

\* A call past asking leads its chain, and leads it alone.
LEMMA HolderLeads ==
    ASSUME Typed, Mutexed, NEW t \in Calls, call[t].pc \in InMutex, call[t].pc \notin Asking
    PROVE  Holds(t) /\ chain[Home[t]][1] = t /\ 1 \in DOMAIN chain[Home[t]]
  <1>1. Home[t] \in Instances /\ chain[Home[t]] \in Seq(Calls)
    BY CallsAssumption DEF Typed, TypeOK
  <1>2. PICK k \in DOMAIN chain[Home[t]] : chain[Home[t]][k] = t
    BY DEF Mutexed
  <1>3. k = 1
    BY <1>1, <1>2 DEF Mutexed, InChain
  <1> QED
    BY <1>1, <1>2, <1>3, EmptySeq DEF Holds

LEMMA MutexStays ==
    ASSUME Typed, Mutexed, NEW t \in Calls, Keeps(t), chain' = chain,
           call'[t].pc \in InMutex <=> call[t].pc \in InMutex,
           call[t].pc \in Asking => call'[t].pc \in Asking \/ Holds(t)
    PROVE  Mutexed'
  <1>1. \A i \in Instances : \A k \in DOMAIN chain[i] : chain[i][k] \in Calls
    BY LenProperties, ElementOfSeq DEF Typed, TypeOK
  <1>2. \A u \in Calls : call'[u].pc \in InMutex <=> call[u].pc \in InMutex
    BY DEF Keeps
  <1>3. ASSUME NEW i \in Instances, NEW k \in DOMAIN chain[i], k # 1
        PROVE  call'[chain[i][k]].pc \in Asking
    <2>1. chain[i][k] \in Calls /\ call[chain[i][k]].pc \in Asking
      BY <1>1, <1>3 DEF Mutexed, InChain
    <2>2. CASE chain[i][k] # t
      BY <2>1, <2>2 DEF Keeps
    <2>3. CASE chain[i][k] = t
      <3>1. Home[t] = i /\ chain[i] \in Seq(Calls)
        BY <2>3 DEF Mutexed, InChain, Typed, TypeOK
      <3>2. ~Holds(t)
        <4>1. Holds(t) => chain[i][1] = t /\ 1 \in DOMAIN chain[i]
          BY <3>1, EmptySeq, LenProperties DEF Holds
        <4> QED
          BY <1>3, <2>3, <4>1 DEF Mutexed, InChain
      <3> QED
        BY <2>1, <2>3, <3>2
    <2> QED
      BY <2>2, <2>3
  <1>4. \A i \in Instances : InChain(i)'
    BY <1>1, <1>2, <1>3 DEF Mutexed, InChain
  <1>5. \A u \in Calls : call'[u].pc \in InMutex => \E k \in DOMAIN chain'[Home[u]] : chain'[Home[u]][k] = u
    BY <1>2 DEF Mutexed
  <1> QED
    BY <1>4, <1>5 DEF Mutexed

LEMMA MutexJoined ==
    ASSUME Typed, Mutexed, NEW t \in Calls, Keeps(t), call[t].pc \notin InMutex, call'[t].pc \in Asking,
           chain' = [chain EXCEPT ![Home[t]] = Append(@, t)]
    PROVE  Mutexed'
  <1>0. PICK h \in Instances : h = Home[t]
    BY CallsAssumption
  <1> DEFINE c == chain[h]
  <1>1. c \in Seq(Calls) /\ Len(c) \in Nat /\ DOMAIN c = 1 .. Len(c)
    BY LenProperties DEF Typed, TypeOK
  <1>2. /\ Append(c, t) \in Seq(Calls) /\ Len(Append(c, t)) = Len(c) + 1
        /\ \A j \in 1 .. Len(c) : Append(c, t)[j] = c[j]
        /\ Append(c, t)[Len(c) + 1] = t
    BY <1>1, AppendProperties
  <1>3. chain'[h] = Append(c, t) /\ \A i \in Instances \ {h} : chain'[i] = chain[i]
    BY <1>0 DEF Typed, TypeOK
  <1>4. /\ DOMAIN chain'[h] = 1 .. Len(c) + 1
        /\ \A k \in 1 .. Len(c) + 1 : k \in DOMAIN c \/ k = Len(c) + 1
    BY <1>1, <1>2, <1>3, LenProperties
  <1>5. \A i \in Instances : \A k \in DOMAIN chain[i] :
          /\ chain[i][k] \in Calls \ {t} /\ call'[chain[i][k]].pc = call[chain[i][k]].pc
          /\ Home[chain[i][k]] = i /\ call[chain[i][k]].pc \in InMutex
          /\ k # 1 => call[chain[i][k]].pc \in Asking
    BY LenProperties, ElementOfSeq DEF Mutexed, InChain, Keeps, Typed, TypeOK
  <1>6. \A i \in Instances : \A j, k \in DOMAIN chain[i] : chain[i][j] = chain[i][k] => j = k
    BY DEF Mutexed, InChain
  <1>7. ASSUME NEW i \in Instances, i # h PROVE InChain(i)'
    BY <1>3, <1>5, <1>6, <1>7 DEF InChain
  <1>8. InChain(h)'
    <2>1. \A k \in DOMAIN c :
            /\ chain'[h][k] = c[k] /\ c[k] # t /\ call'[c[k]].pc \in InMutex /\ Home[c[k]] = h
            /\ k # 1 => call'[c[k]].pc \in Asking
      BY <1>1, <1>2, <1>3, <1>5
    <2>2. chain'[h][Len(c) + 1] = t /\ Home[t] = h /\ call'[t].pc \in InMutex
      BY <1>0, <1>2, <1>3 DEF InMutex, Asking
    <2>3. \A j, k \in DOMAIN c : c[j] = c[k] => j = k
      BY <1>6
    <2> HIDE DEF c
    <2>4. \A j, k \in 1 .. Len(c) + 1 : chain'[h][j] = chain'[h][k] => j = k
      <3> SUFFICES ASSUME NEW j \in 1 .. Len(c) + 1, NEW k \in 1 .. Len(c) + 1,
                          chain'[h][j] = chain'[h][k]
                   PROVE  j = k
        OBVIOUS
      <3>1. (j \in DOMAIN c \/ j = Len(c) + 1) /\ (k \in DOMAIN c \/ k = Len(c) + 1)
        BY <1>4
      <3>2. \A i \in DOMAIN c : chain'[h][i] = c[i] /\ c[i] # t
        BY <2>1
      <3> QED
        BY ONLY <2>2, <2>3, <3>1, <3>2, chain'[h][j] = chain'[h][k]
    <2>5. \A k \in 1 .. Len(c) + 1 :
            /\ Home[chain'[h][k]] = h /\ call'[chain'[h][k]].pc \in InMutex
            /\ k # 1 => call'[chain'[h][k]].pc \in Asking
      <3> SUFFICES ASSUME NEW k \in 1 .. Len(c) + 1
                   PROVE  /\ Home[chain'[h][k]] = h /\ call'[chain'[h][k]].pc \in InMutex
                          /\ k # 1 => call'[chain'[h][k]].pc \in Asking
        OBVIOUS
      <3>1. CASE k \in DOMAIN c
        BY <2>1, <3>1
      <3>2. CASE k = Len(c) + 1
        BY <2>2, <3>2
      <3> QED
        BY <1>4, <3>1, <3>2
    <2> QED
      BY <1>4, <2>4, <2>5 DEF InChain
  <1>9. ASSUME NEW u \in Calls, call'[u].pc \in InMutex
        PROVE  \E k \in DOMAIN chain'[Home[u]] : chain'[Home[u]][k] = u
    <2>1. CASE u = t
      <3>1. Len(c) + 1 \in DOMAIN chain'[h] /\ chain'[h][Len(c) + 1] = t
        BY <1>1, <1>2, <1>3, <1>4
      <3> QED
        BY <1>0, <2>1, <3>1
    <2>2. CASE u # t
      <3>1. Home[u] \in Instances /\ call[u].pc \in InMutex
        BY <1>9, <2>2, CallsAssumption DEF Keeps
      <3>2. PICK k \in DOMAIN chain[Home[u]] : chain[Home[u]][k] = u
        BY <3>1 DEF Mutexed
      <3>3. CASE Home[u] = h
        <4>1. k \in DOMAIN chain'[h] /\ chain'[h][k] = u
          BY <1>1, <1>2, <1>3, <1>4, <3>2, <3>3
        <4> QED
          BY <3>3, <4>1
      <3>4. CASE Home[u] # h
        BY <1>3, <3>1, <3>2, <3>4
      <3> QED
        BY <3>3, <3>4
    <2> QED
      BY <2>1, <2>2
  <1> QED
    BY <1>7, <1>8, <1>9 DEF Mutexed

LEMMA MutexLeft ==
    ASSUME Typed, Mutexed, NEW t \in Calls, Keeps(t), Holds(t), call'[t].pc \notin InMutex,
           chain' = Left(t)
    PROVE  Mutexed'
  <1>0. PICK h \in Instances : h = Home[t]
    BY CallsAssumption
  <1> DEFINE c == chain[h]
  <1>1. c \in Seq(Calls) /\ Len(c) \in Nat /\ DOMAIN c = 1 .. Len(c)
    BY LenProperties DEF Typed, TypeOK
  <1>2. c # <<>> /\ Len(c) \in Nat \ {0} /\ c[1] = t
    BY <1>0, <1>1, EmptySeq DEF Holds
  <1>3. /\ Tail(c) \in Seq(Calls) /\ Len(Tail(c)) = Len(c) - 1
        /\ \A j \in 1 .. Len(c) - 1 : Tail(c)[j] = c[j + 1]
    BY <1>1, <1>2, HeadTailProperties
  <1>4. chain'[h] = Tail(c) /\ \A i \in Instances \ {h} : chain'[i] = chain[i]
    BY <1>0 DEF Left, Typed, TypeOK
  <1>5. DOMAIN chain'[h] = 1 .. Len(c) - 1
    BY <1>3, <1>4, LenProperties
  <1>6. \A i \in Instances : \A j, k \in DOMAIN chain[i] : chain[i][j] = chain[i][k] => j = k
    BY DEF Mutexed, InChain
  <1>7. \A i \in Instances : \A k \in DOMAIN chain[i] :
          /\ chain[i][k] \in Calls
          /\ Home[chain[i][k]] = i /\ call[chain[i][k]].pc \in InMutex
          /\ k # 1 => call[chain[i][k]].pc \in Asking
    BY LenProperties, ElementOfSeq DEF Mutexed, InChain, Typed, TypeOK
  <1>8. ASSUME NEW i \in Instances, i # h PROVE InChain(i)'
    <2>1. \A k \in DOMAIN chain[i] : chain[i][k] # t
      BY <1>0, <1>7, <1>8
    <2> QED
      BY <1>4, <1>6, <1>7, <1>8, <2>1 DEF InChain, Keeps
  <1>9. InChain(h)'
    <2>1. \A j, k \in 1 .. Len(c) : c[j] = c[k] => j = k
      BY <1>1, <1>6
    <2>2. \A k \in 1 .. Len(c) : /\ c[k] \in Calls /\ Home[c[k]] = h
                                 /\ k # 1 => call[c[k]].pc \in Asking
      BY <1>1, <1>7
    <2> HIDE DEF c
    <2>3. \A k \in 1 .. Len(c) - 1 : k + 1 \in 1 .. Len(c) /\ k + 1 # 1
      BY <1>1
    <2>4. \A k \in 1 .. Len(c) - 1 :
            /\ chain'[h][k] = c[k + 1] /\ c[k + 1] \in Calls \ {t}
            /\ call[c[k + 1]].pc \in Asking /\ Home[c[k + 1]] = h
      BY <1>1, <1>2, <1>3, <1>4, <2>1, <2>2, <2>3
    <2>5. \A j, k \in 1 .. Len(c) - 1 : c[j + 1] = c[k + 1] => j = k
      BY <1>1, <2>1
    <2>6. \A j, k \in DOMAIN chain'[h] : chain'[h][j] = chain'[h][k] => j = k
      BY ONLY <1>5, <2>4, <2>5
    <2>7. \A k \in DOMAIN chain'[h] :
            Home[chain'[h][k]] = h /\ call'[chain'[h][k]].pc \in Asking
      BY <1>5, <2>4 DEF Keeps
    <2> QED
      BY <2>6, <2>7 DEF InChain, InMutex, Asking
  <1>10. ASSUME NEW u \in Calls, call'[u].pc \in InMutex
         PROVE  \E k \in DOMAIN chain'[Home[u]] : chain'[Home[u]][k] = u
    <2>1. u # t /\ call[u].pc \in InMutex /\ Home[u] \in Instances
      BY <1>10, CallsAssumption DEF Keeps
    <2>2. PICK k \in DOMAIN chain[Home[u]] : chain[Home[u]][k] = u
      BY <2>1 DEF Mutexed
    <2>3. CASE Home[u] = h
      <3>1. k \in 1 .. Len(c) /\ c[k] = u /\ k # 1
        BY <1>1, <1>2, <2>1, <2>2, <2>3
      <3>2. k - 1 \in 1 .. Len(c) - 1 /\ (k - 1) + 1 = k
        BY <1>1, <3>1
      <3>3. k - 1 \in DOMAIN chain'[h] /\ chain'[h][k - 1] = u
        BY <1>3, <1>4, <1>5, <3>1, <3>2
      <3> QED
        BY <2>3, <3>3
    <2>4. CASE Home[u] # h
      BY <1>4, <2>1, <2>2, <2>4
    <2> QED
      BY <2>3, <2>4
  <1> HIDE DEF c
  <1> QED
    BY <1>8, <1>9, <1>10 DEF Mutexed

LEMMA MutexCrashed == ASSUME Typed, Mutexed, NEW i \in Instances, Crash(i) PROVE Mutexed'
  <1>1. /\ chain'[i] = <<>> /\ \A j \in Instances \ {i} : chain'[j] = chain[j]
        /\ \A t \in Calls : call'[t] = IF Home[t] = i THEN NoWork ELSE call[t]
    BY DEF Crash, Typed, TypeOK
  <1>2. DOMAIN <<>> = {}
    OBVIOUS
  <1>3. InChain(i)'
    BY <1>1, <1>2 DEF InChain
  <1>4. ASSUME NEW j \in Instances, j # i PROVE InChain(j)'
    <2>1. \A k \in DOMAIN chain[j] : chain[j][k] \in Calls
      BY LenProperties, ElementOfSeq DEF Typed, TypeOK
    <2>2. InChain(j)
      BY DEF Mutexed
    <2> QED
      BY <1>1, <1>4, <2>1, <2>2 DEF InChain
  <1>5. ASSUME NEW u \in Calls, call'[u].pc \in InMutex
        PROVE  \E k \in DOMAIN chain'[Home[u]] : chain'[Home[u]][k] = u
    <2>1. Home[u] # i /\ call[u].pc \in InMutex /\ Home[u] \in Instances
      BY <1>1, <1>5, IdleTyped, CallsAssumption DEF InMutex, Applying
    <2> QED
      BY <1>1, <2>1 DEF Mutexed
  <1> QED
    BY <1>3, <1>4, <1>5 DEF Mutexed

LEMMA RolesStay ==
    ASSUME Typed, Roles, NEW t \in Calls, Keeps(t), Role(t)',
           \A u \in Calls \ {t} : lock' = u <=> lock = u,
           \A u \in Passes \ {t} : ~At(u, "idle") => claim'[Home[u]] = u
    PROVE  Roles'
  <1>1. \A u \in Calls \ {t} : Role(u)'
    BY DEF Roles, Role, Keeps, At
  <1> QED
    BY <1>1 DEF Roles

\* A pass goes on, or gives its claim back; an operator's call has none.
LEMMA RolesGo ==
    ASSUME Typed, Roles, NEW t \in Calls, Keeps(t), claim' = claim, lock' = lock,
           call[t].pc \notin {"idle", "asked", "moved"}, call'[t].pc \notin {"idle", "asked", "moved"},
           call'[t].pc \in Applying <=> call[t].pc \in Applying
    PROVE  Roles'
  <1>1. t \in Passes /\ claim[Home[t]] = t /\ (lock = t <=> call[t].pc \in Applying)
    BY DEF Roles, Role, At
  <1>2. Role(t)'
    BY <1>1 DEF Role
  <1>3. \A u \in Passes \ {t} : ~At(u, "idle") => claim'[Home[u]] = u
    BY CallsAssumption DEF Roles, Role
  <1> QED
    BY <1>2, <1>3, RolesStay

LEMMA RolesEnd ==
    ASSUME Typed, Roles, NEW t \in Calls, EndPass(t), lock' = lock,
           call[t].pc \notin {"idle", "asked", "moved"} \cup Applying
    PROVE  Roles'
  <1>1. t \in Passes /\ claim[Home[t]] = t /\ lock # t
    BY DEF Roles, Role, At
  <1>2. Keeps(t) /\ call'[t].pc = "idle"
    BY PhaseEnded, IdleTyped DEF EndPass
  <1>3. Role(t)'
    BY <1>1, <1>2 DEF Role, Applying, At
  <1>4. ASSUME NEW u \in Passes \ {t}, ~At(u, "idle") PROVE claim'[Home[u]] = u
    <2>1. u \in Calls /\ claim[Home[u]] = u /\ Home[u] \in Instances
      BY <1>4, CallsAssumption DEF Roles, Role
    <2>2. Home[u] # Home[t]
      BY <1>1, <2>1
    <2> QED
      BY <2>1, <2>2 DEF EndPass, Typed, TypeOK
  <1> QED
    BY <1>2, <1>3, <1>4, RolesStay

LEMMA RolesOperator ==
    ASSUME Typed, Roles, NEW t \in Calls \ Passes, Keeps(t), claim' = claim, lock' = lock,
           call'[t].pc \in {"idle", "asked", "moved"}
    PROVE  Roles'
  <1>1. call[t].pc \in {"idle", "asked", "moved"} /\ lock # t
    BY DEF Roles, Role, Applying
  <1>2. Role(t)'
    BY <1>1 DEF Role, Applying
  <1>3. \A u \in Passes \ {t} : ~At(u, "idle") => claim'[Home[u]] = u
    BY CallsAssumption DEF Roles, Role
  <1> QED
    BY <1>2, <1>3, RolesStay

------------------------------------------------------------------------------
(* Ordered is an invariant.                                                *)

LEMMA InitOrdered == Init => Ordered
  <1> SUFFICES ASSUME Init PROVE Ordered
    OBVIOUS
  <1>1. Typed
    BY InitTyped
  <1>2. /\ \A t \in Calls : call[t].pc = "idle"
        /\ \A i \in Instances : chain[i] = <<>>
        /\ lock = NoCall
    BY IdleTyped DEF Init
  <1>3. DOMAIN <<>> = {}
    OBVIOUS
  <1>4. Mutexed
    BY <1>2, <1>3 DEF Mutexed, InChain, InMutex, Applying
  <1>5. Roles
    BY <1>2, CallsAssumption DEF Roles, Role, Applying, At
  <1> QED
    BY <1>1, <1>4, <1>5 DEF Ordered

\* The pass before it asks for the mutex.
LEMMA StartOrdered ==
    ASSUME Ordered, NEW t \in Calls, NEW auto \in BOOLEAN, PassStart(t, auto)
    PROVE  Ordered'
  <1>1. Keeps(t) /\ call'[t].pc \in {"defer", "load"} /\ call[t].pc = "idle" /\ t \in Passes
    BY PhasePass DEF Ordered, PassStart, At
  <1>2. Mutexed'
    BY <1>1, MutexStays DEF Ordered, PassStart, InMutex, Applying, Asking
  <1>3. lock # t /\ lock' = lock /\ claim'[Home[t]] = t
    BY <1>1, CallsAssumption DEF Ordered, Typed, TypeOK, Roles, Role, Applying, PassStart
  <1>4. Role(t)'
    BY <1>1, <1>3 DEF Role, Applying
  <1>5. ASSUME NEW u \in Passes \ {t}, ~At(u, "idle") PROVE claim'[Home[u]] = u
    <2>1. u \in Calls /\ claim[Home[u]] = u /\ Home[u] \in Instances /\ claim[Home[t]] = NoCall
      BY <1>5, CallsAssumption DEF Ordered, Roles, Role, PassStart
    <2>2. Home[u] # Home[t]
      BY <2>1, CallsAssumption
    <2> QED
      BY <2>1, <2>2 DEF PassStart, Ordered, Typed, TypeOK
  <1>6. Roles'
    BY <1>1, <1>3, <1>4, <1>5, RolesStay DEF Ordered
  <1> QED
    BY <1>2, <1>6, PassStartTyped DEF Ordered

LEMMA EarlyOrdered ==
    ASSUME Ordered, NEW t \in Calls,
           Defer(t) \/ Load(t) \/ Compute(t) \/ Blocked(t) \/ Snapshot(t) \/ AcquireMutex(t)
    PROVE  Ordered'
  <1>1. Typed'
    BY DeferTyped, LoadTyped, ComputeTyped, BlockedTyped, GoingTyped DEF Ordered
  <1>2. ASSUME EndPass(t), call[t].pc \in {"defer", "load", "list", "check", "snapped"},
               UNCHANGED <<chain, lock>>
        PROVE  Mutexed' /\ Roles'
    <2>1. Keeps(t) /\ call'[t].pc = "idle"
      BY <1>2, PhaseEnded, IdleTyped DEF Ordered, EndPass
    <2>2. Mutexed'
      BY <1>2, <2>1, MutexStays DEF Ordered, InMutex, Applying, Asking
    <2>3. Roles'
      BY <1>2, RolesEnd DEF Ordered, Applying
    <2> QED
      BY <2>2, <2>3
  <1>3. ASSUME Keeps(t), call[t].pc \in {"load", "list", "check"},
               call'[t].pc \in {"list", "check", "snapped"}, UNCHANGED locks
        PROVE  Mutexed' /\ Roles'
    <2>1. Mutexed'
      BY <1>3, MutexStays DEF Ordered, InMutex, Applying, Asking, locks
    <2>2. Roles'
      BY <1>3, RolesGo DEF Ordered, Applying, locks
    <2> QED
      BY <2>1, <2>2
  <1>4. CASE Defer(t) \/ Blocked(t)
    BY <1>1, <1>2, <1>4 DEF Defer, Blocked, Ordered, At
  <1>5. CASE Load(t)
    <2>1. CASE EndPass(t)
      BY <1>1, <1>2, <1>5, <2>1 DEF Load, Ordered, At
    <2>2. CASE ~EndPass(t)
      <3>1. Keeps(t) /\ call'[t].pc = "list" /\ call[t].pc = "load" /\ UNCHANGED locks
        <4>1. ~Disposed(t)
          BY <1>5, <2>2 DEF Load
        <4>2. call' = [call EXCEPT ![t].pc = "list", ![t].seen = usage, ![t].start = usage]
          BY <1>5, <4>1 DEF Load
        <4>3. call[t] \in Work /\ call \in [Calls -> Work]
          BY DEF Ordered, Typed, TypeOK
        <4>4. call'[t].pc = "list" /\ Keeps(t)
          BY <4>2, <4>3 DEF Keeps, Work
        <4> QED
          BY <1>5, <4>1, <4>4 DEF Load, locks, At
      <3> QED
        BY <1>1, <1>3, <3>1 DEF Ordered
    <2> QED
      BY <2>1, <2>2
  <1>6. CASE Compute(t) \/ Snapshot(t)
    <2>1. Keeps(t) /\ call'[t].pc \in {"check", "snapped"}
      BY <1>6, PhasePass, PhaseGoto DEF Ordered, Snapshot, At
    <2> QED
      BY <1>1, <1>3, <1>6, <2>1 DEF Compute, Snapshot, Ordered, At
  <1>7. CASE AcquireMutex(t)
    <2>1. Keeps(t) /\ call'[t].pc = "queued" /\ call[t].pc = "snapped"
      BY <1>7, PhaseGoto DEF Ordered, AcquireMutex, At
    <2>2. Mutexed'
      BY <1>7, <2>1, MutexJoined DEF Ordered, AcquireMutex, InMutex, Applying, Asking
    <2>3. Roles'
      BY <1>7, <2>1, RolesGo DEF Ordered, AcquireMutex, Applying
    <2> QED
      BY <1>1, <2>2, <2>3 DEF Ordered
  <1> QED
    BY <1>4, <1>5, <1>6, <1>7

LEMMA ApplyOrdered ==
    ASSUME Ordered, NEW t \in Calls,
           \/ LockTree(t) \/ LockBusy(t) \/ Archived(t) \/ Consolidate(t)
           \/ \E s \in Skills : FoldMissing(t, s) \/ ArchiveSkill(t, s) \/ ArchiveRefused(t, s)
    PROVE  Ordered'
  <1>1. CASE LockTree(t)
    <2>1. Keeps(t) /\ call'[t].pc \in {"unlock", "archive"} /\ call[t].pc = "queued"
      BY <1>1, PhasePass DEF Ordered, LockTree, At
    <2>2. Mutexed'
      BY <1>1, <2>1, MutexStays DEF Ordered, LockTree, InMutex, Applying, Asking
    <2>3. t \in Passes /\ claim[Home[t]] = t
      BY <2>1 DEF Ordered, Roles, Role, At
    <2>4. Role(t)'
      BY <1>1, <2>1, <2>3 DEF Role, Applying, LockTree
    <2>5. \A u \in Calls : lock # u
      BY <1>1, CallsAssumption DEF LockTree
    <2>6. \A u \in Passes \ {t} : ~At(u, "idle") => claim'[Home[u]] = u
      BY <1>1, CallsAssumption DEF Ordered, Roles, Role, LockTree
    <2>7. Roles'
      BY <1>1, <2>1, <2>4, <2>5, <2>6, RolesStay DEF Ordered, LockTree
    <2> QED
      BY <1>1, <2>2, <2>7, LockTreeTyped DEF Ordered
  <1>2. CASE LockBusy(t)
    <2>1. Keeps(t) /\ call'[t].pc = "idle" /\ call[t].pc = "queued"
      BY <1>2, PhaseEnded, IdleTyped DEF Ordered, LockBusy, EndPass, At
    <2>2. Mutexed'
      BY <1>2, <2>1, MutexLeft DEF Ordered, LockBusy, InMutex, Applying
    <2>3. Roles'
      BY <1>2, <2>1, RolesEnd DEF Ordered, LockBusy, Applying
    <2> QED
      BY <1>2, <2>2, <2>3, LockBusyTyped DEF Ordered
  <1>3. ASSUME Keeps(t), call[t].pc \in {"archive", "merge"}, call'[t].pc \in {"archive", "merge", "fold"},
               UNCHANGED locks
        PROVE  Mutexed' /\ Roles'
    <2>1. Mutexed'
      BY <1>3, MutexStays DEF Ordered, InMutex, Applying, Asking, locks
    <2>2. Roles'
      BY <1>3, RolesGo DEF Ordered, Applying, locks
    <2> QED
      BY <2>1, <2>2
  <1>4. CASE Archived(t) \/ Consolidate(t)
    <2>1. Keeps(t) /\ call'[t].pc \in {"merge", "fold"}
      BY <1>4, PhasePass, PhaseArchive DEF Ordered, At
    <2>2. call[t].pc \in {"archive", "merge"} /\ UNCHANGED locks
      BY <1>4 DEF Archived, Consolidate, At
    <2> QED
      BY <1>3, <1>4, <2>1, <2>2, ArchivedTyped, ConsolidateTyped DEF Ordered
  <1>5. ASSUME NEW s \in Skills, FoldMissing(t, s) \/ ArchiveSkill(t, s) \/ ArchiveRefused(t, s)
        PROVE  Ordered'
    <2>1. Keeps(t) /\ call'[t].pc = "archive"
      BY <1>5, PhaseArchive DEF Ordered, At
    <2>2. call[t].pc = "archive" /\ UNCHANGED locks
      BY <1>5 DEF FoldMissing, ArchiveSkill, ArchiveRefused, At
    <2> QED
      BY <1>3, <1>5, <2>1, <2>2, FoldMissingTyped, ArchiveSkillTyped, RefusedTyped DEF Ordered
  <1> QED
    BY <1>1, <1>2, <1>4, <1>5

LEMMA LateOrdered ==
    ASSUME Ordered, NEW t \in Calls, Fold(t) \/ Unlock(t) \/ Book(t)
    PROVE  Ordered'
  <1>1. CASE Fold(t)
    <2>1. Keeps(t) /\ call'[t].pc = "unlock" /\ call[t].pc = "fold" /\ UNCHANGED locks
      BY <1>1, PhaseGoto DEF Ordered, Fold, At
    <2>2. Mutexed'
      BY <2>1, MutexStays DEF Ordered, InMutex, Applying, Asking, locks
    <2>3. Roles'
      BY <2>1, RolesGo DEF Ordered, Applying, locks
    <2> QED
      BY <1>1, <2>2, <2>3, FoldTyped DEF Ordered
  <1>2. CASE Unlock(t)
    <2>1. Keeps(t) /\ call'[t].pc = "book" /\ call[t].pc = "unlock"
      BY <1>2, PhaseGoto DEF Ordered, Unlock, At
    <2>2. Holds(t)
      BY <2>1, HolderLeads DEF Ordered, InMutex, Applying, Asking
    <2>3. Mutexed'
      BY <1>2, <2>1, <2>2, MutexLeft DEF Ordered, Unlock, InMutex, Applying
    <2>4. t \in Passes /\ claim[Home[t]] = t /\ lock = t
      BY <2>1 DEF Ordered, Roles, Role, At, Applying
    <2>5. lock' = NoCall /\ NoCall \notin Calls /\ claim' = claim
      BY <1>2, CallsAssumption DEF Unlock
    <2>6. Role(t)'
      BY <2>1, <2>4, <2>5 DEF Role, Applying
    <2>7. \A u \in Passes \ {t} : ~At(u, "idle") => claim'[Home[u]] = u
      BY <2>5, CallsAssumption DEF Ordered, Roles, Role
    <2>8. Roles'
      BY <2>1, <2>4, <2>5, <2>6, <2>7, RolesStay DEF Ordered
    <2> QED
      BY <1>2, <2>2, <2>3, <2>8, UnlockTyped DEF Ordered
  <1>3. CASE Book(t)
    <2>1. Keeps(t) /\ call'[t].pc = "idle" /\ call[t].pc = "book"
      BY <1>3, PhaseEnded, IdleTyped DEF Ordered, Book, EndPass, At
    <2>2. Mutexed'
      BY <1>3, <2>1, MutexStays DEF Ordered, Book, InMutex, Applying, Asking
    <2>3. Roles'
      BY <1>3, <2>1, RolesEnd DEF Ordered, Book, Applying
    <2> QED
      BY <1>3, <2>2, <2>3, BookTyped DEF Ordered
  <1> QED
    BY <1>1, <1>2, <1>3

LEMMA OperatorOrdered ==
    ASSUME Ordered, NEW t \in Calls, OperatorStep(t) \/ \E arg \in Args \ {<<>>} : Ask(t, arg)
    PROVE  Ordered'
  <1>1. ASSUME NEW arg \in Args \ {<<>>}, Ask(t, arg) PROVE Ordered'
    <2>1. Keeps(t) /\ call'[t].pc = "asked" /\ call[t].pc = "idle" /\ t \in Calls \ Passes
      BY <1>1, PhaseOperator DEF Ordered, Ask, At
    <2>2. Mutexed'
      BY <1>1, <2>1, MutexJoined DEF Ordered, Ask, InMutex, Applying, Asking
    <2>3. Roles'
      BY <1>1, <2>1, RolesOperator DEF Ordered, Ask
    <2> QED
      BY <1>1, <2>2, <2>3, AskTyped DEF Ordered
  <1>2. call[t].pc \in {"asked", "moved"} => t \in Calls \ Passes
    BY DEF Ordered, Roles, Role
  <1>3. CASE MoveSkill(t)
    <2>1. Keeps(t) /\ call'[t].pc = "moved" /\ call[t].pc = "asked" /\ Holds(t) /\ UNCHANGED locks
      BY <1>3, PhaseOperator DEF Ordered, MoveSkill, At
    <2>2. Mutexed'
      BY <2>1, MutexStays DEF Ordered, InMutex, Applying, Asking, locks
    <2>3. Roles'
      BY <1>2, <2>1, RolesOperator DEF Ordered, locks
    <2> QED
      BY <1>3, <2>2, <2>3, MoveSkillTyped DEF Ordered
  <1>4. CASE MarkSkill(t)
    <2>1. Keeps(t) /\ call'[t].pc = "idle" /\ call[t].pc = "moved" /\ claim' = claim /\ lock' = lock
      BY <1>4, PhaseOperator DEF Ordered, MarkSkill, At
    <2>2. Holds(t)
      BY <2>1, HolderLeads DEF Ordered, InMutex, Asking
    <2>3. Mutexed'
      BY <1>4, <2>1, <2>2, MutexLeft DEF Ordered, MarkSkill, InMutex, Applying
    <2>4. Roles'
      BY <1>2, <2>1, RolesOperator DEF Ordered
    <2> QED
      BY <1>4, <2>2, <2>3, <2>4, MarkSkillTyped DEF Ordered
  <1>5. CASE Refuse(t)
    <2>1. Keeps(t) /\ call'[t].pc = "idle" /\ call[t].pc = "asked" /\ Holds(t) /\ claim' = claim /\ lock' = lock
      BY <1>5, PhaseEnded, IdleTyped DEF Ordered, Refuse, At
    <2>2. Mutexed'
      BY <1>5, <2>1, MutexLeft DEF Ordered, Refuse, InMutex, Applying
    <2>3. Roles'
      BY <1>2, <2>1, RolesOperator DEF Ordered
    <2> QED
      BY <1>5, <2>2, <2>3, RefuseTyped DEF Ordered
  <1> QED
    BY <1>1, <1>3, <1>4, <1>5 DEF OperatorStep

LEMMA FaultOrdered == ASSUME Ordered, NEW t \in Calls, Fault(t) PROVE Ordered'
  <1>1. At(t, "moved") => Holds(t)
    BY HolderLeads DEF Ordered, InMutex, Asking, At
  <1>2. Typed'
    BY <1>1, FaultTyped DEF Ordered
  <1>3. CASE At(t, "fold") /\ Goto(t, "unlock") /\ UNCHANGED <<claim, chain>>
    <2>1. Keeps(t) /\ call'[t].pc = "unlock" /\ call[t].pc = "fold" /\ lock' = lock
      BY <1>3, PhaseGoto DEF Ordered, Fault, At
    <2>2. Mutexed'
      BY <1>3, <2>1, MutexStays DEF Ordered, InMutex, Applying, Asking
    <2>3. Roles'
      BY <1>3, <2>1, RolesGo DEF Ordered, Applying
    <2> QED
      BY <1>2, <2>2, <2>3 DEF Ordered
  <1>4. CASE call[t].pc \in {"defer", "list", "check", "book"} /\ EndPass(t) /\ UNCHANGED chain
    <2>1. Keeps(t) /\ call'[t].pc = "idle" /\ lock' = lock
      BY <1>4, PhaseEnded, IdleTyped DEF Ordered, Fault, EndPass
    <2>2. Mutexed'
      BY <1>4, <2>1, MutexStays DEF Ordered, InMutex, Applying, Asking
    <2>3. Roles'
      BY <1>4, <2>1, RolesEnd DEF Ordered, Applying
    <2> QED
      BY <1>2, <2>2, <2>3 DEF Ordered
  <1>5. CASE At(t, "moved") /\ call' = Ended(t) /\ chain' = Left(t) /\ UNCHANGED claim
    <2>1. Keeps(t) /\ call'[t].pc = "idle" /\ lock' = lock /\ t \in Calls \ Passes
      BY <1>5, PhaseEnded, IdleTyped DEF Ordered, Fault, Roles, Role, At
    <2>2. Mutexed'
      BY <1>1, <1>5, <2>1, MutexLeft DEF Ordered, InMutex, Applying
    <2>3. Roles'
      BY <1>5, <2>1, RolesOperator DEF Ordered
    <2> QED
      BY <1>2, <2>2, <2>3 DEF Ordered
  <1> QED
    BY <1>3, <1>4, <1>5 DEF Fault

LEMMA CrashOrdered == ASSUME Ordered, NEW i \in Instances, Crash(i) PROVE Ordered'
  <1>1. /\ claim' = [claim EXCEPT ![i] = NoCall] /\ lock \in Calls \cup {NoCall, Merge}
        /\ \A t \in Calls : call'[t] = IF Home[t] = i THEN NoWork ELSE call[t]
        /\ lock' = IF lock \in {t \in Calls : Home[t] = i} THEN NoCall ELSE lock
    BY DEF Crash, Ordered, Typed, TypeOK
  <1>2. ASSUME NEW t \in Calls, Home[t] = i PROVE Role(t)'
    <2>1. call'[t].pc = "idle" /\ lock' # t
      BY <1>1, <1>2, IdleTyped, CallsAssumption
    <2> QED
      BY <2>1 DEF Role, Applying, At
  <1>3. ASSUME NEW t \in Calls, Home[t] # i PROVE Role(t)'
    <2>1. call'[t] = call[t] /\ (lock' = t <=> lock = t) /\ claim'[Home[t]] = claim[Home[t]]
      BY <1>1, <1>3, CallsAssumption DEF Ordered, Typed, TypeOK
    <2>2. Role(t)
      BY DEF Ordered, Roles
    <2> QED
      BY <2>1, <2>2 DEF Role, At
  <1>4. Roles'
    BY <1>2, <1>3 DEF Roles
  <1> QED
    BY <1>4, CrashTyped, MutexCrashed DEF Ordered

LEMMA WorldOrdered ==
    ASSUME Ordered,
           \/ \E b \in BOOLEAN : SetPaused(b)
           \/ \E s \in Skills : UseSkill(s) \/ Age(s)
           \/ \E i \in Instances : Dispose(i) \/ Remount(i)
           \/ Quiet \/ Elapse \/ MergeLocks \/ MergeUnlocks
    PROVE  Ordered'
  <1>1. call' = call /\ chain' = chain /\ claim' = claim
    BY DEF SetPaused, UseSkill, Age, Dispose, Remount, Quiet, Elapse, MergeLocks, MergeUnlocks, locks
  <1>2. \A t \in Calls : lock' = t <=> lock = t
    BY CallsAssumption DEF SetPaused, UseSkill, Age, Dispose, Remount, Quiet, Elapse, MergeLocks, MergeUnlocks, locks
  <1>3. Mutexed'
    BY <1>1 DEF Ordered, Mutexed, InChain
  <1>4. Roles'
    BY <1>1, <1>2 DEF Ordered, Roles, Role, At
  <1> QED
    BY <1>3, <1>4, WorldTyped DEF Ordered

LEMMA OrderedNext == ASSUME Ordered, Next PROVE Ordered'
  <1>1. ASSUME NEW t \in Calls, PassStep(t) PROVE Ordered'
    BY <1>1, EarlyOrdered, ApplyOrdered, LateOrdered DEF PassStep
  <1>2. ASSUME NEW t \in Calls, NEW auto \in BOOLEAN, PassStart(t, auto) PROVE Ordered'
    BY <1>2, StartOrdered
  <1>3. ASSUME NEW t \in Calls, NEW s \in Skills, Ask(t, <<s>>) PROVE Ordered'
    BY <1>3, OperatorOrdered, <<s>> \in Args \ {<<>>} DEF Args
  <1>4. ASSUME NEW t \in Calls, NEW s \in Skills, NEW into \in Skills, Ask(t, <<s, into>>) PROVE Ordered'
    BY <1>4, OperatorOrdered, <<s, into>> \in Args \ {<<>>} DEF Args
  <1>5. ASSUME NEW t \in Calls, OperatorStep(t) PROVE Ordered'
    BY <1>5, OperatorOrdered
  <1>6. ASSUME NEW t \in Calls, Fault(t) PROVE Ordered'
    BY <1>6, FaultOrdered
  <1>7. ASSUME NEW i \in Instances, Crash(i) PROVE Ordered'
    BY <1>7, CrashOrdered
  <1> QED
    BY <1>1, <1>2, <1>3, <1>4, <1>5, <1>6, <1>7, WorldOrdered DEF Next

\* The invariant the others rest on: the types, the mutex chain of every
\* instance, and who holds the tree lock and the claims.
THEOREM Order == Spec => []Ordered
  <1>1. Init => Ordered
    BY InitOrdered
  <1>2. Ordered /\ [Next]_vars => Ordered'
    <2> SUFFICES ASSUME Ordered, UNCHANGED vars PROVE Ordered'
      BY OrderedNext
    <2> QED
      BY DEF vars, locks, bound, Ordered, Typed, TypeOK, Mutexed, InChain, Roles, Role, At
  <1> QED
    BY <1>1, <1>2, PTL DEF Spec

\* Every variable keeps its type, the schedule's bookkeeping and the mutex
\* chains included, however passes, operators and crashes interleave.
THEOREM TypeCorrect == Spec => []TypeOK
  <1>1. Ordered => TypeOK
    BY DEF Ordered, Typed
  <1> QED
    BY <1>1, Order, PTL

\* While a pass applies (applyMutations) it has the tree lock, and no restore
\* or consolidate of its process is between its directory move and its record.
THEOREM PassAppliesAlone == Spec => []ApplyExcludes
  <1>1. ASSUME Ordered PROVE ApplyExcludes
    <2> SUFFICES ASSUME NEW t \in Passes, call[t].pc \in Applying
                 PROVE  lock = t /\ \A u \in Calls \ {t} : Home[u] = Home[t] => ~At(u, "moved")
      BY DEF ApplyExcludes, Applying
    <2>1. t \in Calls /\ lock = t
      BY CallsAssumption, <1>1 DEF Ordered, Roles, Role
    <2>2. chain[Home[t]][1] = t
      BY <1>1, <2>1, HolderLeads DEF Ordered, InMutex, Applying, Asking
    <2>3. \A u \in Calls : At(u, "moved") => chain[Home[u]][1] = u
      BY <1>1, HolderLeads DEF Ordered, InMutex, Asking, At
    <2> QED
      BY <2>1, <2>2, <2>3
  <1> QED
    BY <1>1, Order, PTL

------------------------------------------------------------------------------
(* What a step of a call does to the sidecar and to the schedule.          *)

\* The writers of the sidecar.
LEMMA UsageWritten ==
    ASSUME Next, usage' # usage
    PROVE  \/ \E t \in Calls : Blocked(t) \/ Fold(t) \/ MarkSkill(t)
           \/ \E s \in Skills : UseSkill(s) \/ Age(s)
  <1>1. ASSUME NEW t \in Calls, PassStep(t) PROVE Blocked(t) \/ Fold(t) \/ usage' = usage
    <2>1. Defer(t) \/ Load(t) \/ Snapshot(t) \/ AcquireMutex(t) \/ LockTree(t) \/ LockBusy(t)
          => usage' = usage
      BY DEF Defer, Load, Snapshot, AcquireMutex, LockTree, LockBusy
    <2>2. Compute(t) \/ Archived(t) \/ Consolidate(t) \/ Unlock(t) \/ Book(t) => usage' = usage
      BY DEF Compute, Archived, Consolidate, Unlock, Book
    <2>3. \A s \in Skills : FoldMissing(t, s) \/ ArchiveSkill(t, s) \/ ArchiveRefused(t, s) => usage' = usage
      BY DEF FoldMissing, ArchiveSkill, ArchiveRefused
    <2> QED
      BY <1>1, <2>1, <2>2, <2>3 DEF PassStep
  <1>2. \A t \in Calls : /\ OperatorStep(t) => MarkSkill(t) \/ usage' = usage
                         /\ Fault(t) => usage' = usage
                         /\ \A auto \in BOOLEAN : PassStart(t, auto) => usage' = usage
                         /\ \A arg : Ask(t, arg) => usage' = usage
    BY DEF OperatorStep, MoveSkill, Refuse, Fault, PassStart, Ask
  <1>3. \A i \in Instances : Dispose(i) \/ Remount(i) \/ Crash(i) => usage' = usage
    BY DEF Dispose, Remount, Crash
  <1>4. \A b \in BOOLEAN : SetPaused(b) => usage' = usage
    BY DEF SetPaused
  <1>5. Quiet \/ Elapse \/ MergeLocks \/ MergeUnlocks => usage' = usage
    BY DEF Quiet, Elapse, MergeLocks, MergeUnlocks
  <1> QED
    BY <1>1, <1>2, <1>3, <1>4, <1>5 DEF Next

LEMMA RecordWritten ==
    ASSUME Next, call' # call, record' # record
    PROVE  \E t \in Calls : Defer(t) \/ Book(t)
  <1>1. ASSUME NEW t \in Calls, PassStep(t) PROVE Defer(t) \/ Book(t) \/ record' = record
    <2>1. Load(t) \/ Blocked(t) \/ Snapshot(t) \/ AcquireMutex(t) \/ LockTree(t) \/ LockBusy(t)
          => record' = record
      BY DEF Load, Blocked, Snapshot, AcquireMutex, LockTree, LockBusy
    <2>2. Compute(t) \/ Archived(t) \/ Consolidate(t) \/ Fold(t) \/ Unlock(t) => record' = record
      BY DEF Compute, Archived, Consolidate, Fold, Unlock
    <2>3. \A s \in Skills : FoldMissing(t, s) \/ ArchiveSkill(t, s) \/ ArchiveRefused(t, s) => record' = record
      BY DEF FoldMissing, ArchiveSkill, ArchiveRefused
    <2> QED
      BY <1>1, <2>1, <2>2, <2>3 DEF PassStep
  <1>2. \A t \in Calls : /\ OperatorStep(t) \/ Fault(t) => record' = record
                         /\ \A auto \in BOOLEAN : PassStart(t, auto) => record' = record
                         /\ \A arg : Ask(t, arg) => record' = record
    BY DEF OperatorStep, MoveSkill, MarkSkill, Refuse, Fault, PassStart, Ask
  <1>3. \A s \in Skills : UseSkill(s) \/ Age(s) => call' = call
    BY DEF UseSkill, Age
  <1>4. \A i \in Instances : Dispose(i) \/ Remount(i) \/ Crash(i) => record' = record
    BY DEF Dispose, Remount, Crash
  <1>5. \A b \in BOOLEAN : SetPaused(b) => call' = call
    BY DEF SetPaused
  <1>6. Quiet \/ Elapse \/ MergeLocks \/ MergeUnlocks => call' = call
    BY DEF Quiet, Elapse, MergeLocks, MergeUnlocks
  <1> QED
    BY <1>1, <1>2, <1>3, <1>4, <1>5, <1>6 DEF Next

\* A pass or an operator's call that writes the sidecar (the fold, a blocked
\* pass's seeds, a restore, a consolidate) leaves the age of every skill that
\* has a record: no use recorded meanwhile is lost and no clock restarts.
THEOREM UsesAreKept == Spec => ClockIsTheUsers
  <1>1. ASSUME Ordered, Next, call' # call, NEW s \in Skills, Known(usage[s])
        PROVE  usage'[s].age = usage[s].age
    <2>1. usage[s] \in Record /\ usage \in [Skills -> Record]
      BY <1>1 DEF Ordered, Typed, TypeOK
    <2>2. ASSUME NEW t \in Calls, Blocked(t) PROVE usage'[s].age = usage[s].age
      BY <1>1, <2>2 DEF Blocked
    <2>3. ASSUME NEW t \in Calls, Fold(t) PROVE usage'[s].age = usage[s].age
      BY <1>1, <2>1, <2>3 DEF Fold, Folded, Record
    <2>4. ASSUME NEW t \in Calls, MarkSkill(t) PROVE usage'[s].age = usage[s].age
      BY <2>1, <2>4 DEF MarkSkill, Record
    <2>5. \A r \in Skills : UseSkill(r) \/ Age(r) => call' = call
      BY DEF UseSkill, Age
    <2> QED
      BY <1>1, <2>2, <2>3, <2>4, <2>5, UsageWritten
  <1>2. Ordered /\ [Next]_vars
        => [call' # call => \A s \in Skills : Known(usage[s]) => usage'[s].age = usage[s].age]_vars
    BY <1>1
  <1> QED
    BY <1>2, Order, PTL DEF Spec, ClockIsTheUsers

\* The pass that defers and the bookkeeping of a pass keep the pause that a
\* user has set since the pass began.
THEOREM PauseIsTheUsers == Spec => PauseSurvives
  <1>1. ASSUME Ordered, Next, call' # call PROVE record'.paused = record.paused
    <2>1. record \in [seeded : BOOLEAN, paused : BOOLEAN, due : BOOLEAN] /\ (record.paused => record.seeded)
      BY <1>1 DEF Ordered, Typed, TypeOK
    <2>2. ASSUME NEW t \in Calls, Defer(t) \/ Book(t) PROVE record'.paused = record.paused
      <3>1. Defer(t) => record'.paused = record.paused
        <4>1. record.paused \in BOOLEAN /\ (~record.seeded => record.paused = FALSE)
          BY <2>1
        <4>2. Defer(t) => IF record.seeded THEN record' = record
                          ELSE record' = [seeded |-> TRUE, paused |-> FALSE, due |-> FALSE]
          BY DEF Defer
        <4>3. [seeded |-> TRUE, paused |-> FALSE, due |-> FALSE].paused = FALSE
          OBVIOUS
        <4> QED
          BY <4>1, <4>2, <4>3, Zenon
      <3>2. Book(t) => record'.paused = record.paused
        BY DEF Book
      <3> QED
        BY <2>2, <3>1, <3>2
    <2> QED
      BY <1>1, <2>2, RecordWritten
  <1>2. Ordered /\ [Next]_vars => [call' # call => record'.paused = record.paused]_vars
    BY <1>1
  <1> QED
    BY <1>2, Order, PTL DEF Spec, PauseSurvives

------------------------------------------------------------------------------
(* What a pass knows of the tree and of the sidecar until it folds.        *)

Late == {"check", "snapped", "queued", "archive", "merge", "fold"}

\* A listed or a later moved skill is all there is in the tree; what the pass
\* has newly archived in its map is a candidate still, or has left the tree,
\* or was moved by another; what landed is archived in the map.
Judgement(t, s) ==
    /\ s \in live => s \in call[t].tree \cup call[t].moved
    /\ call[t].seen[s].state = "archived" /\ call[t].start[s].state # "archived"
         => s \in call[t].cand \cup call[t].moved \/ s \notin live
    /\ s \in call[t].landed => call[t].seen[s].state = "archived" /\ s \notin call[t].cand
Facts(t) ==
    /\ At(t, "list") => call[t].seen = call[t].start
    /\ call[t].pc \in {"idle", "defer", "load", "list", "check", "snapped", "queued"} => call[t].landed = {}
    /\ call[t].pc \in Late \cup {"list"} => \A s \in Skills : Known(call[t].start[s]) => Known(usage[s])
    /\ call[t].pc \in Late => \A s \in Skills : Judgement(t, s)
    /\ call[t].pc \in {"merge", "fold"} => call[t].cand = {}

Untouched(u) ==
    /\ call'[u].pc = call[u].pc /\ call'[u].seen = call[u].seen /\ call'[u].start = call[u].start
    /\ call'[u].tree = call[u].tree /\ call'[u].cand = call[u].cand /\ call'[u].landed = call[u].landed
    /\ call[u].moved \subseteq call'[u].moved
Hears(u, S) == At(u, "idle") \/ S \subseteq call'[u].moved

LEMMA ToldOthers ==
    ASSUME Typed, NEW t \in Calls, NEW S \in SUBSET Skills, NEW w \in Work,
           w.pc \in {"asked", "moved"} => w.arg # <<>>,
           call' = [Move(t, S) EXCEPT ![t] = w], NEW u \in Calls \ {t}
    PROVE  Untouched(u) /\ Hears(u, S)
  <1>1. \/ call'[u] = call[u] /\ At(u, "idle")
        \/ call'[u] = [call[u] EXCEPT !.moved = @ \cup S]
    BY MovingTyped
  <1>2. call[u] \in Work
    BY DEF Typed, TypeOK
  <1>3. CASE call'[u] = call[u] /\ At(u, "idle")
    BY <1>3 DEF Untouched, Hears
  <1>4. CASE call'[u] = [call[u] EXCEPT !.moved = @ \cup S]
    BY <1>2, <1>4 DEF Untouched, Hears, Work
  <1> QED
    BY <1>1, <1>3, <1>4

\* A step of a pass without a move tells the others nothing.
LEMMA OthersSame ==
    ASSUME Typed, NEW t \in Calls, NEW u \in Calls \ {t},
           \/ \E auto \in BOOLEAN : PassStart(t, auto)
           \/ \E arg : Ask(t, arg)
           \/ Defer(t) \/ Load(t) \/ Compute(t) \/ Blocked(t) \/ Snapshot(t) \/ AcquireMutex(t)
           \/ LockTree(t) \/ LockBusy(t) \/ Archived(t) \/ Fold(t) \/ Unlock(t) \/ Book(t)
           \/ \E s \in Skills : FoldMissing(t, s) \/ ArchiveRefused(t, s)
           \/ Refuse(t) \/ Fault(t)
    PROVE  Untouched(u) /\ live' = live
  <1>1. call \in [Calls -> Work]
    BY DEF Typed, TypeOK
  <1>2. call' = Ended(t) \/ Goto(t, "snapped") \/ Goto(t, "queued") \/ Goto(t, "unlock") \/ Goto(t, "book")
        => call'[u] = call[u]
    BY <1>1 DEF Ended, Goto
  <1>3. \A auto \in BOOLEAN : PassStart(t, auto) => call'[u] = call[u] /\ live' = live
    BY <1>1 DEF PassStart
  <1>4. \A arg : Ask(t, arg) => call'[u] = call[u] /\ live' = live
    BY <1>1 DEF Ask
  <1>5. Defer(t) \/ Blocked(t) \/ LockBusy(t) \/ Book(t) \/ Refuse(t) => call'[u] = call[u] /\ live' = live
    BY <1>2 DEF Defer, Blocked, LockBusy, Book, Refuse, EndPass
  <1>6. Snapshot(t) \/ AcquireMutex(t) \/ Fold(t) \/ Unlock(t) => call'[u] = call[u] /\ live' = live
    BY <1>2 DEF Snapshot, AcquireMutex, Fold, Unlock
  <1>7. Load(t) => call'[u] = call[u] /\ live' = live
    BY <1>1, <1>2 DEF Load, EndPass
  <1>8. LockTree(t) \/ Archived(t) => call'[u] = call[u] /\ live' = live
    BY <1>1 DEF LockTree, Archived
  <1>9. Compute(t) => call'[u] = call[u] /\ live' = live
    BY <1>1, ComputeWork DEF Compute
  <1>10. \A s \in Skills : FoldMissing(t, s) \/ ArchiveRefused(t, s) => call'[u] = call[u] /\ live' = live
    BY <1>1 DEF FoldMissing, ArchiveRefused, Refused
  <1>11. Fault(t) => call'[u] = call[u] /\ live' = live
    BY <1>2 DEF Fault, EndPass
  <1>12. call'[u] = call[u] /\ live' = live
    BY <1>3, <1>4, <1>5, <1>6, <1>7, <1>8, <1>9, <1>10, <1>11
  <1> QED
    BY <1>12 DEF Untouched

\* A step with a move tells every other call of it.
LEMMA OthersHear ==
    ASSUME Typed, NEW t \in Calls, NEW u \in Calls \ {t},
           \/ Consolidate(t) \/ MoveSkill(t) \/ MarkSkill(t)
           \/ \E s \in Skills : ArchiveSkill(t, s)
    PROVE  Untouched(u) /\ Hears(u, live' \ live)
  <1>1. \A s \in Skills, w \in Work : w.pc \in {"archive", "fold"} /\ Lands(t, s, w)
                                      => Untouched(u) /\ Hears(u, live' \ live)
    <2> SUFFICES ASSUME NEW s \in Skills, NEW w \in Work, w.pc \in {"archive", "fold"}, Lands(t, s, w)
                 PROVE  Untouched(u) /\ Hears(u, live' \ live)
      OBVIOUS
    <2>1. call' = [Move(t, {s}) EXCEPT ![t] = w] /\ {s} \in SUBSET Skills /\ live' \ live = {}
      BY DEF Lands
    <2> QED
      BY <2>1, ToldOthers DEF Hears
  <1>2. ASSUME Goto(t, "fold"), live' = live PROVE Untouched(u) /\ Hears(u, live' \ live)
    BY <1>2 DEF Goto, Untouched, Hears, Typed, TypeOK
  <1>3. CASE Consolidate(t)
    BY <1>1, <1>2, <1>3, ConsolidateWork
  <1>4. ASSUME NEW s \in Skills, ArchiveSkill(t, s) PROVE Untouched(u) /\ Hears(u, live' \ live)
    BY <1>1, <1>4, ArchiveSkillWork
  <1>5. CASE MoveSkill(t)
    <2>1. PICK w \in Work : /\ w.pc = "moved" /\ w.arg = call[t].arg
                            /\ call' = [Move(t, {Subject(t)}) EXCEPT ![t] = w]
      BY <1>5, MoveSkillWork
    <2>2. {Subject(t)} \in SUBSET Skills /\ w.arg # <<>>
      BY <1>5, <2>1, MoveSkillWork DEF MoveSkill, At, Typed
    <2>3. Untouched(u) /\ Hears(u, {Subject(t)})
      BY <2>1, <2>2, ToldOthers
    <2>4. live' \ live \subseteq {Subject(t)}
      BY <1>5 DEF MoveSkill
    <2> QED
      BY <2>3, <2>4 DEF Hears
  <1>6. CASE MarkSkill(t)
    <2>1. {Subject(t)} \in SUBSET Skills /\ call' = [Move(t, {Subject(t)}) EXCEPT ![t] = NoWork]
      BY <1>6, SubjectTyped DEF MarkSkill, At
    <2>2. Untouched(u) /\ live' \ live = {}
      BY <1>6, <2>1, ToldOthers, IdleTyped DEF MarkSkill
    <2> QED
      BY <2>2 DEF Hears
  <1> QED
    BY <1>3, <1>4, <1>5, <1>6

\* No write takes a record away.
LEMMA KnownKept ==
    ASSUME Typed, Next, NEW s \in Skills, Known(usage[s])
    PROVE  Known(usage'[s])
  <1>1. usage[s] \in Record /\ usage \in [Skills -> Record] /\ usage[s].state # "none"
    BY DEF Typed, TypeOK, Known
  <1>2. ASSUME NEW t \in Calls, Blocked(t) PROVE Known(usage'[s])
    BY <1>2 DEF Blocked
  <1>3. ASSUME NEW t \in Calls, Fold(t) PROVE Known(usage'[s])
    <2>1. call[t].seen[s] \in Record
      BY DEF Typed, TypeOK, Work
    <2> QED
      BY <1>1, <1>3, <2>1 DEF Fold, Folded, Owned, Known, Record
  <1>4. ASSUME NEW t \in Calls, MarkSkill(t) PROVE Known(usage'[s])
    BY <1>1, <1>4 DEF MarkSkill, Known, Record
  <1>5. ASSUME NEW r \in Skills, UseSkill(r) \/ Age(r) PROVE Known(usage'[s])
    <2>1. CASE UseSkill(r)
      <3>1. PICK n \in {[usage[r] EXCEPT !.age = "fresh"],
                        [state |-> IF Known(usage[r]) THEN usage[r].state ELSE "active", age |-> "fresh"]} :
                usage' = [usage EXCEPT ![r] = n]
        BY <2>1 DEF UseSkill
      <3>2. Known(usage[r]) => n.state = usage[r].state
        BY DEF Typed, TypeOK, Record
      <3> QED
        BY <1>1, <3>1, <3>2 DEF Known
    <2>2. CASE Age(r)
      BY <1>1, <2>2 DEF Age, Known, Record
    <2> QED
      BY <1>5, <2>1, <2>2
  <1> QED
    BY <1>2, <1>3, <1>4, <1>5, UsageWritten

\* What is told a call keeps its facts.
LEMMA FactsFramed ==
    ASSUME Typed, NEW u \in Calls, Facts(u), Untouched(u), Hears(u, live' \ live),
           \A s \in Skills : Known(usage[s]) => Known(usage'[s])
    PROVE  Facts(u)'
  <1>1. ASSUME call[u].pc \in Late, NEW s \in Skills PROVE Judgement(u, s)'
    <2>1. Judgement(u, s) /\ ~At(u, "idle")
      BY <1>1 DEF Facts, Late, At
    <2>2. s \in live' => s \in live \/ s \in call'[u].moved
      BY <2>1 DEF Hears
    <2> QED
      BY <2>1, <2>2 DEF Judgement, Untouched
  <1>2. call[u].pc \in Late => \A s \in Skills : Judgement(u, s)'
    BY <1>1
  <1> QED
    BY <1>2 DEF Facts, Untouched, At

LEMMA FactsKept ==
    ASSUME Typed, Next, NEW t \in Calls, NEW u \in Calls \ {t}, Facts(u),
           \/ PassStep(t) \/ OperatorStep(t) \/ Fault(t)
           \/ \E auto \in BOOLEAN : PassStart(t, auto)
           \/ \E arg : Ask(t, arg)
    PROVE  Facts(u)'
  <1>1. Untouched(u) /\ Hears(u, live' \ live)
    <2>1. ASSUME PassStep(t)
          PROVE  Consolidate(t) \/ (\E s \in Skills : ArchiveSkill(t, s)) \/ (Untouched(u) /\ live' = live)
      <3>1. \/ Consolidate(t) \/ (\E s \in Skills : ArchiveSkill(t, s))
            \/ (\E s \in Skills : FoldMissing(t, s) \/ ArchiveRefused(t, s))
            \/ Defer(t) \/ Load(t) \/ Compute(t) \/ Blocked(t) \/ Snapshot(t) \/ AcquireMutex(t)
            \/ LockTree(t) \/ LockBusy(t) \/ Archived(t) \/ Fold(t) \/ Unlock(t) \/ Book(t)
        BY <2>1 DEF PassStep
      <3> QED
        BY <3>1, OthersSame
    <2>2. OperatorStep(t) => MoveSkill(t) \/ MarkSkill(t) \/ (Untouched(u) /\ live' = live)
      BY OthersSame DEF OperatorStep
    <2> QED
      BY <2>1, <2>2, OthersSame, OthersHear DEF Hears
  <1> QED
    BY <1>1, KnownKept, FactsFramed

\* A call that is idle, or outside the phases that judge, has nothing to know.
LEMMA FactsVoid ==
    ASSUME NEW t \in Calls,
           call'[t].pc \notin Late \cup {"list"},
           call'[t].pc \in {"idle", "defer", "load"} => call'[t].landed = {}
    PROVE  Facts(t)'
  BY DEF Facts, Late, At

LEMMA FactsEnded ==
    ASSUME Typed, NEW t \in Calls, call' = Ended(t) PROVE Facts(t)'
  BY PhaseEnded, IdleTyped, FactsVoid DEF Late

LEMMA FactsStart ==
    ASSUME Typed, NEW t \in Calls, Facts(t),
           \/ \E auto \in BOOLEAN : PassStart(t, auto)
           \/ \E arg : Ask(t, arg)
           \/ Defer(t) \/ Load(t) \/ Blocked(t) \/ LockBusy(t) \/ Book(t) \/ Refuse(t)
    PROVE  Facts(t)'
  <1>1. call[t] \in Work /\ call \in [Calls -> Work]
    BY DEF Typed, TypeOK
  <1>2. ASSUME NEW auto \in BOOLEAN, PassStart(t, auto) PROVE Facts(t)'
    <2>1. call'[t] = [NoWork EXCEPT !.auto = auto,
                                    !.pc = IF auto /\ ~record.seeded THEN "defer" ELSE "load"]
      BY <1>1, <1>2 DEF PassStart
    <2>2. call'[t].pc \in {"defer", "load"} /\ call'[t].landed = {}
      BY <2>1, IdleTyped DEF Work
    <2> QED
      BY <2>2, FactsVoid DEF Late
  <1>3. ASSUME NEW arg, Ask(t, arg) PROVE Facts(t)'
    <2>1. call'[t] = [NoWork EXCEPT !.pc = "asked", !.arg = arg]
      BY <1>1, <1>3 DEF Ask
    <2>2. call'[t].pc = "asked"
      BY <2>1 DEF NoWork
    <2> QED
      BY <2>2, FactsVoid DEF Late
  <1>4. CASE Defer(t) \/ Blocked(t) \/ LockBusy(t) \/ Book(t) \/ Refuse(t)
    BY <1>4, FactsEnded DEF Defer, Blocked, LockBusy, Book, Refuse, EndPass
  <1>5. CASE Load(t)
    <2>1. CASE EndPass(t)
      BY <2>1, FactsEnded DEF EndPass
    <2>2. CASE call' = [call EXCEPT ![t].pc = "list", ![t].seen = usage, ![t].start = usage]
      <3>1. /\ call'[t].pc = "list" /\ call'[t].seen = usage /\ call'[t].start = usage
            /\ call'[t].landed = call[t].landed /\ usage' = usage
        BY <1>1, <1>5, <2>2 DEF Load, Work
      <3>2. call[t].landed = {}
        BY <1>5 DEF Load, Facts, At
      <3> QED
        BY <3>1, <3>2 DEF Facts, Late, At
    <2> QED
      BY <1>5, <2>1, <2>2 DEF Load
  <1> QED
    BY <1>2, <1>3, <1>4, <1>5

\* Seeding and judging archive nothing that was not a candidate.
LEMMA FactsCompute ==
    ASSUME Typed, NEW t \in Calls, Facts(t), Compute(t)
    PROVE  Facts(t)'
  <1>1. PICK w \in Work :
             /\ call' = [call EXCEPT ![t] = w] /\ w.pc = "check" /\ w.tree = live
             /\ w.seen = Transited(Seeded(call[t].seen)) /\ w.start = call[t].start
             /\ w.landed = call[t].landed /\ w.moved = call[t].moved
             /\ \A s \in Skills :
                  w.seen[s].state = "archived" /\ Seeded(call[t].seen)[s].state # "archived"
                  => s \in w.cand
    BY ComputeWork
  <1>2. /\ call'[t] = w /\ call[t].seen = call[t].start /\ call[t].landed = {}
        /\ live' = live /\ usage' = usage
        /\ \A s \in Skills : Known(call[t].start[s]) => Known(usage[s])
    BY <1>1, PhaseSet DEF Compute, Facts, At
  <1>3. \A s \in Skills : call[t].seen[s].state # "archived" => Seeded(call[t].seen)[s].state # "archived"
    BY DEF Seeded, Typed, TypeOK, Work, Record
  <1>4. \A s \in Skills : Judgement(t, s)'
    BY <1>1, <1>2, <1>3 DEF Judgement
  <1> QED
    BY <1>1, <1>2, <1>4 DEF Facts, Late, At

LEMMA FactsGo ==
    ASSUME Typed, NEW t \in Calls, Facts(t),
           Snapshot(t) \/ AcquireMutex(t) \/ LockTree(t) \/ Archived(t) \/ Fold(t) \/ Unlock(t)
    PROVE  Facts(t)'
  <1>1. call[t] \in Work /\ call \in [Calls -> Work]
    BY DEF Typed, TypeOK
  <1>2. CASE Fold(t) \/ Unlock(t)
    <2>1. call'[t].pc \in {"unlock", "book"}
      BY <1>2, PhaseGoto DEF Fold, Unlock
    <2> QED
      BY <2>1, FactsVoid DEF Late
  <1>3. CASE Snapshot(t) \/ AcquireMutex(t) \/ LockTree(t) \/ Archived(t)
    <2>1. /\ call'[t].seen = call[t].seen /\ call'[t].start = call[t].start /\ call'[t].tree = call[t].tree
          /\ call'[t].cand = call[t].cand /\ call'[t].landed = call[t].landed /\ call'[t].moved = call[t].moved
          /\ live' = live /\ usage' = usage
      <3>1. CASE Snapshot(t) \/ AcquireMutex(t)
        BY <1>1, <3>1 DEF Snapshot, AcquireMutex, Goto, Work
      <3>2. CASE LockTree(t) \/ Archived(t)
        BY <1>1, <3>2 DEF LockTree, Archived, Work
      <3> QED
        BY <1>3, <3>1, <3>2
    <2>2. /\ call[t].pc \in Late /\ call'[t].pc \in {"snapped", "queued", "archive", "merge", "fold", "unlock"}
          /\ call'[t].pc \in {"merge", "fold"} => call[t].cand = {}
          /\ call'[t].pc \in {"snapped", "queued"} => call[t].landed = {}
      <3>1. CASE Snapshot(t) \/ AcquireMutex(t)
        BY <3>1, PhaseGoto DEF Snapshot, AcquireMutex, At, Late, Facts
      <3>2. CASE LockTree(t) \/ Archived(t)
        BY <3>2, PhasePass DEF LockTree, Archived, At, Late
      <3> QED
        BY <1>3, <3>1, <3>2
    <2>3. \A s \in Skills : Judgement(t, s)'
      BY <2>1, <2>2 DEF Facts, Judgement
    <2> QED
      BY <2>1, <2>2, <2>3 DEF Facts, Late, At
  <1> QED
    BY <1>2, <1>3

\* A candidate is folded unseen, archived or refused.
LEMMA FactsArchive ==
    ASSUME Typed, NEW t \in Calls, Facts(t), NEW s \in Skills,
           FoldMissing(t, s) \/ ArchiveSkill(t, s) \/ ArchiveRefused(t, s)
    PROVE  Facts(t)'
  <1>1. /\ At(t, "archive") /\ s \in call[t].cand /\ usage' = usage
        /\ \A r \in Skills : Judgement(t, r) /\ (Known(call[t].start[r]) => Known(usage[r]))
    BY DEF FoldMissing, ArchiveSkill, ArchiveRefused, Facts, Late, At
  <1>2. ASSUME call'[t].pc = "archive", call'[t].start = call[t].start, \A r \in Skills : Judgement(t, r)'
        PROVE  Facts(t)'
    BY <1>1, <1>2 DEF Facts, Late, At
  <1>3. CASE FoldMissing(t, s)
    <2>1. /\ call' = [call EXCEPT ![t].cand = @ \ {s}, ![t].seen[s].state = "archived"]
          /\ "archived" \in States /\ s \notin call[t].tree /\ live' = live
      BY <1>3 DEF FoldMissing, States
    <2>2. PICK w \in Work : Verdict(t, s, "archived", w)
      BY <2>1, VerdictWork
    <2>3. call'[t] = w
      BY <2>2, PhaseSet DEF Verdict
    <2>4. \A r \in Skills : Judgement(t, r)'
      BY <1>1, <2>1, <2>2, <2>3 DEF Verdict, Judgement
    <2> QED
      BY <1>1, <1>2, <2>2, <2>3, <2>4 DEF Verdict, At
  <1>4. CASE ArchiveRefused(t, s)
    <2>1. PICK st \in States : st = Origin(t, s) /\ st # "archived"
      BY OriginTyped
    <2>2. call' = [call EXCEPT ![t].cand = @ \ {s}, ![t].seen[s].state = st] /\ live' = live
      BY <1>4, <2>1 DEF ArchiveRefused, Refused
    <2>3. PICK w \in Work : Verdict(t, s, st, w)
      BY <2>2, VerdictWork
    <2>4. call'[t] = w
      BY <2>3, PhaseSet DEF Verdict
    <2>5. \A r \in Skills : Judgement(t, r)'
      BY <1>1, <2>1, <2>2, <2>3, <2>4 DEF Verdict, Judgement
    <2> QED
      BY <1>1, <1>2, <2>3, <2>4, <2>5 DEF Verdict, At
  <1>5. CASE ArchiveSkill(t, s)
    <2>1. PICK w \in Work : w.pc = "archive" /\ w.cand = call[t].cand \ {s} /\ Lands(t, s, w)
      BY <1>5, ArchiveSkillWork
    <2>2. call'[t] = w
      <3>1. call' = [Move(t, {s}) EXCEPT ![t] = w] /\ {s} \in SUBSET Skills
        BY <2>1 DEF Lands
      <3> QED
        BY <3>1, PhaseMoving
    <2>3. \A r \in Skills : Judgement(t, r)'
      BY <1>1, <2>1, <2>2 DEF Lands, Judgement
    <2> QED
      BY <1>2, <2>1, <2>2, <2>3 DEF Lands
  <1> QED
    BY <1>3, <1>4, <1>5

LEMMA FactsConsolidate ==
    ASSUME Typed, NEW t \in Calls, Facts(t), Consolidate(t)
    PROVE  Facts(t)'
  <1>1. /\ call[t].pc = "merge" /\ call[t].cand = {} /\ usage' = usage
        /\ \A r \in Skills : Judgement(t, r) /\ (Known(call[t].start[r]) => Known(usage[r]))
    BY DEF Consolidate, Facts, Late, At
  <1>2. CASE Goto(t, "fold") /\ live' = live
    <2>1. call[t] \in Work /\ call \in [Calls -> Work]
      BY DEF Typed, TypeOK
    <2>2. /\ call'[t].seen = call[t].seen /\ call'[t].start = call[t].start /\ call'[t].tree = call[t].tree
          /\ call'[t].cand = call[t].cand /\ call'[t].landed = call[t].landed /\ call'[t].moved = call[t].moved
          /\ call'[t].pc = "fold"
      BY <1>2, <2>1 DEF Goto, Work
    <2>3. \A r \in Skills : Judgement(t, r)'
      BY <1>1, <1>2, <2>2 DEF Judgement
    <2> QED
      BY <1>1, <2>2, <2>3 DEF Facts, Late, At
  <1>3. ASSUME NEW s \in Skills, NEW w \in Work, w.pc = "fold", w.cand = call[t].cand, Lands(t, s, w)
        PROVE  Facts(t)'
    <2>1. call'[t] = w
      BY <1>3, PhaseMoving, {s} \in SUBSET Skills DEF Lands
    <2>2. \A r \in Skills : Judgement(t, r)'
      BY <1>1, <1>3, <2>1 DEF Lands, Judgement
    <2> QED
      BY <1>1, <1>3, <2>1, <2>2 DEF Facts, Late, At, Lands
  <1> QED
    BY <1>2, <1>3, ConsolidateWork

LEMMA FactsOperator ==
    ASSUME Typed, NEW t \in Calls, MoveSkill(t) \/ MarkSkill(t)
    PROVE  Facts(t)'
  <1>1. CASE MoveSkill(t)
    BY <1>1, PhaseOperator, FactsVoid DEF Late, At
  <1>2. CASE MarkSkill(t)
    <2>1. {Subject(t)} \in SUBSET Skills /\ call' = [Move(t, {Subject(t)}) EXCEPT ![t] = NoWork]
      BY <1>2, SubjectTyped DEF MarkSkill, At
    <2>2. call'[t] = NoWork
      BY <2>1, PhaseMoving, IdleTyped
    <2> QED
      BY <2>2, IdleTyped, FactsVoid DEF Late
  <1> QED
    BY <1>1, <1>2

LEMMA FactsFault ==
    ASSUME Typed, NEW t \in Calls, Fault(t)
    PROVE  Facts(t)'
  <1>1. CASE Goto(t, "unlock")
    BY <1>1, PhaseGoto, FactsVoid DEF Late
  <1>2. CASE call' = Ended(t)
    BY <1>2, FactsEnded
  <1> QED
    BY <1>1, <1>2 DEF Fault, EndPass

LEMMA FactsOwn ==
    ASSUME Typed, NEW t \in Calls, Facts(t),
           \/ PassStep(t) \/ OperatorStep(t) \/ Fault(t)
           \/ \E auto \in BOOLEAN : PassStart(t, auto)
           \/ \E arg : Ask(t, arg)
    PROVE  Facts(t)'
  <1>1. CASE PassStep(t)
    <2>1. \/ Defer(t) \/ Load(t) \/ Blocked(t) \/ LockBusy(t) \/ Book(t)
          \/ Compute(t) \/ Consolidate(t)
          \/ Snapshot(t) \/ AcquireMutex(t) \/ LockTree(t) \/ Archived(t) \/ Fold(t) \/ Unlock(t)
          \/ \E s \in Skills : FoldMissing(t, s) \/ ArchiveSkill(t, s) \/ ArchiveRefused(t, s)
      BY <1>1 DEF PassStep
    <2> QED
      BY <2>1, FactsStart, FactsCompute, FactsGo, FactsArchive, FactsConsolidate
  <1>2. CASE OperatorStep(t)
    BY <1>2, FactsStart, FactsOperator DEF OperatorStep
  <1> QED
    BY <1>1, <1>2, FactsStart, FactsFault

Informed == Ordered /\ \A t \in Calls : Facts(t)

\* The steps of calls, and the others.
LEMMA Steps ==
    ASSUME Next
    PROVE  \/ \E t \in Calls : \/ PassStep(t) \/ OperatorStep(t) \/ Fault(t)
                               \/ \E auto \in BOOLEAN : PassStart(t, auto)
                               \/ \E arg : Ask(t, arg)
           \/ \E i \in Instances : Crash(i)
           \/ call' = call /\ (live' = live) /\ lock' \in {lock, NoCall, Merge}
  <1>1. /\ \A s \in Skills : UseSkill(s) \/ Age(s) => call' = call /\ live' = live /\ lock' = lock
        /\ \A b \in BOOLEAN : SetPaused(b) => call' = call /\ live' = live /\ lock' = lock
        /\ \A i \in Instances : Dispose(i) \/ Remount(i) => call' = call /\ live' = live /\ lock' = lock
    BY DEF UseSkill, Age, SetPaused, Dispose, Remount, locks
  <1>2. Quiet \/ Elapse \/ MergeLocks \/ MergeUnlocks
        => call' = call /\ live' = live /\ lock' \in {lock, NoCall, Merge}
    BY DEF Quiet, Elapse, MergeLocks, MergeUnlocks, locks
  <1> QED
    BY <1>1, <1>2 DEF Next

LEMMA InformedNext == ASSUME Informed, Next PROVE Informed'
  <1>1. Typed /\ Ordered' /\ \A s \in Skills : Known(usage[s]) => Known(usage'[s])
    BY OrderedNext, KnownKept DEF Informed, Ordered
  <1>2. ASSUME NEW t \in Calls,
               \/ PassStep(t) \/ OperatorStep(t) \/ Fault(t)
               \/ \E auto \in BOOLEAN : PassStart(t, auto)
               \/ \E arg : Ask(t, arg)
        PROVE  \A u \in Calls : Facts(u)'
    <2>1. Facts(t)'
      BY <1>1, <1>2, FactsOwn DEF Informed
    <2>2. \A u \in Calls \ {t} : Facts(u)'
      BY <1>1, <1>2, FactsKept DEF Informed
    <2> QED
      BY <2>1, <2>2
  <1>3. ASSUME NEW i \in Instances, Crash(i) PROVE \A u \in Calls : Facts(u)'
    <2> SUFFICES ASSUME NEW u \in Calls PROVE Facts(u)'
      OBVIOUS
    <2>1. call'[u] = (IF Home[u] = i THEN NoWork ELSE call[u]) /\ live' = live
      BY <1>3 DEF Crash
    <2>2. CASE Home[u] = i
      BY <2>1, <2>2, IdleTyped, FactsVoid DEF Late
    <2>3. CASE Home[u] # i
      <3>1. Untouched(u) /\ Hears(u, live' \ live)
        BY <2>1, <2>3 DEF Untouched, Hears
      <3> QED
        BY <1>1, <3>1, FactsFramed DEF Informed
    <2> QED
      BY <2>2, <2>3
  <1>4. CASE call' = call /\ live' = live
    <2>1. \A u \in Calls : Untouched(u) /\ Hears(u, live' \ live)
      BY <1>4 DEF Untouched, Hears
    <2> QED
      BY <1>1, <2>1, FactsFramed DEF Informed
  <1> QED
    BY <1>1, <1>2, <1>3, <1>4, Steps DEF Informed

LEMMA InitInformed == Init => Informed
  <1> SUFFICES ASSUME Init PROVE \A t \in Calls : Facts(t)
    BY InitOrdered DEF Informed
  <1>1. \A t \in Calls : call[t] = NoWork
    BY DEF Init
  <1> QED
    BY <1>1, IdleTyped DEF Facts, Late, At

LEMMA Knowledge == Spec => []Informed
  <1>1. Informed /\ [Next]_vars => Informed'
    <2> SUFFICES ASSUME Informed, UNCHANGED vars PROVE Informed'
      BY InformedNext
    <2>1. Ordered'
      BY DEF Informed, vars, locks, bound, Ordered, Typed, TypeOK, Mutexed, InChain, Roles, Role, At
    <2>2. \A t \in Calls : Facts(t)'
      BY DEF Informed, vars, Facts, Judgement, At
    <2> QED
      BY <2>1, <2>2 DEF Informed
  <1> QED
    BY <1>1, InitInformed, PTL DEF Spec

\* The fold marks a skill archived only if it is out of the tree by then, or
\* was moved by another while the pass ran: a refused archive, a pruning and a
\* candidate that had left the tree included.
THEOREM FoldTellsTheTruth == Spec => FoldIsTrue
  <1>1. ASSUME Informed, Next, NEW t \in Calls, NEW s \in Skills, At(t, "fold"), ~At(t, "fold")',
               usage'[s] # usage[s], usage'[s].state = "archived"
        PROVE  s \notin live \/ s \in call[t].moved
    <2>1. Typed /\ Facts(t)
      BY <1>1 DEF Informed, Ordered
    <2>2. Fold(t)
      <3>1. ASSUME NEW u \in Calls, Blocked(u) PROVE FALSE
        <4>1. u # t /\ Keeps(u)
          BY <1>1, <2>1, <3>1, PhaseEnded DEF Blocked, EndPass, At
        <4> QED
          BY <1>1, <4>1 DEF Keeps, At
      <3>2. ASSUME NEW u \in Calls, MarkSkill(u) PROVE FALSE
        <4>1. u # t /\ Keeps(u)
          BY <1>1, <2>1, <3>2, PhaseOperator DEF MarkSkill, At
        <4> QED
          BY <1>1, <4>1 DEF Keeps, At
      <3>3. ASSUME NEW u \in Calls, Fold(u), u # t PROVE FALSE
        <4>1. Keeps(u)
          BY <2>1, <3>3, PhaseGoto DEF Fold
        <4> QED
          BY <1>1, <3>3, <4>1 DEF Keeps, At
      <3>4. \A r \in Skills : ~(UseSkill(r) \/ Age(r))
        BY <1>1 DEF UseSkill, Age, At
      <3> QED
        BY <1>1, <3>1, <3>2, <3>3, <3>4, UsageWritten
    <2>3. /\ Judgement(t, s) /\ call[t].cand = {}
          /\ Known(call[t].start[s]) => Known(usage[s])
      BY <1>1, <2>1 DEF Facts, Late, At
    <2>4. call[t].seen[s] \in Record /\ call[t].start[s] \in Record /\ usage[s] \in Record
      BY <2>1 DEF Typed, TypeOK, Work
    <2>5. CASE ~Known(usage[s])
      <3>1. call[t].seen[s].state = "archived" /\ call[t].start[s].state # "archived"
        BY <1>1, <2>2, <2>3, <2>5 DEF Fold, Folded, Known
      <3> QED
        BY <2>3, <3>1 DEF Judgement
    <2>6. CASE Known(usage[s])
      <3>1. s \in Owned(t)
        BY <1>1, <2>2, <2>6 DEF Fold, Folded
      <3>2. call[t].seen[s].state = "archived"
        BY <1>1, <2>2, <2>4, <2>6, <3>1 DEF Fold, Folded, Record
      <3>3. call[t].start[s].state # "archived"
        BY <3>1, <3>2 DEF Owned
      <3> QED
        BY <2>3, <3>2, <3>3 DEF Judgement
    <2> QED
      BY <2>5, <2>6
  <1>2. Informed /\ [Next]_vars
        => [\A t \in Calls, s \in Skills :
              At(t, "fold") /\ ~At(t, "fold")' /\ usage'[s] # usage[s] /\ usage'[s].state = "archived"
              => s \notin live \/ s \in call[t].moved]_vars
    BY <1>1
  <1> QED
    BY <1>2, Knowledge, PTL DEF Spec, FoldIsTrue

------------------------------------------------------------------------------
(* What has landed is recorded, when the passes share one process.         *)

OneProcess == \A t, u \in Passes : Home[t] = Home[u]

\* Until it folds, the states a pass began with are those on disk, moved skills
\* apart; and then what landed is archived on disk.
Recorded(t) ==
    /\ call[t].pc \in Late \cup {"list"} => \A s \in Skills \ call[t].moved : Unmoved(t, s)
    /\ At(t, "unlock") /\ faults = 0 => \A s \in call[t].landed \ call[t].moved : usage[s].state = "archived"

LEMMA FaultsGrow == ASSUME Typed, Next, faults' = 0 PROVE faults = 0
  <1>1. faults \in Nat
    BY CallsAssumption DEF Typed, TypeOK
  <1>2. ASSUME NEW t \in Calls, PassStep(t) PROVE faults' \in {faults, faults + 1}
    <2>1. Defer(t) \/ Load(t) \/ Snapshot(t) \/ AcquireMutex(t) \/ LockTree(t) \/ LockBusy(t)
          => faults' = faults
      BY DEF Defer, Load, Snapshot, AcquireMutex, LockTree, LockBusy, bound
    <2>2. Compute(t) \/ Blocked(t) \/ Archived(t) \/ Fold(t) \/ Unlock(t) \/ Book(t) => faults' = faults
      BY DEF Compute, Blocked, Archived, Fold, Unlock, Book, bound
    <2>3. \A s \in Skills : FoldMissing(t, s) \/ ArchiveSkill(t, s) \/ ArchiveRefused(t, s)
                            => faults' \in {faults, faults + 1}
      BY DEF FoldMissing, ArchiveSkill, ArchiveRefused, bound
    <2>4. Consolidate(t) => faults' \in {faults, faults + 1}
      BY DEF Consolidate
    <2> QED
      BY <1>2, <2>1, <2>2, <2>3, <2>4 DEF PassStep
  <1>3. \A t \in Calls : /\ OperatorStep(t) => faults' = faults
                         /\ Fault(t) => faults' = faults + 1
                         /\ \A auto \in BOOLEAN : PassStart(t, auto) => faults' = faults
                         /\ \A arg : Ask(t, arg) => faults' = faults
    BY DEF OperatorStep, MoveSkill, MarkSkill, Refuse, Fault, PassStart, Ask, bound
  <1>4. /\ \A s \in Skills : UseSkill(s) \/ Age(s) => faults' = faults
        /\ \A b \in BOOLEAN : SetPaused(b) => faults' = faults
        /\ \A i \in Instances : /\ Dispose(i) \/ Remount(i) => faults' = faults
                                /\ Crash(i) => faults' = faults + 1
    BY DEF UseSkill, Age, SetPaused, Dispose, Remount, Crash, bound
  <1>5. Quiet \/ Elapse \/ MergeLocks \/ MergeUnlocks => faults' = faults
    BY DEF Quiet, Elapse, MergeLocks, MergeUnlocks, bound
  <1>6. faults' \in {faults, faults + 1}
    BY <1>2, <1>3, <1>4, <1>5 DEF Next
  <1> QED
    BY <1>1, <1>6

\* While a pass runs, the state of a recorded skill changes only under its eyes.
LEMMA StateKept ==
    ASSUME OneProcess, Ordered, Next, NEW u \in Calls, call[u].pc \in Late \cup {"list", "unlock"},
           Untouched(u), \A t \in Calls \ {u} : MarkSkill(t) => Hears(u, {Subject(t)}),
           ~Fold(u), ~Blocked(u),
           NEW s \in Skills \ call'[u].moved, Known(usage[s])
    PROVE  usage'[s].state = usage[s].state
  <1>1. /\ usage[s] \in Record /\ usage \in [Skills -> Record]
        /\ u \in Passes /\ claim[Home[u]] = u
    BY DEF Ordered, Typed, TypeOK, Roles, Role, At, Late
  <1>2. ASSUME NEW t \in Calls, Blocked(t) \/ Fold(t) PROVE FALSE
    <2>1. t # u /\ t \in Passes /\ claim[Home[t]] = t
      BY <1>2 DEF Blocked, Fold, Ordered, Roles, Role, At
    <2> QED
      BY <1>1, <2>1 DEF OneProcess
  <1>3. ASSUME NEW t \in Calls, MarkSkill(t) PROVE usage'[s].state = usage[s].state
    <2>1. t # u /\ ~At(u, "idle")
      BY <1>3 DEF MarkSkill, At, Late
    <2>2. Subject(t) # s
      BY <1>3, <2>1 DEF Hears
    <2> QED
      BY <1>1, <1>3, <2>2 DEF MarkSkill
  <1>4. ASSUME NEW r \in Skills, UseSkill(r) PROVE usage'[s].state = usage[s].state
    <2>1. PICK n \in {[usage[r] EXCEPT !.age = "fresh"],
                      [state |-> IF Known(usage[r]) THEN usage[r].state ELSE "active", age |-> "fresh"]} :
              usage' = [usage EXCEPT ![r] = n]
      BY <1>4 DEF UseSkill
    <2>2. Known(usage[r]) => n.state = usage[r].state
      BY <1>1 DEF Record
    <2> QED
      BY <1>1, <2>1, <2>2
  <1>5. ASSUME NEW r \in Skills, Age(r) PROVE usage'[s].state = usage[s].state
    BY <1>1, <1>5 DEF Age, Record
  <1> QED
    BY <1>2, <1>3, <1>4, <1>5, UsageWritten

LEMMA RecordedFramed ==
    ASSUME OneProcess, Informed, Next, NEW u \in Calls, Recorded(u), Untouched(u),
           \A t \in Calls \ {u} : MarkSkill(t) => Hears(u, {Subject(t)}),
           ~Fold(u), ~Blocked(u)
    PROVE  Recorded(u)'
  <1>1. ASSUME call[u].pc \in Late \cup {"list"}, NEW s \in Skills \ call'[u].moved
        PROVE  Unmoved(u, s)'
    <2>1. Unmoved(u, s) /\ (Known(call[u].start[s]) => Known(usage[s]))
      BY <1>1 DEF Recorded, Untouched, Informed, Facts
    <2>2. Known(usage[s]) => usage'[s].state = usage[s].state
      BY <1>1, StateKept DEF Informed
    <2> QED
      BY <2>1, <2>2 DEF Unmoved, Untouched, Known
  <1>2. ASSUME At(u, "unlock"), faults' = 0, NEW s \in call[u].landed \ call'[u].moved
        PROVE  usage'[s].state = "archived"
    <2>1. usage[s].state = "archived" /\ s \in Skills \ call'[u].moved /\ Known(usage[s])
      BY <1>2, FaultsGrow DEF Recorded, Untouched, Informed, Ordered, Typed, TypeOK, Work, Known
    <2> QED
      BY <1>2, <2>1, StateKept DEF Informed, At
  <1> QED
    BY <1>1, <1>2 DEF Recorded, Untouched, At

\* A pass goes on with the states it began with.
LEMMA RecordedOwn ==
    ASSUME Informed, NEW t \in Calls, Recorded(t),
           \/ PassStep(t) \/ OperatorStep(t) \/ Fault(t)
           \/ \E auto \in BOOLEAN : PassStart(t, auto)
           \/ \E arg : Ask(t, arg)
    PROVE  Recorded(t)'
  <1>0. Typed /\ call[t] \in Work /\ call \in [Calls -> Work]
    BY DEF Informed, Ordered, Typed, TypeOK
  <1>1. ASSUME call'[t].pc \notin Late \cup {"list", "unlock"} PROVE Recorded(t)'
    BY <1>1 DEF Recorded, At
  <1>2. ASSUME call'[t].pc \in Late, call[t].pc \in Late \cup {"list"}, usage' = usage,
               call'[t].start = call[t].start, call'[t].moved = call[t].moved
        PROVE  Recorded(t)'
    BY <1>2 DEF Recorded, Unmoved, At, Late
  <1>3. CASE Load(t)
    <2>1. CASE EndPass(t)
      BY <1>0, <1>1, <2>1, PhaseEnded, IdleTyped DEF EndPass, Late
    <2>2. CASE call' = [call EXCEPT ![t].pc = "list", ![t].seen = usage, ![t].start = usage]
      <3>1. call'[t].start = usage /\ call'[t].pc = "list" /\ usage' = usage
        BY <1>0, <1>3, <2>2 DEF Load, Work
      <3> QED
        BY <3>1 DEF Recorded, Unmoved, At
    <2> QED
      BY <1>3, <2>1, <2>2 DEF Load
  <1>4. CASE Compute(t)
    <2>1. PICK w \in Work : /\ call' = [call EXCEPT ![t] = w] /\ w.pc = "check"
                            /\ w.start = call[t].start /\ w.moved = call[t].moved
      BY <1>0, <1>4, ComputeWork
    <2>2. call'[t] = w
      BY <1>0, <2>1, PhaseSet
    <2> QED
      BY <1>2, <1>4, <2>1, <2>2 DEF Compute, At, Late
  <1>5. CASE Snapshot(t) \/ AcquireMutex(t)
    BY <1>0, <1>2, <1>5 DEF Snapshot, AcquireMutex, Goto, At, Late, Work
  <1>6. CASE LockTree(t)
    <2>1. /\ call'[t].start = call[t].start /\ call'[t].moved = call[t].moved
          /\ call'[t].landed = call[t].landed /\ usage' = usage /\ call[t].pc = "queued"
      BY <1>0, <1>6 DEF LockTree, At, Work
    <2>2. call'[t].pc \in {"unlock", "archive"} /\ call[t].landed = {}
      BY <1>0, <1>6, <2>1, PhasePass DEF Informed, Facts
    <2>3. CASE call'[t].pc = "archive"
      BY <1>2, <2>1, <2>3 DEF Late
    <2>4. CASE call'[t].pc = "unlock"
      BY <2>1, <2>2, <2>4 DEF Recorded, Late, At
    <2> QED
      BY <2>2, <2>3, <2>4
  <1>7. CASE Archived(t)
    <2>1. /\ call'[t].start = call[t].start /\ call'[t].moved = call[t].moved
          /\ usage' = usage /\ call[t].pc = "archive"
      BY <1>0, <1>7 DEF Archived, At, Work
    <2> QED
      BY <1>0, <1>2, <1>7, <2>1, PhasePass DEF Late
  <1>8. ASSUME NEW s \in Skills, NEW w \in Work, w.pc \in {"archive", "fold"}, Lands(t, s, w),
               call[t].pc \in {"archive", "merge"}, usage' = usage
        PROVE  Recorded(t)'
    <2>1. call' = [Move(t, {s}) EXCEPT ![t] = w] /\ {s} \in SUBSET Skills
      BY <1>8 DEF Lands
    <2>2. call'[t] = w
      BY <1>0, <2>1, PhaseMoving
    <2> QED
      BY <1>2, <1>8, <2>2 DEF Lands, Late
  <1>9. ASSUME NEW s \in Skills, ArchiveSkill(t, s) PROVE Recorded(t)'
    <2>1. PICK w \in Work : w.pc = "archive" /\ Lands(t, s, w)
      BY <1>0, <1>9, ArchiveSkillWork
    <2> QED
      BY <1>8, <1>9, <2>1 DEF ArchiveSkill, At
  <1>10. CASE Consolidate(t)
    <2>1. CASE Goto(t, "fold")
      BY <1>0, <1>2, <1>10, <2>1 DEF Consolidate, Goto, At, Late, Work
    <2>2. ASSUME NEW s \in Skills, NEW w \in Work, w.pc = "fold", Lands(t, s, w) PROVE Recorded(t)'
      BY <1>8, <1>10, <2>2 DEF Consolidate, At
    <2> QED
      BY <1>0, <1>10, <2>1, <2>2, ConsolidateWork
  <1>11. ASSUME NEW s \in Skills, NEW st \in States, At(t, "archive"), usage' = usage,
                call' = [call EXCEPT ![t].cand = @ \ {s}, ![t].seen[s].state = st]
         PROVE  Recorded(t)'
    <2>1. PICK w \in Work : Verdict(t, s, st, w)
      BY <1>0, <1>11, VerdictWork
    <2>2. call'[t] = w
      BY <1>0, <2>1, PhaseSet DEF Verdict
    <2> QED
      BY <1>2, <1>11, <2>1, <2>2 DEF Verdict, At, Late
  <1>12. ASSUME NEW s \in Skills, FoldMissing(t, s) \/ ArchiveRefused(t, s) PROVE Recorded(t)'
    <2>1. "archived" \in States /\ Origin(t, s) \in States
      BY <1>0, OriginTyped DEF States
    <2> QED
      BY <1>11, <1>12, <2>1 DEF FoldMissing, ArchiveRefused, Refused
  <1>13. CASE Fold(t)
    <2>1. /\ call'[t].landed = call[t].landed /\ call'[t].moved = call[t].moved
          /\ call'[t].pc = "unlock" /\ call[t].pc = "fold"
      BY <1>0, <1>13 DEF Fold, Goto, At, Work
    <2>2. ASSUME NEW s \in call[t].landed \ call[t].moved PROVE usage'[s].state = "archived"
      <3>1. /\ s \in Skills /\ call[t].seen[s] \in Record /\ usage[s] \in Record
            /\ call[t].seen[s].state = "archived" /\ Unmoved(t, s)
        <4>1. s \in Skills
          BY <1>0, <2>2 DEF Work
        <4>2. Judgement(t, s) /\ Unmoved(t, s)
          BY <2>1, <2>2, <4>1 DEF Informed, Facts, Recorded, Late
        <4> QED
          BY <1>0, <2>2, <4>1, <4>2 DEF Judgement, Typed, TypeOK, Work
      <3>2. usage'[s] = Folded(t)[s]
        BY <1>13 DEF Fold
      <3>3. CASE ~Known(usage[s])
        BY <3>1, <3>2, <3>3 DEF Folded
      <3>4. CASE Known(usage[s]) /\ s \in Owned(t)
        BY <3>1, <3>2, <3>4 DEF Folded, Record
      <3>5. CASE Known(usage[s]) /\ s \notin Owned(t)
        <4>1. call[t].start[s].state = "archived"
          BY <3>1, <3>5 DEF Owned, Known
        <4>2. usage[s].state = "archived"
          BY <3>1, <4>1 DEF Unmoved
        <4> QED
          BY <3>1, <3>2, <3>5, <4>2 DEF Folded
      <3> QED
        BY <3>3, <3>4, <3>5
    <2> QED
      BY <2>1, <2>2 DEF Recorded, Late, At
  <1>14. CASE Defer(t) \/ Blocked(t) \/ LockBusy(t) \/ Book(t) \/ Refuse(t)
    <2>1. call' = Ended(t)
      BY <1>14 DEF Defer, Blocked, LockBusy, Book, Refuse, EndPass
    <2> QED
      BY <1>0, <1>1, <2>1, PhaseEnded, IdleTyped DEF Late
  <1>15. CASE Unlock(t)
    BY <1>0, <1>1, <1>15, PhaseGoto DEF Unlock, Late
  <1>16. CASE MoveSkill(t) \/ MarkSkill(t)
    BY <1>0, <1>1, <1>16, PhaseOperator DEF Late, At
  <1>17. ASSUME NEW auto \in BOOLEAN, PassStart(t, auto) PROVE Recorded(t)'
    BY <1>0, <1>1, <1>17, PhasePass DEF Late
  <1>18. ASSUME NEW arg, Ask(t, arg) PROVE Recorded(t)'
    <2>1. call'[t].pc = "asked"
      BY <1>0, <1>18 DEF Ask, NoWork
    <2> QED
      BY <1>1, <2>1 DEF Late
  <1>19. CASE Fault(t)
    <2>1. faults' = faults + 1 /\ faults \in Nat
      BY <1>0, <1>19, CallsAssumption DEF Fault, Typed, TypeOK
    <2>2. CASE Goto(t, "unlock")
      BY <1>0, <2>1, <2>2, PhaseGoto DEF Recorded, Late
    <2>3. CASE call' = Ended(t)
      BY <1>0, <1>1, <2>3, PhaseEnded, IdleTyped DEF Late
    <2> QED
      BY <1>19, <2>2, <2>3 DEF Fault, EndPass
  <1>20. CASE PassStep(t)
    <2>1. \/ Load(t) \/ Compute(t) \/ Snapshot(t) \/ AcquireMutex(t) \/ LockTree(t) \/ Archived(t)
          \/ Consolidate(t) \/ Fold(t) \/ Unlock(t)
          \/ Defer(t) \/ Blocked(t) \/ LockBusy(t) \/ Book(t)
          \/ (\E s \in Skills : ArchiveSkill(t, s) \/ FoldMissing(t, s) \/ ArchiveRefused(t, s))
      BY <1>20 DEF PassStep
    <2> QED
      BY <1>3, <1>4, <1>5, <1>6, <1>7, <1>9, <1>10, <1>12, <1>13, <1>14, <1>15, <2>1
  <1> QED
    BY <1>14, <1>16, <1>17, <1>18, <1>19, <1>20 DEF OperatorStep

LEMMA MarkHeard ==
    ASSUME Typed, NEW t \in Calls, NEW u \in Calls \ {t}, MarkSkill(t)
    PROVE  Hears(u, {Subject(t)})
  <1>1. {Subject(t)} \in SUBSET Skills /\ call' = [Move(t, {Subject(t)}) EXCEPT ![t] = NoWork]
    BY SubjectTyped DEF MarkSkill, At
  <1> QED
    BY <1>1, ToldOthers, IdleTyped

LEMMA StepUntouched ==
    ASSUME Typed, NEW t \in Calls, NEW u \in Calls \ {t},
           \/ PassStep(t) \/ OperatorStep(t) \/ Fault(t)
           \/ \E auto \in BOOLEAN : PassStart(t, auto)
           \/ \E arg : Ask(t, arg)
    PROVE  Untouched(u)
  <1>1. CASE PassStep(t)
    <2>1. \/ Consolidate(t) \/ (\E s \in Skills : ArchiveSkill(t, s))
          \/ (\E s \in Skills : FoldMissing(t, s) \/ ArchiveRefused(t, s))
          \/ Defer(t) \/ Load(t) \/ Compute(t) \/ Blocked(t) \/ Snapshot(t) \/ AcquireMutex(t)
          \/ LockTree(t) \/ LockBusy(t) \/ Archived(t) \/ Fold(t) \/ Unlock(t) \/ Book(t)
      BY <1>1 DEF PassStep
    <2> QED
      BY <2>1, OthersSame, OthersHear
  <1>2. CASE OperatorStep(t)
    BY <1>2, OthersSame, OthersHear DEF OperatorStep
  <1> QED
    BY <1>1, <1>2, OthersSame

LEMMA RecordedNext ==
    ASSUME OneProcess, Informed, \A t \in Calls : Recorded(t), Next
    PROVE  \A t \in Calls : Recorded(t)'
  <1>0. Typed
    BY DEF Informed, Ordered
  <1>1. ASSUME NEW u \in Calls, Untouched(u) PROVE Recorded(u)'
    <2>1. CASE Fold(u) \/ Blocked(u)
      BY <2>1, RecordedOwn DEF PassStep
    <2>2. CASE ~Fold(u) /\ ~Blocked(u)
      BY <1>0, <1>1, <2>2, MarkHeard, RecordedFramed
    <2> QED
      BY <2>1, <2>2
  <1>2. ASSUME NEW t \in Calls,
               \/ PassStep(t) \/ OperatorStep(t) \/ Fault(t)
               \/ \E auto \in BOOLEAN : PassStart(t, auto)
               \/ \E arg : Ask(t, arg)
        PROVE  \A u \in Calls : Recorded(u)'
    <2>1. Recorded(t)'
      BY <1>2, RecordedOwn
    <2>2. \A u \in Calls \ {t} : Recorded(u)'
      BY <1>0, <1>1, <1>2, StepUntouched
    <2> QED
      BY <2>1, <2>2
  <1>3. ASSUME NEW i \in Instances, Crash(i), NEW u \in Calls PROVE Recorded(u)'
    <2>1. call'[u] = (IF Home[u] = i THEN NoWork ELSE call[u])
      BY <1>3 DEF Crash
    <2>2. CASE Home[u] = i
      BY <2>1, <2>2, IdleTyped DEF Recorded, Late, At
    <2>3. CASE Home[u] # i
      BY <1>1, <2>1, <2>3 DEF Untouched
    <2> QED
      BY <2>2, <2>3
  <1>4. CASE call' = call
    BY <1>1, <1>4 DEF Untouched
  <1> QED
    BY <1>2, <1>3, <1>4, Steps

\* When a pass gives the locks back, every skill it has archived is archived
\* on disk too (others' moves apart), disposed in the middle or not, while no
\* write has failed; the passes share one process, whose claim keeps them
\* apart: the states of another process's pass are not told to this one.
THEOREM LandedAreRecorded == ASSUME OneProcess PROVE Spec => LandedIsRecorded
  <1> DEFINE All == Informed /\ \A t \in Calls : Recorded(t)
  <1>1. Init => All
    <2> SUFFICES ASSUME Init PROVE \A t \in Calls : Recorded(t)
      BY InitInformed
    <2>1. \A t \in Calls : call[t].pc = "idle"
      BY IdleTyped DEF Init
    <2> QED
      BY <2>1 DEF Recorded, Late, At
  <1>2. All /\ [Next]_vars => All'
    <2>1. ASSUME All, Next PROVE All'
      BY <2>1, InformedNext, RecordedNext
    <2>2. ASSUME All, UNCHANGED vars PROVE All'
      <3>1. Ordered'
        BY <2>2 DEF Informed, vars, locks, bound, Ordered, Typed, TypeOK, Mutexed, InChain, Roles, Role, At
      <3>2. \A t \in Calls : Facts(t)' /\ Recorded(t)'
        BY <2>2 DEF Informed, vars, bound, Facts, Judgement, Recorded, Unmoved, At
      <3> QED
        BY <3>1, <3>2 DEF Informed
    <2> QED
      BY <2>1, <2>2
  <1>3. ASSUME All, Next, NEW t \in Calls, At(t, "unlock"), faults = 0,
               NEW s \in call[t].landed \ call[t].moved
        PROVE  usage[s].state = "archived"
    BY <1>3 DEF Recorded
  <1>4. All /\ [Next]_vars
        => [\A t \in Calls : At(t, "unlock") /\ call'[t].pc = "book" /\ faults = 0 =>
              \A s \in call[t].landed \ call[t].moved : usage[s].state = "archived"]_vars
    BY <1>3
  <1> HIDE DEF All
  <1> QED
    BY <1>1, <1>2, <1>4, PTL DEF Spec, LandedIsRecorded
=============================================================================
