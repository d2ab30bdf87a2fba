------------------------- MODULE ReviewWindow_proofs -------------------------
(***************************************************************************)
(* Proofs about ReviewWindow for every bound, any number of handlers and   *)
(* any supply of identities.  Chained says what the chain of the state lock *)
(* is; Current and Claimed hold until the first reload or restart, which is *)
(* as far as the code keeps what they say.                                 *)
(***************************************************************************)
EXTENDS ReviewWindow, FiniteSetTheorems, SequenceTheorems, TLAPS

\* Every mount beyond the first cost an unload or a restart.
Mounting == mount + (IF mounted THEN 0 ELSE 1) <= faults + 1

Waits(h) == slot[h].pc \in {"queued", "read"}

\* A chain holds the tasks of its mount that have not left the lock, each once;
\* only its head has read the counters.
InChain(m) ==
    /\ \A j, k \in DOMAIN chain[m] : chain[m][j] = chain[m][k] => j = k
    /\ \A k \in DOMAIN chain[m] :
         /\ slot[chain[m][k]].m = m /\ Waits(chain[m][k])
         /\ k # 1 => At(chain[m][k], "queued")
Chained ==
    /\ \A m \in Mounts : InChain(m)
    /\ \A h \in Slots : slot[h].m <= mount
    /\ \A h \in Slots : Waits(h) => \E k \in DOMAIN chain[slot[h].m] : chain[slot[h].m][k] = h

\* Until a second mount, what a handler has read is what is stored.
Current == mount = 1 => \A h \in Slots : At(h, "read") => slot[h].read = stored

\* Until a second mount, while the turn of a notice whose claim was heard runs,
\* the record says so and no other notice waits.
Claimed ==
    mount = 1 /\ mounted /\ told = 1 /\ running \in Ids =>
        mem[1].notice = [id |-> running, claimed |-> TRUE] /\ Queued = {}

\* Only a notice makes the inbox longer than its bound.
Short == Len(queue) <= MaxQueue \/ Queued # {}

Messages == Ids \cup {Human}
Inbox == queue \in Seq(Messages) /\ Len(queue) <= MaxQueue + 1 /\ Short /\ NoPileUp
Scalars ==
    /\ running \in Ids \cup {Human, None} /\ told \in Mounts \cup {0}
    /\ stored \in 0 .. Interval \cup {None}
    /\ mount \in Mounts /\ mounted \in BOOLEAN /\ faults \in 0 .. MaxFaults
    /\ Mounting
Mark   == [id : Ids \cup {None}, claimed : BOOLEAN]
Memory == [notice : Mark, latch : BOOLEAN, done : BOOLEAN]
Lock   == slot \in [Slots -> Task] /\ chain \in [Mounts -> Seq(Slots)] /\ Chained

Inv == /\ Inbox /\ Scalars /\ mem \in [Mounts -> Memory] /\ Lock
       /\ Current /\ Claimed /\ ReviewTurnNotCounted

------------------------------------------------------------------------------
(* The inbox.                                                              *)

\* An inbox whose messages come from distinct places of the former one.
LEMMA InboxDrawn ==
    ASSUME Inbox, queue' \in Seq(Messages),
           NEW from \in [1 .. Len(queue') -> 1 .. Len(queue)],
           \A i, j \in 1 .. Len(queue') : from[i] = from[j] => i = j,
           \A j \in 1 .. Len(queue') : queue'[j] = queue[from[j]]
    PROVE  NoPileUp' /\ (Queued = {} => Queued' = {})
  <1>1. DOMAIN queue = 1 .. Len(queue) /\ DOMAIN queue' = 1 .. Len(queue')
    BY DEF Inbox
  <1> QED
    BY <1>1 DEF Inbox, NoPileUp, Queued

\* What is left when message k is taken out.
LEMMA RestFacts ==
    ASSUME NEW q \in Seq(Messages), NEW k \in 1 .. Len(q),
           NEW rest, rest = SubSeq(q, 1, k - 1) \o SubSeq(q, k + 1, Len(q))
    PROVE  /\ rest \in Seq(Messages) /\ Len(rest) = Len(q) - 1
           /\ \A j \in 1 .. Len(rest) : rest[j] = IF j < k THEN q[j] ELSE q[j + 1]
  <1> DEFINE a == SubSeq(q, 1, k - 1)
             b == SubSeq(q, k + 1, Len(q))
  <1>1. /\ a \in Seq(Messages) /\ Len(a) = k - 1
        /\ \A j \in 1 .. k - 1 : a[j] = q[j]
    BY SubSeqProperties
  <1>2. /\ b \in Seq(Messages) /\ Len(b) = Len(q) - k
        /\ \A j \in 1 .. Len(q) - k : b[j] = q[k + j]
    BY SubSeqProperties
  <1> HIDE DEF a, b
  <1>3. rest = a \o b
    BY DEF a, b
  <1>4. /\ rest \in Seq(Messages) /\ Len(rest) = Len(a) + Len(b)
        /\ \A j \in 1 .. Len(a) + Len(b) : rest[j] = IF j <= Len(a) THEN a[j] ELSE b[j - Len(a)]
    BY ONLY <1>1, <1>2, <1>3, ConcatProperties
  <1>5. Len(a) + Len(b) = Len(q) - 1 /\ Len(q) \in Nat
    BY <1>1, <1>2
  <1>6. ASSUME NEW j \in 1 .. Len(rest) PROVE rest[j] = IF j < k THEN q[j] ELSE q[j + 1]
    <2>1. CASE j < k
      BY <1>1, <1>4, <1>5, <2>1
    <2>2. CASE ~(j < k)
      <3>1. j - Len(a) \in 1 .. Len(q) - k /\ k + (j - Len(a)) = j + 1 /\ ~(j <= Len(a))
        BY ONLY <1>1, <1>4, <1>5, <2>2, j \in 1 .. Len(rest), k \in 1 .. Len(q)
      <3>2. rest[j] = b[j - Len(a)]
        BY <1>4, <3>1
      <3> QED
        BY <1>2, <2>2, <3>1, <3>2
    <2> QED
      BY <2>1, <2>2
  <1> QED
    BY <1>4, <1>5, <1>6

\* What Inbox says of the sequence itself.
LEMMA InboxFacts ==
    ASSUME Inbox
    PROVE  /\ queue \in Seq(Messages) /\ Len(queue) \in Nat /\ DOMAIN queue = 1 .. Len(queue)
           /\ \A j \in 1 .. Len(queue) : queue[j] \in Messages
           /\ Queued = {j \in 1 .. Len(queue) : queue[j] \in Ids}
  BY LenProperties, ElementOfSeq DEF Inbox, Queued

\* A message of the user comes last, or a notice while none waits.
LEMMA InboxGrows ==
    ASSUME Inbox, NEW e \in Messages, queue' = Append(queue, e),
           IF e \in Ids THEN Queued = {} ELSE Len(queue) < MaxQueue
    PROVE  Inbox' /\ (Queued = {} /\ e \notin Ids => Queued' = {})
  <1>1. queue \in Seq(Messages) /\ Len(queue) \in Nat
    BY InboxFacts
  <1>2. /\ queue' \in Seq(Messages) /\ Len(queue') = Len(queue) + 1
        /\ queue'[Len(queue) + 1] = e
        /\ \A j \in 1 .. Len(queue) : queue'[j] = queue[j]
    BY <1>1, AppendProperties
  <1>3. DOMAIN queue' = 1 .. Len(queue) + 1 /\ DOMAIN queue = 1 .. Len(queue)
    BY <1>1, <1>2, LenProperties
  <1>4. \A j \in 1 .. Len(queue) + 1 : j \in 1 .. Len(queue) \/ j = Len(queue) + 1
    BY <1>1
  <1>5. NoPileUp'
    BY <1>2, <1>3, <1>4, InboxFacts DEF NoPileUp, Queued, Inbox
  <1>6. Queued = {} /\ e \notin Ids => Queued' = {}
    BY <1>2, <1>3, <1>4 DEF Queued
  <1>7. Len(queue') <= MaxQueue + 1 /\ Short'
    <2>1. CASE e \in Ids
      <3>1. Len(queue) + 1 \in Queued'
        BY <1>1, <1>2, <1>3, <2>1 DEF Queued
      <3>2. Len(queue) <= MaxQueue
        BY <2>1 DEF Inbox, Short
      <3> QED
        BY <1>1, <1>2, <3>1, <3>2, ReviewAssumption DEF Short
    <2>2. CASE e \notin Ids
      BY <1>1, <1>2, <2>2, ReviewAssumption DEF Short
    <2> QED
      BY <2>1, <2>2
  <1> QED
    BY <1>2, <1>5, <1>6, <1>7 DEF Inbox

\* A message is taken from any place of the inbox.
LEMMA InboxShrinks ==
    ASSUME Inbox, NEW k \in 1 .. Len(queue),
           queue' = SubSeq(queue, 1, k - 1) \o SubSeq(queue, k + 1, Len(queue))
    PROVE  /\ Inbox' /\ (Queued = {} => Queued' = {})
           /\ queue[k] \in Ids => Queued' = {}
  <1>1. queue \in Seq(Messages) /\ Len(queue) \in Nat /\ DOMAIN queue = 1 .. Len(queue)
    BY InboxFacts
  <1>2. /\ queue' \in Seq(Messages) /\ Len(queue') = Len(queue) - 1
        /\ \A j \in 1 .. Len(queue') : queue'[j] = IF j < k THEN queue[j] ELSE queue[j + 1]
    BY <1>1, RestFacts
  <1>3. DOMAIN queue' = 1 .. Len(queue')
    BY <1>2, LenProperties
  <1> DEFINE from == [j \in 1 .. Len(queue') |-> IF j < k THEN j ELSE j + 1]
  <1>4. from \in [1 .. Len(queue') -> 1 .. Len(queue)]
    BY ONLY <1>1, <1>2, k \in 1 .. Len(queue)
  <1>5. \A j \in 1 .. Len(queue') : queue'[j] = queue[from[j]] /\ from[j] # k
    BY ONLY <1>1, <1>2, k \in 1 .. Len(queue)
  <1>6. \A i, j \in 1 .. Len(queue') : from[i] = from[j] => i = j
    BY ONLY <1>1, <1>2, k \in 1 .. Len(queue)
  <1> HIDE DEF from
  <1>7. NoPileUp' /\ (Queued = {} => Queued' = {})
    BY <1>2, <1>4, <1>5, <1>6, InboxDrawn
  <1>8. queue[k] \in Ids => Queued' = {}
    BY <1>1, <1>3, <1>4, <1>5 DEF Inbox, NoPileUp, Queued
  <1>9. Len(queue') <= MaxQueue /\ Len(queue') <= MaxQueue + 1
    <2>1. Len(queue) <= MaxQueue + 1
      BY DEF Inbox
    <2> QED
      BY ONLY <1>1, <1>2, <2>1, ReviewAssumption
  <1> QED
    BY <1>2, <1>7, <1>8, <1>9 DEF Inbox, Short

LEMMA HeadLeaves ==
    ASSUME Inbox, queue # <<>>, queue' = Tail(queue)
    PROVE  /\ Inbox' /\ (Queued = {} => Queued' = {})
           /\ Head(queue) \in Messages /\ (Head(queue) \in Ids => Queued' = {})
  <1>1. queue \in Seq(Messages) /\ Len(queue) \in Nat /\ DOMAIN queue = 1 .. Len(queue)
    BY InboxFacts
  <1>2. /\ queue' \in Seq(Messages) /\ Len(queue') = Len(queue) - 1
        /\ \A j \in 1 .. Len(queue') : queue'[j] = queue[j + 1]
        /\ Head(queue) \in Messages
    BY <1>1, HeadTailProperties
  <1>3. DOMAIN queue' = 1 .. Len(queue')
    BY <1>2, LenProperties
  <1>4. Len(queue) \in Nat \ {0} /\ Head(queue) = queue[1]
    BY <1>1, EmptySeq
  <1> DEFINE from == [j \in 1 .. Len(queue') |-> j + 1]
  <1>5. from \in [1 .. Len(queue') -> 1 .. Len(queue)]
    BY ONLY <1>1, <1>2, <1>4
  <1>6. \A j \in 1 .. Len(queue') : queue'[j] = queue[from[j]] /\ from[j] # 1
    BY ONLY <1>1, <1>2, <1>4
  <1>7. \A i, j \in 1 .. Len(queue') : from[i] = from[j] => i = j
    BY ONLY <1>1, <1>2, <1>4
  <1> HIDE DEF from
  <1>8. NoPileUp' /\ (Queued = {} => Queued' = {})
    BY <1>2, <1>5, <1>6, <1>7, InboxDrawn
  <1>9. Head(queue) \in Ids => Queued' = {}
    <2>1. 1 \in 1 .. Len(queue)
      BY <1>4
    <2> QED
      BY <2>1, <1>1, <1>3, <1>4, <1>5, <1>6 DEF Inbox, NoPileUp, Queued
  <1>10. Len(queue') <= MaxQueue
    BY <1>1, <1>2, ReviewAssumption DEF Inbox
  <1> QED
    BY <1>1, <1>2, <1>8, <1>9, <1>10, ReviewAssumption DEF Inbox, Short

\* It is moved to the front.
LEMMA InboxTurns ==
    ASSUME Inbox, NEW k \in 1 .. Len(queue),
           queue' = <<queue[k]>> \o (SubSeq(queue, 1, k - 1) \o SubSeq(queue, k + 1, Len(queue)))
    PROVE  Inbox' /\ (Queued = {} => Queued' = {})
  <1>1. queue \in Seq(Messages) /\ Len(queue) \in Nat /\ DOMAIN queue = 1 .. Len(queue)
        /\ queue[k] \in Messages
    BY InboxFacts
  <1> DEFINE rest == SubSeq(queue, 1, k - 1) \o SubSeq(queue, k + 1, Len(queue))
             top  == <<queue[k]>>
  <1>2. /\ rest \in Seq(Messages) /\ Len(rest) = Len(queue) - 1
        /\ \A j \in 1 .. Len(rest) : rest[j] = IF j < k THEN queue[j] ELSE queue[j + 1]
    BY <1>1, RestFacts
  <1>3. top \in Seq(Messages) /\ Len(top) = 1 /\ top[1] = queue[k]
    BY <1>1
  <1>4. queue' = top \o rest
    OBVIOUS
  <1> HIDE DEF rest, top
  <1>5. /\ queue' \in Seq(Messages) /\ Len(queue') = Len(top) + Len(rest)
        /\ \A j \in 1 .. Len(top) + Len(rest) :
             queue'[j] = IF j <= Len(top) THEN top[j] ELSE rest[j - Len(top)]
    <2>1. /\ top \o rest \in Seq(Messages) /\ Len(top \o rest) = Len(top) + Len(rest)
          /\ \A j \in 1 .. Len(top) + Len(rest) :
               (top \o rest)[j] = IF j <= Len(top) THEN top[j] ELSE rest[j - Len(top)]
      BY ONLY <1>2, <1>3, ConcatProperties, Zenon
    <2> QED
      BY ONLY <1>4, <2>1, Zenon
  <1>6. DOMAIN queue' = 1 .. Len(queue') /\ Len(queue') = Len(queue)
    <2>1. DOMAIN queue' = 1 .. Len(queue')
      BY ONLY <1>5, LenProperties
    <2>2. Len(queue') = Len(queue)
      BY ONLY <1>1, <1>2, <1>3, <1>5
    <2> QED
      BY <2>1, <2>2
  <1> DEFINE from == [j \in 1 .. Len(queue') |-> IF j = 1 THEN k ELSE IF j <= k THEN j - 1 ELSE j]
  <1>7. from \in [1 .. Len(queue') -> 1 .. Len(queue)]
    BY ONLY <1>1, <1>6, k \in 1 .. Len(queue)
  <1>8. ASSUME NEW j \in 1 .. Len(queue') PROVE queue'[j] = queue[from[j]]
    <2>1. CASE j = 1
      BY ONLY <1>1, <1>2, <1>3, <1>5, <1>6, <2>1, j \in 1 .. Len(queue')
    <2>2. CASE j # 1
      <3>1. queue'[j] = rest[j - 1] /\ j - 1 \in 1 .. Len(rest)
        BY ONLY <1>1, <1>2, <1>3, <1>5, <1>6, <2>2, j \in 1 .. Len(queue')
      <3> QED
        BY ONLY <1>1, <1>2, <3>1, <2>2, <1>6, j \in 1 .. Len(queue'), k \in 1 .. Len(queue)
    <2> QED
      BY <2>1, <2>2
  <1>9. \A i, j \in 1 .. Len(queue') : from[i] = from[j] => i = j
    BY ONLY <1>1, <1>6, k \in 1 .. Len(queue)
  <1>10. \A i \in 1 .. Len(queue) : \E j \in 1 .. Len(queue') : from[j] = i
    <2> SUFFICES ASSUME NEW i \in 1 .. Len(queue) PROVE \E j \in 1 .. Len(queue') : from[j] = i
      OBVIOUS
    <2>1. CASE i = k
      <3>1. 1 \in 1 .. Len(queue') /\ from[1] = i
        BY ONLY <1>1, <1>6, <2>1, k \in 1 .. Len(queue)
      <3> QED
        BY <3>1
    <2>2. CASE i < k
      <3>1. i + 1 \in 1 .. Len(queue') /\ from[i + 1] = i
        BY ONLY <1>1, <1>6, <2>2, k \in 1 .. Len(queue), i \in 1 .. Len(queue)
      <3> QED
        BY <3>1
    <2>3. CASE i > k
      <3>1. from[i] = i /\ i \in 1 .. Len(queue')
        BY ONLY <1>1, <1>6, <2>3, k \in 1 .. Len(queue), i \in 1 .. Len(queue)
      <3> QED
        BY <3>1
    <2>4. i = k \/ i < k \/ i > k
      BY ONLY <1>1, k \in 1 .. Len(queue), i \in 1 .. Len(queue)
    <2> QED
      BY ONLY <2>1, <2>2, <2>3, <2>4
  <1> HIDE DEF from
  <1>11. NoPileUp' /\ (Queued = {} => Queued' = {})
    BY <1>5, <1>7, <1>8, <1>9, InboxDrawn
  <1>12. Queued # {} => Queued' # {}
    <2>1. ASSUME NEW i \in 1 .. Len(queue), queue[i] \in Ids PROVE Queued' # {}
      <3>1. PICK j \in 1 .. Len(queue') : from[j] = i
        BY <1>10
      <3> QED
        BY <1>6, <1>8, <2>1, <3>1 DEF Queued
    <2> QED
      BY <1>1, <2>1 DEF Queued
  <1> QED
    BY <1>1, <1>5, <1>6, <1>11, <1>12 DEF Inbox, Short

------------------------------------------------------------------------------
(* The chain of the state lock.                                            *)

\* A task joins the chain of its mount.
LEMMA ChainJoined ==
    ASSUME Lock, NEW h \in Slots, ~Waits(h), NEW t \in Task, t.pc = "queued", t.m <= mount,
           slot' = [slot EXCEPT ![h] = t], chain' = [chain EXCEPT ![t.m] = Append(@, h)],
           mount' = mount
    PROVE  Lock'
  <1> DEFINE c == chain[t.m]
  <1>1. t.m \in Mounts /\ c \in Seq(Slots) /\ Len(c) \in Nat /\ DOMAIN c = 1 .. Len(c)
    BY LenProperties DEF Lock, Task
  <1>2. /\ slot' \in [Slots -> Task] /\ slot'[h] = t
        /\ \A g \in Slots \ {h} : slot'[g] = slot[g]
    BY DEF Lock
  <1>3. /\ Append(c, h) \in Seq(Slots) /\ Len(Append(c, h)) = Len(c) + 1
        /\ \A j \in 1 .. Len(c) : Append(c, h)[j] = c[j]
        /\ Append(c, h)[Len(c) + 1] = h
    BY <1>1, AppendProperties
  <1>4. /\ chain' \in [Mounts -> Seq(Slots)] /\ chain'[t.m] = Append(c, h)
        /\ \A m \in Mounts \ {t.m} : chain'[m] = chain[m]
    BY <1>1, <1>3 DEF Lock
  <1>5. \A m \in Mounts : \A k \in DOMAIN chain[m] : chain[m][k] \in Slots \ {h}
    BY LenProperties, ElementOfSeq DEF Lock, Chained, InChain
  <1>6. DOMAIN chain'[t.m] = 1 .. Len(c) + 1 /\ \A k \in 1 .. Len(c) + 1 : k \in DOMAIN c \/ k = Len(c) + 1
    BY <1>1, <1>3, <1>4, LenProperties
  <1> HIDE DEF c
  <1>7. ASSUME NEW m \in Mounts, m # t.m PROVE InChain(m)'
    BY <1>2, <1>4, <1>5, <1>7 DEF Lock, Chained, InChain, Waits, At
  <1>8. InChain(t.m)'
    <2>1. \A k \in DOMAIN c : /\ c[k] \in Slots \ {h} /\ chain'[t.m][k] = c[k]
                              /\ slot'[c[k]] = slot[c[k]] /\ slot[c[k]].m = t.m
                              /\ Waits(c[k]) /\ (k # 1 => At(c[k], "queued"))
      BY <1>1, <1>2, <1>3, <1>4, <1>5 DEF Lock, Chained, InChain, c
    <2>2. \A j, k \in DOMAIN c : c[j] = c[k] => j = k
      BY <1>1 DEF Lock, Chained, InChain, c
    <2>3. chain'[t.m][Len(c) + 1] = h
      BY <1>3, <1>4
    <2>5. ASSUME NEW j \in 1 .. Len(c) + 1, NEW k \in 1 .. Len(c) + 1,
                 chain'[t.m][j] = chain'[t.m][k]
          PROVE  j = k
      <3>1. (j \in DOMAIN c \/ j = Len(c) + 1) /\ (k \in DOMAIN c \/ k = Len(c) + 1)
        BY <1>6
      <3>2. \A i \in DOMAIN c : chain'[t.m][i] = c[i] /\ c[i] # h
        BY <2>1
      <3> QED
        BY ONLY <2>2, <2>3, <2>5, <3>1, <3>2
    <2>6. ASSUME NEW k \in 1 .. Len(c) + 1
          PROVE  /\ slot'[chain'[t.m][k]].m = t.m
                 /\ slot'[chain'[t.m][k]].pc \in {"queued", "read"}
                 /\ k # 1 => slot'[chain'[t.m][k]].pc = "queued"
      <3>1. CASE k \in DOMAIN c
        <4>1. /\ chain'[t.m][k] = c[k] /\ slot'[c[k]] = slot[c[k]] /\ slot[c[k]].m = t.m
              /\ Waits(c[k]) /\ (k # 1 => At(c[k], "queued"))
          BY <2>1, <3>1
        <4> QED
          BY <4>1 DEF Waits, At
      <3>2. CASE k = Len(c) + 1
        BY <1>2, <2>3, <3>2
      <3> QED
        BY <1>6, <3>1, <3>2
    <2> QED
      BY <1>6, <2>5, <2>6 DEF InChain, Waits, At
  <1>9. \A g \in Slots : slot'[g].m <= mount'
    BY <1>2 DEF Lock, Chained
  <1>10. ASSUME NEW g \in Slots, Waits(g)'
         PROVE  \E k \in DOMAIN chain'[slot'[g].m] : chain'[slot'[g].m][k] = g
    <2>1. CASE g = h
      BY <1>1, <1>2, <1>3, <1>4, <1>6, <2>1
    <2>2. CASE g # h
      <3>1. slot'[g] = slot[g] /\ Waits(g) /\ slot[g].m \in Mounts
        BY <1>2, <1>10, <2>2 DEF Waits, Lock, Task
      <3>2. PICK k \in DOMAIN chain[slot[g].m] : chain[slot[g].m][k] = g
        BY <3>1 DEF Lock, Chained
      <3>3. CASE slot[g].m = t.m
        BY <1>1, <1>3, <1>4, <1>6, <3>1, <3>2, <3>3 DEF c
      <3>4. CASE slot[g].m # t.m
        BY <1>4, <3>1, <3>2, <3>4
      <3> QED
        BY <3>3, <3>4
    <2> QED
      BY <2>1, <2>2
  <1> QED
    BY <1>2, <1>4, <1>7, <1>8, <1>9, <1>10 DEF Lock, Chained

\* The holder of the lock, and the only one to have read the counters.
LEMMA HolderLeads ==
    ASSUME Lock, NEW h \in Slots, At(h, "read")
    PROVE  /\ Served(h) /\ chain[slot[h].m] # <<>>
           /\ \A g \in Slots : At(g, "read") /\ slot[g].m = slot[h].m => g = h
  <1>1. \A g \in Slots : At(g, "read") => 
          /\ slot[g].m \in Mounts /\ 1 \in DOMAIN chain[slot[g].m] /\ chain[slot[g].m][1] = g
    <2> SUFFICES ASSUME NEW g \in Slots, At(g, "read")
                 PROVE  /\ slot[g].m \in Mounts /\ 1 \in DOMAIN chain[slot[g].m]
                        /\ chain[slot[g].m][1] = g
      OBVIOUS
    <2>1. slot[g].m \in Mounts /\ Waits(g)
      BY DEF Lock, Task, Waits, At
    <2>2. PICK k \in DOMAIN chain[slot[g].m] : chain[slot[g].m][k] = g
      BY <2>1 DEF Lock, Chained
    <2>3. k = 1
      BY <2>1, <2>2 DEF Lock, Chained, InChain, At
    <2> QED
      BY <2>1, <2>2, <2>3
  <1>2. chain[slot[h].m] \in Seq(Slots)
    BY <1>1 DEF Lock
  <1> QED
    BY <1>1, <1>2, EmptySeq DEF Served

\* The holder leaves the lock.
LEMMA HolderLeaves ==
    ASSUME Lock, NEW h \in Slots, Waits(h), Served(h), NEW t \in Task,
           t.pc \in {"free", "decide"}, t.m <= mount,
           slot' = [slot EXCEPT ![h] = t], Leave(h), mount' = mount
    PROVE  Lock'
  <1>0. PICK n \in Mounts : slot[h].m = n
    BY DEF Lock, Task
  <1> DEFINE c == chain[n]
  <1>1. c \in Seq(Slots) /\ Len(c) \in Nat /\ DOMAIN c = 1 .. Len(c)
    BY LenProperties DEF Lock
  <1>2. /\ slot' \in [Slots -> Task] /\ slot'[h] = t
        /\ \A g \in Slots \ {h} : slot'[g] = slot[g]
    BY DEF Lock
  <1>3. \E k \in DOMAIN c : c[k] = h
    BY <1>0 DEF Lock, Chained
  <1>4. c # <<>> /\ Len(c) \in Nat \ {0} /\ c[1] = h
    <2>1. Head(c) = h
      BY <1>0 DEF Served
    <2>2. Len(c) # 0
      BY <1>1, <1>3
    <2> QED
      BY <1>1, <2>1, <2>2
  <1>5. /\ Tail(c) \in Seq(Slots) /\ Len(Tail(c)) = Len(c) - 1
        /\ \A j \in 1 .. Len(c) - 1 : Tail(c)[j] = c[j + 1]
    BY <1>1, <1>4, HeadTailProperties
  <1>6. /\ chain' \in [Mounts -> Seq(Slots)] /\ chain'[n] = Tail(c)
        /\ \A m \in Mounts \ {n} : chain'[m] = chain[m]
    BY <1>0, <1>1, <1>5 DEF Lock, Leave
  <1>7. DOMAIN chain'[n] = 1 .. Len(c) - 1
    BY <1>5, <1>6, LenProperties
  <1>8. /\ \A j, k \in 1 .. Len(c) : c[j] = c[k] => j = k
        /\ \A k \in 1 .. Len(c) : /\ c[k] \in Slots /\ slot[c[k]].m = n /\ Waits(c[k])
                                  /\ k # 1 => At(c[k], "queued")
    <2>1. InChain(n)
      BY DEF Lock, Chained
    <2> QED
      BY <1>1, <2>1, ElementOfSeq DEF InChain
  <1>9. \A m \in Mounts \ {n} : \A k \in DOMAIN chain[m] : chain[m][k] \in Slots \ {h}
    <2> SUFFICES ASSUME NEW m \in Mounts, m # n, NEW k \in DOMAIN chain[m]
                 PROVE  chain[m][k] \in Slots \ {h}
      OBVIOUS
    <2>1. chain[m] \in Seq(Slots) /\ slot[chain[m][k]].m = m
      BY DEF Lock, Chained, InChain
    <2> QED
      BY <1>0, <2>1, LenProperties, ElementOfSeq
  <1>10. ASSUME NEW m \in Mounts, m # n PROVE InChain(m)'
    BY <1>2, <1>6, <1>9, <1>10 DEF Lock, Chained, InChain, Waits, At
  <1> HIDE DEF c
  <1>11. InChain(n)'
    <2>1. \A k \in 1 .. Len(c) - 1 :
            /\ chain'[n][k] = c[k + 1] /\ k + 1 \in 1 .. Len(c) /\ c[k + 1] \in Slots \ {h}
            /\ slot'[c[k + 1]] = slot[c[k + 1]] /\ At(c[k + 1], "queued") /\ slot[c[k + 1]].m = n
      BY <1>1, <1>2, <1>4, <1>5, <1>6, <1>8
    <2>2. \A j, k \in 1 .. Len(c) - 1 : c[j + 1] = c[k + 1] => j = k
      BY <1>1, <1>8
    <2>3. \A j, k \in DOMAIN chain'[n] : chain'[n][j] = chain'[n][k] => j = k
      BY <1>7, <2>1, <2>2
    <2>4. \A k \in DOMAIN chain'[n] :
            slot'[chain'[n][k]].m = n /\ slot'[chain'[n][k]].pc = "queued"
      BY <1>7, <2>1 DEF At
    <2> QED
      BY <2>3, <2>4 DEF InChain, Waits, At
  <1>12. \A g \in Slots : slot'[g].m <= mount'
    BY <1>2 DEF Lock, Chained
  <1>13. ASSUME NEW g \in Slots, Waits(g)'
         PROVE  \E k \in DOMAIN chain'[slot'[g].m] : chain'[slot'[g].m][k] = g
    <2>1. g # h /\ slot'[g] = slot[g] /\ Waits(g) /\ slot[g].m \in Mounts
      BY <1>2, <1>13 DEF Waits, Lock, Task
    <2>2. PICK k \in DOMAIN chain[slot[g].m] : chain[slot[g].m][k] = g
      BY <2>1 DEF Lock, Chained
    <2>3. CASE slot[g].m = n
      <3>1. k \in 1 .. Len(c) /\ c[k] = g /\ k # 1
        BY <1>1, <1>4, <2>1, <2>2, <2>3 DEF c
      <3>2. k - 1 \in 1 .. Len(c) - 1 /\ (k - 1) + 1 = k
        BY <1>1, <3>1
      <3>3. k - 1 \in DOMAIN chain'[n] /\ chain'[n][k - 1] = g
        BY <1>5, <1>6, <1>7, <3>1, <3>2
      <3> QED
        BY <2>1, <2>3, <3>3
    <2>4. CASE slot[g].m # n
      BY <1>6, <2>1, <2>2, <2>4
    <2> QED
      BY <2>3, <2>4
  <1> QED
    <2>1. \A m \in Mounts : InChain(m)'
      BY <1>10, <1>11
    <2> QED
      BY <1>2, <1>6, <1>12, <1>13, <2>1 DEF Lock, Chained

\* Outside the lock a task ends; its chain is as it was.
LEMMA OutsideLock ==
    ASSUME Lock, NEW h \in Slots, ~Waits(h), NEW t \in Task,
           t.pc \in {"free", "decide"}, t.m <= mount,
           slot' = [slot EXCEPT ![h] = t], chain' = chain, mount' = mount
    PROVE  Lock'
  <1>1. /\ slot' \in [Slots -> Task] /\ slot'[h] = t
        /\ \A g \in Slots \ {h} : slot'[g] = slot[g]
    BY DEF Lock
  <1>2. \A m \in Mounts : \A k \in DOMAIN chain[m] : chain[m][k] \in Slots \ {h}
    BY LenProperties, ElementOfSeq DEF Lock, Chained, InChain
  <1>3. ASSUME NEW m \in Mounts PROVE InChain(m)'
    BY <1>1, <1>2 DEF Lock, Chained, InChain, Waits, At
  <1>4. ASSUME NEW g \in Slots, Waits(g)' PROVE g # h /\ Waits(g) /\ slot'[g] = slot[g]
    BY <1>1, <1>4 DEF Waits
  <1> QED
    BY <1>1, <1>3, <1>4 DEF Lock, Chained

\* The head of a chain reads the counters.
LEMMA HolderReads ==
    ASSUME Lock, NEW h \in Slots, At(h, "queued"), Served(h), NEW v \in 0 .. Interval \cup {None},
           slot' = [slot EXCEPT ![h].pc = "read", ![h].read = v], chain' = chain, mount' = mount
    PROVE  Lock'
  <1> DEFINE t == [[slot[h] EXCEPT !.pc = "read"] EXCEPT !.read = v]
  <1>0. slot[h] \in Task /\ Waits(h)
    BY DEF Lock, Waits, At
  <1>a. t \in Task /\ t.pc = "read" /\ t.m = slot[h].m /\ slot[h].m \in Mounts
    BY <1>0 DEF Task
  <1>b. slot' = [slot EXCEPT ![h] = t]
    BY DEF Lock
  <1> HIDE DEF t
  <1>1. /\ slot' \in [Slots -> Task] /\ slot'[h].pc = "read" /\ slot'[h].m = slot[h].m
        /\ slot[h].m \in Mounts /\ Waits(h) /\ \A g \in Slots \ {h} : slot'[g] = slot[g]
    BY <1>0, <1>a, <1>b DEF Lock
  <1>2. \A m \in Mounts : \A k \in DOMAIN chain[m] : chain[m][k] \in Slots
    BY LenProperties, ElementOfSeq DEF Lock
  <1>3. \A m \in Mounts : \A k \in DOMAIN chain[m] : chain[m][k] = h => k = 1
    <2> SUFFICES ASSUME NEW m \in Mounts, NEW k \in DOMAIN chain[m], chain[m][k] = h PROVE k = 1
      OBVIOUS
    <2>1. m = slot[h].m /\ chain[m] \in Seq(Slots)
      BY DEF Lock, Chained, InChain
    <2>2. chain[m][1] = h /\ 1 \in DOMAIN chain[m]
      BY <2>1, LenProperties DEF Served
    <2> QED
      BY <2>2 DEF Lock, Chained, InChain
  <1>4. ASSUME NEW m \in Mounts PROVE InChain(m)'
    BY <1>1, <1>2, <1>3 DEF Lock, Chained, InChain, Waits, At
  <1>5. \A g \in Slots : slot'[g].m = slot[g].m /\ (Waits(g)' => Waits(g))
    BY <1>1 DEF Waits, At
  <1> QED
    BY <1>1, <1>4, <1>5 DEF Lock, Chained
------------------------------------------------------------------------------
(* The notices.                                                            *)

\* With no notice in the inbox there is an identity for the next one.
LEMMA FreshId ==
    ASSUME Inbox, Queued = {}
    PROVE  NewId \in Ids
  <1> DEFINE f == [m \in Mounts |-> mem[m].notice.id]
             Known == {f[m] : m \in Mounts}
             Seen  == Known \cup {running}
  <1>1. IsFiniteSet(Mounts) /\ Cardinality(Mounts) = MaxFaults + 1
    BY FS_Interval, ReviewAssumption DEF Mounts
  <1>2. IsFiniteSet(Known) /\ Cardinality(Known) <= MaxFaults + 1
    <2>1. f \in Surjection(Mounts, Known)
      BY DEF Surjection
    <2> QED
      BY <1>1, <2>1, FS_Surjection
  <1>3. IsFiniteSet(Seen) /\ Cardinality(Seen) <= MaxFaults + 2
    <2>1. /\ IsFiniteSet(Seen)
          /\ Cardinality(Seen) = Cardinality(Known) \/ Cardinality(Seen) = Cardinality(Known) + 1
      BY <1>2, FS_AddElement
    <2>2. Cardinality(Known) \in Nat
      BY <1>2, FS_CardinalityType
    <2> QED
      BY <1>2, <2>1, <2>2, ReviewAssumption
  <1>4. ~(Ids \subseteq Seen)
    <2> SUFFICES ASSUME Ids \subseteq Seen PROVE FALSE
      OBVIOUS
    <2>1. IsFiniteSet(Ids) /\ Cardinality(Ids) <= Cardinality(Seen)
      BY <1>3, FS_Subset
    <2>2. Cardinality(Ids) \in Nat /\ Cardinality(Seen) \in Nat
      BY <1>3, <2>1, FS_CardinalityType
    <2> QED
      BY <1>3, <2>1, <2>2, IdsAssumption, ReviewAssumption
  <1>5. \A id \in Ids : id \notin InQueue
    BY DEF Queued, InQueue
  <1>6. \E id \in Ids : id \notin Used
    BY <1>4, <1>5 DEF Used
  <1> QED
    BY <1>6 DEF NewId

\* What a handler makes of its mount's record, and what it then knows.
LEMMA FollowedFacts ==
    ASSUME Inbox, mem \in [Mounts -> Memory], NEW h \in Slots, slot[h].m \in Mounts
    PROVE  /\ Mem(h) \in Memory /\ Followed(h) \in Mark
           /\ ~Outstanding(h) => Queued = {} /\ ~Notice(h).claimed
           /\ Notice(h).claimed => Outstanding(h) /\ Followed(h) = Notice(h)
  <1>1. Mem(h) \in Memory /\ Notice(h) \in Mark
    BY DEF Mem, Notice, Memory
  <1>2. Queued # {} => Foremost \in Ids
    <2>1. Queued # {} => \E k \in Queued : \A j \in Queued : k <= j
      BY InboxFacts DEF Inbox, NoPileUp, Queued
    <2> QED
      BY <2>1 DEF Foremost, Queued
  <1>3. Waiting \in Mark /\ (Waiting = NoNotice => Queued = {})
    BY <1>2, ReviewAssumption DEF Waiting, Mark, NoNotice
  <1>4. Notice(h).claimed => Notice(h) # NoNotice
    BY DEF NoNotice
  <1> QED
    BY <1>1, <1>3, <1>4 DEF Followed, Outstanding, Mark

------------------------------------------------------------------------------
(* The steps.                                                              *)

\* A record is rewritten.
LEMMA RecordWritten ==
    ASSUME mem \in [Mounts -> Memory], NEW m \in Mounts, NEW n \in Mark
    PROVE  /\ [mem EXCEPT ![m].notice = n] \in [Mounts -> Memory]
           /\ [mem EXCEPT ![m].notice = n][m].notice = n
           /\ NoNotice \in Mark
  <1>1. [mem[m] EXCEPT !.notice = n] \in Memory
    BY DEF Memory
  <1> QED
    BY <1>1 DEF Mark, NoNotice, Memory

LEMMA InitInv == Init => Inv
  <1> SUFFICES ASSUME Init PROVE Inv
    OBVIOUS
  <1> USE DEF Init
  <1>1. 1 \in Mounts /\ NoMemory \in Memory /\ FreeSlot \in Task
    BY ReviewAssumption DEF Mounts, Memory, Mark, NoMemory, NoNotice, FreeSlot, Task
  <1>2. Inbox
    BY ReviewAssumption DEF Inbox, Short, NoPileUp
  <1>3. Scalars
    BY <1>1, ReviewAssumption DEF Scalars, Mounting
  <1>4. mem \in [Mounts -> Memory] /\ slot \in [Slots -> Task] /\ chain \in [Mounts -> Seq(Slots)]
    BY <1>1, EmptySeq
  <1>5. \A h \in Slots : slot[h] = FreeSlot
    OBVIOUS
  <1>6. Chained
    BY <1>5 DEF Chained, InChain, Waits, FreeSlot
  <1>7. Current /\ ReviewTurnNotCounted
    BY <1>5 DEF Current, ReviewTurnNotCounted, At, FreeSlot
  <1>8. Claimed
    BY ReviewAssumption DEF Claimed
  <1> QED
    BY <1>2, <1>3, <1>4, <1>6, <1>7, <1>8 DEF Inv, Lock

LEMMA UserSendsInv == ASSUME Inv, UserSends PROVE Inv'
  <1> USE DEF Inv, UserSends
  <1>1. Inbox' /\ (Queued = {} => Queued' = {})
    BY InboxGrows, ReviewAssumption DEF Messages
  <1>2. Scalars' /\ (mem \in [Mounts -> Memory])'
    BY DEF Scalars, Mounting
  <1>3. Lock' /\ Current' /\ ReviewTurnNotCounted'
    BY DEF Lock, Chained, InChain, Waits, At, Current, ReviewTurnNotCounted
  <1>4. Claimed'
    BY <1>1 DEF Claimed
  <1> QED
    BY <1>1, <1>2, <1>3, <1>4

LEMMA TurnStartInv == ASSUME Inv, NEW heard \in BOOLEAN, TurnStart(heard) PROVE Inv'
  <1> USE DEF Inv, TurnStart
  <1>1. /\ Inbox' /\ (Queued = {} => Queued' = {})
        /\ Head(queue) \in Messages /\ (Head(queue) \in Ids => Queued' = {})
    BY HeadLeaves
  <1>2. Scalars'
    BY <1>1, ReviewAssumption DEF Scalars, Mounting, Lost, Hears, Messages, Mounts
  <1>3. (mem \in [Mounts -> Memory])'
    BY DEF Noted, Memory, Mark, Scalars
  <1>4. Lock' /\ Current' /\ ReviewTurnNotCounted'
    BY DEF Lock, Chained, InChain, Waits, At, Current, ReviewTurnNotCounted
  <1>5. Claimed'
    <2> SUFFICES ASSUME mount = 1, mounted, told' = 1, running' \in Ids
                 PROVE  mem'[1].notice = [id |-> running', claimed |-> TRUE] /\ Queued' = {}
      BY DEF Claimed
    <2>1. heard
      OBVIOUS
    <2>2. mem' = Noted(Head(queue), TRUE)
      BY <2>1
    <2> QED
      BY <1>1, <2>2 DEF Noted, Memory, Scalars
  <1> QED
    BY <1>1, <1>2, <1>3, <1>4, <1>5
\* One task changes: what it has read, and whether it counts its own turn.
LEMMA TaskChanged ==
    ASSUME Lock, Current, ReviewTurnNotCounted, NEW h \in Slots, NEW t \in Task,
           t.pc # "read", t.own /\ mount = 1 => t.op = "zero",
           slot' = [slot EXCEPT ![h] = t], stored' = stored, mount' = mount
    PROVE  Current' /\ ReviewTurnNotCounted'
  <1>1. slot'[h] = t /\ \A g \in Slots \ {h} : slot'[g] = slot[g]
    BY DEF Lock
  <1> QED
    BY <1>1 DEF Current, ReviewTurnNotCounted, At

\* A fresh task of the current mount.
LEMMA Joining ==
    ASSUME Inv, NEW h \in Slots, Fresh(h), NEW t \in Task, t.own /\ mount = 1 => t.op = "zero",
           Joins(h, t), stored' = stored, mount' = mount
    PROVE  Lock' /\ Current' /\ ReviewTurnNotCounted'
  <1> DEFINE u == [t EXCEPT !.pc = "queued", !.m = mount]
  <1>1. u \in Task /\ u.pc = "queued" /\ u.m = mount /\ u.own = t.own /\ u.op = t.op /\ mount \in Int
    <2>1. mount \in Mounts /\ mount \in Int
      BY DEF Inv, Scalars, Mounts
    <2> QED
      BY <2>1 DEF Task
  <1>2. slot' = [slot EXCEPT ![h] = u] /\ chain' = [chain EXCEPT ![mount] = Append(@, h)]
    BY DEF Joins
  <1>3. ~Waits(h)
    BY DEF Fresh, At, Waits
  <1> HIDE DEF u
  <1>4. chain' = [chain EXCEPT ![u.m] = Append(@, h)] /\ u.m <= mount
    BY <1>1, <1>2
  <1>5. Lock'
    BY <1>1, <1>2, <1>3, <1>4, ChainJoined DEF Inv
  <1>6. Current' /\ ReviewTurnNotCounted'
    BY <1>1, <1>2, TaskChanged DEF Inv
  <1> QED
    BY <1>5, <1>6

LEMMA FreeTask ==
    /\ FreeSlot \in Task /\ ~FreeSlot.own /\ FreeSlot.m = 1 /\ FreeSlot.pc = "free"
    /\ FreeSlot.op = "zero"
  BY ReviewAssumption DEF FreeSlot, Task, Mounts

LEMMA TurnEndInv ==
    ASSUME Inv, NEW h \in Slots, NEW reason \in {"completed", "blocked"}, TurnEnd(h, reason)
    PROVE  Inv'
  <1>1. Inbox' /\ Scalars'
    BY DEF Inv, TurnEnd, Inbox, Short, NoPileUp, Queued, Scalars, Mounting
  <1>2. (mem \in [Mounts -> Memory])'
    <2>1. mem' = mem \/ mem' = [mem EXCEPT ![mount].notice = NoNotice]
      BY DEF TurnEnd
    <2>2. mem \in [Mounts -> Memory] /\ mount \in Mounts /\ NoNotice \in Mark
      BY DEF Inv, Scalars, Mark, NoNotice
    <2> QED
      BY <2>1, <2>2, RecordWritten
  <1>3. Claimed'
    BY ReviewAssumption DEF TurnEnd, Claimed
  <1>4. Lock' /\ Current' /\ ReviewTurnNotCounted'
    <2>1. CASE ~mounted
      BY <2>1 DEF Inv, TurnEnd, Lock, Chained, InChain, Waits, At, Current, ReviewTurnNotCounted
    <2>2. CASE mounted
      <3> DEFINE t == [FreeSlot EXCEPT !.op = IF Settles THEN "zero" ELSE "count", !.ends = reason,
                                       !.own = running \in Ids /\ told = mount]
      <3>1. Fresh(h) /\ Joins(h, t) /\ stored' = stored /\ mount' = mount
        BY <2>2 DEF TurnEnd
      <3>2. t \in Task
        BY FreeTask DEF Task
      <3>3. t.own = (running \in Ids /\ told = mount) /\ t.op = IF Settles THEN "zero" ELSE "count"
        BY FreeTask DEF Task
      <3>4. t.own /\ mount = 1 => t.op = "zero"
        <4>1. ASSUME running \in Ids, told = mount, mount = 1 PROVE Settles
          <5>1. mem[1].notice.claimed
            BY <2>2, <4>1 DEF Inv, Claimed
          <5> QED
            BY <4>1, <5>1 DEF Settles
        <4> QED
          BY <3>3, <4>1
      <3> HIDE DEF t
      <3> QED
        BY <3>1, <3>2, <3>4, Joining
    <2> QED
      BY <2>1, <2>2 DEF Inv, Scalars
  <1> QED
    BY <1>1, <1>2, <1>3, <1>4 DEF Inv

LEMMA DiscardInv ==
    ASSUME Inv, NEW h \in Slots, NEW k \in DOMAIN queue, NEW steered \in BOOLEAN,
           NEW heard \in BOOLEAN, Discard(h, k, steered, heard)
    PROVE  Inv'
  <1>1. k \in 1 .. Len(queue) /\ queue[k] \in Messages
    BY InboxFacts DEF Inv
  <1>2. Inbox' /\ (Queued = {} => Queued' = {})
    <2>1. CASE steered
      BY <1>1, <2>1, InboxTurns DEF Inv, Discard
    <2>2. CASE ~steered
      BY <1>1, <2>2, InboxShrinks DEF Inv, Discard
    <2> QED
      BY <2>1, <2>2
  <1>3. Scalars'
    <2>1. /\ mounted' = mounted /\ mount' = mount /\ running' = running /\ told' = told
          /\ stored' = stored
      BY DEF Discard
    <2>2. faults' = faults \/ (faults' = faults + 1 /\ faults < MaxFaults)
      <3>1. /\ mounted \in BOOLEAN /\ faults' = IF mounted /\ ~heard THEN faults + 1 ELSE faults
            /\ mounted /\ ~heard => faults < MaxFaults
        BY DEF Inv, Scalars, Discard, Lost
      <3>2. CASE mounted /\ ~heard
        BY <3>1, <3>2
      <3>3. CASE ~(mounted /\ ~heard)
        BY <3>1, <3>3, Zenon
      <3> QED
        BY <3>2, <3>3
    <2> QED
      BY <2>1, <2>2, ReviewAssumption DEF Inv, Scalars, Mounting, Mounts
  <1>4. (mem \in [Mounts -> Memory])'
    <2>1. mem' = mem \/ mem' = Noted(queue[k], FALSE) \/ mem' = [mem EXCEPT ![mount].notice = NoNotice]
      BY DEF Discard
    <2>2. (heard /\ queue[k] \in Ids) \/ mem' = mem
      BY DEF Discard
    <2>3. /\ mem \in [Mounts -> Memory] /\ mount \in Mounts /\ NoNotice \in Mark
          /\ queue[k] \in Ids => [id |-> queue[k], claimed |-> FALSE] \in Mark
      BY DEF Inv, Scalars, Mark, NoNotice
    <2>4. [mem EXCEPT ![mount].notice = NoNotice] \in [Mounts -> Memory]
      BY <2>3, RecordWritten
    <2>5. queue[k] \in Ids => Noted(queue[k], FALSE) \in [Mounts -> Memory]
      BY <2>3, RecordWritten DEF Noted
    <2> QED
      BY <2>1, <2>2, <2>3, <2>4, <2>5
  <1>5. Lock' /\ Current' /\ ReviewTurnNotCounted'
    <2>1. \/ chain' = chain /\ slot' = slot
          \/ Fresh(h) /\ Joins(h, FreeSlot)
      BY DEF Discard
    <2>2. stored' = stored /\ mount' = mount
      BY DEF Discard
    <2>3. CASE chain' = chain /\ slot' = slot
      BY <2>2, <2>3 DEF Inv, Lock, Chained, InChain, Waits, At, Current, ReviewTurnNotCounted
    <2>4. CASE Fresh(h) /\ Joins(h, FreeSlot)
      BY <2>2, <2>4, FreeTask, Joining
    <2> QED
      BY <2>1, <2>3, <2>4
  <1>6. Claimed'
    <2> SUFFICES ASSUME mount = 1, mounted, told = 1, running \in Ids
                 PROVE  mem'[1].notice = [id |-> running, claimed |-> TRUE] /\ Queued' = {}
      BY DEF Claimed, Discard
    <2>1. mem[1].notice = [id |-> running, claimed |-> TRUE] /\ Queued = {}
      BY DEF Inv, Claimed
    <2>2. queue[k] \notin Ids
      BY <1>1, <2>1 DEF Queued
    <2>3. mem' = mem
      BY <2>2 DEF Discard
    <2> QED
      BY <1>2, <2>1, <2>3
  <1> QED
    BY <1>2, <1>3, <1>4, <1>5, <1>6 DEF Inv

LEMMA UnloadInv == ASSUME Inv, Unload PROVE Inv'
  <1>1. Inbox'
    BY DEF Inv, Unload, Mishap, host, Inbox, Short, NoPileUp, Queued
  <1>2. Scalars'
    <2>1. /\ running' = running /\ told' = told /\ stored' = stored /\ mount' = mount
          /\ mounted = TRUE /\ mounted' = FALSE /\ faults' = faults + 1 /\ faults < MaxFaults
      BY DEF Inv, Scalars, Unload, Mishap, host
    <2>2. mount \in Int /\ faults \in 0 .. MaxFaults /\ mount <= faults + 1
      BY <2>1 DEF Inv, Scalars, Mounting, Mounts
    <2>3. Mounting' /\ faults' \in 0 .. MaxFaults
      BY ONLY <2>1, <2>2, ReviewAssumption DEF Mounting
    <2> QED
      BY <2>1, <2>3 DEF Inv, Scalars
  <1>3. (mem \in [Mounts -> Memory])'
    BY DEF Inv, Unload, Memory, Mark, NoMemory, NoNotice
  <1>4. Lock' /\ Current' /\ ReviewTurnNotCounted'
    BY DEF Inv, Unload, Lock, Chained, InChain, Waits, At, Current, ReviewTurnNotCounted
  <1>5. Claimed'
    BY DEF Unload, Claimed
  <1> QED
    BY <1>1, <1>2, <1>3, <1>4, <1>5 DEF Inv

LEMMA LoadInv == ASSUME Inv, Load PROVE Inv'
  <1>0. mount \in Nat \ {0} /\ mount' = mount + 1 /\ mount' # 1
    BY DEF Inv, Load, Scalars, Mounts
  <1>1. Inbox'
    BY DEF Inv, Load, host, Inbox, Short, NoPileUp, Queued
  <1>2. Scalars'
    BY ReviewAssumption DEF Inv, Load, host, Scalars, Mounting, Mounts
  <1>3. (mem \in [Mounts -> Memory])'
    BY DEF Inv, Load
  <1>4. Lock'
    <2>1. \A g \in Slots : slot[g].m \in Nat
      BY DEF Inv, Lock, Task, Mounts
    <2> QED
      BY <1>0, <2>1 DEF Inv, Load, Lock, Chained, InChain, Waits, At
  <1>5. Claimed' /\ Current' /\ ReviewTurnNotCounted'
    BY <1>0 DEF Claimed, Current, ReviewTurnNotCounted
  <1> QED
    BY <1>1, <1>2, <1>3, <1>4, <1>5 DEF Inv

LEMMA RestartInv == ASSUME Inv, Restart PROVE Inv'
  <1>0. mount \in Nat \ {0} /\ mount' = mount + 1 /\ mount' # 1
    BY DEF Inv, Restart, Scalars, Mounts
  <1>1. Inbox'
    BY DEF Inv, Restart, Inbox, Short, NoPileUp, Queued
  <1>2. Scalars'
    BY ReviewAssumption DEF Inv, Restart, Mishap, Scalars, Mounting, Mounts
  <1>3. (mem \in [Mounts -> Memory])'
    BY DEF Inv, Restart, Memory, Mark, NoMemory, NoNotice
  <1>4. Lock'
    <2>1. /\ slot' = [g \in Slots |-> FreeSlot] /\ chain' = [m \in Mounts |-> <<>>]
          /\ \A g \in Slots : slot'[g] = FreeSlot
      BY DEF Restart
    <2> QED
      BY <1>0, <2>1, FreeTask, EmptySeq DEF Lock, Chained, InChain, Waits
  <1>5. Claimed' /\ Current' /\ ReviewTurnNotCounted'
    BY <1>0 DEF Claimed, Current, ReviewTurnNotCounted
  <1> QED
    BY <1>1, <1>2, <1>3, <1>4, <1>5 DEF Inv
LEMMA ReadStateInv == ASSUME Inv, NEW h \in Slots, ReadState(h) PROVE Inv'
  <1>1. Inbox' /\ Scalars' /\ (mem \in [Mounts -> Memory])' /\ Claimed'
    BY DEF Inv, ReadState, host, Inbox, Short, NoPileUp, Queued, Scalars, Mounting, Claimed
  <1>2. At(h, "queued") /\ Served(h) /\ stored \in 0 .. Interval \cup {None}
    BY DEF Inv, ReadState, Scalars
  <1>3. /\ slot' = [slot EXCEPT ![h].pc = "read", ![h].read = stored]
        /\ chain' = chain /\ mount' = mount /\ stored' = stored
    BY DEF ReadState
  <1>4. Lock'
    BY <1>2, <1>3, HolderReads DEF Inv
  <1>5. /\ slot'[h].read = stored /\ slot'[h].own = slot[h].own /\ slot'[h].op = slot[h].op
        /\ \A g \in Slots \ {h} : slot'[g] = slot[g]
    BY <1>3 DEF Inv, Lock, Task
  <1>6. Current' /\ ReviewTurnNotCounted'
    BY <1>3, <1>5 DEF Inv, Current, ReviewTurnNotCounted, At
  <1> QED
    BY <1>1, <1>4, <1>6 DEF Inv

\* What a task goes on as when it leaves the lock.
LEMMA AfterFacts ==
    ASSUME Inv, NEW h \in Slots, NEW due \in BOOLEAN
    PROVE  /\ After(h, due) \in Task /\ After(h, due).pc \in {"free", "decide"}
           /\ After(h, due).m <= mount
           /\ After(h, due).own => slot[h].own /\ After(h, due).op = slot[h].op
  <1>1. slot[h] \in Task /\ slot[h].m <= mount /\ 1 <= mount
    BY DEF Inv, Lock, Chained, Scalars, Mounts
  <1> DEFINE t == [slot[h] EXCEPT !.pc = "decide", !.read = None, !.due = due]
  <1>2. t \in Task /\ t.pc = "decide" /\ t.m = slot[h].m /\ t.own = slot[h].own /\ t.op = slot[h].op
    BY <1>1 DEF Task
  <1>3. After(h, due) = t \/ After(h, due) = FreeSlot
    BY DEF After
  <1> HIDE DEF t
  <1> QED
    BY <1>1, <1>2, <1>3, FreeTask

\* The holder leaves the lock with what it does next, and maybe with a save.
LEMMA Leaving ==
    ASSUME Inv, NEW h \in Slots, Waits(h), Served(h), NEW t \in Task,
           t.pc \in {"free", "decide"}, t.m <= mount,
           t.own => slot[h].own /\ t.op = slot[h].op,
           slot' = [slot EXCEPT ![h] = t], Leave(h), mount' = mount,
           stored' = stored \/ At(h, "read")
    PROVE  Lock' /\ Current' /\ ReviewTurnNotCounted'
  <1>1. Lock'
    BY HolderLeaves DEF Inv
  <1>2. slot'[h] = t /\ \A g \in Slots \ {h} : slot'[g] = slot[g]
    BY DEF Inv, Lock
  <1>3. ReviewTurnNotCounted'
    BY <1>2 DEF Inv, ReviewTurnNotCounted
  <1>4. Current'
    <2> SUFFICES ASSUME mount = 1, NEW g \in Slots, At(g, "read")' PROVE slot'[g].read = stored'
      BY DEF Current
    <2>1. g # h /\ slot'[g] = slot[g] /\ At(g, "read")
      BY <1>2 DEF At
    <2>2. slot[g].m = 1 /\ slot[h].m = 1
      BY DEF Inv, Lock, Chained, Task, Mounts
    <2>3. ~At(h, "read")
      BY <2>1, <2>2, HolderLeads DEF Inv
    <2> QED
      BY <2>1, <2>3 DEF Inv, Current
  <1> QED
    BY <1>1, <1>3, <1>4

LEMMA ResetInv == ASSUME Inv, NEW h \in Slots, Reset(h) PROVE Inv'
  <1>1. Inbox' /\ (mem \in [Mounts -> Memory])' /\ Claimed'
    BY DEF Inv, Reset, host, Inbox, Short, NoPileUp, Queued, Claimed
  <1>2. Scalars'
    BY ReviewAssumption DEF Inv, Reset, host, Scalars, Mounting
  <1>3. At(h, "read") /\ Waits(h) /\ Served(h)
    BY HolderLeads DEF Inv, Reset, Waits, At
  <1>4. slot' = [slot EXCEPT ![h] = After(h, FALSE)] /\ Leave(h) /\ mount' = mount
    BY DEF Reset
  <1>5. Lock' /\ Current' /\ ReviewTurnNotCounted'
    BY <1>3, <1>4, AfterFacts, Leaving
  <1> QED
    BY <1>1, <1>2, <1>5 DEF Inv

LEMMA CountInv ==
    ASSUME Inv, NEW h \in Slots, NEW activity \in 0 .. Interval, Count(h, activity)
    PROVE  Inv'
  <1> DEFINE before == IF slot[h].read = None THEN 0 ELSE slot[h].read
             total == IF before + activity > Interval THEN Interval ELSE before + activity
  <1>1. Inbox' /\ (mem \in [Mounts -> Memory])' /\ Claimed'
    BY DEF Inv, Count, host, Inbox, Short, NoPileUp, Queued, Claimed
  <1>2. total \in 0 .. Interval
    <2>1. slot[h].read \in 0 .. Interval \cup {None}
      BY DEF Inv, Lock, Task
    <2> QED
      BY <2>1, ReviewAssumption
  <1>3. /\ stored' = total /\ slot' = [slot EXCEPT ![h] = After(h, activity > 0 /\ total = Interval)]
        /\ At(h, "read") /\ Leave(h) /\ mount' = mount
    BY DEF Count
  <1> HIDE DEF total
  <1>4. Scalars'
    BY <1>2, <1>3 DEF Inv, Count, host, Scalars, Mounting
  <1>5. Waits(h) /\ Served(h)
    BY <1>3, HolderLeads DEF Inv, Waits, At
  <1>6. Lock' /\ Current' /\ ReviewTurnNotCounted'
    BY <1>3, <1>5, AfterFacts, Leaving
  <1> QED
    BY <1>1, <1>4, <1>6 DEF Inv

LEMMA StateFailsInv == ASSUME Inv, NEW h \in Slots, StateFails(h) PROVE Inv'
  <1>1. Inbox' /\ (mem \in [Mounts -> Memory])' /\ Claimed'
    BY DEF Inv, StateFails, host, Inbox, Short, NoPileUp, Queued, Claimed
  <1>2. Scalars'
    BY ReviewAssumption DEF Inv, StateFails, Mishap, host, Scalars, Mounting, Mounts
  <1>3. Waits(h) /\ Served(h) /\ Leave(h) /\ mount' = mount /\ stored' = stored
    BY DEF StateFails, Waits
  <1> DEFINE t == IF slot[h].op = "zero" THEN After(h, FALSE) ELSE FreeSlot
  <1>4. slot' = [slot EXCEPT ![h] = t]
    BY DEF StateFails
  <1>5. /\ t \in Task /\ t.pc \in {"free", "decide"} /\ t.m <= mount
        /\ t.own => slot[h].own /\ t.op = slot[h].op
    <2>1. 1 <= mount
      BY DEF Inv, Scalars, Mounts
    <2> QED
      BY <2>1, AfterFacts, FreeTask
  <1> HIDE DEF t
  <1>6. Lock' /\ Current' /\ ReviewTurnNotCounted'
    BY <1>3, <1>4, <1>5, Leaving
  <1> QED
    BY <1>1, <1>2, <1>6 DEF Inv
\* A task that is not waiting for the lock ends, or takes its slot over to settle
\* a lost record.
LEMMA Closing ==
    ASSUME Inv, NEW h \in Slots, At(h, "decide"), Closes(h) \/ Ends(h),
           stored' = stored, mount' = mount
    PROVE  Lock' /\ Current' /\ ReviewTurnNotCounted'
  <1> DEFINE u == [FreeSlot EXCEPT !.pc = "queued", !.m = slot[h].m]
  <1>1. slot[h].m \in Mounts /\ slot[h].m <= mount /\ ~Waits(h) /\ 1 <= mount
    BY DEF Inv, Lock, Chained, Task, Waits, At, Scalars, Mounts
  <1>2. u \in Task /\ u.pc = "queued" /\ u.m = slot[h].m /\ ~u.own
    BY <1>1, FreeTask DEF Task
  <1>3. \/ slot' = [slot EXCEPT ![h] = u] /\ chain' = [chain EXCEPT ![slot[h].m] = Append(@, h)]
        \/ slot' = [slot EXCEPT ![h] = FreeSlot] /\ chain' = chain
    BY DEF Closes, Ends
  <1> HIDE DEF u
  <1>4. CASE slot' = [slot EXCEPT ![h] = u] /\ chain' = [chain EXCEPT ![slot[h].m] = Append(@, h)]
    <2>1. chain' = [chain EXCEPT ![u.m] = Append(@, h)] /\ u.m <= mount
      BY <1>1, <1>2, <1>4
    <2>2. Lock'
      BY <1>1, <1>2, <1>4, <2>1, ChainJoined DEF Inv
    <2>3. Current' /\ ReviewTurnNotCounted'
      BY <1>2, <1>4, TaskChanged DEF Inv
    <2> QED
      BY <2>2, <2>3
  <1>5. CASE slot' = [slot EXCEPT ![h] = FreeSlot] /\ chain' = chain
    <2>1. Lock'
      BY <1>1, <1>5, FreeTask, OutsideLock DEF Inv
    <2>2. Current' /\ ReviewTurnNotCounted'
      BY <1>5, FreeTask, TaskChanged DEF Inv
    <2> QED
      BY <2>1, <2>2
  <1> QED
    BY <1>3, <1>4, <1>5

\* A prompt is delivered, or refused.
LEMMA Delivering ==
    ASSUME Inv, NEW h \in Slots, At(h, "decide"), NEW sent \in Memory, NEW refused \in Memory,
           Deliver(h, sent, refused), UNCHANGED <<running, told, stored, mount, mounted>>
    PROVE  Inv'
  <1>0. slot[h].m \in Mounts /\ mount \in Mounts /\ NoNotice \in Mark
    BY DEF Inv, Lock, Task, Scalars, Mark, NoNotice
  <1>1. /\ Mem(h) \in Memory /\ Followed(h) \in Mark
        /\ ~Outstanding(h) => Queued = {} /\ ~Notice(h).claimed
        /\ Notice(h).claimed => Outstanding(h) /\ Followed(h) = Notice(h)
    BY <1>0, FollowedFacts DEF Inv
  <1>2. \/ ~Outstanding(h) /\ Delivered(h, sent)
        \/ Refused(h, refused)
    BY DEF Deliver
  <1>3. faults' = faults \/ (faults' = faults + 1 /\ faults < MaxFaults)
    BY Zenon DEF Deliver, Mishap
  <1>4. Lock' /\ Current' /\ ReviewTurnNotCounted'
    <2>1. Closes(h)
      BY <1>2 DEF Delivered, Refused
    <2> QED
      BY <2>1, Closing
  <1>5. Scalars'
    BY <1>3, ReviewAssumption DEF Inv, Scalars, Mounting, Mounts
  <1>6. Inbox' /\ (mem \in [Mounts -> Memory])'
    <2>1. CASE ~Outstanding(h) /\ Delivered(h, sent)
      <3> DEFINE own == [mem EXCEPT ![slot[h].m] = [sent EXCEPT !.notice = NoNotice]]
                 note == [id |-> NewId, claimed |-> FALSE]
      <3>1. NewId \in Ids /\ Queued = {}
        BY <1>1, <2>1, FreshId DEF Inv
      <3>2. queue' = Append(queue, NewId) /\ NewId \in Messages
        BY <2>1, <3>1 DEF Delivered, Messages
      <3>3. Inbox'
        BY <3>1, <3>2, InboxGrows DEF Inv
      <3>4. own \in [Mounts -> Memory]
        BY <1>0 DEF Inv, Memory
      <3>5. note \in Mark
        BY <3>1 DEF Mark
      <3>6. mem' = own \/ mem' = [own EXCEPT ![mount].notice = note]
        BY <2>1 DEF Delivered
      <3> HIDE DEF own, note
      <3>7. [own[mount] EXCEPT !.notice = note] \in Memory
        BY <1>0, <3>4, <3>5 DEF Memory
      <3>8. [own EXCEPT ![mount].notice = note] \in [Mounts -> Memory]
        BY <1>0, <3>4, <3>7
      <3> QED
        BY <3>3, <3>4, <3>6, <3>8
    <2>2. CASE Refused(h, refused)
      <3>1. Inbox'
        BY <2>2 DEF Inv, Refused, Inbox, Short, NoPileUp, Queued
      <3>2. [refused EXCEPT !.notice = Followed(h)] \in Memory
        BY <1>1 DEF Memory
      <3> QED
        BY <1>0, <2>2, <3>1, <3>2 DEF Inv, Refused
    <2> QED
      BY <1>2, <2>1, <2>2
  <1>7. Claimed'
    <2> SUFFICES ASSUME mount = 1, mounted, told = 1, running \in Ids
                 PROVE  mem'[1].notice = [id |-> running, claimed |-> TRUE] /\ Queued' = {}
      BY DEF Claimed
    <2>1. mem[1].notice = [id |-> running, claimed |-> TRUE] /\ Queued = {}
      BY DEF Inv, Claimed
    <2>2. slot[h].m = 1
      BY DEF Inv, Lock, Chained, Task, Mounts
    <2>3. Notice(h) = [id |-> running, claimed |-> TRUE] /\ Notice(h).claimed
      BY <2>1, <2>2 DEF Notice, Mem
    <2>4. Refused(h, refused) /\ Followed(h) = [id |-> running, claimed |-> TRUE]
      BY <1>1, <1>2, <2>3
    <2>5. /\ queue' = queue
          /\ mem' = [mem EXCEPT ![1] = [refused EXCEPT !.notice = Followed(h)]]
      BY <2>2, <2>4 DEF Refused
    <2>6. mem'[1].notice = Followed(h)
      BY <1>0, <2>2, <2>5 DEF Inv, Memory
    <2> QED
      BY <2>1, <2>4, <2>5, <2>6 DEF Queued
  <1> QED
    BY <1>4, <1>5, <1>6, <1>7 DEF Inv

LEMMA HandlerMemory ==
    ASSUME Inv, NEW h \in Slots
    PROVE  Mem(h) \in Memory
  BY DEF Inv, Lock, Task, Mem

LEMMA FlushInv == ASSUME Inv, NEW h \in Slots, Flush(h) PROVE Inv'
  <1> DEFINE sent == [Mem(h) EXCEPT !.latch = FALSE]
             refused == [Mem(h) EXCEPT !.latch = TRUE]
  <1>1. sent \in Memory /\ refused \in Memory
    BY HandlerMemory DEF Memory
  <1>2. /\ At(h, "decide") /\ Deliver(h, sent, refused)
        /\ UNCHANGED <<running, told, stored, mount, mounted>>
    BY DEF Flush
  <1> HIDE DEF sent, refused
  <1> QED
    BY <1>1, <1>2, Delivering

LEMMA CompleteInv == ASSUME Inv, NEW h \in Slots, Complete(h) PROVE Inv'
  <1> DEFINE sent == [Mem(h) EXCEPT !.done = TRUE]
  <1>1. sent \in Memory /\ Mem(h) \in Memory
    BY HandlerMemory DEF Memory
  <1>2. /\ At(h, "decide") /\ Deliver(h, sent, Mem(h))
        /\ UNCHANGED <<running, told, stored, mount, mounted>>
    BY DEF Complete
  <1> HIDE DEF sent
  <1> QED
    BY <1>1, <1>2, Delivering

LEMMA LatchInv == ASSUME Inv, NEW h \in Slots, Latch(h) PROVE Inv'
  <1>0. slot[h].m \in Mounts /\ mem \in [Mounts -> Memory]
    BY DEF Inv, Lock, Task
  <1>1. Inbox' /\ Scalars'
    BY DEF Inv, Latch, host, Inbox, Short, NoPileUp, Queued, Scalars, Mounting
  <1>2. /\ mem' \in [Mounts -> Memory]
        /\ \A m \in Mounts : mem'[m].notice = mem[m].notice
    <2>1. [mem[slot[h].m] EXCEPT !.latch = TRUE] \in Memory
      BY <1>0 DEF Memory
    <2> QED
      BY <1>0, <2>1 DEF Latch, Memory
  <1>3. Claimed'
    <2>1. 1 \in Mounts
      BY ReviewAssumption DEF Mounts
    <2> QED
      BY <1>2, <2>1 DEF Inv, Latch, host, Claimed, Queued
  <1>4. Lock' /\ Current' /\ ReviewTurnNotCounted'
    BY Closing DEF Latch
  <1> QED
    BY <1>1, <1>2, <1>3, <1>4 DEF Inv

LEMMA PassInv == ASSUME Inv, NEW h \in Slots, Pass(h) PROVE Inv'
  <1>1. Inbox' /\ Scalars' /\ (mem \in [Mounts -> Memory])' /\ Claimed'
    BY DEF Inv, Pass, host, Inbox, Short, NoPileUp, Queued, Scalars, Mounting, Claimed
  <1>2. Lock' /\ Current' /\ ReviewTurnNotCounted'
    BY Closing DEF Pass
  <1> QED
    BY <1>1, <1>2 DEF Inv

LEMMA InvStep == Inv /\ [Next]_vars => Inv'
  <1> SUFFICES ASSUME Inv, [Next]_vars PROVE Inv'
    OBVIOUS
  <1>1. CASE UserSends
    BY <1>1, UserSendsInv
  <1>2. CASE Turn
    BY <1>2, TurnStartInv, TurnEndInv DEF Turn
  <1>3. CASE Unload \/ Load \/ Restart
    BY <1>3, UnloadInv, LoadInv, RestartInv
  <1>4. CASE \E h \in Slots, k \in DOMAIN queue, steered, heard \in BOOLEAN : Discard(h, k, steered, heard)
    BY <1>4, DiscardInv
  <1>5. ASSUME NEW h \in Slots, Work(h) PROVE Inv'
    BY <1>5, ReadStateInv, ResetInv, CountInv, FlushInv, LatchInv, CompleteInv, PassInv DEF Work
  <1>6. ASSUME NEW h \in Slots, StateFails(h) PROVE Inv'
    BY <1>6, StateFailsInv
  <1>7. CASE UNCHANGED vars
    BY <1>7 DEF vars, host, Inv, Inbox, Short, NoPileUp, Queued, Scalars, Mounting, Lock, Chained,
                InChain, Waits, At, Current, Claimed, ReviewTurnNotCounted
  <1> QED
    BY <1>1, <1>2, <1>3, <1>4, <1>5, <1>6, <1>7 DEF Next

------------------------------------------------------------------------------
(* The theorems.                                                           *)

\* The strengthened invariant holds of every behaviour.
THEOREM Invariance == Spec => []Inv
  BY InitInv, InvStep, PTL DEF Spec

\* Every variable keeps its type, however many handlers, notices and mishaps.
THEOREM TypeCorrect == Spec => []TypeOK
  <1>1. Inv => TypeOK
    BY DEF Inv, Inbox, Messages, Scalars, Mark, Memory, Lock, Chained, InChain, Waits, At, TypeOK
  <1> QED
    BY <1>1, Invariance, PTL

\* deliverMessage never adds a review prompt to one that still waits, whatever
\* a reload has made the plugin forget and whoever delivers at the same boundary.
THEOREM PromptsDoNotPileUp == Spec => []NoPileUp
  <1>1. Inv => NoPileUp
    BY DEF Inv, Inbox
  <1> QED
    BY <1>1, Invariance, PTL

\* Until a reload, the turn that ran our own review restarts the window and is
\* not counted towards the next one.
THEOREM ReviewTurnsAreFree == Spec => []ReviewTurnNotCounted
  <1>1. Inv => ReviewTurnNotCounted
    BY DEF Inv
  <1> QED
    BY <1>1, Invariance, PTL

\* Until a reload, no count or reset overwrites a counter saved after it was
\* read: the lock is held from the read to the save.
THEOREM NoSaveIsStale == Spec => SavesAreCurrent
  <1>1. Inv => \A h \in Slots : mount = 1 /\ At(h, "read") => stored = slot[h].read
    BY DEF Inv, Current
  <1>2. Inv => [\A h \in Slots : mount = 1 /\ At(h, "read") /\ ~At(h, "read")' /\ stored' # stored
                 => stored = slot[h].read]_vars
    BY <1>1
  <1> QED
    BY <1>2, Invariance, PTL DEF SavesAreCurrent
==============================================================================
