-------------------------- MODULE RunRegistry_proofs --------------------------
(***************************************************************************)
(* Proofs about RunRegistry for every set of processes, registries and     *)
(* runs, whichever backend.  The invariant speaks of every body of the     *)
(* index that is about, stale ones included: the file, the bodies read and *)
(* not yet applied, the registries' views, the writes under way.           *)
(***************************************************************************)
EXTENDS RunRegistry, TLAPS

\* A row is owned by one registry, of a living process, and bears its pid.
Owners(own, bg, alive) ==
    /\ \A r \in Regs, x \in Runs : own[r][x] # NoRow =>
         /\ x \in bg /\ Proc[r] \in alive
         /\ own[r][x].pid = Proc[r] /\ ~own[r][x].orphan
    /\ \A q, r \in Regs, x \in Runs : own[q][x] # NoRow /\ own[r][x] # NoRow => q = r

\* A body knows no run before it began and says nothing of an owned run that
\* its owner did not: it runs, or it ended as the owner says.
Honest(b, own, bg) == \A x \in Runs :
    /\ x \notin bg => b[x] = NoRow
    /\ \A r \in Regs : own[r][x] # NoRow /\ b[x] # NoRow =>
         /\ b[x].pid = Proc[r] /\ ~b[x].orphan
         /\ Running(b[x]) \/ b[x].state = own[r][x].state

AllHonest ==
    /\ Honest(index, owned, begun)
    /\ \A r \in Regs : Honest(foreign[r], owned, begun)
    /\ \A r \in Regs : \A b \in loads[r] : Honest(b, owned, begun)
    /\ \A p \in Procs : Honest(window[p].next, owned, begun)

\* Who waits for a transaction is known: a begin is of a begun run, a recovery
\* of a run.
Tasks ==
    /\ \A r \in Regs : \A t \in pending[r] :
         (t.why = "begin" => t.run \in begun) /\ (t.why = "recover" => t.run \in Runs)
    /\ \A p \in Procs : window[p] # Idle =>
         window[p].by \in Regs /\ (window[p].why = "begin" => window[p].run \in begun)

\* A mounted registry's process lives.
Alive == \A r \in Regs : mode[r] = "mounted" => Proc[r] \in up

Inv == TypeOK /\ Alive /\ Tasks /\ Owners(owned, begun, up) /\ AllHonest

\* An owner's rows only begin, end once, or disappear with it.
Moved(own, new, bg) == \A r \in Regs, x \in Runs : new[r][x] # NoRow =>
    \/ x \notin bg
    \/ own[r][x] # NoRow /\ (own[r][x].state = new[r][x].state \/ Running(own[r][x]))

LEMMA HonestKept ==
    ASSUME NEW b, NEW own, NEW new, NEW bg, NEW more,
           Honest(b, own, bg), Moved(own, new, bg), bg \subseteq more
    PROVE  Honest(b, new, more)
  BY DEF Honest, Moved, Running

LEMMA AllKept ==
    ASSUME AllHonest, Moved(owned, owned', begun), begun \subseteq begun',
           UNCHANGED <<index, foreign>>,
           \A r \in Regs : \A b \in loads'[r] : b \in loads[r] \/ Honest(b, owned', begun'),
           \A p \in Procs : window'[p] = window[p] \/ Honest(window'[p].next, owned', begun')
    PROVE  AllHonest'
  BY HonestKept DEF AllHonest

LEMMA RowFacts == NoRow \notin Row /\ \A row \in Row : row.state # "absent" /\ row.pid \in Procs
  BY DEF NoRow, Row, States, Outcomes

LEMMA InitInv == Init => Inv
  <1> SUFFICES ASSUME Init PROVE Inv
    OBVIOUS
  <1> DEFINE empty == [x \in Runs |-> NoRow]
  <1>0. empty \in Index /\ \A own, bg : Honest(empty, own, bg)
    BY DEF Index, Honest
  <1>1. TypeOK
    BY <1>0, LimitsAssumption DEF Init, TypeOK, Idle, Window
  <1>2. Tasks /\ Alive
    BY DEF Init, Tasks, Alive
  <1>3. Owners(owned, begun, up)
    BY DEF Init, Owners
  <1>4. AllHonest
    BY <1>0 DEF Init, AllHonest, Idle
  <1> QED
    BY <1>1, <1>2, <1>3, <1>4 DEF Inv

------------------------------------------------------------------------------
(* What a transaction computes is honest.                                  *)

\* The cap only drops rows.
LEMMA CappedFacts ==
    ASSUME NEW rows \in Index, NEW next \in Capped(rows)
    PROVE  next \in Index /\ \A x \in Runs : next[x] = NoRow \/ next[x] = rows[x]
  BY DEF Capped, Index

LEMMA CappedHonest ==
    ASSUME NEW rows \in Index, Honest(rows, owned, begun), NEW next \in Capped(rows)
    PROVE  next \in Index /\ Honest(next, owned, begun)
  BY CappedFacts DEF Honest

\* The orphan verdict of a row whose owner is gone is no verdict on a living
\* registry's run.
LEMMA OrphanFacts ==
    ASSUME NEW row \in Row
    PROVE  /\ OrphanOf(row) \in Row /\ OrphanOf(row) # NoRow
  BY DEF OrphanOf, Row, NoRow, States, Outcomes

LEMMA PersistHonest ==
    ASSUME Inv, NEW r \in Regs
    PROVE  Persisted(r) \in Index /\ Honest(Persisted(r), owned, begun)
  <1>0. /\ index \in Index /\ owned \in [Regs -> Index] /\ foreign \in [Regs -> Index]
        /\ Honest(index, owned, begun) /\ Honest(foreign[r], owned, begun)
        /\ Owners(owned, begun, up)
    BY DEF Inv, TypeOK, AllHonest
  <1>1. Laid(r) \in Index /\ Honest(Laid(r), owned, begun)
    BY <1>0 DEF Laid, Owns, Index, Honest, Owners
  <1>2. Repaired(r, Laid(r)) \in Index /\ Honest(Repaired(r, Laid(r)), owned, begun)
    <2>1. ASSUME NEW rows \in Index, Honest(rows, owned, begun)
          PROVE  Repaired(r, rows) \in Index /\ Honest(Repaired(r, rows), owned, begun)
      BY <1>0, <2>1 DEF Repaired, Index, Honest
    <2> QED
      BY <1>1, <2>1
  <1>3. ASSUME NEW rows \in Index, Honest(rows, owned, begun)
        PROVE  Judged(r, rows) \in Index /\ Honest(Judged(r, rows), owned, begun)
    <2>1. ASSUME NEW x \in Runs, Running(rows[x]), OwnerIsGone(rows[x])
          PROVE  /\ rows[x] \in Row /\ x \in begun
                 /\ \A q \in Regs : owned[q][x] = NoRow
      <3>1. rows[x] \in Row
        BY <1>3, <2>1 DEF Index, Running, NoRow
      <3>2. rows[x] # NoRow
        BY <3>1, RowFacts
      <3> QED
        BY <1>0, <1>3, <2>1, <3>1, <3>2 DEF Honest, Owners, OwnerIsGone
    <2> QED
      BY <1>0, <1>3, <2>1, OrphanFacts DEF Judged, Index, Honest
  <1> QED
    BY <1>2, <1>3 DEF Persisted

LEMMA SupersedeHonest ==
    ASSUME Inv, NEW r \in Regs
    PROVE  Superseded(r, "merge") \in Index /\ Honest(Superseded(r, "merge"), owned, begun)
  <1>0. /\ index \in Index /\ owned \in [Regs -> Index]
        /\ Honest(index, owned, begun) /\ Owners(owned, begun, up)
    BY DEF Inv, TypeOK, AllHonest
  <1>1. Laid(r) \in Index /\ Honest(Laid(r), owned, begun)
    BY <1>0 DEF Laid, Owns, Index, Honest, Owners
  <1>2. ASSUME NEW row \in Row \cup {NoRow}, NEW x \in Runs
        PROVE  /\ Mark(row, "merge", x) \in Row \cup {NoRow}
               /\ Mark(row, "merge", x) = NoRow <=> row = NoRow
               /\ Mark(row, "merge", x).state = row.state
               /\ Mark(row, "merge", x).pid = row.pid
               /\ Mark(row, "merge", x).orphan = row.orphan
    BY DEF Mark, Row, NoRow, States, Outcomes
  <1>3. ASSUME NEW rows \in Index, Honest(rows, owned, begun)
        PROVE  /\ [x \in Runs |-> Mark(rows[x], "merge", x)] \in Index
               /\ Honest([x \in Runs |-> Mark(rows[x], "merge", x)], owned, begun)
    <2>1. \A x \in Runs : rows[x] \in Row \cup {NoRow}
      BY <1>3 DEF Index
    <2>2. [x \in Runs |-> Mark(rows[x], "merge", x)] \in Index
      BY <1>2, <2>1 DEF Index
    <2>3. Honest([x \in Runs |-> Mark(rows[x], "merge", x)], owned, begun)
      BY <1>2, <1>3, <2>1 DEF Honest, Running
    <2> QED
      BY <2>2, <2>3
  <1> QED
    BY <1>1, <1>3 DEF Superseded

LEMMA RecoverHonest ==
    ASSUME Inv, NEW x \in Runs, Recoverable(x)
    PROVE  Recovered(x) \in Index /\ Honest(Recovered(x), owned, begun)
  <1>0. /\ index \in Index /\ owned \in [Regs -> Index]
        /\ Honest(index, owned, begun) /\ Owners(owned, begun, up)
    BY DEF Inv, TypeOK, AllHonest
  <1>1. index[x] \in Row /\ index[x] # NoRow
    BY <1>0 DEF Recoverable, Running, NoRow, Index
  <1>2. x \in begun /\ \A q \in Regs : owned[q][x] = NoRow
    BY <1>0, <1>1 DEF Honest, Owners, Recoverable, OwnerIsGone, Running
  <1>3. [index[x] EXCEPT !.state = "succeeded"] \in Row
    BY <1>1 DEF Row, States, Outcomes
  <1> QED
    BY <1>0, <1>2, <1>3 DEF Recovered, Index, Honest

\* So is what a load makes of an honest body.
LEMMA AdoptHonest ==
    ASSUME Inv, NEW r \in Regs, NEW raw \in Index, Honest(raw, owned, begun)
    PROVE  LET view == [x \in Runs |-> Adopt(r, x, raw[x])]
           IN  view \in Index /\ Honest(view, owned, begun)
  <1>0. /\ foreign \in [Regs -> Index] /\ owned \in [Regs -> Index]
        /\ Honest(foreign[r], owned, begun) /\ Owners(owned, begun, up)
    BY DEF Inv, TypeOK, AllHonest
  <1>1. ASSUME NEW x \in Runs, Running(raw[x]), OwnerIsGone(raw[x])
        PROVE  raw[x] \in Row /\ x \in begun /\ \A q \in Regs : owned[q][x] = NoRow
    <2>1. raw[x] \in Row
      BY <1>1 DEF Index, Running, NoRow
    <2>2. raw[x] # NoRow
      BY <2>1, RowFacts
    <2> QED
      BY <1>0, <1>1, <2>1, <2>2 DEF Honest, Owners, OwnerIsGone
  <1> QED
    BY <1>0, <1>1, OrphanFacts DEF Adopt, Index, Honest

------------------------------------------------------------------------------
(* Every step keeps the invariant.                                         *)

Quiet == UNCHANGED <<index, owned, foreign, up, begun, window>>

\* Steps that touch neither a row nor a body.
LEMMA QuietKeeps ==
    ASSUME Inv, Quiet, TypeOK', Alive', \A r \in Regs : loads'[r] \subseteq loads[r] \cup {index},
           \A r \in Regs : \A t \in pending'[r] : t \in pending[r] \/
               ((t.why = "begin" => t.run \in begun) /\ (t.why = "recover" => t.run \in Runs))
    PROVE  Inv'
  <1> USE DEF Quiet
  <1>1. Tasks'
    BY DEF Inv, Tasks
  <1>2. Owners(owned, begun, up)'
    BY DEF Inv, Owners
  <1>3. AllHonest'
    BY DEF Inv, AllHonest, Honest
  <1> QED
    BY <1>1, <1>2, <1>3 DEF Inv

LEMMA EasySteps ==
    ASSUME Inv, NEW r \in Regs,
           \/ Mount(r) \/ LoadRead(r) \/ SupersedeKind(r)
           \/ \E x \in Runs : Stage(r, x) \/ SettleRecovered(r, x)
           \/ \E t \in pending[r] : RecoverRefused(r, t)
    PROVE  Inv'
  <1>0. TypeOK
    BY DEF Inv
  <1>a. Alive
    BY DEF Inv
  <1>1. CASE Mount(r)
    <2>1. TypeOK' /\ Alive'
      BY <1>0, <1>1, <1>a DEF Mount, TypeOK, Alive
    <2> QED
      BY <1>1, <2>1, QuietKeeps DEF Mount, Quiet
  <1>2. CASE LoadRead(r)
    BY <1>0, <1>2, <1>a, QuietKeeps DEF LoadRead, TypeOK, Alive, Quiet
  <1>3. CASE SupersedeKind(r)
    <2>1. TypeOK'
      BY <1>0, <1>3, LimitsAssumption DEF SupersedeKind, Enqueue, TypeOK, Task
    <2> QED
      BY <1>0, <1>3, <1>a, <2>1, QuietKeeps DEF SupersedeKind, Enqueue, TypeOK, Alive, Quiet
  <1>4. ASSUME NEW x \in Runs, Stage(r, x) PROVE Inv'
    <2>1. TypeOK'
      BY <1>0, <1>4 DEF Stage, Enqueue, TypeOK, Task
    <2> QED
      BY <1>0, <1>4, <1>a, <2>1, QuietKeeps DEF Stage, Enqueue, TypeOK, Alive, Quiet
  <1>5. ASSUME NEW x \in Runs, SettleRecovered(r, x) PROVE Inv'
    <2>1. TypeOK'
      BY <1>0, <1>5 DEF SettleRecovered, Enqueue, TypeOK, Task
    <2> QED
      BY <1>0, <1>5, <1>a, <2>1, QuietKeeps DEF SettleRecovered, Enqueue, TypeOK, Alive, Quiet
  <1>6. ASSUME NEW t \in pending[r], RecoverRefused(r, t) PROVE Inv'
    BY <1>0, <1>6, <1>a, QuietKeeps DEF RecoverRefused, TypeOK, Alive, Quiet
  <1> QED
    BY <1>1, <1>2, <1>3, <1>4, <1>5, <1>6

\* A load: its view is as honest as the body it read.
LEMMA LoadStep ==
    ASSUME Inv, NEW r \in Regs, NEW raw \in loads[r], LoadApply(r, raw)
    PROVE  Inv'
  <1> DEFINE view == [x \in Runs |-> Adopt(r, x, raw[x])]
  <1>0. TypeOK
    BY DEF Inv
  <1>1. raw \in Index /\ Honest(raw, owned, begun)
    BY DEF Inv, TypeOK, AllHonest
  <1>2. view \in Index /\ Honest(view, owned, begun)
    BY <1>1, AdoptHonest
  <1>3. foreign' = [foreign EXCEPT ![r] = view]
    BY DEF LoadApply
  <1> HIDE DEF view
  <1>4. TypeOK'
    <2>1. pending' = pending \/ pending' = [pending EXCEPT ![r] = @ \cup {[why |-> "load", run |-> NoRun]}]
      BY DEF LoadApply, Enqueue
    <2>2. pending' \in [Regs -> SUBSET Task]
      <3>1. [why |-> "load", run |-> NoRun] \in Task
        BY DEF Task
      <3> QED
        BY <1>0, <2>1, <3>1 DEF TypeOK
    <2>3. loads' \in [Regs -> SUBSET Index]
      BY <1>0 DEF LoadApply, TypeOK
    <2>4. foreign' \in [Regs -> Index] /\ synced' \subseteq Regs
      BY <1>0, <1>2, <1>3 DEF LoadApply, TypeOK
    <2> QED
      BY <1>0, <2>2, <2>3, <2>4 DEF LoadApply, TypeOK
  <1>5. Tasks' /\ Alive'
    <2>1. pending' = pending \/ pending' = [pending EXCEPT ![r] = @ \cup {[why |-> "load", run |-> NoRun]}]
      BY DEF LoadApply, Enqueue
    <2>2. \A q \in Regs : \A t \in pending'[q] : t \in pending[q] \/ t.why = "load"
      BY <1>0, <2>1 DEF TypeOK
    <2>3. UNCHANGED <<window, begun, mode, up>>
      BY DEF LoadApply
    <2> QED
      BY <2>2, <2>3 DEF Inv, Tasks, Alive
  <1>6. Owners(owned, begun, up)'
    BY DEF Inv, LoadApply, Owners
  <1>7. AllHonest'
    <2>1. \A q \in Regs : foreign'[q] = foreign[q] \/ Honest(foreign'[q], owned, begun)
      BY <1>0, <1>2, <1>3 DEF TypeOK
    <2>2. \A q \in Regs : loads'[q] \subseteq loads[q]
      BY <1>0 DEF LoadApply, TypeOK
    <2>3. UNCHANGED <<index, owned, begun, window>>
      BY DEF LoadApply
    <2> QED
      BY <2>1, <2>2, <2>3 DEF Inv, AllHonest
  <1> QED
    BY <1>4, <1>5, <1>6, <1>7 DEF Inv

\* A run begins: nothing knows of it yet.
LEMMA BeginStep ==
    ASSUME Inv, NEW r \in Regs, NEW x \in Runs, BeginScan(r, x) \/ BeginMerge(r, x)
    PROVE  Inv'
  <1> DEFINE row == [state |-> "running", pid |-> Proc[r], orphan |-> FALSE, superseded |-> FALSE]
  <1>0. TypeOK /\ Owners(owned, begun, up)
    BY DEF Inv
  <1>1. /\ x \notin begun /\ begun' = begun \cup {x} /\ owned' = [owned EXCEPT ![r][x] = row]
        /\ pending' = [pending EXCEPT ![r] = @ \cup {[why |-> "begin", run |-> x]}]
        /\ synced' \subseteq synced /\ mode[r] = "mounted"
        /\ UNCHANGED <<index, foreign, mode, up, loads, window, told, faults, restores>>
    BY DEF BeginScan, BeginMerge, Register, Enqueue
  <1>2. row \in Row /\ row # NoRow /\ row.pid = Proc[r] /\ ~row.orphan
    BY PlanesAssumption DEF Row, States, NoRow
  <1> HIDE DEF row
  <1>3. owned' \in [Regs -> Index]
    BY <1>0, <1>1, <1>2 DEF TypeOK, Index
  <1>4. TypeOK'
    BY <1>0, <1>1, <1>3 DEF TypeOK, Task
  <1>5. Tasks' /\ Alive'
    BY <1>0, <1>1 DEF Inv, Tasks, Alive, TypeOK
  <1>6. \A q \in Regs, y \in Runs : owned'[q][y] = IF q = r /\ y = x THEN row ELSE owned[q][y]
    BY <1>0, <1>1 DEF TypeOK, Index
  <1>7. Owners(owned', begun', up')
    BY <1>0, <1>1, <1>2, <1>6 DEF Owners, Inv, Alive
  <1>8. AllHonest'
    <2>1. Moved(owned, owned', begun)
      BY <1>1, <1>6 DEF Moved
    <2> QED
      BY <1>1, <2>1, AllKept DEF Inv
  <1> QED
    BY <1>4, <1>5, <1>7, <1>8 DEF Inv

\* A run ends, or a whole registry's runs do.
LEMMA EndStep ==
    ASSUME Inv, NEW r \in Regs,
           Dispose(r) \/ \E x \in Runs, outcome \in Results : Settle(r, x, outcome)
    PROVE  Inv'
  <1>0. TypeOK /\ Owners(owned, begun, up)
    BY DEF Inv
  <1> DEFINE Ends(q, y) ==
        \/ owned'[q][y] = owned[q][y]
        \/ /\ Running(owned[q][y]) /\ owned[q][y] \in Row /\ owned'[q][y] \in Row
           /\ owned'[q][y].pid = owned[q][y].pid /\ owned'[q][y].orphan = owned[q][y].orphan
  <1>1. owned' \in [Regs -> Index] /\ \A q \in Regs, y \in Runs : Ends(q, y)
    <2>1. CASE Dispose(r)
      <3>1. \A y \in Runs : Running(owned[r][y]) => owned[r][y] \in Row
        BY <1>0 DEF TypeOK, Index, Running, NoRow
      <3>2. \A row \in Row : [row EXCEPT !.state = "cancelled"] \in Row
                /\ [row EXCEPT !.state = "cancelled"].pid = row.pid
                /\ [row EXCEPT !.state = "cancelled"].orphan = row.orphan
        BY DEF Row, States, Outcomes
      <3>3. owned' = [owned EXCEPT ![r] = [y \in Runs |->
                IF y \in {z \in Runs : Running(owned[r][z])}
                THEN [owned[r][y] EXCEPT !.state = "cancelled"] ELSE owned[r][y]]]
        BY <1>0, <2>1 DEF Dispose, TypeOK, Index
      <3> QED
        BY <1>0, <3>1, <3>2, <3>3 DEF TypeOK, Index
    <2>2. ASSUME NEW x \in Runs, NEW outcome \in Results, Settle(r, x, outcome)
          PROVE  owned' \in [Regs -> Index] /\ \A q \in Regs, y \in Runs : Ends(q, y)
      <3>1. owned[r][x] \in Row /\ Running(owned[r][x])
        BY <1>0, <2>2 DEF Settle, TypeOK, Index, Running, NoRow
      <3>2. [owned[r][x] EXCEPT !.state = outcome] \in Row
            /\ [owned[r][x] EXCEPT !.state = outcome].pid = owned[r][x].pid
            /\ [owned[r][x] EXCEPT !.state = outcome].orphan = owned[r][x].orphan
        BY <3>1, LimitsAssumption DEF Row, States
      <3>3. owned' = [owned EXCEPT ![r] = [owned[r] EXCEPT ![x] = [owned[r][x] EXCEPT !.state = outcome]]]
        BY <1>0, <2>2 DEF Settle, TypeOK, Index
      <3> QED
        BY <1>0, <3>1, <3>2, <3>3 DEF TypeOK, Index
    <2> QED
      BY <2>1, <2>2
  <1>2. TypeOK' /\ Tasks' /\ Alive'
    <2>0. \A x \in Runs : [why |-> "change", run |-> x] \in Task
      BY DEF Task
    <2>1. /\ \A q \in Regs : \A t \in pending'[q] :
               t \in pending[q] \/ (t \in Task /\ t.why = "change")
          /\ pending' \in [Regs -> SUBSET Task]
          /\ mode' = mode \/ mode' = [mode EXCEPT ![r] = "disposed"]
          /\ synced' \subseteq synced
          /\ UNCHANGED <<index, foreign, up, begun, loads, window, told, faults, restores>>
      BY <1>0, <2>0 DEF Dispose, Settle, Enqueue, TypeOK
    <2>2. TypeOK'
      BY <1>0, <1>1, <2>1 DEF TypeOK
    <2> QED
      BY <1>0, <2>1, <2>2 DEF Inv, Tasks, Alive, TypeOK
  <1>3. UNCHANGED <<index, foreign, up, begun, loads, window>>
    BY DEF Dispose, Settle
  <1> HIDE DEF Ends
  <1>4. \A q \in Regs, y \in Runs : owned'[q][y] # NoRow => owned[q][y] # NoRow
            /\ owned'[q][y].pid = owned[q][y].pid /\ owned'[q][y].orphan = owned[q][y].orphan
            /\ (owned[q][y].state = owned'[q][y].state \/ Running(owned[q][y]))
    BY <1>1, RowFacts DEF Ends
  <1>5. Owners(owned', begun', up')
    BY <1>0, <1>3, <1>4 DEF Owners
  <1>6. AllHonest'
    <2>1. Moved(owned, owned', begun)
      BY <1>4 DEF Moved
    <2> QED
      BY <1>3, <2>1, AllKept DEF Inv
  <1> QED
    BY <1>2, <1>5, <1>6 DEF Inv

\* A transaction reads the index and computes its body under the registry's rows.
LEMMA ReadStep ==
    ASSUME Inv, NEW r \in Regs, NEW t \in pending[r], TransactRead(r, t)
    PROVE  Inv'
  <1>0. TypeOK /\ Owners(owned, begun, up) /\ Tasks /\ Proc[r] \in Procs
    BY PlanesAssumption DEF Inv
  <1>t. t \in Task
    BY <1>0 DEF TypeOK
  <1>1. PICK next \in Bodies(r, t) :
          window' = [window EXCEPT ![Proc[r]] =
              [by |-> r, why |-> t.why, run |-> t.run, next |-> next]]
    BY DEF TransactRead
  <1>2. next \in Index /\ Honest(next, owned, begun)
    <2>1. CASE t.why = "recover"
      <3>1. t.run \in Runs /\ Recoverable(t.run)
        BY <1>0, <2>1 DEF Tasks, TransactRead
      <3> QED
        BY <2>1, <3>1, <1>1, RecoverHonest, CappedHonest DEF Bodies
    <2>2. CASE t.why = "supersede"
      BY <2>2, <1>1, SupersedeHonest, CappedHonest DEF Bodies
    <2>3. CASE t.why \notin {"recover", "supersede"}
      BY <2>3, <1>1, PersistHonest, CappedHonest DEF Bodies
    <2> QED
      BY <2>1, <2>2, <2>3
  <1>3. /\ owned' \in [Regs -> Index]
        /\ \A q \in Regs, y \in Runs :
             /\ owned'[q][y] = NoRow <=> owned[q][y] = NoRow
             /\ owned'[q][y].pid = owned[q][y].pid /\ owned'[q][y].orphan = owned[q][y].orphan
             /\ owned'[q][y].state = owned[q][y].state
    <2>1. CASE owned' = owned
      BY <1>0, <2>1 DEF TypeOK
    <2>2. CASE owned' = MarkOwned(r)
      <3>1. ASSUME NEW row \in Row \cup {NoRow}, NEW x \in Runs
            PROVE  /\ Mark(row, "merge", x) \in Row \cup {NoRow}
                   /\ Mark(row, "merge", x) = NoRow <=> row = NoRow
                   /\ Mark(row, "merge", x).state = row.state
                   /\ Mark(row, "merge", x).pid = row.pid
                   /\ Mark(row, "merge", x).orphan = row.orphan
        BY DEF Mark, Row, NoRow, States, Outcomes
      <3>2. owned' = [owned EXCEPT ![r] = [x \in Runs |-> Mark(owned[r][x], "merge", x)]]
        BY <1>0, <2>2 DEF MarkOwned, TypeOK
      <3>3. \A q \in Regs, y \in Runs : owned[q][y] \in Row \cup {NoRow}
        BY <1>0 DEF TypeOK, Index
      <3> DEFINE marked == [x \in Runs |-> Mark(owned[r][x], "merge", x)]
      <3>4. marked \in Index
        <4>1. \A x \in Runs : Mark(owned[r][x], "merge", x) \in Row \cup {NoRow}
          BY <3>1, <3>3
        <4> QED
          BY <4>1 DEF Index
      <3>5. owned' \in [Regs -> Index]
        <4> HIDE DEF marked
        <4>1. owned' = [owned EXCEPT ![r] = marked]
          BY <3>2 DEF marked
        <4> QED
          BY <1>0, <3>4, <4>1 DEF TypeOK
      <3>6. \A q \in Regs, y \in Runs :
              owned'[q][y] = IF q = r THEN Mark(owned[r][y], "merge", y) ELSE owned[q][y]
        BY <1>0, <3>2 DEF TypeOK
      <3>7. ASSUME NEW q \in Regs, NEW y \in Runs
            PROVE  /\ owned'[q][y] = NoRow <=> owned[q][y] = NoRow
                   /\ owned'[q][y].pid = owned[q][y].pid
                   /\ owned'[q][y].orphan = owned[q][y].orphan
                   /\ owned'[q][y].state = owned[q][y].state
        <4>1. CASE q = r
          BY <3>1, <3>3, <3>6, <4>1
        <4>2. CASE q # r
          BY <3>6, <4>2
        <4> QED
          BY <4>1, <4>2
      <3> QED
        BY <3>5, <3>7
    <2> QED
      BY <2>1, <2>2 DEF TransactRead
  <1>4. /\ pending' = [pending EXCEPT ![r] = @ \ {t}]
        /\ UNCHANGED <<index, foreign, mode, up, begun, loads, synced, told, faults, restores>>
    BY DEF TransactRead
  <1>5. TypeOK'
    <2>1. [by |-> r, why |-> t.why, run |-> t.run, next |-> next] \in Window
      BY <1>t, <1>2 DEF Window, Task
    <2> QED
      BY <1>0, <1>1, <1>3, <1>4, <2>1 DEF TypeOK
  <1>6. Tasks' /\ Alive'
    BY <1>0, <1>1, <1>4 DEF Inv, Tasks, Alive, TypeOK
  <1>7. Owners(owned', begun', up')
    BY <1>0, <1>3, <1>4 DEF Owners
  <1>8. AllHonest'
    <2>1. Moved(owned, owned', begun)
      BY <1>3 DEF Moved
    <2>2. Honest(next, owned', begun')
      BY <1>2, <1>4, <2>1, HonestKept
    <2> QED
      BY <1>0, <1>1, <1>4, <2>1, <2>2, AllKept DEF Inv, TypeOK
  <1> QED
    BY <1>5, <1>6, <1>7, <1>8 DEF Inv

\* It lands, or throws before its rename.
LEMMA WriteStep ==
    ASSUME Inv, NEW p \in Procs, TransactWrite(p) \/ TransactFault(p)
    PROVE  Inv'
  <1>0. TypeOK /\ Owners(owned, begun, up) /\ Tasks
    BY DEF Inv
  <1>1. window[p] # Idle /\ window[p] \in Window /\ window[p].by \in Regs
    BY <1>0 DEF TransactWrite, TransactFault, TypeOK, Tasks
  <1>2. /\ window' = [window EXCEPT ![p] = Idle] /\ Idle \in Window
        /\ UNCHANGED <<owned, foreign, mode, up, begun, pending, restores>>
    BY DEF TransactWrite, TransactFault, Idle, Window, Index
  <1>3. /\ index' \in Index /\ Honest(index', owned, begun)
        /\ loads' \in [Regs -> SUBSET Index]
        /\ \A r \in Regs : \A b \in loads'[r] : b \in loads[r] \/ b = index'
    <2>1. CASE TransactWrite(p)
      <3>1. index' = window[p].next
        BY <2>1 DEF TransactWrite
      <3>2. index' \in Index /\ Honest(index', owned, begun)
        BY <1>1, <3>1 DEF Window, Inv, AllHonest
      <3>3. loads' = loads \/ loads' = [loads EXCEPT ![window[p].by] = @ \cup {index'}]
        BY <2>1 DEF TransactWrite
      <3> QED
        BY <1>0, <1>1, <3>2, <3>3 DEF TypeOK
    <2>2. CASE TransactFault(p)
      BY <1>0, <2>2 DEF TransactFault, TypeOK, Inv, AllHonest
    <2> QED
      BY <2>1, <2>2
  <1>4. synced' \subseteq Regs /\ told' \subseteq begun /\ faults' \in 0..MaxFaults
    BY <1>0, <1>1, LimitsAssumption DEF TransactWrite, TransactFault, TypeOK, Tasks
  <1>5. TypeOK'
    BY <1>0, <1>2, <1>3, <1>4 DEF TypeOK
  <1>6. Tasks' /\ Alive'
    BY <1>0, <1>2 DEF Inv, Tasks, Alive, TypeOK
  <1>7. Owners(owned', begun', up')
    BY <1>0, <1>2
  <1>8. AllHonest'
    <2>1. Honest(Idle.next, owned, begun)
      BY DEF Idle, Honest
    <2>2. \A q \in Procs : window'[q] = window[q] \/ window'[q] = Idle
      BY <1>0, <1>2 DEF TypeOK
    <2> QED
      BY <1>2, <1>3, <2>1, <2>2 DEF Inv, AllHonest
  <1> QED
    BY <1>5, <1>6, <1>7, <1>8 DEF Inv

\* A process dies: its registries own nothing any more.
LEMMA CrashStep ==
    ASSUME Inv, NEW p \in Procs, Crash(p)
    PROVE  Inv'
  <1> DEFINE empty == [x \in Runs |-> NoRow]
             mine == {r \in Regs : Proc[r] = p}
  <1>0. TypeOK /\ Owners(owned, begun, up) /\ Tasks
    BY DEF Inv
  <1>1. /\ up' = up \ {p}
        /\ mode' = [r \in Regs |-> IF r \in mine THEN "disposed" ELSE mode[r]]
        /\ owned' = [r \in Regs |-> IF r \in mine THEN empty ELSE owned[r]]
        /\ foreign' = [r \in Regs |-> IF r \in mine THEN empty ELSE foreign[r]]
        /\ loads' = [r \in Regs |-> IF r \in mine THEN {} ELSE loads[r]]
        /\ pending' = [r \in Regs |-> IF r \in mine THEN {} ELSE pending[r]]
        /\ synced' = synced \ mine /\ window' = [window EXCEPT ![p] = Idle]
        /\ UNCHANGED <<index, begun, told, faults, restores>>
    BY DEF Crash
  <1>2. empty \in Index /\ \A own, bg : Honest(empty, own, bg)
    BY DEF Index, Honest
  <1>3. Idle \in Window /\ Idle.next = empty
    BY DEF Idle, Window, Index
  <1>4. TypeOK'
    BY <1>0, <1>1, <1>2, <1>3 DEF TypeOK
  <1>5. Tasks'
    <2>1. \A q \in Procs : window'[q] = Idle \/ window'[q] = window[q]
      BY <1>0, <1>1 DEF TypeOK
    <2> QED
      BY <1>0, <1>1, <2>1 DEF Tasks
  <1>6. Alive'
    BY <1>1 DEF Inv, Alive
  <1>n. \A q \in Regs, y \in Runs : owned'[q][y] # NoRow =>
          q \notin mine /\ owned'[q][y] = owned[q][y]
    BY <1>1
  <1>7. Owners(owned', begun', up')
    BY <1>0, <1>1, <1>n DEF Owners
  <1>8. AllHonest'
    <2>1. Moved(owned, owned', begun)
      BY <1>n DEF Moved
    <2>2. \A b : Honest(b, owned, begun) => Honest(b, owned', begun')
      BY <1>1, <2>1, HonestKept
    <2>3. \A q \in Procs : window'[q] = Idle \/ window'[q] = window[q]
      BY <1>0, <1>1 DEF TypeOK
    <2> QED
      BY <1>1, <1>2, <1>3, <2>2, <2>3 DEF Inv, AllHonest
  <1> QED
    BY <1>4, <1>5, <1>6, <1>7, <1>8 DEF Inv

LEMMA InvStep == Inv /\ [Next]_vars => Inv'
  <1> SUFFICES ASSUME Inv, [Next]_vars PROVE Inv'
    OBVIOUS
  <1>1. CASE UNCHANGED vars
    <2>1. TypeOK' /\ Alive'
      BY <1>1 DEF vars, Inv, TypeOK, Alive
    <2> QED
      BY <1>1, <2>1, QuietKeeps DEF vars, Quiet
  <1>2. CASE Next
    BY <1>2, EasySteps, LoadStep, BeginStep, EndStep, ReadStep, WriteStep, CrashStep DEF Next
  <1> QED
    BY <1>1, <1>2

\* Every reachable state keeps the invariant, whichever backend.
THEOREM Invariance == Spec => []Inv
  BY InitInv, InvStep, PTL DEF Spec

\* Every variable holds values of its kind.
THEOREM TypeCorrect == Spec => []TypeOK
  <1>1. Inv => TypeOK
    BY DEF Inv
  <1> QED
    BY <1>1, Invariance, PTL

\* The index never holds a verdict on a living registry's run that its owner
\* did not reach, even where transactions of two processes overlap.
THEOREM NobodyFabricates == Spec => []NoFabricatedVerdict
  <1>1. Inv => NoFabricatedVerdict
    <2> SUFFICES ASSUME Inv, NEW r \in Regs, NEW x \in Runs, Owns(r, x), Terminal(index[x])
                 PROVE  index[x].state = owned[r][x].state /\ ~index[x].orphan
      BY DEF NoFabricatedVerdict
    <2>1. index[x] # NoRow /\ ~Running(index[x])
      BY DEF Terminal, Running, NoRow, Outcomes
    <2> QED
      BY <2>1 DEF Inv, AllHonest, Honest, Owns
  <1> QED
    BY <1>1, Invariance, PTL
------------------------------------------------------------------------------
(* Transactions one at a time: on a backend that excludes every process, or *)
(* with a single process on the one that does not.                         *)

OneAtATime == CrossProcess \/ \A q, r \in Regs : Proc[q] = Proc[r]

Open(p) == window[p] # Idle

\* A transaction runs in its registry's process, and no other beside it; a
\* begin waits, or is written, at the registry that owns the run.
Turns ==
    /\ \A p \in Procs : Open(p) => window[p].by \in Regs /\ Proc[window[p].by] = p
    /\ \A p, q \in Procs : Open(p) /\ Open(q) => p = q
    /\ \A r, q \in Regs : \A t \in pending[r] :
         t.why = "begin" /\ owned[q][t.run] # NoRow => q = r

\* Every run that is told of and still runs has its row in the body.
Shows(b, own, heard) ==
    \A r \in Regs, x \in Runs : Running(own[r][x]) /\ x \in heard => b[x] # NoRow

\* What a terminal answer may become.
Final(old, new) == \A x \in Runs :
    (Terminal(old[x]) /\ new[x] # NoRow) =>
        \/ new[x].state = old[x].state
        \/ old[x].state = "failed" /\ old[x].orphan /\ new[x].state = "succeeded"

\* The body under way keeps the rows of the file it was computed from, and a
\* begin's has the row of its run.
Due(b, w) == \A r \in Regs :
    w.why = "begin" /\ Running(owned[r][w.run]) => b[w.run] # NoRow
Kept ==
    /\ Shows(index, owned, told)
    /\ \A p \in Procs : Open(p) =>
         /\ Shows(window[p].next, owned, told) /\ Final(index, window[p].next)
         /\ Due(window[p].next, window[p])

Serial == Inv /\ Turns /\ Kept

LEMMA RunningRow == \A row : Running(row) => row # NoRow /\ ~Terminal(row)
  BY DEF Running, Terminal, NoRow, Outcomes

\* A row that runs at its living owner runs in every body that knows it.
LEMMA RunsWhereKnown ==
    ASSUME Inv, NEW r \in Regs, NEW x \in Runs, Running(owned[r][x]),
           NEW b, Honest(b, owned, begun), b[x] # NoRow
    PROVE  Running(b[x]) /\ ~OwnerIsGone(b[x]) /\ ~b[x].orphan
  <1>1. owned[r][x] # NoRow /\ Owners(owned, begun, up)
    BY RunningRow DEF Inv
  <1>2. b[x].pid = Proc[r] /\ ~b[x].orphan /\ Proc[r] \in up
    BY <1>1 DEF Honest, Owners
  <1>3. Running(b[x])
    BY <1>1 DEF Honest, Running
  <1> QED
    BY <1>2, <1>3 DEF OwnerIsGone

\* The cap keeps what runs.
LEMMA CapKeepsRunning ==
    ASSUME NEW rows \in Index, NEW next \in Capped(rows), NEW x \in Runs, Running(rows[x])
    PROVE  next[x] = rows[x]
  BY RunningRow DEF Capped

\* The row of a run that runs at its owner is in what the owner's persist
\* writes, and in every other persist that found it in the file.
LEMMA PersistShows ==
    ASSUME Inv, NEW q \in Regs, NEW r \in Regs, NEW x \in Runs, Running(owned[r][x]),
           q = r \/ index[x] # NoRow
    PROVE  Running(Persisted(q)[x])
  <1>0. /\ Owners(owned, begun, up) /\ owned[r][x] # NoRow
        /\ Honest(index, owned, begun) /\ Honest(foreign[q], owned, begun)
    BY RunningRow DEF Inv, AllHonest
  <1>1. Running(Laid(q)[x]) /\ ~(Running(Laid(q)[x]) /\ ~Owns(q, x) /\ OwnerIsGone(Laid(q)[x]))
    <2>1. CASE q = r
      BY <1>0, <2>1 DEF Laid, Owns
    <2>2. CASE q # r
      <3>1. Laid(q)[x] = index[x]
        BY <1>0, <2>2 DEF Laid, Owns, Owners
      <3> QED
        BY <1>0, <2>2, <3>1, RunsWhereKnown
    <2> QED
      BY <2>1, <2>2
  <1>2. ~Terminal(foreign[q][x])
    <2>1. CASE foreign[q][x] = NoRow
      BY <2>1 DEF Terminal, NoRow, Outcomes
    <2>2. CASE foreign[q][x] # NoRow
      BY <1>0, <2>2, RunsWhereKnown, RunningRow
    <2> QED
      BY <2>1, <2>2
  <1>3. Repaired(q, Laid(q))[x] = Laid(q)[x]
    BY <1>2 DEF Repaired
  <1>4. Persisted(q)[x] = Laid(q)[x]
    BY <1>1, <1>3 DEF Persisted, Judged
  <1> QED
    BY <1>1, <1>4

\* A persist leaves a terminal answer of the file as it is.
LEMMA PersistFinal ==
    ASSUME Inv, NEW r \in Regs, NEW x \in Runs, Terminal(index[x])
    PROVE  Persisted(r)[x].state = index[x].state
  <1>0. Honest(index, owned, begun) /\ index[x] # NoRow /\ ~Running(index[x])
    BY DEF Inv, AllHonest, Terminal, Running, NoRow, Outcomes
  <1>1. Laid(r)[x].state = index[x].state
    BY <1>0 DEF Laid, Owns, Honest
  <1>2. ~Running(Laid(r)[x])
    BY <1>0, <1>1 DEF Running
  <1>3. Repaired(r, Laid(r))[x] = Laid(r)[x]
    BY <1>2 DEF Repaired
  <1>4. Persisted(r)[x] = Laid(r)[x]
    BY <1>2, <1>3 DEF Persisted, Judged
  <1> QED
    BY <1>1, <1>4

LEMMA MarkFacts ==
    ASSUME NEW row \in Row \cup {NoRow}, NEW x \in Runs
    PROVE  /\ Mark(row, "merge", x) = NoRow <=> row = NoRow
           /\ Mark(row, "merge", x).state = row.state
  BY DEF Mark, Row, NoRow, States, Outcomes

\* Every body a transaction may write shows the runs told of, leaves terminal
\* answers, and has the row of the run whose begin it is.
LEMMA BodiesKeep ==
    ASSUME Serial, NEW r \in Regs, NEW t \in pending[r], NEW next \in Bodies(r, t),
           t.why = "recover" => Recoverable(t.run)
    PROVE  Shows(next, owned, told) /\ Final(index, next) /\ Due(next, t)
  <1>0. /\ TypeOK /\ Tasks /\ Owners(owned, begun, up) /\ Inv
        /\ index \in Index /\ Honest(index, owned, begun)
    BY DEF Serial, Inv, TypeOK, AllHonest
  <1>k. ASSUME NEW q \in Regs, NEW x \in Runs, Running(owned[q][x]), x \in told
        PROVE  index[x] # NoRow /\ Running(index[x]) /\ ~OwnerIsGone(index[x]) /\ ~index[x].orphan
    BY <1>0, <1>k, RunsWhereKnown DEF Serial, Kept, Shows
  <1>1. CASE t.why = "recover"
    <2>1. t.run \in Runs /\ Recoverable(t.run)
      BY <1>0, <1>1 DEF Tasks
    <2>2. Recovered(t.run) \in Index /\ next \in Capped(Recovered(t.run))
      BY <1>0, <1>1, <2>1, RecoverHonest DEF Bodies
    <2>3. \A x \in Runs : x # t.run => Recovered(t.run)[x] = index[x]
      BY <1>0 DEF Recovered, Index
    <2>4. Recovered(t.run)[t.run].state = "succeeded"
      <3>1. index[t.run] \in Row
        BY <1>0, <2>1 DEF Recoverable, Running, NoRow, Index
      <3> QED
        BY <1>0, <2>1, <3>1 DEF Recovered, Index, Row
    <2>5. Shows(next, owned, told)
      <3> SUFFICES ASSUME NEW q \in Regs, NEW x \in Runs, Running(owned[q][x]), x \in told
                   PROVE  next[x] # NoRow
        BY DEF Shows
      <3>1. x # t.run
        BY <1>k, <2>1 DEF Recoverable, Running
      <3> QED
        BY <1>k, <2>2, <2>3, <3>1, CapKeepsRunning, RunningRow
    <2>6. Final(index, next)
      <3> SUFFICES ASSUME NEW x \in Runs, Terminal(index[x]), next[x] # NoRow
                   PROVE  \/ next[x].state = index[x].state
                          \/ index[x].state = "failed" /\ index[x].orphan /\ next[x].state = "succeeded"
        BY DEF Final
      <3>1. next[x] = Recovered(t.run)[x]
        BY <2>2, CappedFacts
      <3>2. CASE x = t.run
        BY <2>1, <2>4, <3>1, <3>2, RunningRow DEF Recoverable
      <3>3. CASE x # t.run
        BY <2>3, <3>1, <3>3
      <3> QED
        BY <3>2, <3>3
    <2> QED
      BY <1>1, <2>5, <2>6 DEF Due
  <1>2. CASE t.why = "supersede"
    <2>1. Superseded(r, "merge") \in Index /\ next \in Capped(Superseded(r, "merge"))
      BY <1>0, <1>2, SupersedeHonest DEF Bodies
    <2>2. \A x \in Runs : Laid(r)[x] \in Row \cup {NoRow}
      BY <1>0 DEF Laid, TypeOK, Index
    <2>3. \A x \in Runs : Superseded(r, "merge")[x].state = Laid(r)[x].state
      BY <2>2, MarkFacts DEF Superseded
    <2>4. ASSUME NEW q \in Regs, NEW x \in Runs, Running(owned[q][x]), x \in told
          PROVE  next[x] # NoRow
      <3>1. Running(Laid(r)[x])
        <4>1. owned[q][x] # NoRow /\ Running(index[x])
          BY <1>k, <2>4, RunningRow
        <4>2. CASE owned[r][x] = NoRow
          BY <4>1, <4>2 DEF Laid, Owns
        <4>3. CASE owned[r][x] # NoRow
          <5>1. q = r
            BY <1>0, <4>1, <4>3 DEF Owners
          <5> QED
            BY <2>4, <4>3, <5>1 DEF Laid, Owns
        <4> QED
          BY <4>2, <4>3
      <3>2. Running(Superseded(r, "merge")[x])
        BY <2>3, <3>1 DEF Running
      <3> QED
        BY <2>1, <3>2, CapKeepsRunning, RunningRow
    <2>5. ASSUME NEW x \in Runs, Terminal(index[x]), next[x] # NoRow
          PROVE  next[x].state = index[x].state
      <3>1. index[x] # NoRow /\ ~Running(index[x])
        BY <2>5, RunningRow DEF Terminal, NoRow, Outcomes
      <3>2. Laid(r)[x].state = index[x].state
        BY <1>0, <3>1 DEF Laid, Owns, Honest
      <3> QED
        BY <2>1, <2>3, <2>5, <3>2, CappedFacts
    <2> QED
      BY <1>2, <2>4, <2>5 DEF Shows, Final, Due
  <1>3. CASE t.why \notin {"recover", "supersede"}
    <2>1. Persisted(r) \in Index /\ next \in Capped(Persisted(r))
      BY <1>0, <1>3, PersistHonest DEF Bodies
    <2>2. Shows(next, owned, told)
      BY <1>0, <1>k, <2>1, PersistShows, CapKeepsRunning, RunningRow DEF Shows
    <2>3. Final(index, next)
      <3> SUFFICES ASSUME NEW x \in Runs, Terminal(index[x]), next[x] # NoRow
                   PROVE  next[x].state = index[x].state
        BY DEF Final
      <3> QED
        BY <1>0, <2>1, PersistFinal, CappedFacts
    <2>4. Due(next, t)
      <3> SUFFICES ASSUME NEW q \in Regs, t.why = "begin", Running(owned[q][t.run])
                   PROVE  next[t.run] # NoRow
        BY DEF Due
      <3>1. q = r /\ t.run \in Runs
        BY <1>0, RunningRow DEF Serial, Turns, Tasks, TypeOK
      <3> QED
        BY <1>0, <2>1, <3>1, PersistShows, CapKeepsRunning, RunningRow
    <2> QED
      BY <2>2, <2>3, <2>4
  <1> QED
    BY <1>1, <1>2, <1>3

LEMMA InitSerial == Init => Serial
  BY InitInv DEF Init, Serial, Turns, Kept, Open, Shows

\* A step that leaves the file, the rows' beginnings and the windows alone.
LEMMA SerialKept ==
    ASSUME Serial, Inv', UNCHANGED <<index, window, told>>,
           \A r \in Regs, x \in Runs : owned'[r][x] # NoRow => owned[r][x] # NoRow,
           \A r \in Regs, x \in Runs : Running(owned'[r][x]) => Running(owned[r][x]),
           \A r \in Regs : \A t \in pending'[r] : t \in pending[r] \/ t.why # "begin"
    PROVE  Serial'
  <1>0. TypeOK /\ Tasks /\ Tasks'
    BY DEF Serial, Inv
  <1>1. Turns'
    <2>1. \A r \in Regs : \A t \in pending'[r] : t.why = "begin" => t.run \in Runs
      BY <1>0 DEF Serial, Inv, Tasks, TypeOK
    <2> QED
      BY <2>1 DEF Serial, Turns, Open
  <1>2. \A p \in Procs : Open(p) /\ window[p].why = "begin" => window[p].run \in Runs
    BY <1>0 DEF Tasks, TypeOK, Open
  <1>3. \A b : Shows(b, owned, told) => Shows(b, owned', told')
    BY DEF Shows
  <1>4. \A p \in Procs : Open(p) /\ Due(window[p].next, window[p])
            => Due(window[p].next, window[p])'
    BY <1>2 DEF Due
  <1>5. Kept'
    BY <1>3, <1>4 DEF Serial, Kept, Open
  <1> QED
    BY <1>1, <1>5 DEF Serial

\* An end takes a run from running to an end, and touches no other row.
LEMMA EndRows ==
    ASSUME TypeOK, NEW r \in Regs,
           Dispose(r) \/ \E x \in Runs, outcome \in Results : Settle(r, x, outcome)
    PROVE  \A q \in Regs, y \in Runs :
             \/ owned'[q][y] = owned[q][y]
             \/ Running(owned[q][y]) /\ ~Running(owned'[q][y]) /\ owned'[q][y] # NoRow
  <1>1. CASE Dispose(r)
    <2>1. \A y \in Runs : Running(owned[r][y]) => owned[r][y] \in Row
      BY DEF TypeOK, Index, Running, NoRow
    <2>2. \A row \in Row : ~Running([row EXCEPT !.state = "cancelled"])
                             /\ [row EXCEPT !.state = "cancelled"] # NoRow
      BY DEF Row, Running, NoRow
    <2>3. owned' = [owned EXCEPT ![r] = [y \in Runs |->
              IF y \in {z \in Runs : Running(owned[r][z])}
              THEN [owned[r][y] EXCEPT !.state = "cancelled"] ELSE owned[r][y]]]
      BY <1>1 DEF Dispose, TypeOK, Index
    <2> QED
      BY <2>1, <2>2, <2>3 DEF TypeOK, Index
  <1>2. ASSUME NEW x \in Runs, NEW outcome \in Results, Settle(r, x, outcome)
        PROVE  \A q \in Regs, y \in Runs :
             \/ owned'[q][y] = owned[q][y]
             \/ Running(owned[q][y]) /\ ~Running(owned'[q][y]) /\ owned'[q][y] # NoRow
    <2>1. owned[r][x] \in Row /\ Running(owned[r][x])
      BY <1>2 DEF Settle, TypeOK, Index, Running, NoRow
    <2>2. ~Running([owned[r][x] EXCEPT !.state = outcome])
            /\ [owned[r][x] EXCEPT !.state = outcome] # NoRow
      BY <2>1, LimitsAssumption DEF Row, Running, Outcomes, NoRow
    <2>3. owned' = [owned EXCEPT ![r] = [owned[r] EXCEPT ![x] = [owned[r][x] EXCEPT !.state = outcome]]]
      BY <1>2 DEF Settle, TypeOK, Index
    <2> QED
      BY <2>1, <2>2, <2>3 DEF TypeOK, Index
  <1> QED
    BY <1>1, <1>2

LEMMA SerialEasy ==
    ASSUME Serial, Inv', NEW r \in Regs,
           \/ Mount(r) \/ LoadRead(r) \/ SupersedeKind(r) \/ Dispose(r)
           \/ \E raw \in loads[r] : LoadApply(r, raw)
           \/ \E x \in Runs : Stage(r, x) \/ SettleRecovered(r, x)
           \/ \E x \in Runs, outcome \in Results : Settle(r, x, outcome)
           \/ \E t \in pending[r] : RecoverRefused(r, t)
    PROVE  Serial'
  <1>0. TypeOK
    BY DEF Serial, Inv
  <1>1. UNCHANGED <<index, window, told>>
    BY DEF Mount, LoadRead, SupersedeKind, Dispose, LoadApply, Stage, SettleRecovered, Settle, RecoverRefused
  <1>2. \A q \in Regs : \A t \in pending'[q] : t \in pending[q] \/ t.why # "begin"
    BY <1>0 DEF Mount, LoadRead, SupersedeKind, Dispose, LoadApply, Stage, SettleRecovered, Settle,
       RecoverRefused, Enqueue, TypeOK
  <1>3. \A q \in Regs, y \in Runs :
           owned'[q][y] = owned[q][y] \/ (Running(owned[q][y]) /\ ~Running(owned'[q][y]))
    <2>1. Dispose(r) \/ owned' = owned \/ \E x \in Runs, outcome \in Results : Settle(r, x, outcome)
      BY DEF Mount, LoadRead, SupersedeKind, LoadApply, Stage, SettleRecovered, RecoverRefused
    <2> QED
      BY <1>0, <2>1, EndRows
  <1> QED
    BY <1>1, <1>2, <1>3, RunningRow, SerialKept

LEMMA SerialBegin ==
    ASSUME Serial, Inv', NEW r \in Regs, NEW x \in Runs, BeginScan(r, x) \/ BeginMerge(r, x)
    PROVE  Serial'
  <1> DEFINE row == [state |-> "running", pid |-> Proc[r], orphan |-> FALSE, superseded |-> FALSE]
             task == [why |-> "begin", run |-> x]
  <1>0. TypeOK /\ Tasks /\ Owners(owned, begun, up)
    BY DEF Serial, Inv
  <1>1. /\ x \notin begun /\ owned' = [owned EXCEPT ![r][x] = row]
        /\ pending' = [pending EXCEPT ![r] = @ \cup {task}]
        /\ UNCHANGED <<index, window, told>>
    BY DEF BeginScan, BeginMerge, Register, Enqueue
  <1>2. task.why = "begin" /\ task.run = x
    OBVIOUS
  <1> HIDE DEF row, task
  <1>3. \A q \in Regs, y \in Runs : owned'[q][y] = IF q = r /\ y = x THEN row ELSE owned[q][y]
    BY <1>0, <1>1 DEF TypeOK, Index
  <1>4. Turns'
    <2>1. ASSUME NEW s \in Regs, NEW q \in Regs, NEW t \in pending'[s],
                 t.why = "begin", owned'[q][t.run] # NoRow
          PROVE  q = s
      <3>1. CASE t \in pending[s]
        <4>1. t.run \in begun /\ t.run \in Runs
          BY <1>0, <2>1, <3>1 DEF Tasks, TypeOK
        <4> QED
          BY <1>1, <1>3, <2>1, <3>1, <4>1 DEF Serial, Turns
      <3>2. CASE t \notin pending[s]
        <4>1. s = r /\ t = task
          BY <1>0, <1>1, <3>2 DEF TypeOK
        <4>2. \A p \in Regs : owned[p][x] = NoRow
          BY <1>0, <1>1 DEF Owners
        <4> QED
          BY <1>2, <1>3, <2>1, <4>1, <4>2
      <3> QED
        BY <3>1, <3>2
    <2> QED
      BY <1>1, <2>1 DEF Serial, Turns, Open
  <1>5. \A b : Shows(b, owned, told) => Shows(b, owned', told')
    <2>1. x \notin told
      BY <1>0, <1>1 DEF TypeOK
    <2> QED
      BY <1>1, <1>3, <2>1 DEF Shows
  <1>6. ASSUME NEW p \in Procs, Open(p), Due(window[p].next, window[p])
        PROVE  Due(window[p].next, window[p])'
    <2>1. window[p].why = "begin" => window[p].run \in Runs /\ window[p].run # x
      BY <1>0, <1>1, <1>6 DEF Tasks, TypeOK, Open
    <2> QED
      BY <1>1, <1>3, <1>6, <2>1 DEF Due
  <1>7. Kept'
    BY <1>1, <1>5, <1>6 DEF Serial, Kept, Open
  <1> QED
    BY <1>4, <1>7 DEF Serial

\* MarkOwned leaves who owns what, and what runs.
LEMMA MarkedStates ==
    ASSUME TypeOK, NEW r \in Regs, NEW t \in pending[r], TransactRead(r, t),
           NEW q \in Regs, NEW x \in Runs
    PROVE  /\ owned'[q][x] # NoRow => owned[q][x] # NoRow
           /\ owned'[q][x].state = owned[q][x].state
  <1>1. CASE owned' = owned
    BY <1>1
  <1>2. CASE owned' = MarkOwned(r)
    <2>1. owned'[q][x] = IF q = r THEN Mark(owned[r][x], "merge", x) ELSE owned[q][x]
      BY <1>2 DEF MarkOwned, TypeOK
    <2>2. owned[q][x] \in Row \cup {NoRow}
      BY DEF TypeOK, Index
    <2>3. Mark(owned[q][x], "merge", x).state = owned[q][x].state
          /\ (Mark(owned[q][x], "merge", x) = NoRow <=> owned[q][x] = NoRow)
      BY <2>2, MarkFacts
    <2> QED
      BY <2>1, <2>3
  <1> QED
    BY <1>1, <1>2 DEF TransactRead

LEMMA SerialRead ==
    ASSUME OneAtATime, Serial, Inv', NEW r \in Regs, NEW t \in pending[r], TransactRead(r, t)
    PROVE  Serial'
  <1>0. TypeOK /\ Tasks /\ Proc[r] \in Procs
    BY PlanesAssumption DEF Serial, Inv
  <1>1. PICK next \in Bodies(r, t) :
          window' = [window EXCEPT ![Proc[r]] =
              [by |-> r, why |-> t.why, run |-> t.run, next |-> next]]
    BY DEF TransactRead
  <1> DEFINE w == [by |-> r, why |-> t.why, run |-> t.run, next |-> next]
  <1>w. w.by = r /\ w.why = t.why /\ w.run = t.run /\ w.next = next /\ w # Idle
    <2>1. r # NoProc \/ w.why # "none"
      BY <1>0 DEF TypeOK, Task
    <2>2. t.why # "none"
      BY <1>0 DEF TypeOK, Task
    <2> QED
      BY <2>2 DEF Idle
  <1> HIDE DEF w
  <1>2. Shows(next, owned, told) /\ Final(index, next) /\ Due(next, t)
    BY <1>1, BodiesKeep DEF TransactRead
  <1>3. \A q \in Procs : window[q] = Idle
    <2>1. CASE CrossProcess
      BY <2>1 DEF TransactRead, Exclusive
    <2>2. CASE ~CrossProcess
      <3>1. ASSUME NEW q \in Procs, window[q] # Idle PROVE FALSE
        <4>1. window[q].by \in Regs /\ Proc[window[q].by] = q
          BY <3>1 DEF Serial, Turns, Open
        <4>2. q = Proc[r]
          BY <2>2, <4>1 DEF OneAtATime
        <4> QED
          BY <3>1, <4>2 DEF TransactRead, Exclusive
      <3> QED
        BY <3>1
    <2> QED
      BY <2>1, <2>2
  <1>4. \A q \in Procs : window'[q] = IF q = Proc[r] THEN w ELSE Idle
    BY <1>0, <1>1, <1>3 DEF TypeOK, w
  <1>5. /\ pending' = [pending EXCEPT ![r] = @ \ {t}]
        /\ UNCHANGED <<index, told>>
    BY DEF TransactRead
  <1>6. \A q \in Regs, x \in Runs : (owned'[q][x] # NoRow => owned[q][x] # NoRow)
              /\ (Running(owned'[q][x]) => Running(owned[q][x]))
    BY <1>0, MarkedStates DEF Running
  <1>7. Turns'
    <2>1. \A q \in Regs : pending'[q] \subseteq pending[q]
      BY <1>0, <1>5 DEF TypeOK
    <2>2. \A q \in Regs : \A s \in pending'[q] : s.why = "begin" => s.run \in Runs
      BY <1>0, <2>1 DEF Tasks, TypeOK
    <2>3. \A s \in Regs, q \in Regs : \A u \in pending'[s] :
             u.why = "begin" /\ owned'[q][u.run] # NoRow => q = s
      BY <1>6, <2>1, <2>2 DEF Serial, Turns
    <2> QED
      BY <1>0, <1>4, <1>w, <2>3 DEF Turns, Open
  <1>8. \A b : Shows(b, owned, told) => Shows(b, owned', told')
    BY <1>5, <1>6 DEF Shows
  <1>9. Due(next, w)'
    <2>1. t.why = "begin" => t.run \in Runs
      BY <1>0 DEF Tasks, TypeOK
    <2> QED
      BY <1>2, <1>6, <1>w, <2>1 DEF Due
  <1>10. Kept'
    <2>1. Shows(index, owned, told)'
      BY <1>5, <1>8 DEF Serial, Kept
    <2>2. ASSUME NEW q \in Procs, Open(q)'
          PROVE  (Shows(window[q].next, owned, told) /\ Final(index, window[q].next)
                 /\ Due(window[q].next, window[q]))'
      <3>1. window'[q] = w
        BY <1>4, <2>2 DEF Open
      <3>2. Shows(w.next, owned', told') /\ Final(index', w.next)
        BY <1>2, <1>5, <1>8, <1>w
      <3>3. Due(window[q].next, window[q])'
        BY <1>9, <1>w, <3>1 DEF Due
      <3> QED
        BY <3>1, <3>2, <3>3
    <2> QED
      BY <2>1, <2>2 DEF Kept
  <1> QED
    BY <1>7, <1>10 DEF Serial

LEMMA SerialWrite ==
    ASSUME Serial, Inv', NEW p \in Procs, TransactWrite(p) \/ TransactFault(p)
    PROVE  Serial'
  <1>0. TypeOK /\ Tasks
    BY DEF Serial, Inv
  <1>1. /\ Open(p) /\ window' = [window EXCEPT ![p] = Idle]
        /\ UNCHANGED <<owned, pending>>
    BY DEF TransactWrite, TransactFault, Open
  <1>2. \A q \in Procs : window'[q] = Idle
    BY <1>0, <1>1 DEF Serial, Turns, Open, TypeOK
  <1>3. Turns'
    BY <1>1, <1>2 DEF Serial, Turns, Open
  <1>4. Shows(index', owned', told')
    <2>1. CASE TransactFault(p)
      BY <2>1 DEF TransactFault, Serial, Kept
    <2>2. CASE TransactWrite(p)
      <3>1. index' = window[p].next
            /\ (told' = told \/ (window[p].why = "begin" /\ told' = told \cup {window[p].run}))
        BY <2>2 DEF TransactWrite
      <3>2. Shows(window[p].next, owned, told) /\ Due(window[p].next, window[p])
        BY <1>1 DEF Serial, Kept
      <3> QED
        BY <1>1, <3>1, <3>2 DEF Shows, Due
    <2> QED
      BY <2>1, <2>2
  <1>5. Kept'
    BY <1>2, <1>4 DEF Kept, Open
  <1> QED
    BY <1>3, <1>5 DEF Serial

LEMMA SerialCrash ==
    ASSUME Serial, Inv', NEW p \in Procs, Crash(p)
    PROVE  Serial'
  <1>0. TypeOK /\ Tasks
    BY DEF Serial, Inv
  <1>1. /\ \A q \in Procs : window'[q] = Idle \/ window'[q] = window[q]
        /\ \A r \in Regs : pending'[r] = {} \/ pending'[r] = pending[r]
        /\ UNCHANGED <<index, told>>
    BY <1>0 DEF Crash, TypeOK
  <1>2. \A r \in Regs, x \in Runs : owned'[r][x] = NoRow \/ owned'[r][x] = owned[r][x]
    BY DEF Crash
  <1>3. Turns'
    <2>1. \A s \in Regs : \A t \in pending'[s] :
            t \in pending[s] /\ (t.why = "begin" => t.run \in Runs)
      BY <1>0, <1>1 DEF Tasks, TypeOK
    <2> QED
      BY <1>1, <1>2, <2>1 DEF Serial, Turns, Open
  <1>4. \A b : Shows(b, owned, told) => Shows(b, owned', told')
    BY <1>1, <1>2, RunningRow DEF Shows
  <1>5. ASSUME NEW q \in Procs, window'[q] = window[q], Open(q), Due(window[q].next, window[q])
        PROVE  Due(window[q].next, window[q])'
    <2>1. window[q].why = "begin" => window[q].run \in Runs
      BY <1>0, <1>5 DEF Tasks, TypeOK, Open
    <2> QED
      BY <1>2, <1>5, <2>1, RunningRow DEF Due
  <1>6. Kept'
    <2>1. Shows(index, owned, told)'
      BY <1>1, <1>4 DEF Serial, Kept
    <2>2. ASSUME NEW q \in Procs, Open(q)'
          PROVE  (Shows(window[q].next, owned, told) /\ Final(index, window[q].next)
                 /\ Due(window[q].next, window[q]))'
      <3>1. window'[q] = window[q] /\ Open(q)
        BY <1>1, <2>2 DEF Open
      <3>2. Shows(window[q].next, owned, told) /\ Final(index, window[q].next)
            /\ Due(window[q].next, window[q])
        BY <3>1 DEF Serial, Kept
      <3> QED
        BY <1>1, <1>4, <1>5, <3>1, <3>2
    <2> QED
      BY <2>1, <2>2 DEF Kept
  <1> QED
    BY <1>3, <1>6 DEF Serial

LEMMA SerialStep == OneAtATime /\ Serial /\ [Next]_vars => Serial'
  <1> SUFFICES ASSUME OneAtATime, Serial, [Next]_vars PROVE Serial'
    OBVIOUS
  <1>0. Inv'
    BY InvStep DEF Serial
  <1>1. CASE UNCHANGED vars
    BY <1>0, <1>1, SerialKept DEF vars
  <1>2. CASE Next
    BY <1>0, <1>2, SerialEasy, SerialBegin, SerialRead, SerialWrite, SerialCrash DEF Next
  <1> QED
    BY <1>1, <1>2

\* Where transactions run one at a time, the row of a run that was answered as
\* started stays in the index as long as the run goes on.
THEOREM StartedStays ==
    ASSUME OneAtATime
    PROVE  Spec => []StartedIsVisible
  <1>1. Serial => StartedIsVisible
    BY DEF Serial, Kept, Shows, StartedIsVisible
  <1> QED
    BY <1>1, InitSerial, SerialStep, OneAtATime, PTL DEF Spec

\* There a terminal answer of the index is final, but for an orphan verdict
\* that the recovery of its merge upgrades.
THEOREM VerdictStands ==
    ASSUME OneAtATime
    PROVE  Spec => VerdictIsFinal
  <1>1. Serial /\ [Next]_vars => [Final(index, index')]_vars
    <2> SUFFICES ASSUME Serial, [Next]_vars PROVE Final(index, index')
      OBVIOUS
    <2>1. index' = index \/ \E p \in Procs : TransactWrite(p)
      BY DEF vars, Next, Mount, Dispose, LoadRead, SupersedeKind, LoadApply, BeginScan, BeginMerge,
         Stage, SettleRecovered, Settle, TransactRead, RecoverRefused, TransactFault, Crash
    <2>2. ASSUME NEW p \in Procs, TransactWrite(p) PROVE Final(index, index')
      BY <2>2 DEF TransactWrite, Serial, Kept, Open
    <2> QED
      BY <2>1, <2>2 DEF Final
  <1>2. VerdictIsFinal <=> [][Final(index, index')]_vars
    BY DEF VerdictIsFinal, Final
  <1> QED
    BY <1>1, <1>2, InitSerial, SerialStep, OneAtATime, PTL DEF Spec

\* A step may drop an owner's row only with the whole registry, and takes no
\* owned run back to running.
LEMMA OwnRows ==
    ASSUME Inv, Next, NEW r \in Regs, NEW x \in begun
    PROVE  /\ owned'[r][x] # NoRow =>
                owned[r][x] # NoRow /\ (Running(owned'[r][x]) => Running(owned[r][x]))
           /\ owned'[r][x] = NoRow =>
                owned[r][x] = NoRow \/ (foreign'[r][x] = NoRow /\ Proc[r] \notin up')
  <1>0. TypeOK /\ x \in Runs
    BY DEF Inv, TypeOK
  <1>1. CASE owned' = owned
    BY <1>1
  <1>2. ASSUME NEW q \in Regs, NEW y \in Runs, BeginScan(q, y) \/ BeginMerge(q, y)
        PROVE  owned'[r][x] = owned[r][x]
    <2>1. y \notin begun
      BY <1>2 DEF BeginScan, BeginMerge, Register
    <2>2. x # y
      BY <2>1
    <2>3. owned' = [owned EXCEPT ![q] = [owned[q] EXCEPT ![y] =
              [state |-> "running", pid |-> Proc[q], orphan |-> FALSE, superseded |-> FALSE]]]
      BY <1>0, <1>2 DEF BeginScan, BeginMerge, Register, TypeOK, Index
    <2> QED
      BY <1>0, <2>2, <2>3 DEF TypeOK, Index
  <1>3. ASSUME NEW q \in Regs,
               Dispose(q) \/ \E y \in Runs, outcome \in Results : Settle(q, y, outcome)
        PROVE  owned'[r][x] = owned[r][x] \/ (Running(owned[r][x]) /\ ~Running(owned'[r][x]))
    BY <1>0, <1>3, EndRows
  <1>4. ASSUME NEW q \in Regs, NEW t \in pending[q], TransactRead(q, t)
        PROVE  /\ owned'[r][x] # NoRow => owned[r][x] # NoRow
               /\ owned'[r][x].state = owned[r][x].state
    BY <1>0, <1>4, MarkedStates
  <1>4a. ASSUME NEW q \in Regs, NEW t \in pending[q], TransactRead(q, t), owned'[r][x] = NoRow
         PROVE  owned[r][x] = NoRow
    <2>1. owned[r][x].state = "absent"
      BY <1>4, <1>4a DEF NoRow
    <2>2. owned[r][x] \in Row \cup {NoRow}
      BY <1>0 DEF TypeOK, Index
    <2> QED
      BY <2>1, <2>2, RowFacts
  <1>5. ASSUME NEW p \in Procs, Crash(p)
        PROVE  \/ owned'[r][x] = owned[r][x]
               \/ owned'[r][x] = NoRow /\ foreign'[r][x] = NoRow /\ Proc[r] \notin up'
    BY <1>0, <1>5 DEF Crash
  <1>6. CASE \E q \in Regs, y \in Runs : BeginScan(q, y) \/ BeginMerge(q, y)
    BY <1>2, <1>6
  <1>7. CASE \E q \in Regs :
               Dispose(q) \/ \E y \in Runs, outcome \in Results : Settle(q, y, outcome)
    <2>1. owned'[r][x] = owned[r][x] \/ (Running(owned[r][x]) /\ ~Running(owned'[r][x]))
      BY <1>3, <1>7
    <2>2. owned'[r][x] = NoRow => owned[r][x] = NoRow
      BY <1>0, <1>7, EndRows
    <2> QED
      BY <2>1, <2>2, RunningRow
  <1>8. CASE \E q \in Regs : \E t \in pending[q] : TransactRead(q, t)
    BY <1>4, <1>4a, <1>8 DEF Running
  <1>9. CASE \E p \in Procs : Crash(p)
    BY <1>5, <1>9
  <1> QED
    BY <1>1, <1>6, <1>7, <1>8, <1>9 DEF Next, Mount, LoadRead, SupersedeKind, LoadApply, Stage,
       SettleRecovered, RecoverRefused, TransactWrite, TransactFault

\* A foreign verdict stands, or is dropped by a load of a body without its
\* row, or goes with its process.
LEMMA ForeignRows ==
    ASSUME Inv, Next, NEW r \in Regs, NEW x \in Runs, owned[r][x] = NoRow,
           Terminal(foreign[r][x])
    PROVE  \/ Terminal(foreign'[r][x])
           \/ /\ foreign'[r][x] = NoRow
              /\ Proc[r] \in up' => \E raw \in loads[r] : raw[x] = NoRow /\ raw \notin loads'[r]
  <1>0. TypeOK
    BY DEF Inv
  <1>1. ASSUME NEW raw \in loads[r], LoadApply(r, raw)
        PROVE  Terminal(foreign'[r][x]) \/ (foreign'[r][x] = NoRow /\ raw[x] = NoRow /\ raw \notin loads'[r])
    <2>1. foreign'[r][x] = Adopt(r, x, raw[x]) /\ raw \notin loads'[r]
      BY <1>0, <1>1 DEF LoadApply, TypeOK
    <2>2. ~Owns(r, x)
      BY DEF Owns
    <2>3. raw[x] \in Row \cup {NoRow}
      BY <1>0 DEF TypeOK, Index
    <2>4. \A row \in Row : Terminal(OrphanOf(row)) /\ (Running(row) \/ Terminal(row))
      BY DEF Row, OrphanOf, Running, Terminal, States, Outcomes
    <2>5. ~Running(NoRow)
      BY RunningRow
    <2>6. CASE raw[x] = NoRow
      BY <2>1, <2>2, <2>5, <2>6 DEF Adopt
    <2>7. CASE raw[x] \in Row
      BY <2>1, <2>2, <2>4, <2>7 DEF Adopt
    <2> QED
      BY <2>3, <2>6, <2>7
  <1>2. ASSUME NEW q \in Regs, NEW raw \in loads[q], LoadApply(q, raw), q # r
        PROVE  foreign'[r][x] = foreign[r][x]
    BY <1>0, <1>2 DEF LoadApply, TypeOK
  <1>3. ASSUME NEW p \in Procs, Crash(p)
        PROVE  \/ foreign'[r][x] = foreign[r][x]
               \/ foreign'[r][x] = NoRow /\ Proc[r] \notin up'
    BY <1>0, <1>3 DEF Crash
  <1>4. foreign' = foreign \/ (\E p \in Procs : Crash(p))
            \/ \E q \in Regs : \E raw \in loads[q] : LoadApply(q, raw)
    BY DEF Next, Mount, Dispose, LoadRead, SupersedeKind, BeginScan, BeginMerge,
       Stage, SettleRecovered, Settle, TransactRead, RecoverRefused, TransactWrite, TransactFault
  <1> QED
    BY <1>1, <1>2, <1>3, <1>4

\* Whatever the backend, a verdict that a mounted registry shows is not turned
\* back into a running row; a load drops it only for a body that lost the row.
THEOREM VerdictStaysShut == Spec => VerdictIsNotReopened
  <1> DEFINE Stays == \A r \in Regs, x \in Runs :
               (mode[r] = "mounted" /\ Terminal(View(r, x))) =>
                 \/ Terminal(View(r, x)')
                 \/ /\ View(r, x)' = NoRow
                    /\ Proc[r] \in up' =>
                         \E raw \in loads[r] : raw[x] = NoRow /\ raw \notin loads'[r]
  <1>1. Inv /\ [Next]_vars => [Stays]_vars
    <2>1. ASSUME Inv, Next, NEW r \in Regs, NEW x \in Runs, Terminal(View(r, x))
          PROVE  \/ Terminal(View(r, x)')
                 \/ /\ View(r, x)' = NoRow
                    /\ Proc[r] \in up' =>
                         \E raw \in loads[r] : raw[x] = NoRow /\ raw \notin loads'[r]
      <3>0. TypeOK /\ TypeOK' /\ Owners(owned, begun, up) /\ Honest(foreign[r], owned, begun)
        BY <2>1, InvStep DEF Inv, AllHonest
      <3>1. View(r, x) # NoRow /\ ~Running(View(r, x))
        BY <2>1, RunningRow DEF Terminal, NoRow, Outcomes
      <3>2. x \in begun
        BY <3>0, <3>1 DEF View, Owns, Owners, Honest
      <3>3. CASE owned'[r][x] # NoRow
        <4>1. owned[r][x] # NoRow /\ (Running(owned'[r][x]) => Running(owned[r][x]))
          BY <2>1, <3>2, <3>3, OwnRows
        <4>2. ~Running(owned'[r][x])
          BY <3>1, <4>1 DEF View, Owns
        <4>3. owned'[r][x] \in Row
          BY <3>0, <3>3 DEF TypeOK, Index
        <4>4. Terminal(owned'[r][x])
          BY <4>2, <4>3 DEF Row, Running, Terminal, States
        <4> QED
          BY <3>3, <4>4 DEF View, Owns
      <3>4. CASE owned'[r][x] = NoRow
        <4>1. owned[r][x] = NoRow \/ (foreign'[r][x] = NoRow /\ Proc[r] \notin up')
          BY <2>1, <3>2, <3>4, OwnRows
        <4>2. View(r, x)' = foreign'[r][x]
          BY <3>4 DEF View, Owns
        <4>3. CASE foreign'[r][x] = NoRow /\ Proc[r] \notin up'
          BY <4>2, <4>3
        <4>4. CASE owned[r][x] = NoRow
          <5>1. Terminal(foreign[r][x])
            BY <2>1, <4>4 DEF View, Owns
          <5>2. \/ Terminal(foreign'[r][x])
                \/ /\ foreign'[r][x] = NoRow
                   /\ Proc[r] \in up' => \E raw \in loads[r] : raw[x] = NoRow /\ raw \notin loads'[r]
            BY <2>1, <4>4, <5>1, ForeignRows
          <5> QED
            BY <4>2, <5>2
        <4> QED
          BY <4>1, <4>3, <4>4
      <3> QED
        BY <3>3, <3>4
    <2>2. Inv /\ Next => Stays
      BY <2>1
    <2> QED
      BY <2>2
  <1>2. VerdictIsNotReopened <=> [][Stays]_vars
    BY DEF VerdictIsNotReopened
  <1> QED
    BY <1>1, <1>2, Invariance, PTL DEF Spec
=============================================================================
