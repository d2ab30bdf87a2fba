---------------------------- MODULE ReviewWindow ----------------------------
(***************************************************************************)
(* The background review of one session (evolution-review/src/index.ts) in *)
(* its default mode: turns are counted until a review is due, its prompt is *)
(* put in the agent's inbox at the end of a task, and the counting window   *)
(* restarts when that notice settles.  The handlers of successive turn ends *)
(* overlap; the inbox outlives the plugin, whose maps do not.  The memory   *)
(* and skill counters are one, lastTurn is left out (no turn ends twice),   *)
(* and the chain of an unloaded mount still serializes its last tasks.      *)
(***************************************************************************)
EXTENDS Integers, Sequences, FiniteSets

CONSTANTS
    Slots,      \* bound on the handlers in flight at once
    Ids,        \* identities of delivered notices, reused once out of sight
    Human,      \* a message of the user in the inbox
    None,
    Interval,   \* the activity after which a review is due
    MaxQueue,   \* bound on the inbox when the user sends
    MaxFaults   \* bound on missed events, failures, reloads and restarts

ASSUME ReviewAssumption ==
    /\ Human \notin Ids /\ None \notin Ids \cup {Human} /\ Human # None
    /\ Interval \in Nat \ {0} /\ MaxQueue \in Nat /\ MaxFaults \in Nat
\* An identity is always left for the next notice: every mount remembers one at
\* most, and one may be running.
ASSUME IdsAssumption == IsFiniteSet(Ids) => Cardinality(Ids) > MaxFaults + 2

VARIABLES
    queue,     \* the agent's inbox: user messages and notices, in order
    running,   \* the message the running turn took, None between turns
    told,      \* the mount that heard of that claim, 0 if none did (history)
    stored,    \* the persisted counter, None before the first save
    mount,     \* the number of the current mount
    mounted,   \* FALSE while the plugin is unloaded
    mem,       \* per mount: the outstanding notice, the latch, the completion flag
    chain,     \* per mount: the state lock, its holder first
    slot,      \* the handlers in flight
    faults

host == <<queue, running, told>>
vars == <<host, stored, mount, mounted, mem, chain, slot, faults>>

Mounts    == 1 .. MaxFaults + 1
NoNotice  == [id |-> None, claimed |-> FALSE]
NoMemory  == [notice |-> NoNotice, latch |-> FALSE, done |-> FALSE]
\* op: what it does under the lock; ends: the turn end it handles, if any;
\* own: that turn ran a notice whose claim this mount had heard (history).
FreeSlot  == [pc |-> "free", m |-> 1, op |-> "zero", ends |-> "none", own |-> FALSE,
              read |-> None, due |-> FALSE]

Init ==
    /\ queue = <<>> /\ running = None /\ told = 0
    /\ stored = None /\ mount = 1 /\ mounted = TRUE
    /\ mem = [m \in Mounts |-> NoMemory] /\ chain = [m \in Mounts |-> <<>>]
    /\ slot = [h \in Slots |-> FreeSlot]
    /\ faults = 0

At(h, l)  == slot[h].pc = l
\* Slots are interchangeable: a new task takes a fixed one of those free.
Fresh(h)  == At(h, "free") /\ h = CHOOSE g \in Slots : At(g, "free")
Mem(h)    == mem[slot[h].m]
InQueue   == {queue[k] : k \in DOMAIN queue}
Used      == InQueue \cup {running} \cup {mem[m].notice.id : m \in Mounts}
NewId     == CHOOSE id \in Ids : id \notin Used
\* What the mounted plugin makes of an inbox event about notice id.
Noted(id, claimed) == [mem EXCEPT ![mount].notice = [id |-> id, claimed |-> claimed]]
Mishap == faults < MaxFaults /\ faults' = faults + 1
Hears(heard) == heard => mounted
Lost(heard)  == faults' = IF mounted /\ ~heard THEN faults + 1 ELSE faults
\* A new task of the current mount joins the chain of the state lock.
Joins(h, task) ==
    /\ slot' = [slot EXCEPT ![h] = [task EXCEPT !.pc = "queued", !.m = mount]]
    /\ chain' = [chain EXCEPT ![mount] = Append(@, h)]

------------------------------------------------------------------------------
(* The platform: the inbox and its events, turns.                          *)

UserSends ==
    /\ Len(queue) < MaxQueue /\ queue' = Append(queue, Human)
    /\ UNCHANGED <<running, told, stored, mount, mounted, mem, chain, slot, faults>>

\* A turn takes the first message; the event may be missed.
TurnStart(heard) ==
    /\ running = None /\ queue # <<>> /\ Hears(heard)
    /\ mounted /\ ~heard => faults < MaxFaults /\ Head(queue) \in Ids
    /\ running' = Head(queue) /\ queue' = Tail(queue)
    /\ told' = IF heard THEN mount ELSE 0
    /\ mem' = IF heard /\ Head(queue) \in Ids THEN Noted(Head(queue), TRUE) ELSE mem
    /\ Lost(heard)
    /\ UNCHANGED <<stored, mount, mounted, chain, slot>>

\* turn/end: a turn that took our notice settles it, any other is counted.
Settles == mem[mount].notice.claimed
TurnEnd(h, reason) ==
    /\ running # None /\ running' = None /\ told' = 0
    /\ IF mounted
       THEN /\ Fresh(h)
            /\ Joins(h, [FreeSlot EXCEPT !.op = IF Settles THEN "zero" ELSE "count",
                                         !.ends = reason,
                                         !.own = running \in Ids /\ told = mount])
            /\ mem' = IF Settles THEN [mem EXCEPT ![mount].notice = NoNotice] ELSE mem
       ELSE UNCHANGED <<mem, chain, slot>>
    /\ UNCHANGED <<queue, stored, mount, mounted, faults>>

\* The queue drops a message unrun, or moves it forward (a steer takes it out
\* and puts it back).  A discarded notice settles, unless another is tracked.
Discard(h, k, steered, heard) ==
    LET id == queue[k]
        rest == SubSeq(queue, 1, k - 1) \o SubSeq(queue, k + 1, Len(queue))
        tracked == mem[mount].notice.id \in {None, id}
    IN  /\ Hears(heard) /\ (mounted /\ ~heard => faults < MaxFaults /\ id \in Ids)
        /\ queue' = IF steered THEN <<id>> \o rest ELSE rest
        /\ Lost(heard)
        /\ IF heard /\ id \in Ids
           THEN /\ mem' = IF steered THEN Noted(id, FALSE)
                          ELSE IF tracked THEN [mem EXCEPT ![mount].notice = NoNotice] ELSE mem
                /\ IF tracked THEN Fresh(h) /\ Joins(h, FreeSlot) ELSE UNCHANGED <<chain, slot>>
           ELSE UNCHANGED <<mem, chain, slot>>
        /\ UNCHANGED <<running, told, stored, mount, mounted>>

\* The plugin is unloaded: its maps are cleared, its handlers go on.
Unload ==
    /\ mounted /\ Mishap /\ mounted' = FALSE
    /\ mem' = [mem EXCEPT ![mount] = NoMemory]
    /\ UNCHANGED <<host, stored, mount, chain, slot>>
Load ==
    /\ ~mounted /\ mounted' = TRUE /\ mount' = mount + 1
    /\ UNCHANGED <<host, stored, mem, chain, slot, faults>>
\* The process dies with its handlers and its turn; inbox and counter stay.
Restart ==
    /\ Mishap /\ mount' = mount + 1 /\ mounted' = TRUE
    /\ running' = None /\ told' = 0
    /\ mem' = [m \in Mounts |-> NoMemory] /\ chain' = [m \in Mounts |-> <<>>]
    /\ slot' = [h \in Slots |-> FreeSlot]
    /\ UNCHANGED <<queue, stored>>

------------------------------------------------------------------------------
(* The handlers: count or reset under the state lock, then decide.         *)

\* Mutant: nobody waits for the lock.
Served_any(h) == TRUE
Served(h) == Head(chain[slot[h].m]) = h
\* Mutant: a task that has ended keeps its place in the chain.
Leave_kept(h) == UNCHANGED chain
Leave(h)  == chain' = [chain EXCEPT ![slot[h].m] = Tail(@)]
\* A bare settlement has nothing to decide, nor has a turn inside a task when
\* no review is due.
After(h, due) == IF slot[h].ends = "completed" \/ due
                 THEN [slot[h] EXCEPT !.pc = "decide", !.read = None, !.due = due]
                 ELSE FreeSlot

ReadState(h) ==
    /\ At(h, "queued") /\ Served(h)
    /\ slot' = [slot EXCEPT ![h].pc = "read", ![h].read = stored]
    /\ UNCHANGED <<host, stored, mount, mounted, mem, chain, faults>>

\* settleNotice: the counters restart, if there are any.
Reset(h) ==
    /\ At(h, "read") /\ slot[h].op = "zero"
    /\ stored' = IF slot[h].read = None THEN stored ELSE 0
    /\ slot' = [slot EXCEPT ![h] = After(h, FALSE)] /\ Leave(h)
    /\ UNCHANGED <<host, mount, mounted, mem, faults>>
\* advanceReview: a turn without substance adds nothing and fires nothing.
Count(h, activity) ==
    LET before == IF slot[h].read = None THEN 0 ELSE slot[h].read
        total == IF before + activity > Interval THEN Interval ELSE before + activity
    IN  /\ At(h, "read") /\ slot[h].op = "count"
        /\ stored' = total
        /\ slot' = [slot EXCEPT ![h] = After(h, activity > 0 /\ total = Interval)] /\ Leave(h)
        /\ UNCHANGED <<host, mount, mounted, mem, faults>>
\* The state service throws: a settlement only warns, a count ends the handler.
StateFails(h) ==
    /\ slot[h].pc \in {"queued", "read"} /\ Served(h)
    /\ Mishap
    /\ slot' = [slot EXCEPT ![h] = IF slot[h].op = "zero" THEN After(h, FALSE) ELSE FreeSlot]
    /\ Leave(h)
    /\ UNCHANGED <<host, stored, mount, mounted, mem>>

Queued     == {k \in DOMAIN queue : queue[k] \in Ids}
Foremost   == queue[CHOOSE k \in Queued : \A j \in Queued : k <= j]
Waiting    == [id |-> IF Queued = {} THEN None ELSE Foremost, claimed |-> FALSE]
Notice(h)  == Mem(h).notice
\* noticeIsOutstanding: what the record becomes.  Until it is claimed it follows
\* the queue, which is durable.
\* Mutants: the record is never looked for in the queue; nothing but the queue
\* counts; a record is never given up.
Followed_record(h)  == IF Notice(h).claimed \/ Notice(h) = Waiting THEN Notice(h) ELSE NoNotice
Followed_queue(h)   == Waiting
Followed_forever(h) == IF Notice(h) # NoNotice THEN Notice(h) ELSE Waiting
Followed(h)    == IF Notice(h).claimed THEN Notice(h) ELSE Waiting
Outstanding(h) == Followed(h) # NoNotice
\* The record names a message that left unseen: it is settled on the way.
QueueLost(h)   == Notice(h) # NoNotice /\ Followed(h) # Notice(h)

\* deliverMessage puts the prompt in the inbox, where it is heard as inserted.
\* The task that settles a lost record takes over the slot.
Closes(h) ==
    IF QueueLost(h)
    THEN /\ slot' = [slot EXCEPT ![h] = [FreeSlot EXCEPT !.pc = "queued", !.m = slot[h].m]]
         /\ chain' = [chain EXCEPT ![slot[h].m] = Append(@, h)]
    ELSE slot' = [slot EXCEPT ![h] = FreeSlot] /\ UNCHANGED chain
Delivered(h, mine) ==
    LET own == [mem EXCEPT ![slot[h].m] = [mine EXCEPT !.notice = NoNotice]]
    IN  /\ queue' = Append(queue, NewId)
        /\ mem' = IF mounted THEN [own EXCEPT ![mount].notice = [id |-> NewId, claimed |-> FALSE]] ELSE own
        /\ Closes(h)
\* Refused: the gate is shut or the host throws.
Refused(h, mine) ==
    /\ mem' = [mem EXCEPT ![slot[h].m] = [mine EXCEPT !.notice = Followed(h)]]
    /\ Closes(h) /\ UNCHANGED queue
Deliver(h, sent, refused) ==
    \/ ~Outstanding(h) /\ Delivered(h, sent) /\ UNCHANGED faults
    \/ Outstanding(h) /\ Refused(h, refused) /\ UNCHANGED faults
    \/ ~Outstanding(h) /\ Mishap /\ Refused(h, refused)

Due(h) == slot[h].due \/ Mem(h).latch
Ends(h) == slot' = [slot EXCEPT ![h] = FreeSlot] /\ UNCHANGED chain

\* The end of a task flushes the cadence; a refused review is latched again.
Flush(h) ==
    /\ At(h, "decide") /\ slot[h].ends = "completed" /\ Due(h)
    /\ Deliver(h, [Mem(h) EXCEPT !.latch = FALSE], [Mem(h) EXCEPT !.latch = TRUE])
    /\ UNCHANGED <<running, told, stored, mount, mounted>>
\* Inside a task a due review is latched.
Latch(h) ==
    /\ At(h, "decide") /\ slot[h].ends # "completed"
    /\ mem' = [mem EXCEPT ![slot[h].m].latch = TRUE] /\ Ends(h)
    /\ UNCHANGED <<host, stored, mount, mounted, faults>>
\* The completion channel: once, in a session that has proven long.
Complete(h) ==
    /\ At(h, "decide") /\ slot[h].ends = "completed" /\ ~Due(h)
    /\ slot[h].op = "count" /\ ~Mem(h).done
    /\ Deliver(h, [Mem(h) EXCEPT !.done = TRUE], Mem(h))
    /\ UNCHANGED <<running, told, stored, mount, mounted>>
\* Nothing is due, and the completion channel is off or not reached.
Pass(h) ==
    /\ At(h, "decide") /\ slot[h].ends = "completed" /\ ~Due(h)
    /\ Ends(h)
    /\ UNCHANGED <<host, stored, mount, mounted, mem, faults>>

Work(h) == \/ ReadState(h) \/ Reset(h) \/ (\E w \in 0 .. Interval : Count(h, w))
           \/ Flush(h) \/ Latch(h) \/ Complete(h) \/ Pass(h)
Turn    == \/ \E heard \in BOOLEAN : TurnStart(heard)
           \/ \E h \in Slots, reason \in {"completed", "blocked"} : TurnEnd(h, reason)

Next ==
    \/ UserSends \/ Turn \/ Unload \/ Load \/ Restart
    \/ \E h \in Slots, k \in DOMAIN queue, steered, heard \in BOOLEAN : Discard(h, k, steered, heard)
    \/ \E h \in Slots : Work(h) \/ StateFails(h)

Spec == Init /\ [][Next]_vars
\* Every await settles, and the agent takes what is in its inbox.
FairSpec == Spec /\ WF_vars(Turn) /\ \A h \in Slots : WF_vars(Work(h))

------------------------------------------------------------------------------
(* Properties.                                                             *)

Task == [pc : {"free", "queued", "read", "decide"}, m : Mounts, op : {"zero", "count"},
         ends : {"none", "completed", "blocked"}, own : BOOLEAN,
         read : 0 .. Interval \cup {None}, due : BOOLEAN]
TypeOK ==
    /\ queue \in Seq(Ids \cup {Human}) /\ Len(queue) <= MaxQueue + 1
    /\ running \in Ids \cup {Human, None} /\ told \in Mounts \cup {0}
    /\ stored \in 0 .. Interval \cup {None}
    /\ mount \in Mounts /\ mounted \in BOOLEAN /\ faults \in 0 .. MaxFaults
    /\ mem \in [Mounts -> [notice : [id : Ids \cup {None}, claimed : BOOLEAN],
                            latch : BOOLEAN, done : BOOLEAN]]
    /\ slot \in [Slots -> Task] /\ chain \in [Mounts -> Seq(Slots)]
    /\ \A m \in Mounts : \A k \in DOMAIN chain[m] :
         slot[chain[m][k]].m = m /\ ~At(chain[m][k], "free")

\* At most one review prompt waits in the inbox, whatever the plugin has
\* forgotten in a reload and whoever else delivers at the same boundary.
NoPileUp == \A j, k \in DOMAIN queue : queue[j] \in Ids /\ queue[k] \in Ids => j = k

\* A save writes what its own read led to: until a first reload leaves handlers
\* of two mounts side by side, no count or reset comes between the two, so no
\* handler rolls back what a later turn has saved.
SavesAreCurrent ==
    [][\A h \in Slots : mount = 1 /\ At(h, "read") /\ ~At(h, "read")' /\ stored' # stored
        => stored = slot[h].read]_vars

\* The turn that ran our own review is not counted, as long as the plugin is
\* not reloaded: nothing displaces the notice between its claim and its turn's end.
ReviewTurnNotCounted ==
    \A h \in Slots : mount = 1 /\ slot[h].own => slot[h].op = "zero"

\* The gate never stays shut: while task ends with a due review keep coming,
\* reviews keep running.
DueBoundary == \E h \in Slots : /\ At(h, "decide") /\ slot[h].ends = "completed" /\ Due(h)
                                /\ slot[h].m = mount /\ mounted
Reviewing == Queued # {} \/ running \in Ids
ReviewsKeepComing == []<>DueBoundary => []<>Reviewing

\* The turn that takes our notice does not itself trigger the next delivery.
NoSelfChain ==
    [][\A h \in Slots : At(h, "decide") /\ ~At(h, "decide")' /\ Len(queue') > Len(queue)
        => ~slot[h].own]_vars
=============================================================================
