---------------------------- MODULE MessageQueue ----------------------------
(***************************************************************************)
(* The message queue of src/message_broker/message.rs: the list, the slot  *)
(* for the waker of the task that waits for a message, and the two parties *)
(* that use them.  A client task (spawn_client in mediator.rs) enqueues;   *)
(* the observer task polls DequeueMessage, goes to sleep when take_first   *)
(* returns None, and empties the queue when it shuts down.                 *)
(***************************************************************************)
EXTENDS List

CONSTANT Observer   \* the one task that dequeues (mediator.rs, observer)

ASSUME ObserverAssumption == Takers = {Observer}

VARIABLES
    waker,      \* MQueue.s holds the observer's waker
    notified,   \* tokio has been told to poll the observer again
    clearing,   \* the observer has received ctrl_c and runs Queue::clear
    queued      \* history: the messages that were in the queue at that time

qvars == <<vars, waker, notified, clearing, queued>>

\* Every variable holds a value of its type.
TypeOK ==
    /\ ListTypeOK
    /\ waker \in BOOLEAN
    /\ notified \in BOOLEAN
    /\ clearing \in BOOLEAN
    /\ queued \subseteq Message

Init ==
    /\ ListInit
    /\ waker = FALSE
    /\ notified = FALSE
    /\ clearing = FALSE
    /\ queued = {}

-----------------------------------------------------------------------------
(* enqueue, by a client task *)

\* The call of append.  It can come at any time, before ctrl_c, while the queue
\* is cleared and after: Tasks::clear aborts the tasks it knows, but an aborted
\* task runs on to its next await, and a task that the accept task spawns later
\* is not aborted at all.
Enqueue(p) ==
    /\ NewNode(p)
    /\ UNCHANGED <<waker, notified, clearing, queued>>

\* Mutant: the waker is taken out of its slot and dropped.
SwapWakerDrops(p) ==
    /\ Goto(p, "appended", "idle")
    /\ waker' = FALSE
    /\ UNCHANGED <<memVars, node, cur, sent, taken, fault, notified, clearing, queued>>

\* let waker = s.swap(null)
SwapWaker(p) ==
    /\ Goto(p, "appended", IF waker THEN "waking" ELSE "idle")
    /\ waker' = FALSE
    /\ UNCHANGED <<memVars, node, cur, sent, taken, fault, notified, clearing, queued>>

\* Box::from_raw(waker).wake()
Wake(p) ==
    /\ Goto(p, "waking", "idle")
    /\ notified' = TRUE
    /\ UNCHANGED <<memVars, node, cur, sent, taken, fault, waker, clearing, queued>>

-----------------------------------------------------------------------------
(* dequeue and shutdown, by the observer task *)

\* poll, or an iteration of the loop of clear, begins with take_first.
Poll ==
    /\ TakeFirst(Observer)
    /\ UNCHANGED <<waker, notified, clearing, queued>>

\* poll returns Ready; observer handles the message and dequeues again.
Ready ==
    /\ ~clearing
    /\ Goto(Observer, "some", "idle")
    /\ UNCHANGED <<memVars, node, cur, sent, taken, fault, waker, notified, clearing, queued>>

\* take_first was None: the waker is put in the slot and poll returns Pending.
Register ==
    /\ ~clearing
    /\ Goto(Observer, "none", "parked")
    /\ waker' = TRUE
    /\ UNCHANGED <<memVars, node, cur, sent, taken, fault, notified, clearing, queued>>

\* The runtime polls the observer again because its waker was woken.
Repoll ==
    /\ notified
    /\ Goto(Observer, "parked", "idle")
    /\ notified' = FALSE
    /\ UNCHANGED <<memVars, node, cur, sent, taken, fault, waker, clearing, queued>>

\* ctrl_c wins the select and, after Tasks::clear and its sleep and the clear of
\* the clients, Queue::clear begins.  The observer touches the queue at the end
\* of this only, and the client tasks are not stopped by it: they can be anywhere
\* in enqueue.
CtrlC ==
    /\ ~clearing
    /\ \/ Goto(Observer, "idle", "idle")
       \/ Goto(Observer, "parked", "idle")
    /\ clearing' = TRUE
    /\ queued' = {val[a] : a \in Reached}
    /\ UNCHANGED <<memVars, node, cur, sent, taken, fault, waker, notified>>

\* Mutant: clear drops one message.
ClearDropOnce ==
    /\ clearing
    /\ Goto(Observer, "some", "stopped")
    /\ UNCHANGED <<memVars, node, cur, sent, taken, fault, waker, notified, clearing, queued>>

\* clear: a message that was taken is dropped and the next one is taken.
ClearDrop ==
    /\ clearing
    /\ Goto(Observer, "some", "idle")
    /\ UNCHANGED <<memVars, node, cur, sent, taken, fault, waker, notified, clearing, queued>>

\* clear: take_first was None, the observer ends.
ClearEnd ==
    /\ clearing
    /\ Goto(Observer, "none", "stopped")
    /\ UNCHANGED <<memVars, node, cur, sent, taken, fault, waker, notified, clearing, queued>>

-----------------------------------------------------------------------------

ProducerStep(p) ==
    \/ Enqueue(p)
    \/ (AppendStep(p) \/ Segfault(p)) /\ UNCHANGED <<waker, notified, clearing, queued>>
    \/ SwapWaker(p)
    \/ Wake(p)

\* The observer never dereferences a freed node (ObserverNeverDangles), so it
\* has no Segfault of its own.
ObserverStep ==
    \/ Poll
    \/ TakeStep(Observer) /\ UNCHANGED <<waker, notified, clearing, queued>>
    \/ Ready \/ Register \/ Repoll \/ ClearDrop \/ ClearEnd

Next == (\E p \in Appenders : ProducerStep(p)) \/ ObserverStep \/ CtrlC

Spec == Init /\ [][Next]_qvars

\* A client task runs on once it has begun to enqueue, and the observer runs on
\* whenever the runtime polls it.  Neither is obliged to publish again, and
\* nobody has to press ctrl_c.
Fairness ==
    /\ \A p \in Appenders : WF_qvars(ProducerStep(p) /\ pc[p] # "idle")
    /\ WF_qvars(ObserverStep)

FairSpec == Spec /\ Fairness

-----------------------------------------------------------------------------
(* Safety *)

\* Some client task has begun to enqueue m.
IsSent(m) == m[1] \in Appenders /\ m[2] \in 1 .. sent[m[1]]

\* A message is taken at most once, and only if it was enqueued, although the
\* exchanges of take_first and of append race and nodes are freed and their
\* addresses reused while append still walks over them.
AtMostOnce ==
    /\ \A i, j \in 1 .. Len(taken) : taken[i] = taken[j] => i = j
    /\ \A i \in 1 .. Len(taken) : IsSent(taken[i])

\* take_first dereferences head and frees it without a guard against reuse:
\* with one observer the node it holds is still allocated.
ObserverNeverDangles == ~Dangles(Observer)

\* The queue implements the lossy channel: a message is in flight from the
\* allocation of its node until the node is freed.
Channel == INSTANCE LossyChannel WITH
    Msgs <- UNION {{p} \X (1 .. MaxAppends[p]) : p \in Appenders},
    inFlight <- {val[a] : a \in alive},
    received <- taken

ImplementsChannel == Channel!Spec

\* Queue::clear leaves nothing of what was in the queue when it began, whatever
\* client tasks append meanwhile: the None that ends it does not come before the
\* last of these messages has left the list.
ClearLeavesNothing ==
    pc[Observer] = "stopped" => queued \cap {val[a] : a \in Reached} = {}

\* Messages get out of reach only where an exchange of append or of take_first
\* races with the other function.  A step takes the head off the list, or all of
\* it when take_first stores a NULL that it loaded as the next of head before
\* somebody appended; and an append that is over has made its node reachable,
\* unless it has linked it behind a node that was not in the list any more.
LostOnlyToRaces ==
    [][/\ \/ Reached \subseteq Reached'
          \/ /\ pc[Observer] = "cas_take"
             /\ Reached \subseteq Reached' \cup {head} \/ cur[Observer] = NULL
       /\ \A p \in Appenders : pc[p] \in AppendPCs /\ pc'[p] = "appended" =>
             \/ node[p] \in Reached'
             \/ pc[p] = "cas_next" /\ cur[p] \notin Reached]_qvars

\* Appends alone never fault: before the first take has unlinked its node no
\* client task dereferences NULL or a freed node, although append looks at head
\* twice.
FaultsOnlyAfterTake ==
    (\E p \in Appenders : Dangles(p)) => taken # <<>> \/ pc[Observer] = "free"

-----------------------------------------------------------------------------
(* Liveness *)

\* The retry loop of append ends: while nobody has taken a node away every append
\* returns.  (Afterwards append may walk over freed nodes, which promise nothing.)
AppendsReturn == <>[](taken # <<>> \/ fault \/ \A p \in Appenders : pc[p] \notin AppendPCs)

\* The hand-off through the waker works when the waker is in the slot at the
\* time of enqueue: the observer is polled again and finds a message.
WokenTakes ==
    (/\ pc[Observer] = "parked" /\ waker /\ head # NULL
     /\ \E p \in Appenders : pc[p] = "appended")
        ~> (pc[Observer] = "some" \/ fault \/ clearing)

-----------------------------------------------------------------------------
(* Why the queue is safe with one observer: the inductive invariant behind   *)
(* AtMostOnce, ObserverNeverDangles, ClearLeavesNothing, ImplementsChannel.  *)

\* The allocated nodes, without the one the observer has unlinked and is about
\* to free.
Live == {a \in alive : ~(pc[Observer] = "free" /\ node[Observer] = a)}

\* Each thread is where its own code can be.
PcsOK ==
    /\ \A p \in Appenders : pc[p] \in {"idle", "appended", "waking"} \cup AppendPCs
    /\ pc[Observer] \in {"idle", "some", "none", "parked", "stopped"} \cup TakePCs
    /\ \A p \in Appenders : sent[p] <= MaxAppends[p]

\* Links of live nodes lead to live nodes, and at most one link, or head, leads
\* to a node.
LinksOK ==
    /\ head \in Live \cup {NULL}
    /\ \A a \in Live : next[a] \in Live \cup {NULL}
    /\ \A a, b \in Live : next[a] = next[b] => a = b \/ next[a] = NULL
    /\ \A a \in Live : next[a] = head => head = NULL

\* A node that append has not linked yet is live, and nothing leads to it.
NewNodesOK ==
    \A p \in Appenders : pc[p] \in AppendPCs =>
        /\ node[p] \in Live
        /\ head # node[p]
        /\ \A a \in Live : next[a] # node[p]
        /\ \A q \in Appenders : pc[q] \in AppendPCs /\ node[q] = node[p] => q = p

\* Between its load of head and its exchange the observer holds the head, and
\* the next it has loaded is still the next, unless it was NULL.
ObserverOK ==
    /\ pc[Observer] \in {"load_next", "cas_take"} => node[Observer] = head /\ head # NULL
    /\ pc[Observer] = "cas_take" => cur[Observer] \in {NULL, next[head]}
    /\ pc[Observer] = "free" => node[Observer] \in alive

\* The values of allocated nodes are distinct, were sent and are not taken.
ValuesOK ==
    /\ \A a, b \in alive : val[a] = val[b] => a = b
    /\ \A a \in alive : val[a] \in Message /\ IsSent(val[a])
    /\ \A a \in alive : \A i \in 1 .. Len(taken) : taken[i] # val[a]

\* The nodes of the messages that clear has found, and not yet taken.
Queued == {a \in Live : val[a] \in queued}

\* Behind a node that was appended after clear began there is no node that was
\* there before, so that a None means that none of those is left.
ClearingOK ==
    /\ \A m \in queued : IsSent(m)
    /\ \A a \in Live : next[a] \in Queued => a \in Queued
    /\ \A p \in Appenders : pc[p] \in AppendPCs => node[p] \notin Queued
    /\ clearing /\ pc[Observer] \in {"none", "stopped"} => head \notin Queued
    /\ pc[Observer] = "stopped" => clearing

\* The inductive invariant: how the list, the nodes that are being appended, the
\* node that is being taken and the values taken before hang together.
IndInv ==
    /\ TypeOK /\ PcsOK /\ LinksOK /\ NewNodesOK /\ ObserverOK
    /\ ValuesOK /\ AtMostOnce /\ ClearingOK

-----------------------------------------------------------------------------
(* What the code does not achieve; see the README. *)

\* A message that a client task enqueues is taken by the observer, unless the
\* broker faults or shuts down.
EnqueuedIsTaken ==
    \A p \in Appenders : \A k \in 1 .. MaxAppends[p] :
        (sent[p] >= k)
            ~> (fault \/ clearing \/ \E i \in 1 .. Len(taken) : taken[i] = <<p, k>>)

=============================================================================
