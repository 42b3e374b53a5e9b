------------------------------ MODULE Delivery ------------------------------
(***************************************************************************)
(* From PUBLISH to PUBLISH: a client task queues a message, the observer   *)
(* routes it and spawns a task that forwards it (mediator.rs), which writes*)
(* the packets of its service level into the sockets of the subscriber and *)
(* of the publisher (qos0, qos1, qos2 and pubish of clients.rs).           *)
(*                                                                         *)
(* The queue is the channel of module LossyChannel and the trie is a map   *)
(* from topics to their first subscriber.  A packet is written in two      *)
(* halves when the socket does not take it at once.  A socket has room for *)
(* the waker of one write (tokio keeps the last one), and a client may stop*)
(* to read for good.  A write whose client has been swapped out or cleared *)
(* meanwhile is undefined behaviour and is followed no further.            *)
(***************************************************************************)
EXTENDS Naturals, Sequences, Bags

CONSTANTS
    Ids,            \* client ids
    Topics,
    Msgs,           \* the PUBLISH packets that clients send
    PublisherOf,    \* the client that sends a message,
    TopicOf,        \* its topic
    QosOf,          \* and its service level
    MaxConnects,    \* bound on the connections of each client
    NULL

QoS == 0 .. 2

ASSUME DeliveryAssumption ==
    /\ PublisherOf \in [Msgs -> Ids]
    /\ TopicOf \in [Msgs -> Topics]
    /\ QosOf \in [Msgs -> QoS]
    /\ MaxConnects \in [Ids -> Nat]
    /\ NULL \notin Ids /\ NULL \notin Msgs /\ NULL \notin Ids \X QoS

VARIABLES
    inFlight, received,   \* the queue
    route,     \* the subscriber in the trie, <<client, max_qos>>, of each topic
    asked,     \* history: <<client, topic>> of the SUBSCRIBE packets
    conn,      \* number of the connection whose box is in the list of clients, or 0
    made,      \* how many connections a client has made
    up,        \* the clients whose socket is open
    stalled,   \* those of them that read no more
    waker,     \* the task that the socket of a client wakes, if it is one of these
    serving,   \* the clients whose task runs
    phase,     \* how far the shutdown of the observer is
    pc,        \* where the task that forwards a message is
    sub,       \* Publish.subs of that task
    step,      \* how far it is in the packets of its service level
    held,      \* the connection to which its write_all refers
    written    \* history: how often each half of a packet was written to a client

chanVars == <<inFlight, received>>
listVars == <<conn, made, up, stalled, waker, serving, phase>>
fwdVars == <<pc, sub, step, held>>
dvars == <<chanVars, route, asked, listVars, fwdVars, written>>

Kinds == {"PUBLISH", "PUBACK", "PUBREC", "PUBREL"}
Over == {"done", "failed", "panicked", "dangling"}

Chan == INSTANCE LossyChannel

Init ==
    /\ Chan!Init
    /\ route = [t \in Topics |-> NULL]
    /\ asked = {}
    /\ conn = [c \in Ids |-> 0]
    /\ made = [c \in Ids |-> 0]
    /\ up = {} /\ stalled = {} /\ serving = {}
    /\ waker = [c \in Ids |-> NULL]
    /\ phase = "up"
    /\ pc = [m \in Msgs |-> "none"]
    /\ sub = [m \in Msgs |-> NULL]
    /\ step = [m \in Msgs |-> 1]
    /\ held = [m \in Msgs |-> 0]
    /\ written = EmptyBag

-----------------------------------------------------------------------------
(* The clients *)

\* A client connects; a box it had before, whose session is over, is swapped
\* out.  The accept task only sees the signal of a shutdown while it listens, so
\* that it may insert clients at any time.
Connect(c) ==
    /\ made[c] < MaxConnects[c]
    /\ made' = [made EXCEPT ![c] = @ + 1]
    /\ conn' = [conn EXCEPT ![c] = made[c] + 1]
    /\ up' = up \cup {c}
    /\ stalled' = stalled \ {c}
    /\ waker' = [waker EXCEPT ![c] = NULL]
    /\ serving' = serving \cup {c}
    /\ UNCHANGED <<chanVars, route, asked, phase, fwdVars, written>>

\* Its connection breaks.  It stays in the list.
Break(c) ==
    /\ c \in up
    /\ up' = up \ {c}
    /\ stalled' = stalled \ {c}
    /\ UNCHANGED <<chanVars, route, asked, conn, made, waker, serving, phase, fwdVars, written>>

\* It reads no more, and its socket is full.
Stall(c) ==
    /\ c \in up \ stalled
    /\ stalled' = stalled \cup {c}
    /\ UNCHANGED <<chanVars, route, asked, conn, made, up, waker, serving, phase, fwdVars, written>>

\* The first subscriber of a topic is the one in the trie.
Subscribe(c, t, q) ==
    /\ c \in up \cap serving
    /\ asked' = asked \cup {<<c, t>>}
    /\ route' = [route EXCEPT ![t] = IF @ = NULL THEN <<c, q>> ELSE @]
    /\ UNCHANGED <<chanVars, listVars, fwdVars, written>>

\* The task of the client answers a packet, and waits for the socket itself.
Answer(c) ==
    /\ c \in up \cap serving /\ waker[c] # NULL
    /\ waker' = [waker EXCEPT ![c] = NULL]
    /\ UNCHANGED <<chanVars, route, asked, conn, made, up, stalled, serving, phase, fwdVars, written>>

\* queue_message: only a service level above 0 names the publisher.
Publisher(m) == IF QosOf[m] > 0 THEN PublisherOf[m] ELSE NULL

\* A client task handles a PUBLISH of its client.
Publish(m) ==
    /\ PublisherOf[m] \in up \cap serving
    /\ Chan!Send(m)
    /\ UNCHANGED <<route, asked, listVars, fwdVars, written>>

-----------------------------------------------------------------------------
(* observer *)

\* Mutant: the message stays in the queue.
ObserveKeeps(m) ==
    /\ phase = "up" /\ m \in inFlight
    /\ LET s == route[TopicOf[m]]
       IN  /\ sub' = [sub EXCEPT ![m] = s]
           /\ pc' = [pc EXCEPT ![m] = IF s = NULL THEN "done" ELSE "start"]
    /\ UNCHANGED <<chanVars, route, asked, listVars, step, held, written>>

\* A message is dequeued and routed; with a subscriber, its task is spawned.
Observe(m) ==
    /\ phase = "up" /\ Chan!Receive(m)
    /\ LET s == route[TopicOf[m]]
       IN  /\ sub' = [sub EXCEPT ![m] = s]
           /\ pc' = [pc EXCEPT ![m] = IF s = NULL THEN "done" ELSE "start"]
    /\ UNCHANGED <<route, asked, listVars, step, held, written>>

\* ctrl_c: the client tasks are aborted.  The tasks that forward are not.
CtrlC ==
    /\ phase = "up" /\ phase' = "stopping"
    /\ serving' = {}
    /\ UNCHANGED <<chanVars, route, asked, conn, made, up, stalled, waker, fwdVars, written>>

\* forwarder.clear: the clients are dropped.
ClearClients ==
    /\ phase = "stopping" /\ phase' = "cleared"
    /\ conn' = [c \in Ids |-> 0]
    /\ up' = {} /\ stalled' = {} /\ serving' = {}
    /\ waker' = [c \in Ids |-> NULL]
    /\ UNCHANGED <<chanVars, route, asked, made, fwdVars, written>>

\* msg_queue.clear, and the observer ends.
ClearQueue ==
    /\ phase = "cleared" /\ phase' = "stopped"
    /\ inFlight' = {}
    /\ UNCHANGED <<received, route, asked, conn, made, up, stalled, waker, serving, fwdVars, written>>

-----------------------------------------------------------------------------
(* Publish::forward, by the task of message m *)

\* Mutant: the higher of the two service levels.
LevelUp(m) == IF QosOf[m] > sub[m][2] THEN QosOf[m] ELSE sub[m][2]

\* The lower of the service levels of the message and of the subscription.
Level(m) == IF QosOf[m] < sub[m][2] THEN QosOf[m] ELSE sub[m][2]

\* The packets of each level and the clients to which they are written.
Qos0(m) == << <<sub[m][1], "PUBLISH">> >>

\* Mutant: the publisher gets its answer first.
Qos1AckFirst(m) == << <<Publisher(m), "PUBACK">>, <<sub[m][1], "PUBLISH">> >>

Qos1(m) == << <<sub[m][1], "PUBLISH">>, <<Publisher(m), "PUBACK">> >>

Qos2(m) == << <<Publisher(m), "PUBREC">>, <<sub[m][1], "PUBLISH">>, <<Publisher(m), "PUBREL">> >>

Packets(m) == CASE Level(m) = 0 -> Qos0(m) [] Level(m) = 1 -> Qos1(m) [] Level(m) = 2 -> Qos2(m)
Target(m) == Packets(m)[step[m]][1]
Half(m, h) == SetToBag({<<Target(m), Packets(m)[step[m]][2], m, h>>})

\* The publisher of a message above level 0 is unwrapped.
Start(m) ==
    /\ pc[m] = "start"
    /\ pc' = [pc EXCEPT ![m] = IF Level(m) > 0 /\ Publisher(m) = NULL THEN "panicked" ELSE "find"]
    /\ UNCHANGED <<chanVars, route, asked, listVars, sub, step, held, written>>

\* Mutant: the lock of the list is held during the write.
FindLocked(m) ==
    /\ pc[m] = "find"
    /\ \A n \in Msgs : pc[n] \notin {"write", "full", "rest"}
    /\ pc' = [pc EXCEPT ![m] = IF conn[Target(m)] = 0 THEN "failed" ELSE "write"]
    /\ held' = [held EXCEPT ![m] = conn[Target(m)]]
    /\ UNCHANGED <<chanVars, route, asked, listVars, sub, step, written>>

\* pubish: the client is looked up; if it is not in the list forward ends.
Find(m) ==
    /\ pc[m] = "find"
    /\ pc' = [pc EXCEPT ![m] = IF conn[Target(m)] = 0 THEN "failed" ELSE "write"]
    /\ held' = [held EXCEPT ![m] = conn[Target(m)]]
    /\ UNCHANGED <<chanVars, route, asked, listVars, sub, step, written>>

\* Mutant: the last packet does not end the task.
WrittenOnward(m) ==
    /\ pc' = [pc EXCEPT ![m] = "find"]
    /\ step' = [step EXCEPT ![m] = @ + 1]

\* The packet is written: on to the next one.
Written(m) ==
    IF step[m] = Len(Packets(m))
    THEN pc' = [pc EXCEPT ![m] = "done"] /\ step' = step
    ELSE pc' = [pc EXCEPT ![m] = "find"] /\ step' = [step EXCEPT ![m] = @ + 1]

\* The task is polled, and its client is the one it has found: it has just
\* found it, or the socket has woken it.
Polled(m) ==
    /\ pc[m] \in {"write", "full", "rest"} /\ held[m] = conn[Target(m)]
    /\ pc[m] = "write" \/ waker[Target(m)] = m

\* What has been written when the rest of the packet is.
WithRest(m) ==
    IF pc[m] = "rest" THEN written (+) Half(m, 2) ELSE written (+) Half(m, 1) (+) Half(m, 2)

Wakes(m, w) == waker' = [waker EXCEPT ![Target(m)] = w]

\* write_all: the rest of the packet is written.
Write(m) ==
    /\ Polled(m) /\ Target(m) \in up \ stalled
    /\ written' = WithRest(m)
    /\ Written(m)
    /\ IF pc[m] = "write" THEN waker' = waker ELSE Wakes(m, NULL)
    /\ UNCHANGED <<chanVars, route, asked, conn, made, up, stalled, serving, phase, sub, held>>

\* The socket is full after the first half.
WriteHalf(m) ==
    /\ Polled(m) /\ Target(m) \in up \ stalled
    /\ pc[m] # "rest"
    /\ written' = written (+) Half(m, 1)
    /\ pc' = [pc EXCEPT ![m] = "rest"]
    /\ Wakes(m, m)
    /\ UNCHANGED <<chanVars, route, asked, conn, made, up, stalled, serving, phase, sub, step, held>>

\* The socket is full.
WriteNothing(m) ==
    /\ Polled(m) /\ Target(m) \in up
    /\ pc[m] = "write"
    /\ pc' = [pc EXCEPT ![m] = "full"]
    /\ Wakes(m, m)
    /\ UNCHANGED <<chanVars, route, asked, conn, made, up, stalled, serving, phase, sub, step, held, written>>

\* The connection is broken: the error ends forward.
WriteFails(m) ==
    /\ Polled(m) /\ Target(m) \notin up
    /\ pc' = [pc EXCEPT ![m] = "failed"]
    /\ UNCHANGED <<chanVars, route, asked, listVars, sub, step, held, written>>

\* The client to which the future refers was swapped out or cleared.
UseAfterFree(m) ==
    /\ pc[m] \in {"write", "full", "rest"} /\ held[m] # conn[Target(m)]
    /\ pc' = [pc EXCEPT ![m] = "dangling"]
    /\ UNCHANGED <<chanVars, route, asked, listVars, sub, step, held, written>>

ForwardStep(m) ==
    \/ Start(m) \/ Find(m)
    \/ Write(m) \/ WriteHalf(m) \/ WriteNothing(m) \/ WriteFails(m) \/ UseAfterFree(m)

Next ==
    \/ \E c \in Ids : Connect(c) \/ Break(c) \/ Stall(c) \/ Answer(c) \/ \E t \in Topics, q \in QoS : Subscribe(c, t, q)
    \/ \E m \in Msgs : Publish(m) \/ Observe(m) \/ ForwardStep(m)
    \/ CtrlC \/ ClearClients \/ ClearQueue

Spec == Init /\ [][Next]_dvars

\* A task that forwards is polled when it can go on: a client that has not
\* stopped to read (Stall) makes room for the next write.
FairSpec == Spec /\ \A m \in Msgs : WF_dvars(ForwardStep(m))

-----------------------------------------------------------------------------

\* Every variable holds a value of its type; a task is at one of its packets.
TypeOK ==
    /\ inFlight \subseteq Msgs /\ received \in Seq(Msgs)
    /\ route \in [Topics -> (Ids \X QoS) \cup {NULL}]
    /\ asked \subseteq Ids \X Topics
    /\ conn \in [Ids -> Nat] /\ made \in [Ids -> Nat]
    /\ up \subseteq Ids /\ stalled \subseteq up /\ serving \subseteq Ids
    /\ waker \in [Ids -> Msgs \cup {NULL}]
    /\ phase \in {"up", "stopping", "cleared", "stopped"}
    /\ pc \in [Msgs -> {"none", "start", "find", "write", "full", "rest"} \cup Over]
    /\ sub \in [Msgs -> (Ids \X QoS) \cup {NULL}]
    /\ step \in [Msgs -> 1 .. 3]
    /\ \A m \in Msgs : sub[m] # NULL => step[m] <= Len(Packets(m))
    /\ held \in [Msgs -> Nat]
    /\ BagToSet(written) \subseteq Ids \X Kinds \X Msgs \X {1, 2}

IsWritten(c, kind, m) == \A h \in {1, 2} : BagIn(<<c, kind, m, h>>, written)
IsBegun(c, kind, m) == BagIn(<<c, kind, m, 1>>, written)

\* A publisher that gets PUBACK, or the last packet of the QoS 2 exchange, can
\* rely on it: the whole message has been written to the subscriber, whatever
\* connections broke and came back between the writes.
AckedIsWritten ==
    \A m \in Msgs, kind \in {"PUBACK", "PUBREL"} :
        IsBegun(PublisherOf[m], kind, m) => IsWritten(sub[m][1], "PUBLISH", m)

\* From the queue to the sockets nothing is duplicated, and a message is written
\* only to a client that asked for its topic.
DeliveredOnce ==
    \A w \in BagToSet(written) :
        /\ written[w] = 1
        /\ w[2] = "PUBLISH" => <<w[1], TopicOf[w[3]]>> \in asked
        /\ w[2] # "PUBLISH" => w[1] = PublisherOf[w[3]]

\* forward unwraps a publisher that queue_message has left out for QoS 0: no
\* subscription raises the level of a message to where it is needed.
NeverPanics == \A m \in Msgs : pc[m] # "panicked"

\* The task of m waits for the socket of a client: for one that reads no more,
\* or after another write has taken its place in the socket.
Waits(m) == pc[m] \in {"full", "rest"} /\ held[m] = conn[Target(m)]
Stuck(m) == Waits(m) /\ Target(m) \in stalled
Unwoken(m) == Waits(m) /\ waker[Target(m)] # m

\* write_all has no deadline, and a client that stops to read holds up the task
\* that writes to it for good, as does another write to the same socket; but
\* nothing holds up a task that writes to another client, because pubish
\* releases the lock of the list before it writes.  No task is on its way for
\* ever without being held up like this: it ends, or its client is dropped
\* under it.
HeldUpOnlyByItsClient ==
    \A m \in Msgs : []<>(pc[m] \in {"none"} \cup Over \/ Stuck(m) \/ Unwoken(m))

=============================================================================
