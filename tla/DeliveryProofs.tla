--------------------------- MODULE DeliveryProofs ---------------------------
(***************************************************************************)
(* Messages are delivered once, to clients that asked for them, and are    *)
(* acknowledged after they have been written, for every set of clients,    *)
(* topics and messages and every number of connections.                    *)
(***************************************************************************)
EXTENDS Delivery, TLAPS

-----------------------------------------------------------------------------
(* The inductive invariant *)

\* The observer has taken message m off the queue.
IsTaken(m) == \E i \in DOMAIN received : received[i] = m

\* A message has a task only once the observer has taken it.
TakenFirst ==
    \A m \in Msgs :
        /\ IsTaken(m) => m \notin inFlight
        /\ pc[m] # "none" => IsTaken(m)

Unsent == {"none", "start", "panicked"}
Ended == {"failed", "dangling"}

\* A task before its first packet, and the subscriber of a task.
Begins ==
    \A m \in Msgs :
        /\ pc[m] \in Unsent => step[m] = 1
        /\ pc[m] \in {"start", "find", "write", "full", "rest"} \cup Ended => sub[m] # NULL

\* The subscriber of a topic and of a message has asked for it.
SubscribersAsked ==
    /\ \A t \in Topics : route[t] # NULL => <<route[t][1], t>> \in asked
    /\ \A m \in Msgs : sub[m] # NULL => <<sub[m][1], TopicOf[m]>> \in asked

\* Half h of packet k of message m has been written; or may have been, before
\* an error ended the task.
IsOut(m, k, h) ==
    \/ k < step[m]
    \/ k = step[m] /\ (pc[m] = "done" \/ (pc[m] = "rest" /\ h = 1))
MayBeOut(m, k, h) == IsOut(m, k, h) \/ (k = step[m] /\ pc[m] \in Ended /\ h = 1)

\* The packets of message m are being, or have been, written.
Sends(m) == sub[m] # NULL /\ pc[m] \notin Unsent

\* What was written are the packets of the tasks, each one as far as its task
\* has come, and each half once.
WrittenOnce == \A w \in BagToSet(written) : written[w] = 1

WrittenBySteps ==
    \A w \in BagToSet(written) :
        /\ Sends(w[3])
        /\ \E k \in 1 .. Len(Packets(w[3])) :
              /\ Packets(w[3])[k][1] = w[1] /\ Packets(w[3])[k][2] = w[2]
              /\ MayBeOut(w[3], k, w[4])

StepsWritten ==
    \A m \in Msgs : Sends(m) =>
        \A k \in 1 .. Len(Packets(m)), h \in {1, 2} :
            IsOut(m, k, h) => <<Packets(m)[k][1], Packets(m)[k][2], m, h>> \in BagToSet(written)

\* The part of the type invariant about the clients and the shutdown.
ListOK ==
    /\ conn \in [Ids -> Nat] /\ made \in [Ids -> Nat]
    /\ up \subseteq Ids /\ stalled \subseteq up /\ serving \subseteq Ids
    /\ waker \in [Ids -> Msgs \cup {NULL}]
    /\ phase \in {"up", "stopping", "cleared", "stopped"}

DeliveryInv ==
    /\ TypeOK /\ TakenFirst /\ Begins /\ SubscribersAsked
    /\ WrittenOnce /\ WrittenBySteps /\ StepsWritten /\ NeverPanics

-----------------------------------------------------------------------------
(* The packets of a message *)

\* NULL is neither a client nor a subscriber.
LEMMA NullFacts ==
    /\ \A m \in Msgs : PublisherOf[m] \in Ids /\ TopicOf[m] \in Topics /\ QosOf[m] \in QoS
    /\ \A c \in Ids : c # NULL
    /\ \A s \in Ids \X QoS : s # NULL /\ s[1] \in Ids /\ s[2] \in QoS
BY DeliveryAssumption

\* The packets of a service level have different kinds.  The message goes to
\* the subscriber, and before the last acknowledgement; what the publisher gets
\* is addressed to a client, because it is left out for QoS 0 only.
LEMMA PacketFacts ==
    ASSUME NEW m \in Msgs, sub[m] \in Ids \X QoS
    PROVE  /\ Len(Packets(m)) \in 1 .. 3
           /\ \A k \in 1 .. Len(Packets(m)) :
                 /\ Packets(m)[k][1] \in Ids /\ Packets(m)[k][2] \in Kinds
                 /\ Packets(m)[k][2] = "PUBLISH" => Packets(m)[k][1] = sub[m][1]
                 /\ Packets(m)[k][2] # "PUBLISH" => Packets(m)[k][1] = PublisherOf[m]
                 /\ Packets(m)[k][2] \in {"PUBACK", "PUBREL"} =>
                       \E j \in 1 .. k - 1 :
                          Packets(m)[j][1] = sub[m][1] /\ Packets(m)[j][2] = "PUBLISH"
                 /\ \A j \in 1 .. Len(Packets(m)) : Packets(m)[k][2] = Packets(m)[j][2] => k = j
<1>1. /\ QosOf[m] \in 0 .. 2 /\ sub[m][2] \in 0 .. 2 /\ sub[m][1] \in Ids
      /\ PublisherOf[m] \in Ids
  BY NullFacts DEF QoS
<1>2. Level(m) \in 0 .. 2 /\ (Level(m) > 0 => Publisher(m) = PublisherOf[m])
  BY <1>1 DEF Level, Publisher
<1>3. CASE Level(m) = 0
  <2>1. Packets(m) = Qos0(m)
    BY <1>3 DEF Packets
  <2> QED
    BY <1>1, <2>1 DEF Qos0, Kinds
<1>4. CASE Level(m) = 1
  <2>1. Packets(m) = Qos1(m) /\ Publisher(m) = PublisherOf[m]
    BY <1>2, <1>4 DEF Packets
  <2> QED
    BY <1>1, <2>1 DEF Qos1, Kinds
<1>5. CASE Level(m) = 2
  <2>1. Packets(m) = Qos2(m) /\ Publisher(m) = PublisherOf[m]
    BY <1>2, <1>5 DEF Packets
  <2> QED
    BY <1>1, <2>1 DEF Qos2, Kinds
<1> QED
  BY <1>2, <1>3, <1>4, <1>5

\* Every routed message has one to three packets.
PacketCounts == \A m \in Msgs : sub[m] \in Ids \X QoS => Len(Packets(m)) \in 1 .. 3

\* In the next state, too.
LEMMA PacketCountsNext == PacketCounts'
<1>1. PacketCounts
  BY PacketFacts DEF PacketCounts
<1> QED
  BY <1>1, PTL

\* They are settled once the message has been routed.
LEMMA PacketsFixed ==
    ASSUME NEW m \in Msgs, sub'[m] = sub[m]
    PROVE  Packets(m)' = Packets(m)
BY DEF Packets, Level, Qos0, Qos1, Qos2, Publisher

\* Writing something new into the history.
Plus(B, x) == B (+) SetToBag({x})
AllOnce(B) == \A w \in BagToSet(B) : B[w] = 1

\* It adds that and nothing else.
LEMMA AddHalf ==
    ASSUME NEW B, NEW x, x \notin BagToSet(B), AllOnce(B)
    PROVE  BagToSet(Plus(B, x)) = BagToSet(B) \cup {x} /\ AllOnce(Plus(B, x))
BY DEF AllOnce, Plus, BagToSet, SetToBag, (+)

-----------------------------------------------------------------------------
(* Steps *)

\* Only the task of m moves; what it writes is N, and it writes the half or the
\* packet that it passes.
Advances(m, N) ==
    /\ BagToSet(written)' = BagToSet(written) \cup N
    /\ \A n \in Msgs \ {m} : pc'[n] = pc[n] /\ step'[n] = step[n] /\ sub'[n] = sub[n]
    /\ Sends(m) => Sends(m)' /\ sub'[m] = sub[m]
    /\ \A k \in 1 .. 3, h \in {1, 2} : Sends(m) /\ MayBeOut(m, k, h) => MayBeOut(m, k, h)'

\* Then the history keeps in step with the tasks.
LEMMA AdvanceInv ==
    ASSUME DeliveryInv, TypeOK', NEW m \in Msgs, NEW N, Advances(m, N),
           \A w \in N : /\ w[3] = m /\ Sends(m)'
                        /\ \E k \in 1 .. Len(Packets(m)') :
                              /\ Packets(m)'[k][1] = w[1] /\ Packets(m)'[k][2] = w[2]
                              /\ MayBeOut(m, k, w[4])',
           \A k \in 1 .. Len(Packets(m)'), h \in {1, 2} :
              Sends(m)' /\ IsOut(m, k, h)' =>
                 \/ Sends(m) /\ IsOut(m, k, h)
                 \/ <<Packets(m)'[k][1], Packets(m)'[k][2], m, h>> \in N
    PROVE  WrittenBySteps' /\ StepsWritten'
<1>0. \A n \in 1 .. 3 : \A k \in 1 .. n : k \in 1 .. 3
  OBVIOUS
<1> USE DEF Advances
<1>1. \A n \in Msgs : sub[n] # NULL => sub[n] \in Ids \X QoS
  BY DEF DeliveryInv, TypeOK
<1>2. \A n \in Msgs \ {m} :
         /\ Packets(n)' = Packets(n) /\ (Sends(n)' <=> Sends(n))
         /\ \A k, h : (IsOut(n, k, h)' <=> IsOut(n, k, h)) /\ (MayBeOut(n, k, h)' <=> MayBeOut(n, k, h))
  <2> SUFFICES ASSUME NEW n \in Msgs \ {m}
               PROVE  /\ Packets(n)' = Packets(n) /\ (Sends(n)' <=> Sends(n))
                      /\ \A k, h : (IsOut(n, k, h)' <=> IsOut(n, k, h))
                                    /\ (MayBeOut(n, k, h)' <=> MayBeOut(n, k, h))
    OBVIOUS
  <2>1. Packets(n)' = Packets(n)
    BY PacketsFixed
  <2>2. pc'[n] = pc[n] /\ step'[n] = step[n] /\ sub'[n] = sub[n]
    OBVIOUS
  <2> QED
    BY <2>1, <2>2, Zenon DEF Sends, IsOut, MayBeOut
<1>3. Sends(m) => Packets(m)' = Packets(m) /\ Len(Packets(m)) \in 1 .. 3
  BY <1>1, PacketsFixed, PacketFacts DEF Sends
<1>4. WrittenBySteps'
  <2> SUFFICES ASSUME NEW w \in BagToSet(written) \cup N
               PROVE  /\ Sends(w[3])'
                      /\ \E k \in 1 .. Len(Packets(w[3])') :
                            /\ Packets(w[3])'[k][1] = w[1] /\ Packets(w[3])'[k][2] = w[2]
                            /\ MayBeOut(w[3], k, w[4])'
    BY Zenon DEF WrittenBySteps
  <2>1. CASE w \in N
    BY <2>1
  <2>2. CASE w \in BagToSet(written)
    <3>1. /\ Sends(w[3]) /\ w[3] \in Msgs /\ w[4] \in {1, 2}
          /\ \E k \in 1 .. Len(Packets(w[3])) :
                /\ Packets(w[3])[k][1] = w[1] /\ Packets(w[3])[k][2] = w[2]
                /\ MayBeOut(w[3], k, w[4])
      BY <2>2 DEF DeliveryInv, WrittenBySteps, TypeOK
    <3>2. CASE w[3] # m
      BY <1>2, <3>1, <3>2, Zenon
    <3>3. CASE w[3] = m
      <4>1. PICK k \in 1 .. Len(Packets(m)) :
               /\ Packets(m)[k][1] = w[1] /\ Packets(m)[k][2] = w[2]
               /\ MayBeOut(m, k, w[4])
        BY <3>1, <3>3
      <4>0. Sends(m)
        BY <3>1, <3>3, Zenon
      <4>2. Packets(m)' = Packets(m) /\ Len(Packets(m)) \in 1 .. 3
        BY <1>3, <4>0, Zenon
      <4>5. k \in 1 .. 3
        BY <1>0, <4>2, Zenon
      <4>3. MayBeOut(m, k, w[4])' /\ Sends(m)'
        BY <3>1, <4>0, <4>1, <4>5
      <4> QED
        BY <3>3, <4>1, <4>2, <4>3
    <3> QED
      BY <3>2, <3>3
  <2> QED
    BY <2>1, <2>2
<1>5. StepsWritten'
  <2> SUFFICES ASSUME NEW n \in Msgs, Sends(n)', NEW k \in 1 .. Len(Packets(n)'), NEW h \in {1, 2},
                      IsOut(n, k, h)'
               PROVE  <<Packets(n)'[k][1], Packets(n)'[k][2], n, h>> \in BagToSet(written) \cup N
    BY Zenon DEF StepsWritten
  <2>1. CASE n # m
    <3>1. Packets(n)' = Packets(n) /\ Sends(n) /\ IsOut(n, k, h)
      BY <1>2, <2>1, Zenon
    <3> QED
      BY <3>1, Zenon DEF DeliveryInv, StepsWritten
  <2>2. CASE n = m /\ <<Packets(m)'[k][1], Packets(m)'[k][2], m, h>> \in N
    BY <2>2
  <2>3. CASE n = m /\ Sends(m) /\ IsOut(m, k, h)
    BY <1>3, <2>3 DEF DeliveryInv, StepsWritten
  <2> QED
    BY <2>1, <2>2, <2>3
<1> QED
  BY <1>4, <1>5

\* The steps of clients, of the queue and of a shutdown leave the tasks alone.
LEMMA TasksStay ==
    ASSUME DeliveryInv, UNCHANGED <<pc, sub, step, written>>
    PROVE  /\ Begins' /\ WrittenOnce' /\ WrittenBySteps' /\ StepsWritten' /\ NeverPanics'
           /\ \A m \in Msgs : Packets(m)' = Packets(m)
<1>1. \A m \in Msgs : Packets(m)' = Packets(m)
  BY PacketsFixed
<1>2. Begins' /\ WrittenOnce' /\ NeverPanics'
  BY Zenon DEF DeliveryInv, Begins, WrittenOnce, NeverPanics, BagToSet
<1>3. \A m \in Msgs :
         /\ Sends(m)' <=> Sends(m)
         /\ \A k, h : (IsOut(m, k, h)' <=> IsOut(m, k, h)) /\ (MayBeOut(m, k, h)' <=> MayBeOut(m, k, h))
  BY Zenon DEF Sends, IsOut, MayBeOut
<1>4. BagToSet(written)' = BagToSet(written)
  BY DEF BagToSet
<1>5. WrittenBySteps'
  <2>1. \A w \in BagToSet(written) : w[3] \in Msgs
    BY DEF DeliveryInv, TypeOK
  <2> QED
    BY <1>1, <1>3, <1>4, <2>1, Zenon DEF DeliveryInv, WrittenBySteps
<1>6. StepsWritten'
  BY <1>1, <1>3, <1>4, Zenon DEF DeliveryInv, StepsWritten
<1> QED
  BY <1>1, <1>2, <1>5, <1>6

\* A connection that opens, breaks or stalls, and the task of its client, change
\* no task that forwards and no route.
LEMMA ConnectInv ==
    ASSUME DeliveryInv, NEW c \in Ids, Connect(c) \/ Break(c) \/ Stall(c) \/ Answer(c)
    PROVE  DeliveryInv'
<1>1. /\ UNCHANGED <<chanVars, route, asked, fwdVars, written>>
      /\ ListOK'
  <2>1. UNCHANGED <<chanVars, route, asked, fwdVars, written>>
    BY DEF Connect, Break, Stall, Answer
  <2>2. ListOK
    BY DeliveryAssumption DEF DeliveryInv, TypeOK, ListOK
  <2>3. CASE Connect(c)
    <3>1. made[c] + 1 \in Nat
      BY <2>2, <2>3 DEF Connect, ListOK
    <3> QED
      BY <2>2, <2>3, <3>1 DEF Connect, ListOK
  <2>4. CASE Break(c)
    BY <2>2, <2>4 DEF Break, ListOK
  <2>5. CASE Stall(c)
    BY <2>2, <2>5 DEF Stall, ListOK
  <2>6. CASE Answer(c)
    BY <2>2, <2>6 DEF Answer, ListOK
  <2> QED
    BY <2>1, <2>3, <2>4, <2>5, <2>6
<1>2. /\ Begins' /\ WrittenOnce' /\ WrittenBySteps' /\ StepsWritten' /\ NeverPanics'
      /\ \A m \in Msgs : Packets(m)' = Packets(m)
  BY <1>1, TasksStay DEF fwdVars
<1>3. TypeOK'
  BY <1>1, <1>2 DEF DeliveryInv, TypeOK, ListOK, fwdVars, chanVars, BagToSet
<1>4. TakenFirst'
  BY <1>1 DEF DeliveryInv, TakenFirst, IsTaken, chanVars, fwdVars
<1>5. SubscribersAsked'
  BY <1>1 DEF DeliveryInv, SubscribersAsked, fwdVars
<1> QED
  BY <1>2, <1>3, <1>4, <1>5 DEF DeliveryInv

\* A subscription gives a topic without a subscriber its first one, who has
\* asked for it.
LEMMA SubscribeInv ==
    ASSUME DeliveryInv, NEW c \in Ids, NEW t \in Topics, NEW q \in QoS, Subscribe(c, t, q)
    PROVE  DeliveryInv'
<1>1. /\ UNCHANGED <<chanVars, listVars, fwdVars, written>>
      /\ asked' = asked \cup {<<c, t>>}
      /\ route' = [route EXCEPT ![t] = IF route[t] = NULL THEN <<c, q>> ELSE route[t]]
  BY DEF Subscribe
<1>2. /\ Begins' /\ WrittenOnce' /\ WrittenBySteps' /\ StepsWritten' /\ NeverPanics'
      /\ \A m \in Msgs : Packets(m)' = Packets(m)
  BY <1>1, TasksStay DEF fwdVars
<1>3. TypeOK'
  BY <1>1, <1>2 DEF DeliveryInv, TypeOK, fwdVars, chanVars, listVars, BagToSet
<1>4. TakenFirst'
  BY <1>1 DEF DeliveryInv, TakenFirst, IsTaken, chanVars, fwdVars
<1>5. SubscribersAsked'
  <2>1. \A u \in Topics : route'[u] # NULL => <<route'[u][1], u>> \in asked'
    BY <1>1 DEF DeliveryInv, TypeOK, SubscribersAsked
  <2> QED
    BY <1>1, <2>1 DEF DeliveryInv, SubscribersAsked, fwdVars
<1> QED
  BY <1>2, <1>3, <1>4, <1>5 DEF DeliveryInv

\* A published message is in flight, and no task has it yet.
LEMMA PublishInv ==
    ASSUME DeliveryInv, NEW m \in Msgs, Publish(m)
    PROVE  DeliveryInv'
<1>1. /\ UNCHANGED <<received, route, asked, listVars, fwdVars, written>>
      /\ inFlight' = inFlight \cup {m} /\ ~IsTaken(m)
  BY DEF Publish, Chan!Send, IsTaken
<1>2. /\ Begins' /\ WrittenOnce' /\ WrittenBySteps' /\ StepsWritten' /\ NeverPanics'
      /\ \A n \in Msgs : Packets(n)' = Packets(n)
  BY <1>1, TasksStay DEF fwdVars
<1>3. TypeOK'
  BY <1>1, <1>2 DEF DeliveryInv, TypeOK, fwdVars, listVars, BagToSet
<1>4. TakenFirst'
  BY <1>1 DEF DeliveryInv, TakenFirst, IsTaken, fwdVars
<1>5. SubscribersAsked'
  BY <1>1 DEF DeliveryInv, SubscribersAsked, fwdVars
<1> QED
  BY <1>2, <1>3, <1>4, <1>5 DEF DeliveryInv

\* The shutdown takes messages from the queue and leaves the tasks alone.
LEMMA CtrlCInv ==
    ASSUME DeliveryInv, CtrlC \/ ClearClients \/ ClearQueue
    PROVE  DeliveryInv'
<1>1. /\ UNCHANGED <<received, route, asked, fwdVars, written>>
      /\ inFlight' \subseteq inFlight /\ ListOK'
  <2>1. ListOK
    BY DeliveryAssumption DEF DeliveryInv, TypeOK, ListOK
  <2>2. CASE CtrlC
    BY <2>1, <2>2 DEF CtrlC, ListOK, chanVars
  <2>3. CASE ClearClients
    BY <2>1, <2>3 DEF ClearClients, ListOK, chanVars
  <2>4. CASE ClearQueue
    BY <2>1, <2>4 DEF ClearQueue, ListOK
  <2> QED
    BY <2>2, <2>3, <2>4
<1>2. /\ Begins' /\ WrittenOnce' /\ WrittenBySteps' /\ StepsWritten' /\ NeverPanics'
      /\ \A n \in Msgs : Packets(n)' = Packets(n)
  BY <1>1, TasksStay DEF fwdVars
<1>3. TypeOK'
  BY <1>1, <1>2 DEF DeliveryInv, TypeOK, ListOK, fwdVars, BagToSet
<1>4. TakenFirst'
  BY <1>1 DEF DeliveryInv, TakenFirst, IsTaken, fwdVars
<1>5. SubscribersAsked'
  BY <1>1 DEF DeliveryInv, SubscribersAsked, fwdVars
<1> QED
  BY <1>2, <1>3, <1>4, <1>5 DEF DeliveryInv

\* The observer routes a message: it has had no task, and nothing of it has been
\* written, because a message is received once.
LEMMA ObserveInv ==
    ASSUME DeliveryInv, NEW m \in Msgs, Observe(m)
    PROVE  DeliveryInv'
<1>1. /\ UNCHANGED <<route, asked, listVars, step, held, written>>
      /\ m \in inFlight /\ inFlight' = inFlight \ {m} /\ received' = Append(received, m)
      /\ sub' = [sub EXCEPT ![m] = route[TopicOf[m]]]
      /\ pc' = [pc EXCEPT ![m] = IF route[TopicOf[m]] = NULL THEN "done" ELSE "start"]
  BY DEF Observe, Chan!Receive
<1>2. /\ received \in Seq(Msgs) /\ sub \in [Msgs -> (Ids \X QoS) \cup {NULL}]
      /\ pc \in [Msgs -> {"none", "start", "find", "write", "full", "rest"} \cup Over]
      /\ route[TopicOf[m]] \in (Ids \X QoS) \cup {NULL}
  BY NullFacts DEF DeliveryInv, TypeOK
<1>3. pc[m] = "none" /\ step[m] = 1 /\ ~Sends(m)
  BY <1>1 DEF DeliveryInv, TakenFirst, Begins, Unsent, Sends
<1>4. \A n \in Msgs \ {m} : pc'[n] = pc[n] /\ step'[n] = step[n] /\ sub'[n] = sub[n]
  BY <1>1, <1>2
<1>5. /\ sub'[m] = route[TopicOf[m]] /\ step'[m] = 1
      /\ pc'[m] = IF sub'[m] = NULL THEN "done" ELSE "start"
  BY <1>1, <1>2, <1>3
<1>6. ~Sends(m)'
  BY <1>5 DEF Sends, Unsent
<1>7. TypeOK'
  <2>1. sub' \in [Msgs -> (Ids \X QoS) \cup {NULL}]
    BY <1>1, <1>2
  <2>2. \A n \in Msgs : sub'[n] # NULL => step'[n] <= Len(Packets(n)')
    <3> SUFFICES ASSUME NEW n \in Msgs, sub'[n] # NULL PROVE step'[n] <= Len(Packets(n)')
      OBVIOUS
    <3>1. CASE n # m
      <4>1. Packets(n)' = Packets(n) /\ sub[n] # NULL /\ step'[n] = step[n]
        BY <1>4, <3>1, PacketsFixed
      <4> QED
        BY <4>1 DEF DeliveryInv, TypeOK
    <3>2. CASE n = m
      <4>2. sub'[m] \in Ids \X QoS
        BY <2>1, <3>2
      <4>3. Len(Packets(m)') \in 1 .. 3
        BY <4>2, PacketCountsNext, Zenon DEF PacketCounts
      <4>4. \A l \in 1 .. 3 : 1 <= l
        OBVIOUS
      <4> QED
        BY <1>5, <3>2, <4>3, <4>4, Zenon
    <3> QED
      BY <3>1, <3>2
  <2>3. pc' \in [Msgs -> {"none", "start", "find", "write", "full", "rest"} \cup Over]
    BY <1>1, <1>2 DEF Over
  <2>4. inFlight' \subseteq Msgs /\ received' \in Seq(Msgs)
    BY <1>1, <1>2 DEF DeliveryInv, TypeOK
  <2> QED
    BY <1>1, <2>1, <2>2, <2>3, <2>4 DEF DeliveryInv, TypeOK, listVars, BagToSet
<1>8. WrittenBySteps' /\ StepsWritten'
  <2>1. BagToSet(written)' = BagToSet(written) \cup {}
    BY <1>1 DEF BagToSet
  <2>2. Advances(m, {})
    BY <1>3, <1>4, <2>1 DEF Advances
  <2> QED
    BY <1>6, <1>7, <2>2, AdvanceInv
<1>9. TakenFirst'
  <2>1. \A n \in Msgs : IsTaken(n)' <=> IsTaken(n) \/ n = m
    <3>1. /\ DOMAIN received = 1 .. Len(received) /\ Len(received) \in Nat
          /\ DOMAIN received' = 1 .. Len(received) + 1
          /\ received'[Len(received) + 1] = m
          /\ \A i \in 1 .. Len(received) : received'[i] = received[i]
      BY <1>1, <1>2
    <3>2. PICK l \in Nat : l = Len(received)
      BY <3>1
    <3>3. \A i \in 1 .. l + 1 : i = l + 1 \/ i \in 1 .. l
      BY <3>2
    <3>4. l + 1 \in 1 .. l + 1 /\ \A i \in 1 .. l : i \in 1 .. l + 1
      BY <3>2
    <3> QED
      BY <3>1, <3>2, <3>3, <3>4, Zenon DEF IsTaken
  <2> QED
    BY <1>1, <1>4, <2>1 DEF DeliveryInv, TakenFirst
<1>10. Begins'
  <2>1. /\ pc'[m] \in Unsent => step'[m] = 1
        /\ pc'[m] \in {"start", "find", "write", "full", "rest"} \cup Ended => sub'[m] # NULL
    BY <1>5 DEF Ended
  <2> QED
    BY <1>4, <2>1, Zenon DEF DeliveryInv, Begins
<1>11. SubscribersAsked'
  BY <1>1, <1>4, <1>5, NullFacts DEF DeliveryInv, SubscribersAsked
<1>12. WrittenOnce' /\ NeverPanics'
  BY <1>1, <1>4, <1>5 DEF DeliveryInv, WrittenOnce, NeverPanics, BagToSet
<1> QED
  BY <1>7, <1>8, <1>9, <1>10, <1>11, <1>12 DEF DeliveryInv

Forwarding == {"start", "find", "write", "full", "rest"}

\* A step of the task of m, to x at packet s.
TaskMoves(m, x, s) ==
    /\ pc[m] \in Forwarding /\ x \in {"find", "write", "full", "rest", "done"} \cup Ended
    /\ s \in 1 .. Len(Packets(m))
    /\ pc' = [pc EXCEPT ![m] = x] /\ step' = [step EXCEPT ![m] = s]
    /\ held' \in [Msgs -> Nat]
    /\ BagToSet(written)' \subseteq Ids \X Kinds \X Msgs \X {1, 2}
    /\ UNCHANGED <<inFlight, received, route, asked, sub>> /\ ListOK'

\* What it leaves alone, and the invariants that do not speak of the history.
LEMMA TaskMovesInv ==
    ASSUME DeliveryInv, NEW m \in Msgs, NEW x, NEW s, TaskMoves(m, x, s)
    PROVE  /\ TypeOK' /\ TakenFirst' /\ Begins' /\ SubscribersAsked' /\ NeverPanics'
           /\ \A n \in Msgs \ {m} : pc'[n] = pc[n] /\ step'[n] = step[n] /\ sub'[n] = sub[n]
           /\ pc'[m] = x /\ step'[m] = s /\ sub'[m] = sub[m] /\ sub[m] \in Ids \X QoS
           /\ Packets(m)' = Packets(m) /\ Len(Packets(m)) \in 1 .. 3 /\ Sends(m)'
           /\ step[m] \in 1 .. Len(Packets(m))
<1>1. /\ pc \in [Msgs -> {"none", "start", "find", "write", "full", "rest"} \cup Over]
      /\ step \in [Msgs -> 1 .. 3] /\ sub \in [Msgs -> (Ids \X QoS) \cup {NULL}]
      /\ step[m] <= Len(Packets(m)) /\ sub[m] \in Ids \X QoS /\ sub[m] # NULL
  BY DEF DeliveryInv, TypeOK, Begins, TaskMoves, Forwarding
<1>2. \A n \in Msgs : Packets(n)' = Packets(n)
  BY PacketsFixed DEF TaskMoves
<1>3. Len(Packets(m)) \in 1 .. 3
  BY <1>1, PacketFacts
<1>4. PICK l \in 1 .. 3 : l = Len(Packets(m))
  BY <1>3
<1>5. s \in 1 .. 3 /\ s <= l /\ step[m] \in 1 .. l
  BY <1>1, <1>4 DEF TaskMoves
<1>6. /\ \A n \in Msgs \ {m} : pc'[n] = pc[n] /\ step'[n] = step[n] /\ sub'[n] = sub[n]
      /\ pc'[m] = x /\ step'[m] = s /\ sub'[m] = sub[m]
  BY <1>1, <1>5 DEF TaskMoves
<1>7. TypeOK'
  <2>1. \A n \in Msgs : sub'[n] # NULL => step'[n] <= Len(Packets(n)')
    <3> SUFFICES ASSUME NEW n \in Msgs, sub'[n] # NULL PROVE step'[n] <= Len(Packets(n)')
      OBVIOUS
    <3>1. CASE n # m
      <4>1. sub[n] # NULL /\ step'[n] = step[n] /\ Packets(n)' = Packets(n)
        BY <1>2, <1>6, <3>1
      <4>2. step[n] <= Len(Packets(n))
        BY <4>1 DEF DeliveryInv, TypeOK
      <4> QED
        BY <4>1, <4>2
    <3>2. CASE n = m
      BY <1>2, <1>4, <1>5, <1>6, <3>2, Zenon
    <3> QED
      BY <3>1, <3>2
  <2>2. /\ pc' \in [Msgs -> {"none", "start", "find", "write", "full", "rest"} \cup Over]
        /\ step' \in [Msgs -> 1 .. 3]
    BY <1>1, <1>5 DEF TaskMoves, Ended, Over
  <2> QED
    BY <2>1, <2>2 DEF DeliveryInv, TypeOK, ListOK, TaskMoves
<1>8. TakenFirst'
  <2>1. \A n \in Msgs : IsTaken(n)' <=> IsTaken(n)
    BY DEF TaskMoves, IsTaken
  <2>2. IsTaken(m)
    BY DEF TaskMoves, Forwarding, DeliveryInv, TakenFirst
  <2>3. inFlight' = inFlight
    BY DEF TaskMoves
  <2> QED
    BY <1>6, <2>1, <2>2, <2>3, Zenon DEF DeliveryInv, TakenFirst
<1>9. x \notin Unsent /\ x # "panicked"
  BY DEF TaskMoves, Unsent, Ended
<1>10. Begins' /\ NeverPanics'
  BY <1>1, <1>6, <1>9, Zenon DEF DeliveryInv, Begins, NeverPanics
<1>11. SubscribersAsked'
  BY DEF DeliveryInv, SubscribersAsked, TaskMoves
<1>12. Sends(m)'
  BY <1>1, <1>6, <1>9 DEF Sends
<1> QED
  BY <1>1, <1>2, <1>3, <1>4, <1>5, <1>6, <1>7, <1>8, <1>10, <1>11, <1>12

\* The steps that write nothing: no packet is passed.
LEMMA MoveInv ==
    ASSUME DeliveryInv, NEW m \in Msgs, NEW x, TaskMoves(m, x, step[m]), written' = written,
           \/ x \in {"find", "write", "full"} /\ pc[m] \in {"start", "find", "write"}
           \/ x \in Ended
    PROVE  DeliveryInv'
<1>1. /\ TypeOK' /\ TakenFirst' /\ Begins' /\ SubscribersAsked' /\ NeverPanics'
      /\ \A n \in Msgs \ {m} : pc'[n] = pc[n] /\ step'[n] = step[n] /\ sub'[n] = sub[n]
      /\ pc'[m] = x /\ step'[m] = step[m] /\ sub'[m] = sub[m] /\ sub[m] \in Ids \X QoS
      /\ Packets(m)' = Packets(m) /\ Sends(m)' /\ step[m] \in 1 .. Len(Packets(m))
  BY TaskMovesInv
<1>2. BagToSet(written)' = BagToSet(written) \cup {}
  BY DEF BagToSet
<1>3. pc[m] \in Forwarding
  BY DEF TaskMoves
<1>4. \A k \in 1 .. 3, h \in {1, 2} : MayBeOut(m, k, h) => MayBeOut(m, k, h)'
  BY <1>1, <1>3 DEF MayBeOut, IsOut, Ended, Forwarding
<1>5. Advances(m, {})
  BY <1>1, <1>2, <1>4, Zenon DEF Advances
<1>6. \A k \in 1 .. Len(Packets(m)'), h \in {1, 2} : IsOut(m, k, h)' => Sends(m) /\ IsOut(m, k, h)
  <2> SUFFICES ASSUME NEW k \in 1 .. Len(Packets(m)'), NEW h \in {1, 2}, IsOut(m, k, h)'
               PROVE  Sends(m) /\ IsOut(m, k, h)
    OBVIOUS
  <2>1. x \notin {"rest", "done"}
    BY DEF Ended
  <2>2. k < step[m]
    BY <1>1, <2>1 DEF IsOut
  <2>3. pc[m] # "start"
    <3> SUFFICES ASSUME pc[m] = "start" PROVE FALSE
      OBVIOUS
    <3>1. step[m] = 1
      BY DEF DeliveryInv, Begins, Unsent
    <3>2. k >= 1 /\ k \in Nat
      <4>1. Len(Packets(m)') \in Nat
        BY <1>1, PacketFacts
      <4> QED
        BY <4>1
    <3> QED
      BY <2>2, <3>1, <3>2
  <2>4. Sends(m)
    BY <1>1, <1>3, <2>3, NullFacts DEF Sends, Unsent, Forwarding
  <2> QED
    BY <2>2, <2>4 DEF IsOut
<1>7. WrittenBySteps' /\ StepsWritten'
  BY <1>1, <1>5, <1>6, AdvanceInv
<1>8. WrittenOnce'
  BY DEF DeliveryInv, WrittenOnce, BagToSet
<1> QED
  BY <1>1, <1>7, <1>8 DEF DeliveryInv

\* The half of the packet that a task is at.
HalfAt(m, h) == <<Packets(m)[step[m]][1], Packets(m)[step[m]][2], m, h>>

\* It has not been written before: the kinds of the packets differ, and the task
\* is not beyond it.
LEMMA HalfIsNew ==
    ASSUME DeliveryInv, NEW m \in Msgs, sub[m] \in Ids \X QoS, step[m] \in 1 .. Len(Packets(m)),
           NEW h \in {1, 2}, pc[m] \in {"write", "full"} \/ (pc[m] = "rest" /\ h = 2)
    PROVE  HalfAt(m, h) \notin BagToSet(written) /\ HalfAt(m, h) \in Ids \X Kinds \X Msgs \X {1, 2}
<1>1. PICK w : w = HalfAt(m, h)
  OBVIOUS
<1>2. /\ w[1] = Packets(m)[step[m]][1] /\ w[2] = Packets(m)[step[m]][2]
      /\ w[3] = m /\ w[4] = h
  BY <1>1 DEF HalfAt
<1>3. ASSUME w \in BagToSet(written) PROVE FALSE
  <2>1. PICK k \in 1 .. Len(Packets(m)) : Packets(m)[k][2] = w[2] /\ MayBeOut(m, k, h)
    BY <1>2, <1>3 DEF DeliveryInv, WrittenBySteps
  <2>2. k = step[m]
    BY <1>2, <2>1, PacketFacts
  <2>3. step[m] \in 1 .. 3
    BY DEF DeliveryInv, TypeOK
  <2> QED
    BY <2>1, <2>2, <2>3 DEF MayBeOut, IsOut, Ended
<1>4. Packets(m)[step[m]][1] \in Ids /\ Packets(m)[step[m]][2] \in Kinds
  BY PacketFacts
<1> QED
  BY <1>1, <1>3, <1>4 DEF HalfAt

\* The steps that write the halves N of a packet.
LEMMA WritesInv ==
    ASSUME DeliveryInv, NEW m \in Msgs, NEW x, NEW s, NEW N,
           TaskMoves(m, x, s), pc[m] \in {"write", "full", "rest"},
           BagToSet(written)' = BagToSet(written) \cup N, WrittenOnce',
           \/ /\ x = "rest" /\ s = step[m] /\ pc[m] # "rest" /\ N = {HalfAt(m, 1)}
           \/ /\ \/ x = "done" /\ s = step[m] /\ s = Len(Packets(m))
                 \/ x = "find" /\ s = step[m] + 1
              /\ \/ pc[m] = "rest" /\ N = {HalfAt(m, 2)}
                 \/ N = {HalfAt(m, 1), HalfAt(m, 2)}
    PROVE  DeliveryInv'
<1>1. /\ TypeOK' /\ TakenFirst' /\ Begins' /\ SubscribersAsked' /\ NeverPanics'
      /\ \A n \in Msgs \ {m} : pc'[n] = pc[n] /\ step'[n] = step[n] /\ sub'[n] = sub[n]
      /\ pc'[m] = x /\ step'[m] = s /\ sub'[m] = sub[m] /\ sub[m] \in Ids \X QoS
      /\ Packets(m)' = Packets(m) /\ Len(Packets(m)) \in 1 .. 3 /\ Sends(m)'
      /\ step[m] \in 1 .. Len(Packets(m))
  BY TaskMovesInv
<1>2. Sends(m)
  BY <1>1, NullFacts DEF Sends, Unsent
<1>3. PICK l \in 1 .. 3 : l = Len(Packets(m))
  BY <1>1
<1>4. step[m] \in 1 .. l /\ s \in 1 .. l
  BY <1>1, <1>3 DEF TaskMoves
<1>5. \A k \in 1 .. 3, h \in {1, 2} : MayBeOut(m, k, h) => MayBeOut(m, k, h)'
  BY <1>1, <1>4 DEF MayBeOut, IsOut, Ended
<1>6. Advances(m, N)
  BY <1>1, <1>2, <1>5, Zenon DEF Advances
<1>0. PICK i \in 1 .. l : i = step[m]
  BY <1>4
<1>7. \A h \in {1, 2} : HalfAt(m, h) \in N => MayBeOut(m, i, h)'
  <2>1. HalfAt(m, 1) # HalfAt(m, 2)
    BY DEF HalfAt
  <2>2. CASE x = "rest" /\ s = step[m] /\ N = {HalfAt(m, 1)}
    <3>1. IsOut(m, i, 1)'
      BY <1>0, <1>1, <2>2 DEF IsOut
    <3> QED
      BY <2>1, <2>2, <3>1 DEF MayBeOut
  <2>3. CASE (x = "done" /\ s = step[m]) \/ s = step[m] + 1
    <3>1. \A h \in {1, 2} : IsOut(m, i, h)'
      BY <1>0, <1>1, <1>3, <2>3 DEF IsOut
    <3> QED
      BY <3>1 DEF MayBeOut
  <2> QED
    BY <2>2, <2>3
<1>8. \A w \in N : w = HalfAt(m, 1) \/ w = HalfAt(m, 2)
  OBVIOUS
<1>9. ASSUME NEW w \in N
      PROVE  /\ w[3] = m /\ Sends(m)'
             /\ \E k \in 1 .. Len(Packets(m)') :
                   /\ Packets(m)'[k][1] = w[1] /\ Packets(m)'[k][2] = w[2]
                   /\ MayBeOut(m, k, w[4])'
  <2>1. PICK h \in {1, 2} : w = HalfAt(m, h)
    BY <1>8
  <2>2. /\ w[1] = Packets(m)[i][1] /\ w[2] = Packets(m)[i][2]
        /\ w[3] = m /\ w[4] = h
    BY <1>0, <2>1 DEF HalfAt
  <2>3. MayBeOut(m, i, w[4])'
    BY <1>7, <2>1, <2>2, Zenon
  <2>4. /\ i \in 1 .. Len(Packets(m)')
        /\ Packets(m)'[i][1] = w[1] /\ Packets(m)'[i][2] = w[2]
    BY <1>1, <1>3, <2>2, Zenon
  <2> QED
    BY <1>1, <2>2, <2>3, <2>4, Zenon
<1>10. ASSUME NEW k \in 1 .. Len(Packets(m)'), NEW h \in {1, 2}, IsOut(m, k, h)'
       PROVE  \/ Sends(m) /\ IsOut(m, k, h)
              \/ <<Packets(m)'[k][1], Packets(m)'[k][2], m, h>> \in N
  <2>1. k \in 1 .. l
    BY <1>1, <1>3, Zenon
  <2>2. k < s \/ (k = s /\ (x = "done" \/ (x = "rest" /\ h = 1)))
    BY <1>1, <1>10 DEF IsOut
  <2>3. CASE k < step[m]
    BY <1>2, <2>3 DEF IsOut
  <2>4. CASE k = step[m] /\ pc[m] = "rest" /\ h = 1
    BY <1>2, <2>4 DEF IsOut
  <2>5. CASE k = step[m] /\ ~(pc[m] = "rest" /\ h = 1)
    <3>1. HalfAt(m, h) \in N
      BY <1>4, <2>1, <2>2, <2>5
    <3>2. HalfAt(m, h) = <<Packets(m)'[k][1], Packets(m)'[k][2], m, h>>
      BY <1>1, <2>5 DEF HalfAt
    <3> QED
      BY <3>1, <3>2
  <2>6. k <= step[m]
    BY <1>4, <2>1, <2>2
  <2> QED
    BY <1>4, <2>1, <2>3, <2>4, <2>5, <2>6
<1>11. WrittenBySteps' /\ StepsWritten'
  BY <1>1, <1>6, <1>9, <1>10, AdvanceInv
<1> QED
  BY <1>1, <1>11 DEF DeliveryInv

\* write_all takes one half or both.
LEMMA WriteInv ==
    ASSUME DeliveryInv, NEW m \in Msgs, Write(m) \/ WriteHalf(m)
    PROVE  DeliveryInv'
<1>1. /\ pc[m] \in {"write", "full", "rest"} /\ sub[m] \in Ids \X QoS
      /\ step[m] \in 1 .. 3 /\ step[m] <= Len(Packets(m))
      /\ held \in [Msgs -> Nat] /\ step \in [Msgs -> 1 .. 3]
      /\ BagToSet(written) \subseteq Ids \X Kinds \X Msgs \X {1, 2}
      /\ AllOnce(written)
  BY DEF Write, WriteHalf, Polled, DeliveryInv, TypeOK, Begins, WrittenOnce, AllOnce
<1>2. Len(Packets(m)) \in 1 .. 3
  BY <1>1, PacketFacts
<1>3. PICK l \in 1 .. 3 : l = Len(Packets(m))
  BY <1>2
<1>4. step[m] \in 1 .. l /\ step[m] \in 1 .. Len(Packets(m))
  BY <1>1, <1>3
<1>5. UNCHANGED <<inFlight, received, route, asked, sub, held>> /\ ListOK'
  <2>1. UNCHANGED <<inFlight, received, route, asked, sub, held>> /\ UNCHANGED <<conn, made, up, stalled, serving, phase>>
    BY DEF Write, WriteHalf, chanVars
  <2>2. ListOK
    BY DEF DeliveryInv, TypeOK, ListOK
  <2>3. waker' \in [Ids -> Msgs \cup {NULL}]
    BY <2>2 DEF Write, WriteHalf, Wakes, ListOK
  <2> QED
    BY <2>1, <2>2, <2>3 DEF ListOK
<1>6. \A h \in {1, 2} : Half(m, h) = SetToBag({HalfAt(m, h)})
  BY DEF Half, HalfAt, Target
<1>7. HalfAt(m, 1) # HalfAt(m, 2)
  BY DEF HalfAt
<1>8. ASSUME Written(m)
      PROVE  \E x, s : /\ pc' = [pc EXCEPT ![m] = x] /\ step' = [step EXCEPT ![m] = s]
                       /\ s \in 1 .. l
                       /\ \/ x = "done" /\ s = step[m] /\ s = Len(Packets(m))
                          \/ x = "find" /\ s = step[m] + 1
  <2>1. CASE step[m] = Len(Packets(m))
    <3>1. pc' = [pc EXCEPT ![m] = "done"] /\ step' = [step EXCEPT ![m] = step[m]]
      BY <1>1, <1>8, <2>1 DEF Written
    <3> QED
      BY <1>4, <2>1, <3>1
  <2>2. CASE step[m] # Len(Packets(m))
    <3>1. pc' = [pc EXCEPT ![m] = "find"] /\ step' = [step EXCEPT ![m] = step[m] + 1]
      BY <1>8, <2>2 DEF Written
    <3>2. step[m] + 1 \in 1 .. l
      BY <1>3, <1>4, <2>2
    <3> QED
      BY <3>1, <3>2
  <2> QED
    BY <2>1, <2>2
<1>9. CASE /\ pc[m] # "rest" /\ written' = (written (+) Half(m, 1)) (+) Half(m, 2) /\ Written(m)
  <2>1. PICK x, s : /\ pc' = [pc EXCEPT ![m] = x] /\ step' = [step EXCEPT ![m] = s]
                    /\ s \in 1 .. l
                    /\ \/ x = "done" /\ s = step[m] /\ s = Len(Packets(m))
                       \/ x = "find" /\ s = step[m] + 1
    BY <1>8, <1>9
  <2>2. \A h \in {1, 2} : /\ HalfAt(m, h) \notin BagToSet(written)
                           /\ HalfAt(m, h) \in Ids \X Kinds \X Msgs \X {1, 2}
    BY <1>1, <1>4, <1>9, HalfIsNew
  <2>3. PICK B : B = Plus(written, HalfAt(m, 1))
    OBVIOUS
  <2>4. BagToSet(B) = BagToSet(written) \cup {HalfAt(m, 1)} /\ AllOnce(B)
    BY <1>1, <2>2, <2>3, AddHalf, Zenon
  <2>5. PICK C : C = Plus(B, HalfAt(m, 2))
    OBVIOUS
  <2>6. HalfAt(m, 2) \notin BagToSet(B)
    BY <1>7, <2>2, <2>4
  <2>7. BagToSet(C) = BagToSet(B) \cup {HalfAt(m, 2)} /\ AllOnce(C)
    BY <2>4, <2>5, <2>6, AddHalf, Zenon
  <2>8. written' = C
    BY <1>6, <1>9, <2>3, <2>5 DEF Plus
  <2>9. BagToSet(written)' = BagToSet(written) \cup {HalfAt(m, 1), HalfAt(m, 2)} /\ WrittenOnce'
    BY <2>4, <2>7, <2>8 DEF BagToSet, WrittenOnce, AllOnce
  <2>10. TaskMoves(m, x, s)
    BY <1>1, <1>3, <1>5, <2>1, <2>2, <2>9 DEF TaskMoves, Forwarding
  <2> QED
    BY <1>1, <1>9, <2>1, <2>9, <2>10, WritesInv
<1>10. CASE /\ pc[m] # "rest" /\ written' = written (+) Half(m, 1)
            /\ pc' = [pc EXCEPT ![m] = "rest"] /\ step' = step
  <2>1. step' = [step EXCEPT ![m] = step[m]]
    BY <1>1, <1>10
  <2>2. HalfAt(m, 1) \notin BagToSet(written) /\ HalfAt(m, 1) \in Ids \X Kinds \X Msgs \X {1, 2}
    BY <1>1, <1>4, <1>10, HalfIsNew
  <2>3. PICK B : B = Plus(written, HalfAt(m, 1))
    OBVIOUS
  <2>4. BagToSet(B) = BagToSet(written) \cup {HalfAt(m, 1)} /\ AllOnce(B)
    BY <1>1, <2>2, <2>3, AddHalf, Zenon
  <2>5. written' = B
    BY <1>6, <1>10, <2>3 DEF Plus
  <2>6. BagToSet(written)' = BagToSet(written) \cup {HalfAt(m, 1)} /\ WrittenOnce'
    BY <2>4, <2>5 DEF BagToSet, WrittenOnce, AllOnce
  <2>7. TaskMoves(m, "rest", step[m])
    BY <1>1, <1>4, <1>5, <1>10, <2>1, <2>2, <2>6 DEF TaskMoves, Forwarding
  <2> QED
    BY <1>1, <1>10, <2>6, <2>7, WritesInv
<1>11. CASE /\ pc[m] = "rest" /\ written' = written (+) Half(m, 2) /\ Written(m)
  <2>1. PICK x, s : /\ pc' = [pc EXCEPT ![m] = x] /\ step' = [step EXCEPT ![m] = s]
                    /\ s \in 1 .. l
                    /\ \/ x = "done" /\ s = step[m] /\ s = Len(Packets(m))
                       \/ x = "find" /\ s = step[m] + 1
    BY <1>8, <1>11
  <2>2. HalfAt(m, 2) \notin BagToSet(written) /\ HalfAt(m, 2) \in Ids \X Kinds \X Msgs \X {1, 2}
    BY <1>1, <1>4, <1>11, HalfIsNew
  <2>3. PICK B : B = Plus(written, HalfAt(m, 2))
    OBVIOUS
  <2>4. BagToSet(B) = BagToSet(written) \cup {HalfAt(m, 2)} /\ AllOnce(B)
    BY <1>1, <2>2, <2>3, AddHalf, Zenon
  <2>5. written' = B
    BY <1>6, <1>11, <2>3 DEF Plus
  <2>6. BagToSet(written)' = BagToSet(written) \cup {HalfAt(m, 2)} /\ WrittenOnce'
    BY <2>4, <2>5 DEF BagToSet, WrittenOnce, AllOnce
  <2>7. TaskMoves(m, x, s)
    BY <1>1, <1>3, <1>5, <1>11, <2>1, <2>2, <2>6 DEF TaskMoves, Forwarding
  <2> QED
    BY <1>11, <2>1, <2>6, <2>7, WritesInv
<1> QED
  BY <1>9, <1>10, <1>11, Zenon DEF Write, WriteHalf, WithRest

\* The other steps of the task that forwards m.
LEMMA ForwardInv ==
    ASSUME DeliveryInv, NEW m \in Msgs, Start(m) \/ Find(m) \/ WriteNothing(m) \/ WriteFails(m) \/ UseAfterFree(m)
    PROVE  DeliveryInv'
<1>1. /\ pc[m] \in Forwarding /\ sub[m] \in Ids \X QoS
      /\ step[m] \in 1 .. 3 /\ step[m] <= Len(Packets(m))
      /\ held \in [Msgs -> Nat] /\ step \in [Msgs -> 1 .. 3]
      /\ conn \in [Ids -> Nat]
      /\ BagToSet(written) \subseteq Ids \X Kinds \X Msgs \X {1, 2}
  BY DEF Start, Find, WriteNothing, WriteFails, UseAfterFree, Polled, DeliveryInv, TypeOK, Begins, Forwarding
<1>2. Len(Packets(m)) \in 1 .. 3
  BY <1>1, PacketFacts
<1>3. PICK l \in 1 .. 3 : l = Len(Packets(m))
  BY <1>2
<1>4. step[m] \in 1 .. l
  BY <1>1, <1>3
<1>5. /\ UNCHANGED <<inFlight, received, route, asked, sub, step, written>> /\ ListOK'
      /\ step' = [step EXCEPT ![m] = step[m]]
      /\ BagToSet(written)' = BagToSet(written)
  <2>1. UNCHANGED <<inFlight, received, route, asked, sub, step, written>> /\ UNCHANGED <<conn, made, up, stalled, serving, phase>>
    BY DEF Start, Find, WriteNothing, WriteFails, UseAfterFree, chanVars, listVars
  <2>2. ListOK
    BY DEF DeliveryInv, TypeOK, ListOK
  <2>3. waker' \in [Ids -> Msgs \cup {NULL}]
    BY <2>2 DEF Start, Find, WriteNothing, WriteFails, UseAfterFree, listVars, Wakes, ListOK
  <2>4. ListOK'
    BY <2>1, <2>2, <2>3 DEF ListOK
  <2> QED
    BY <1>1, <2>1, <2>4 DEF BagToSet
<1>6. ASSUME NEW x, x \in {"find", "write", "full"} \cup Ended, pc' = [pc EXCEPT ![m] = x],
             held' \in [Msgs -> Nat]
      PROVE  TaskMoves(m, x, step[m])
  BY <1>1, <1>3, <1>4, <1>5, <1>6 DEF TaskMoves
<1>7. CASE Start(m)
  <2>1. ~(Level(m) > 0 /\ Publisher(m) = NULL)
    <3>1. QosOf[m] \in 0 .. 2 /\ sub[m][2] \in 0 .. 2 /\ PublisherOf[m] # NULL
      BY <1>1, NullFacts DEF QoS
    <3> QED
      BY <3>1 DEF Level, Publisher
  <2>2. pc' = [pc EXCEPT ![m] = "find"] /\ held' = held /\ pc[m] = "start"
    BY <1>7, <2>1 DEF Start
  <2> QED
    BY <1>1, <1>5, <1>6, <2>2, MoveInv
<1>8. CASE Find(m)
  <2>1. Packets(m)[step[m]][1] \in Ids
    BY <1>1, <1>3, <1>4, PacketFacts
  <2>2. conn[Target(m)] \in Nat
    BY <1>1, <2>1 DEF Target
  <2>3. held' \in [Msgs -> Nat]
    BY <1>1, <1>8, <2>2 DEF Find
  <2>4. pc[m] = "find" /\ (pc' = [pc EXCEPT ![m] = "failed"] \/ pc' = [pc EXCEPT ![m] = "write"])
    BY <1>8 DEF Find
  <2>5. CASE pc' = [pc EXCEPT ![m] = "failed"]
    BY <1>5, <1>6, <2>3, <2>4, <2>5, MoveInv DEF Ended
  <2>6. CASE pc' = [pc EXCEPT ![m] = "write"]
    BY <1>5, <1>6, <2>3, <2>4, <2>6, MoveInv
  <2> QED
    BY <2>4, <2>5, <2>6
<1>9. CASE WriteFails(m)
  <2>1. pc' = [pc EXCEPT ![m] = "failed"] /\ held' = held
    BY <1>9 DEF WriteFails
  <2> QED
    BY <1>1, <1>5, <1>6, <2>1, MoveInv DEF Ended
<1>10. CASE UseAfterFree(m)
  <2>1. pc' = [pc EXCEPT ![m] = "dangling"] /\ held' = held
    BY <1>10 DEF UseAfterFree
  <2> QED
    BY <1>1, <1>5, <1>6, <2>1, MoveInv DEF Ended
<1>11. CASE WriteNothing(m)
  <2>1. pc' = [pc EXCEPT ![m] = "full"] /\ held' = held /\ pc[m] = "write"
    BY <1>11 DEF WriteNothing
  <2> QED
    BY <1>1, <1>5, <1>6, <2>1, MoveInv
<1> QED
  BY <1>7, <1>8, <1>9, <1>10, <1>11

-----------------------------------------------------------------------------

\* The inductive invariant holds in every state, for all clients, topics,
\* messages and numbers of connections.
THEOREM DeliveryInvariance == Spec => []DeliveryInv
<1>1. Init => DeliveryInv
  <2> SUFFICES ASSUME Init PROVE DeliveryInv
    OBVIOUS
  <2>1. BagToSet(written) = {}
    BY DEF Init, EmptyBag, BagToSet, SetToBag
  <2>2. TypeOK
    <3>1. inFlight = {} /\ received = <<>> /\ asked = {} /\ up = {} /\ stalled = {} /\ serving = {}
          /\ phase = "up"
      BY DEF Init, Chan!Init
    <3>2. /\ conn = [c \in Ids |-> 0] /\ made = [c \in Ids |-> 0] /\ waker = [c \in Ids |-> NULL] /\ held = [m \in Msgs |-> 0] /\ step = [m \in Msgs |-> 1]
          /\ route = [t \in Topics |-> NULL] /\ sub = [m \in Msgs |-> NULL]
          /\ pc = [m \in Msgs |-> "none"]
      BY DEF Init
    <3>3. \A m \in Msgs : sub[m] = NULL
      BY <3>2
    <3>4. /\ conn \in [Ids -> Nat] /\ made \in [Ids -> Nat]
          /\ waker \in [Ids -> Msgs \cup {NULL}] /\ held \in [Msgs -> Nat]
          /\ step \in [Msgs -> 1 .. 3]
      BY <3>2, DeliveryAssumption
    <3>5. received \in Seq(Msgs)
      BY <3>1
    <3>6. /\ route \in [Topics -> (Ids \X QoS) \cup {NULL}]
          /\ sub \in [Msgs -> (Ids \X QoS) \cup {NULL}]
          /\ pc \in [Msgs -> {"none", "start", "find", "write", "full", "rest"} \cup Over]
      BY <3>2
    <3> QED
      BY <2>1, <3>1, <3>3, <3>4, <3>5, <3>6 DEF TypeOK
  <2>3. WrittenOnce /\ WrittenBySteps
    BY <2>1, Zenon DEF WrittenOnce, WrittenBySteps
  <2>4. StepsWritten
    BY DEF Init, StepsWritten, Sends
  <2>5. TakenFirst /\ Begins /\ SubscribersAsked /\ NeverPanics
    BY DEF Init, Chan!Init, TakenFirst, IsTaken, Begins, Ended, SubscribersAsked, NeverPanics
  <2> QED
    BY <2>2, <2>3, <2>4, <2>5 DEF DeliveryInv
<1>2. DeliveryInv /\ [Next]_dvars => DeliveryInv'
  <2> SUFFICES ASSUME DeliveryInv, [Next]_dvars PROVE DeliveryInv'
    OBVIOUS
  <2>1. CASE \E c \in Ids : Connect(c) \/ Break(c) \/ Stall(c) \/ Answer(c) \/ \E t \in Topics, q \in QoS : Subscribe(c, t, q)
    BY <2>1, ConnectInv, SubscribeInv
  <2>2. CASE \E m \in Msgs : Publish(m) \/ Observe(m) \/ ForwardStep(m)
    BY <2>2, PublishInv, ObserveInv, ForwardInv, WriteInv DEF ForwardStep
  <2>3. CASE CtrlC \/ ClearClients \/ ClearQueue
    BY <2>3, CtrlCInv
  <2>4. CASE UNCHANGED dvars
    <3>1. UNCHANGED <<chanVars, route, asked, listVars, fwdVars, written>>
      BY <2>4 DEF dvars
    <3>2. /\ Begins' /\ WrittenOnce' /\ WrittenBySteps' /\ StepsWritten' /\ NeverPanics'
          /\ \A n \in Msgs : Packets(n)' = Packets(n)
      BY <3>1, TasksStay DEF fwdVars
    <3>3. TypeOK'
      BY <3>1, <3>2 DEF DeliveryInv, TypeOK, fwdVars, chanVars, listVars, BagToSet
    <3>4. TakenFirst' /\ SubscribersAsked'
      BY <3>1 DEF DeliveryInv, TakenFirst, IsTaken, SubscribersAsked, chanVars, fwdVars
    <3> QED
      BY <3>2, <3>3, <3>4 DEF DeliveryInv
  <2> QED
    BY <2>1, <2>2, <2>3, <2>4 DEF Next
<1> QED
  BY <1>1, <1>2, PTL DEF Spec

\* Every variable keeps its type, and a task is always at one of its packets.
THEOREM TypeCorrect == Spec => []TypeOK
<1>1. DeliveryInv => TypeOK
  BY DEF DeliveryInv
<1> QED
  BY <1>1, DeliveryInvariance, PTL

\* A publisher that has begun to receive PUBACK or PUBREL can rely on the message
\* having been written to the subscriber as a whole, whatever connections broke
\* between the writes: the acknowledgement is a later packet of the task, and an
\* error ends the task.
THEOREM AckAfterWrite == Spec => []AckedIsWritten
<1>1. DeliveryInv => AckedIsWritten
  <2> SUFFICES ASSUME DeliveryInv, NEW m \in Msgs, NEW kind \in {"PUBACK", "PUBREL"},
                      IsBegun(PublisherOf[m], kind, m), NEW h \in {1, 2}
               PROVE  <<sub[m][1], "PUBLISH", m, h>> \in BagToSet(written)
    BY DEF AckedIsWritten, IsWritten, BagIn
  <2>1. PICK w \in BagToSet(written) : w = <<PublisherOf[m], kind, m, 1>>
    BY DEF IsBegun, BagIn
  <2>2. w[2] = kind /\ w[3] = m /\ w[4] = 1
    BY <2>1
  <2>3. PICK k \in 1 .. Len(Packets(m)) : Packets(m)[k][2] = kind /\ MayBeOut(m, k, 1)
    BY <2>1, <2>2 DEF DeliveryInv, WrittenBySteps
  <2>4. Sends(m) /\ sub[m] \in Ids \X QoS /\ step[m] \in 1 .. 3
    BY <2>1, <2>2 DEF DeliveryInv, WrittenBySteps, Sends, TypeOK
  <2>5. PICK j \in 1 .. k - 1 : Packets(m)[j][1] = sub[m][1] /\ Packets(m)[j][2] = "PUBLISH"
    BY <2>3, <2>4, PacketFacts
  <2>6. k <= step[m] /\ j < step[m] /\ j \in 1 .. Len(Packets(m))
    <3>1. Len(Packets(m)) \in 1 .. 3
      BY <2>4, PacketFacts
    <3>2. PICK l \in 1 .. 3 : l = Len(Packets(m))
      BY <3>1
    <3> QED
      BY <2>3, <2>4, <2>5, <3>2 DEF MayBeOut, IsOut
  <2>7. IsOut(m, j, h)
    BY <2>6 DEF IsOut
  <2> QED
    BY <2>4, <2>5, <2>6, <2>7, Zenon DEF DeliveryInv, StepsWritten
<1> QED
  BY <1>1, DeliveryInvariance, PTL

\* No half of a packet is written twice, and a message only to a client that
\* asked for its topic, its acknowledgements only to its publisher.
THEOREM WrittenAtMostOnce == Spec => []DeliveredOnce
<1>1. DeliveryInv => DeliveredOnce
  <2> SUFFICES ASSUME DeliveryInv, NEW w \in BagToSet(written)
               PROVE  /\ written[w] = 1
                      /\ w[2] = "PUBLISH" => <<w[1], TopicOf[w[3]]>> \in asked
                      /\ w[2] # "PUBLISH" => w[1] = PublisherOf[w[3]]
    BY DEF DeliveredOnce
  <2>1. PICK m \in Msgs : m = w[3]
    BY DEF DeliveryInv, TypeOK
  <2>2. PICK k \in 1 .. Len(Packets(m)) : Packets(m)[k][1] = w[1] /\ Packets(m)[k][2] = w[2]
    BY <2>1 DEF DeliveryInv, WrittenBySteps
  <2>3. sub[m] # NULL /\ sub[m] \in Ids \X QoS
    BY <2>1 DEF DeliveryInv, WrittenBySteps, Sends, TypeOK
  <2>4. /\ w[2] = "PUBLISH" => w[1] = sub[m][1]
        /\ w[2] # "PUBLISH" => w[1] = PublisherOf[m]
    BY <2>2, <2>3, PacketFacts
  <2>5. <<sub[m][1], TopicOf[m]>> \in asked
    BY <2>3 DEF DeliveryInv, SubscribersAsked
  <2> QED
    BY <2>1, <2>4, <2>5 DEF DeliveryInv, WrittenOnce
<1> QED
  BY <1>1, DeliveryInvariance, PTL

\* The publisher that forward unwraps is there whenever it is needed.
THEOREM ForwardNeverPanics == Spec => []NeverPanics
<1>1. DeliveryInv => NeverPanics
  BY DEF DeliveryInv
<1> QED
  BY <1>1, DeliveryInvariance, PTL

=============================================================================
