------------------------ MODULE MessageQueueProofs --------------------------
(***************************************************************************)
(* The message queue with one observer is safe for every number of client  *)
(* tasks, addresses and messages.                                          *)
(***************************************************************************)
EXTENDS MessageQueue, TLAPS

\* The observer is a thread of its own, and NULL is not an address.
LEMMA Threading ==
    /\ Observer \in Threads
    /\ Observer \notin Appenders
    /\ Appenders \subseteq Threads
    /\ NULL \notin Addrs
    /\ MaxAppends \in [Appenders -> Nat]
BY ListAssumption, ObserverAssumption DEF Threads

-----------------------------------------------------------------------------
(* The steps of append *)

\* The call of append: the new node is live, unlinked and holds a fresh value.
LEMMA EnqueueInv ==
    ASSUME IndInv, NEW p \in Appenders, Enqueue(p)
    PROVE  IndInv'
<1> USE Threading DEF IndInv, Enqueue, NewNode, Goto
<1>1. PICK a \in Addrs \ alive :
          /\ alive' = alive \cup {a}
          /\ node' = [node EXCEPT ![p] = a]
          /\ val' = [val EXCEPT ![a] = <<p, sent[p] + 1>>]
          /\ next' = [next EXCEPT ![a] = NULL]
  OBVIOUS
<1>2. TypeOK'
  BY <1>1 DEF TypeOK, ListTypeOK, AppendPCs, Pointer, Message
<1>3. PcsOK'
  <2>1. /\ \A q \in Appenders : q # p => pc'[q] = pc[q] /\ sent'[q] = sent[q]
        /\ pc'[p] = "load_head" /\ sent'[p] = sent[p] + 1
        /\ pc'[Observer] = pc[Observer]
    BY DEF TypeOK, ListTypeOK
  <2>2. sent[p] + 1 <= MaxAppends[p]
    <3>1. sent[p] < MaxAppends[p]
      OBVIOUS
    <3>2. sent[p] \in Nat
      BY DEF TypeOK, ListTypeOK
    <3>3. MaxAppends[p] \in Nat
      OBVIOUS
    <3> HIDE Threading DEF IndInv, Enqueue, NewNode, Goto
    <3> QED
      BY <3>1, <3>2, <3>3
  <2>3. PcsOK
    OBVIOUS
  <2> HIDE DEF IndInv, Enqueue, NewNode, Goto
  <2> QED
    BY <2>1, <2>2, <2>3 DEF PcsOK, AppendPCs
<1>4. /\ Live' = Live \cup {a}
      /\ a \notin Live
  BY <1>1 DEF Live, ObserverOK, TypeOK, ListTypeOK
<1>5. LinksOK'
  BY <1>1, <1>4 DEF LinksOK, TypeOK, ListTypeOK, Live
<1>6. NewNodesOK'
  BY <1>1, <1>4, SMTT(30) DEF NewNodesOK, LinksOK, TypeOK, ListTypeOK, Live, AppendPCs
<1>7. ObserverOK'
  BY <1>1 DEF ObserverOK, LinksOK, TypeOK, ListTypeOK, Live
<1>8. ValuesOK'
  <2>1. PICK m : m = <<p, sent[p] + 1>>
    OBVIOUS
  <2>2. sent[p] \in Nat /\ sent'[p] = sent[p] + 1
    BY DEF TypeOK, ListTypeOK
  <2>3. m \in Message /\ m[1] = p /\ m[2] = sent[p] + 1
    BY <2>1, <2>2 DEF Message
  <2>4. ~IsSent(m) /\ IsSent(m)'
    BY <2>2, <2>3 DEF IsSent
  <2>5. \A n \in Message : IsSent(n) => IsSent(n)'
    BY DEF IsSent, Message, TypeOK, ListTypeOK
  <2>6. \A i \in 1 .. Len(taken) : taken[i] # m
    BY <2>4 DEF AtMostOnce
  <2>7. (\A b \in alive : val'[b] = val[b]) /\ val'[a] = m
    BY <1>1, <2>1 DEF TypeOK, ListTypeOK
  <2>8. \A b \in alive : val[b] # m
    BY <2>4 DEF ValuesOK
  <2>9. taken' = taken
    OBVIOUS
  <2> HIDE DEF Enqueue, NewNode
  <2> QED
    BY <1>1, <2>3, <2>4, <2>5, <2>6, <2>7, <2>8, <2>9 DEF ValuesOK
<1>9. AtMostOnce'
  <2>1. \A n \in Message : IsSent(n) => IsSent(n)'
    BY DEF IsSent, Message, TypeOK, ListTypeOK
  <2>2. AtMostOnce /\ taken' = taken /\ taken \in Seq(Message)
    BY DEF TypeOK, ListTypeOK
  <2> HIDE DEF IndInv, Enqueue, NewNode
  <2> QED
    BY <2>1, <2>2 DEF AtMostOnce
<1>10. ClearingOK'
  <2>1. PICK m : m = <<p, sent[p] + 1>>
    OBVIOUS
  <2>2. ~IsSent(m) /\ \A n \in Message : IsSent(n) => IsSent(n)'
    BY <2>1 DEF IsSent, Message, TypeOK, ListTypeOK
  <2>3. queued \subseteq Message /\ queued' = queued /\ m \notin queued
    BY <2>2 DEF ClearingOK, TypeOK
  <2>4. Queued' = Queued
    <3>1. val'[a] = m /\ \A b \in Live : val'[b] = val[b]
      BY <1>1, <1>4, <2>1 DEF TypeOK, ListTypeOK, Live
    <3> HIDE DEF IndInv, Enqueue, NewNode
    <3> QED
      BY <1>4, <2>3, <3>1 DEF Queued
  <2>5. /\ next'[a] = NULL /\ (\A b \in Live : next'[b] = next[b])
        /\ NULL \notin Queued /\ a \notin Queued
    BY <1>1, <1>4 DEF TypeOK, ListTypeOK, Live, Queued
  <2>6. /\ node'[p] = a
        /\ \A q \in Appenders : q # p => node'[q] = node[q] /\ pc'[q] = pc[q]
        /\ pc'[Observer] = pc[Observer] /\ head' = head /\ clearing' = clearing
    BY <1>1 DEF TypeOK, ListTypeOK
  <2>7. /\ \A n \in queued : IsSent(n)
        /\ \A b \in Live : next[b] \in Queued => b \in Queued
        /\ \A q \in Appenders : pc[q] \in AppendPCs => node[q] \notin Queued
        /\ clearing /\ pc[Observer] \in {"none", "stopped"} => head \notin Queued
        /\ pc[Observer] = "stopped" => clearing
    BY DEF ClearingOK
  <2> HIDE DEF IndInv, Enqueue, NewNode
  <2>8. \A n \in queued' : IsSent(n)'
    BY <2>2, <2>3, <2>7
  <2>9. \A b \in Live' : next'[b] \in Queued' => b \in Queued'
    BY <1>4, <2>4, <2>5, <2>7
  <2>10. \A q \in Appenders : pc'[q] \in AppendPCs => node'[q] \notin Queued'
    BY <2>4, <2>5, <2>6, <2>7
  <2> QED
    BY <2>4, <2>6, <2>7, <2>8, <2>9, <2>10 DEF ClearingOK
<1> QED
  BY <1>2, <1>3, <1>5, <1>6, <1>7, <1>8, <1>9, <1>10

\* The steps that only read memory, or only use the waker: the links, the nodes
\* and the values are as before.
LEMMA ReadInv ==
    ASSUME IndInv, NEW p \in Appenders,
           \/ LoadHead(p) \/ ReloadHead(p) \/ CheckNext(p) \/ Advance(p) \/ Segfault(p),
           UNCHANGED <<waker, notified, clearing, queued>>
    PROVE  IndInv'
<1> USE Threading DEF IndInv, LoadHead, ReloadHead, CheckNext, Advance, Segfault, Goto, memVars
<1>1. TypeOK'
  <2>1. CASE LoadHead(p) \/ Segfault(p)
    BY <2>1 DEF TypeOK, ListTypeOK, AppendPCs
  <2>2. CASE ReloadHead(p)
    BY <2>2 DEF TypeOK, ListTypeOK, AppendPCs
  <2>3. CASE CheckNext(p)
    BY <2>3 DEF TypeOK, ListTypeOK, AppendPCs
  <2>4. CASE Advance(p)
    BY <2>4 DEF TypeOK, ListTypeOK, AppendPCs, Pointer
  <2> QED
    BY <2>1, <2>2, <2>3, <2>4
<1>6. PcsOK'
  BY DEF PcsOK, TypeOK, ListTypeOK, AppendPCs
<1>2. Live' = Live
  BY DEF Live, TypeOK, ListTypeOK, PcsOK, AppendPCs, TakePCs
<1>7. ClearingOK'
  BY <1>2 DEF ClearingOK, Queued, TypeOK, ListTypeOK, PcsOK, AppendPCs, IsSent
<1>3. LinksOK'
  BY <1>2 DEF LinksOK
<1>8. NewNodesOK'
  BY <1>2 DEF NewNodesOK, TypeOK, ListTypeOK, PcsOK, AppendPCs
<1>4. ObserverOK'
  BY DEF ObserverOK, TypeOK, ListTypeOK, PcsOK, AppendPCs
<1>5. ValuesOK' /\ AtMostOnce'
  BY DEF ValuesOK, AtMostOnce, IsSent
<1> QED
  BY <1>1, <1>3, <1>4, <1>5, <1>6, <1>7, <1>8

\* The accesses to the slot of the waker leave the list alone.
LEMMA WakerInv ==
    ASSUME IndInv, NEW p \in Appenders, SwapWaker(p) \/ Wake(p)
    PROVE  IndInv'
<1> USE Threading DEF IndInv, SwapWaker, Wake, Goto, memVars
<1>1. TypeOK'
  BY DEF TypeOK, ListTypeOK, AppendPCs, ReturnPCs, CallerPCs, Pointer
<1>6. PcsOK'
  BY DEF PcsOK, TypeOK, ListTypeOK, AppendPCs
<1>2. Live' = Live
  BY DEF Live, TypeOK, ListTypeOK, PcsOK, AppendPCs, TakePCs
<1>7. ClearingOK'
  BY <1>2 DEF ClearingOK, Queued, TypeOK, ListTypeOK, PcsOK, AppendPCs, IsSent
<1>3. LinksOK'
  BY <1>2 DEF LinksOK
<1>8. NewNodesOK'
  BY <1>2 DEF NewNodesOK, TypeOK, ListTypeOK, PcsOK, AppendPCs
<1>4. ObserverOK'
  BY DEF ObserverOK, TypeOK, ListTypeOK, PcsOK, AppendPCs
<1>5. ValuesOK' /\ AtMostOnce'
  BY DEF ValuesOK, AtMostOnce, IsSent
<1> QED
  BY <1>1, <1>3, <1>4, <1>5, <1>6, <1>7, <1>8

\* The steps of the observer between two calls of take_first.
LEMMA CallerInv ==
    ASSUME IndInv, 
           Ready \/ Register \/ Repoll \/ ClearDrop \/ ClearEnd
    PROVE  IndInv'
<1> USE Threading DEF IndInv, Ready, Register, Repoll, ClearDrop, ClearEnd, Goto, memVars
<1>1. TypeOK'
  BY DEF TypeOK, ListTypeOK, AppendPCs, ReturnPCs, CallerPCs, Pointer
<1>6. PcsOK'
  BY DEF PcsOK, TypeOK, ListTypeOK, AppendPCs
<1>2. Live' = Live
  BY DEF Live, TypeOK, ListTypeOK, PcsOK, AppendPCs, TakePCs
<1>7. ClearingOK'
  BY <1>2 DEF ClearingOK, Queued, TypeOK, ListTypeOK, PcsOK, AppendPCs, IsSent
<1>3. LinksOK'
  BY <1>2 DEF LinksOK
<1>8. NewNodesOK'
  BY <1>2 DEF NewNodesOK, TypeOK, ListTypeOK, PcsOK, AppendPCs
<1>4. ObserverOK'
  BY DEF ObserverOK, TypeOK, ListTypeOK, PcsOK, AppendPCs
<1>5. ValuesOK' /\ AtMostOnce'
  BY DEF ValuesOK, AtMostOnce, IsSent
<1> QED
  BY <1>1, <1>3, <1>4, <1>5, <1>6, <1>7, <1>8

\* A new head had no link leading to it, and becomes reachable once.
LEMMA CasHeadInv ==
    ASSUME IndInv, NEW p \in Appenders, CasHead(p),
           UNCHANGED <<waker, notified, clearing, queued>>
    PROVE  IndInv'
<1> USE Threading DEF IndInv, CasHead, Goto
<1>1. TypeOK'
  BY DEF TypeOK, ListTypeOK, AppendPCs, ReturnPCs, Pointer
<1>2. PcsOK'
  BY DEF PcsOK, TypeOK, ListTypeOK, AppendPCs
<1>3. Live' = Live
  BY DEF Live, TypeOK, ListTypeOK
<1>4. LinksOK'
  BY <1>3 DEF LinksOK, NewNodesOK, AppendPCs
<1>5. NewNodesOK'
  BY <1>3 DEF NewNodesOK, LinksOK, TypeOK, ListTypeOK, AppendPCs
<1>6. ObserverOK'
  BY DEF ObserverOK, TypeOK, ListTypeOK
<1>7. ValuesOK' /\ AtMostOnce'
  BY DEF ValuesOK, AtMostOnce, IsSent
<1>8. ClearingOK'
  BY <1>3 DEF ClearingOK, Queued, LinksOK, IsSent, TypeOK, ListTypeOK, AppendPCs
<1> QED
  BY <1>1, <1>2, <1>4, <1>5, <1>6, <1>7, <1>8

\* The exchange on the next of curr, which may be a freed node, a node of the
\* list, or a node another task has not linked yet: none of them had a next.
LEMMA CasNextInv ==
    ASSUME IndInv, NEW p \in Appenders, CasNext(p),
           UNCHANGED <<waker, notified, clearing, queued>>
    PROVE  IndInv'
<1> USE Threading DEF IndInv, CasNext, Goto
<1>1. TypeOK'
  BY DEF TypeOK, ListTypeOK, AppendPCs, ReturnPCs, Pointer
<1>2. PcsOK'
  BY DEF PcsOK, TypeOK, ListTypeOK, AppendPCs
<1>3. Live' = Live
  BY DEF Live, TypeOK, ListTypeOK
<1>4. /\ node[p] \in Live /\ node[p] # NULL /\ head # node[p]
      /\ \A a \in Live : next[a] # node[p]
      /\ \A q \in Appenders : pc[q] \in AppendPCs /\ node[q] = node[p] => q = p
  BY DEF NewNodesOK, AppendPCs, Live, TypeOK, ListTypeOK
<1>5. \A a \in Live : \/ next'[a] = next[a]
                      \/ /\ next'[a] = node[p] /\ next[a] = NULL /\ a = cur[p]
                         /\ pc'[p] = "appended"
  BY DEF TypeOK, ListTypeOK, Live
<1>6. LinksOK'
  <2>1. head' \in Live' \cup {NULL} /\ \A a \in Live' : next'[a] \in Live' \cup {NULL}
    BY <1>3, <1>4, <1>5 DEF LinksOK
  <2>2. \A a, b \in Live' : next'[a] = next'[b] => a = b \/ next'[a] = NULL
    BY <1>3, <1>4, <1>5 DEF LinksOK
  <2>3. \A a \in Live' : next'[a] = head' => head' = NULL
    BY <1>3, <1>4, <1>5 DEF LinksOK
  <2> QED
    BY <2>1, <2>2, <2>3 DEF LinksOK
<1>7. NewNodesOK'
  BY <1>3, <1>4, <1>5 DEF NewNodesOK, LinksOK, TypeOK, ListTypeOK, AppendPCs
<1>8. ObserverOK'
  <2>1. pc'[Observer] = pc[Observer] /\ head' = head /\ node' = node /\ cur' = cur
    BY DEF TypeOK, ListTypeOK
  <2>2. pc[Observer] \in {"load_next", "cas_take"} => head \in Live
    BY DEF ObserverOK, LinksOK
  <2> QED
    BY <2>1, <2>2, <1>5 DEF ObserverOK
<1>9. ValuesOK' /\ AtMostOnce'
  BY DEF ValuesOK, AtMostOnce, IsSent
<1>10. ClearingOK'
  <2>1. Queued' = Queued
    BY <1>3 DEF Queued
  <2>2. node[p] \notin Queued
    BY DEF ClearingOK, AppendPCs
  <2>3. \A a \in Live' : next'[a] \in Queued' => a \in Queued'
    BY <1>3, <1>5, <2>1, <2>2 DEF ClearingOK
  <2>4. \A q \in Appenders : pc'[q] \in AppendPCs => node'[q] \notin Queued'
    BY <2>1 DEF ClearingOK, TypeOK, ListTypeOK, AppendPCs
  <2> QED
    BY <2>1, <2>3, <2>4 DEF ClearingOK, IsSent, TypeOK, ListTypeOK
<1> QED
  BY <1>1, <1>2, <1>6, <1>7, <1>8, <1>9, <1>10

-----------------------------------------------------------------------------
(* The steps of take_first *)

\* take_first loads head: what the observer holds is the head.
LEMMA PollInv ==
    ASSUME IndInv, Poll
    PROVE  IndInv'
<1> USE Threading DEF IndInv, Poll, TakeFirst, Goto, memVars
<1>1. TypeOK'
  BY DEF TypeOK, ListTypeOK, ReturnPCs, TakePCs
<1>2. PcsOK'
  BY DEF PcsOK, TypeOK, ListTypeOK, TakePCs
<1>3. Live' = Live
  BY DEF Live, TypeOK, ListTypeOK
<1>4. LinksOK' /\ NewNodesOK'
  BY <1>3 DEF LinksOK, NewNodesOK, TypeOK, ListTypeOK
<1>5. ObserverOK'
  BY DEF ObserverOK, TypeOK, ListTypeOK
<1>6. ValuesOK' /\ AtMostOnce'
  BY DEF ValuesOK, AtMostOnce, IsSent
<1>7. ClearingOK'
  BY <1>3, <1>2 DEF ClearingOK, Queued, Live, IsSent, TypeOK, ListTypeOK
<1> QED
  BY <1>1, <1>2, <1>4, <1>5, <1>6, <1>7

\* take_first loads next: no append changes a next that is not NULL.
LEMMA LoadNextInv ==
    ASSUME IndInv, LoadNext(Observer), UNCHANGED <<waker, notified, clearing, queued>>
    PROVE  IndInv'
<1> USE Threading DEF IndInv, LoadNext, Goto, memVars
<1>1. TypeOK'
  BY DEF TypeOK, ListTypeOK, TakePCs, ObserverOK, Pointer
<1>2. PcsOK'
  BY DEF PcsOK, TypeOK, ListTypeOK, TakePCs
<1>3. Live' = Live
  BY DEF Live, TypeOK, ListTypeOK
<1>4. LinksOK' /\ NewNodesOK'
  BY <1>3 DEF LinksOK, NewNodesOK, TypeOK, ListTypeOK
<1>5. ObserverOK'
  BY DEF ObserverOK, TypeOK, ListTypeOK
<1>6. ValuesOK' /\ AtMostOnce'
  BY DEF ValuesOK, AtMostOnce, IsSent
<1>7. ClearingOK'
  BY <1>3, <1>2 DEF ClearingOK, Queued, Live, IsSent, TypeOK, ListTypeOK
<1> QED
  BY <1>1, <1>2, <1>4, <1>5, <1>6, <1>7

\* The exchange cannot fail, and the node it unlinks is no longer live: nothing
\* else leads to it.
LEMMA CasTakeInv ==
    ASSUME IndInv, CasTake(Observer), UNCHANGED <<waker, notified, clearing, queued>>
    PROVE  IndInv'
<1> USE Threading DEF IndInv, CasTake, Goto
<1>1. /\ head # NULL /\ node[Observer] = head /\ head \in Live
      /\ cur[Observer] \in {NULL, next[head]}
      /\ head' = cur[Observer] /\ pc'[Observer] = "free"
  BY DEF ObserverOK, LinksOK, TypeOK, ListTypeOK
<1>2. TypeOK'
  BY DEF TypeOK, ListTypeOK, ReturnPCs, TakePCs
<1>3. PcsOK'
  BY DEF PcsOK, TypeOK, ListTypeOK, TakePCs
<1>4. Live' = Live \ {head}
  BY <1>1 DEF Live, TypeOK, ListTypeOK
<1>5. \A a \in Live : next[a] # head
  BY <1>1 DEF LinksOK
<1>6. LinksOK'
  BY <1>1, <1>4, <1>5 DEF LinksOK
<1>7. NewNodesOK'
  <2>1. NULL \notin Live
    BY DEF Live, TypeOK, ListTypeOK
  <2>2. \A p \in Appenders : pc'[p] = pc[p]
    BY DEF TypeOK, ListTypeOK
  <2> QED
    BY <1>1, <1>4, <2>1, <2>2 DEF NewNodesOK
<1>8. ObserverOK'
  BY <1>1 DEF ObserverOK, Live
<1>9. ValuesOK' /\ AtMostOnce'
  BY DEF ValuesOK, AtMostOnce, IsSent
<1>10. ClearingOK'
  <2>1. Queued' = Queued \ {head}
    BY <1>4 DEF Queued
  <2>2. \A a \in Live' : next'[a] \in Queued' => a \in Queued'
    BY <1>4, <2>1 DEF ClearingOK
  <2>3. pc'[Observer] = "free" /\ \A q \in Appenders : pc'[q] = pc[q]
    BY <1>1 DEF TypeOK, ListTypeOK
  <2> QED
    BY <2>1, <2>2, <2>3 DEF ClearingOK, IsSent
<1> QED
  BY <1>2, <1>3, <1>6, <1>7, <1>8, <1>9, <1>10

\* The value of the freed node is new among the taken ones and leaves the nodes.
LEMMA FreeNodeInv ==
    ASSUME IndInv, FreeNode(Observer), UNCHANGED <<waker, notified, clearing, queued>>
    PROVE  IndInv'
<1> USE Threading DEF IndInv, FreeNode, Goto
<1>1. /\ node[Observer] \in alive
      /\ val[node[Observer]] \in Message /\ IsSent(val[node[Observer]])
  BY DEF ObserverOK, ValuesOK
<1>2. TypeOK'
  BY <1>1 DEF TypeOK, ListTypeOK, ReturnPCs, TakePCs
<1>3. PcsOK'
  BY DEF PcsOK, TypeOK, ListTypeOK, TakePCs
<1>4. Live' = Live
  BY DEF Live, TypeOK, ListTypeOK
<1>5. LinksOK' /\ NewNodesOK'
  BY <1>4 DEF LinksOK, NewNodesOK, TypeOK, ListTypeOK
<1>6. ObserverOK'
  BY DEF ObserverOK, TypeOK, ListTypeOK
<1>7. /\ taken \in Seq(Message) /\ Len(taken') = Len(taken) + 1
      /\ \A i \in 1 .. Len(taken) : taken'[i] = taken[i]
      /\ taken'[Len(taken')] = val[node[Observer]]
  BY <1>1 DEF TypeOK, ListTypeOK
<1>8. ValuesOK'
  BY <1>1, <1>7 DEF ValuesOK, IsSent
<1>9. AtMostOnce'
  BY <1>1, <1>7 DEF AtMostOnce, ValuesOK, IsSent
<1>10. ClearingOK'
  BY <1>4 DEF ClearingOK, Queued, IsSent, TypeOK, ListTypeOK
<1> QED
  BY <1>2, <1>3, <1>5, <1>6, <1>8, <1>9, <1>10

-----------------------------------------------------------------------------
(* The begin of clear *)

\* What the walk from the head comes to is live, and has its next with it.
LEMMA ReachedFacts ==
    ASSUME IndInv
    PROVE  /\ Reached \subseteq Live
           /\ head # NULL => head \in Reached
           /\ \A a \in Reached : next[a] # NULL => next[a] \in Reached
<1>1. Live \in SUBSET Addrs /\ Closed(Live)
  BY DEF IndInv, LinksOK, Live, Closed, TypeOK, ListTypeOK
<1>2. Reached \subseteq Live
  BY <1>1 DEF Reached
<1>3. head # NULL => head \in Reached
  BY DEF Reached, Closed, IndInv, TypeOK, ListTypeOK, Pointer
<1>4. \A a \in Reached : next[a] # NULL => next[a] \in Addrs
  BY DEF Reached, IndInv, TypeOK, ListTypeOK, Pointer
<1>5. ASSUME NEW a \in Reached, next[a] # NULL, NEW S \in SUBSET Addrs, Closed(S)
      PROVE  next[a] \in S
  BY <1>5 DEF Reached, Closed
<1> QED
  BY <1>2, <1>3, <1>4, <1>5, Zenon DEF Reached

\* A node that nothing leads to is not reached, and to every node but the head
\* that is reached leads one that is.
LEMMA ReachedFrom ==
    ASSUME IndInv, NEW b \in Reached, b # head
    PROVE  \E a \in Reached : next[a] = b
<1> SUFFICES ASSUME \A a \in Reached : next[a] # b PROVE FALSE
  OBVIOUS
<1>1. Closed(Reached \ {b})
  <2>1. head # NULL => head \in Reached \ {b}
    BY ReachedFacts
  <2>2. \A a \in Reached \ {b} : next[a] # NULL => next[a] \in Reached \ {b}
    BY ReachedFacts
  <2> QED
    BY <2>1, <2>2 DEF Closed
<1>2. Reached \ {b} \in SUBSET Addrs
  BY DEF Reached
<1> QED
  BY <1>1, <1>2 DEF Reached

\* When clear begins, the nodes that are in the list are those from which no
\* other node leads to one of them, and no append that is under way has its node
\* among them.
LEMMA CtrlCInv ==
    ASSUME IndInv, CtrlC
    PROVE  IndInv'
<1> USE Threading DEF IndInv, CtrlC, Goto, memVars
<1>1. Reached \subseteq Live /\ Live \subseteq Addrs /\ Live \subseteq alive
  BY ReachedFacts DEF Live, TypeOK, ListTypeOK
<1>2. TypeOK'
  <2>1. queued' \subseteq Message
    BY <1>1 DEF ValuesOK
  <2> QED
    BY <2>1 DEF TypeOK, ListTypeOK
<1>3. PcsOK'
  BY DEF PcsOK, TypeOK, ListTypeOK, AppendPCs
<1>4. Live' = Live
  BY DEF Live, TypeOK, ListTypeOK
<1>5. LinksOK'
  BY <1>4 DEF LinksOK
<1>6. NewNodesOK'
  BY <1>4 DEF NewNodesOK, TypeOK, ListTypeOK, AppendPCs
<1>7. ObserverOK'
  BY DEF ObserverOK, TypeOK, ListTypeOK
<1>8. ValuesOK' /\ AtMostOnce'
  BY DEF ValuesOK, AtMostOnce, IsSent
<1>9. ClearingOK'
  <2>1. Queued' = Reached
    BY <1>1, <1>4 DEF Queued, ValuesOK
  <2>2. \A m \in queued' : IsSent(m)'
    BY <1>1 DEF ValuesOK, IsSent
  <2>3. ASSUME NEW a \in Live, next[a] \in Reached
        PROVE  a \in Reached
    <3>1. next[a] \in Addrs /\ next[a] # head
      BY <1>1, <2>3 DEF LinksOK
    <3>2. PICK b \in Reached : next[b] = next[a]
      BY <2>3, <3>1, ReachedFrom
    <3> QED
      BY <1>1, <3>1, <3>2 DEF LinksOK
  <2>4. ASSUME NEW p \in Appenders, pc[p] \in AppendPCs
        PROVE  node[p] \notin Reached
    BY <1>1, <2>4, ReachedFrom DEF NewNodesOK
  <2>5. pc'[Observer] = "idle" /\ \A p \in Appenders : pc'[p] = pc[p]
    BY DEF TypeOK, ListTypeOK
  <2> QED
    BY <1>4, <2>1, <2>2, <2>3, <2>4, <2>5 DEF ClearingOK
<1> QED
  BY <1>2, <1>3, <1>5, <1>6, <1>7, <1>8, <1>9

-----------------------------------------------------------------------------
(* The theorems *)

\* The empty queue satisfies the invariant.
LEMMA InitInv == Init => IndInv
<1> SUFFICES ASSUME Init PROVE IndInv
  OBVIOUS
<1> USE Threading DEF Init, ListInit
<1>1. TypeOK
  <2>1. taken \in Seq(Message)
    OBVIOUS
  <2>4. queued \subseteq Message
    OBVIOUS
  <2>2. /\ waker \in BOOLEAN /\ notified \in BOOLEAN
        /\ clearing \in BOOLEAN /\ fault \in BOOLEAN
    BY Zenon
  <2>3. sent \in [Appenders -> Nat]
    OBVIOUS
  <2> QED
    BY <2>1, <2>2, <2>3, <2>4 DEF TypeOK, ListTypeOK, Pointer
<1>2. PcsOK /\ ClearingOK
  BY DEF PcsOK, ClearingOK, Queued, Live, AppendPCs
<1>3. LinksOK /\ NewNodesOK /\ ObserverOK
  BY DEF LinksOK, NewNodesOK, ObserverOK, Live, AppendPCs
<1>4. ValuesOK /\ AtMostOnce
  BY DEF ValuesOK, AtMostOnce
<1> QED
  BY <1>1, <1>2, <1>3, <1>4 DEF IndInv

\* Every step of a client task or of the observer preserves the invariant.
LEMMA NextInv == IndInv /\ [Next]_qvars => IndInv'
<1> SUFFICES ASSUME IndInv, [Next]_qvars PROVE IndInv'
  OBVIOUS
<1>1. CASE \E p \in Appenders : ProducerStep(p)
  BY <1>1, EnqueueInv, ReadInv, WakerInv, CasHeadInv, CasNextInv
  DEF ProducerStep, AppendStep
<1>2. CASE ObserverStep
  BY <1>2, PollInv, LoadNextInv, CasTakeInv, FreeNodeInv, CallerInv
  DEF ObserverStep, TakeStep
<1>3. CASE CtrlC
  BY <1>3, CtrlCInv
<1>4. CASE UNCHANGED qvars
  BY <1>4 DEF qvars, vars, memVars, IndInv, TypeOK, ListTypeOK, PcsOK, LinksOK, NewNodesOK,
     ObserverOK, ValuesOK, AtMostOnce, ClearingOK, Queued, Live, IsSent
<1> QED
  BY <1>1, <1>2, <1>3, <1>4 DEF Next

\* The inductive invariant holds in every state of the queue, whatever the
\* number of client tasks, addresses and messages.
THEOREM Invariance == Spec => []IndInv
BY InitInv, NextInv, PTL DEF Spec

\* Every variable of List and of MessageQueue keeps its type.
THEOREM TypeCorrect == Spec => []TypeOK
<1>1. IndInv => TypeOK
  BY DEF IndInv
<1> QED
  BY <1>1, Invariance, PTL

\* take_first hands out a message at most once, and only one that was enqueued.
THEOREM TakenAtMostOnce == Spec => []AtMostOnce
<1>1. IndInv => AtMostOnce
  BY DEF IndInv
<1> QED
  BY <1>1, Invariance, PTL

\* The observer never dereferences or frees a node that is not allocated.
THEOREM ObserverSafe == Spec => []ObserverNeverDangles
<1>1. IndInv => ObserverNeverDangles
  BY DEF IndInv, ObserverNeverDangles, Dangles, Dereferenced, ObserverOK, LinksOK, Live, PcsOK,
     TakePCs
<1> QED
  BY <1>1, Invariance, PTL

\* When Queue::clear has ended, no message that was in the queue when it began is
\* in the queue, although client tasks append during the clear and after it.
THEOREM ClearAlwaysLeavesNothing == Spec => []ClearLeavesNothing
<1>1. IndInv => ClearLeavesNothing
  <2> SUFFICES ASSUME IndInv, pc[Observer] = "stopped", NEW a \in Reached
               PROVE  val[a] \notin queued
    BY DEF ClearLeavesNothing
  <2>1. Live \ Queued \in SUBSET Addrs
    BY DEF IndInv, TypeOK, ListTypeOK, Live
  <2>2. Closed(Live \ Queued)
    BY DEF Closed, IndInv, LinksOK, ClearingOK
  <2>3. a \in Live \ Queued
    BY <2>1, <2>2 DEF Reached
  <2> QED
    BY <2>3 DEF Queued
<1> QED
  BY <1>1, Invariance, PTL

\* Before the first take a list only grows: the nodes that append walks over stay
\* allocated, a list that was seen non-empty is non-empty, and so is a next.
GrowsOnly ==
    taken = <<>> /\ pc[Observer] # "free" =>
        \A p \in Appenders :
            /\ pc[p] \in {"check_next", "advance", "cas_next"} => cur[p] \in alive
            /\ pc[p] = "advance" => next[cur[p]] # NULL
            /\ pc[p] = "reload_head" => head # NULL

\* Every step of append and of take_first preserves it.
LEMMA GrowsOnlyNext ==
    ASSUME IndInv, GrowsOnly, [Next]_qvars
    PROVE  GrowsOnly'
<1> USE Threading DEF IndInv, Goto, memVars
<1> SUFFICES ASSUME taken' = <<>>, pc'[Observer] # "free", NEW p \in Appenders
             PROVE  /\ pc'[p] \in {"check_next", "advance", "cas_next"} => cur'[p] \in alive'
                    /\ pc'[p] = "advance" => next'[cur'[p]] # NULL
                    /\ pc'[p] = "reload_head" => head' # NULL
  BY DEF GrowsOnly
<1>1. ASSUME NEW q \in Appenders, Enqueue(q)
      PROVE  /\ pc'[p] \in {"check_next", "advance", "cas_next"} => cur'[p] \in alive'
             /\ pc'[p] = "advance" => next'[cur'[p]] # NULL
             /\ pc'[p] = "reload_head" => head' # NULL
  BY <1>1 DEF Enqueue, NewNode, GrowsOnly, TypeOK, ListTypeOK
<1>2. ASSUME NEW q \in Appenders, LoadHead(q) \/ ReloadHead(q) \/ CheckNext(q) \/ Advance(q)
      PROVE  /\ pc'[p] \in {"check_next", "advance", "cas_next"} => cur'[p] \in alive'
             /\ pc'[p] = "advance" => next'[cur'[p]] # NULL
             /\ pc'[p] = "reload_head" => head' # NULL
  BY <1>2 DEF LoadHead, ReloadHead, CheckNext, Advance, GrowsOnly, TypeOK, ListTypeOK, LinksOK, Live
<1>3. ASSUME NEW q \in Appenders, CasHead(q) \/ CasNext(q)
      PROVE  /\ pc'[p] \in {"check_next", "advance", "cas_next"} => cur'[p] \in alive'
             /\ pc'[p] = "advance" => next'[cur'[p]] # NULL
             /\ pc'[p] = "reload_head" => head' # NULL
  <2>1. pc[q] \in AppendPCs /\ node[q] # NULL
    BY <1>3 DEF CasHead, CasNext, AppendPCs, NewNodesOK, Live, TypeOK, ListTypeOK
  <2> QED
    BY <1>3, <2>1 DEF CasHead, CasNext, GrowsOnly, TypeOK, ListTypeOK
<1>4. CASE TakeStep(Observer)
  <2>1. pc \in [Threads -> {"idle"} \cup AppendPCs \cup TakePCs \cup ReturnPCs \cup CallerPCs]
    BY DEF TypeOK, ListTypeOK
  <2>2. CASE LoadNext(Observer)
    <3>1. pc'[p] = pc[p] /\ cur'[p] = cur[p] /\ pc[Observer] # "free" /\ taken = <<>>
      BY <2>1, <2>2 DEF LoadNext, TypeOK, ListTypeOK
    <3>2. UNCHANGED <<head, next, alive>>
      BY <2>2 DEF LoadNext
    <3> QED
      BY <3>1, <3>2 DEF GrowsOnly
  <2>3. CASE CasTake(Observer)
    <3>1. head = node[Observer]
      BY <2>3 DEF CasTake, ObserverOK
    <3>2. pc'[Observer] = "free"
      BY <2>1, <2>3, <3>1 DEF CasTake
    <3> QED
      BY <3>2
  <2>4. CASE FreeNode(Observer)
    <3>1. PICK m : taken' = Append(taken, m)
      BY <2>4 DEF FreeNode
    <3>2. PICK s \in Seq(Message) : s = taken
      BY DEF TypeOK, ListTypeOK
    <3>3. Len(Append(s, m)) = Len(s) + 1 /\ Len(s) \in Nat
      BY <3>2
    <3>4. Len(taken') = 0
      OBVIOUS
    <3> QED
      BY <3>1, <3>2, <3>3, <3>4
  <2> QED
    BY <1>4, <2>2, <2>3, <2>4 DEF TakeStep
<1>5. ASSUME UNCHANGED <<head, next, alive, taken, cur>>,
             \A q \in Appenders : pc'[q] = pc[q] \/ pc'[q] \in {"idle", "waking"},
             pc[Observer] # "free"
      PROVE  /\ pc'[p] \in {"check_next", "advance", "cas_next"} => cur'[p] \in alive'
             /\ pc'[p] = "advance" => next'[cur'[p]] # NULL
             /\ pc'[p] = "reload_head" => head' # NULL
  BY <1>5 DEF GrowsOnly
<1>6. CASE Poll \/ Ready \/ Register \/ Repoll \/ ClearDrop \/ ClearEnd \/ CtrlC
  BY <1>5, <1>6 DEF Poll, TakeFirst, Ready, Register, Repoll, ClearDrop, ClearEnd, CtrlC, TypeOK, ListTypeOK
<1>7. ASSUME NEW q \in Appenders, Segfault(q) \/ SwapWaker(q) \/ Wake(q)
      PROVE  /\ pc'[p] \in {"check_next", "advance", "cas_next"} => cur'[p] \in alive'
             /\ pc'[p] = "advance" => next'[cur'[p]] # NULL
             /\ pc'[p] = "reload_head" => head' # NULL
  BY <1>5, <1>7 DEF Segfault, SwapWaker, Wake, TypeOK, ListTypeOK
<1>8. CASE UNCHANGED qvars
  BY <1>5, <1>8 DEF qvars, vars
<1> QED
  BY <1>1, <1>2, <1>3, <1>4, <1>6, <1>7, <1>8 DEF Next, ProducerStep, ObserverStep, AppendStep

\* Without take_first, append is safe for any number of client tasks: the second
\* load of head and the walk behind it never meet NULL or a freed node.
THEOREM AppendsAloneSafe == Spec => []FaultsOnlyAfterTake
<1>1. Init => GrowsOnly
  BY Threading DEF Init, ListInit, GrowsOnly
<1>2. IndInv /\ GrowsOnly => FaultsOnlyAfterTake
  <2> SUFFICES ASSUME IndInv, GrowsOnly, taken = <<>>, pc[Observer] # "free", NEW p \in Appenders
               PROVE  ~Dangles(p)
    BY DEF FaultsOnlyAfterTake
  <2>1. pc[p] \notin {"load_next", "free"}
    BY DEF IndInv, PcsOK, AppendPCs
  <2> QED
    BY <2>1 DEF Dangles, Dereferenced, GrowsOnly
<1> QED
  BY <1>1, <1>2, GrowsOnlyNext, Invariance, PTL DEF Spec

\* The queue implements the lossy channel: allocating a node sends its message,
\* freeing it receives the message, and no other step touches either side.
THEOREM QueueImplementsChannel == Spec => ImplementsChannel
<1> DEFINE flight == {val[a] : a \in alive}
<1>1. Init => Channel!Init
  BY DEF Init, ListInit, Channel!Init
<1>2. IndInv /\ [Next]_qvars => [Channel!Next]_(Channel!cvars)
  <2> SUFFICES ASSUME IndInv, [Next]_qvars PROVE [Channel!Next]_(Channel!cvars)
    OBVIOUS
  <2> USE Threading DEF Channel!Next, Channel!Send, Channel!Receive, Channel!cvars
  <2>1. ASSUME NEW p \in Appenders, Enqueue(p)
        PROVE  Channel!Next
    <3>1. PICK a \in Addrs \ alive :
              /\ alive' = alive \cup {a}
              /\ val' = [val EXCEPT ![a] = <<p, sent[p] + 1>>]
      BY <2>1 DEF Enqueue, NewNode
    <3>2. PICK m : m = <<p, sent[p] + 1>>
      OBVIOUS
    <3>3. m \in {p} \X (1 .. MaxAppends[p]) /\ ~IsSent(m)
      BY <2>1, <3>2 DEF Enqueue, NewNode, IsSent, IndInv, TypeOK, ListTypeOK
    <3>4. m \notin flight
      BY <3>3 DEF IndInv, ValuesOK
    <3>5. \A i \in DOMAIN taken : taken[i] # m
      <4>1. DOMAIN taken = 1 .. Len(taken)
        BY DEF IndInv, TypeOK, ListTypeOK
      <4>2. \A i \in 1 .. Len(taken) : IsSent(taken[i])
        BY DEF IndInv, AtMostOnce
      <4> QED
        BY <3>3, <4>1, <4>2, Zenon
    <3>6. flight' = flight \cup {m}
      BY <3>1, <3>2 DEF IndInv, TypeOK, ListTypeOK
    <3>7. taken' = taken
      BY <2>1 DEF Enqueue, NewNode
    <3> QED
      BY <3>3, <3>4, <3>5, <3>6, <3>7
  <2>2. ASSUME FreeNode(Observer)
        PROVE  Channel!Next
    <3>1. PICK m : m = val[node[Observer]]
      OBVIOUS
    <3>2. node[Observer] \in alive /\ alive' = alive \ {node[Observer]} /\ val' = val
      BY <2>2 DEF FreeNode, Goto, IndInv, ObserverOK
    <3>3. m \in flight /\ m \in Message /\ IsSent(m)
      BY <3>1, <3>2 DEF IndInv, ValuesOK
    <3>4. m \in {m[1]} \X (1 .. MaxAppends[m[1]]) /\ m[1] \in Appenders
      BY <3>3 DEF IsSent, Message, IndInv, PcsOK, TypeOK, ListTypeOK
    <3>5. flight' = flight \ {m}
      BY <3>1, <3>2 DEF IndInv, ValuesOK
    <3>6. taken' = Append(taken, m)
      BY <2>2, <3>1 DEF FreeNode
    <3> QED
      BY <3>3, <3>4, <3>5, <3>6
  <2>3. ASSUME UNCHANGED <<val, alive, taken>>
        PROVE  UNCHANGED Channel!cvars
    BY <2>3
  <2>4. \/ \E p \in Appenders : Enqueue(p)
        \/ FreeNode(Observer)
        \/ UNCHANGED <<val, alive, taken>>
    BY DEF Next, ProducerStep, AppendStep, LoadHead, CasHead, ReloadHead, CheckNext, Advance, CasNext,
       Segfault, SwapWaker, Wake, ObserverStep, Poll, TakeFirst, TakeStep, LoadNext, CasTake, Ready,
       Register, Repoll, ClearDrop, ClearEnd, CtrlC, qvars, vars, memVars
  <2> QED
    BY <2>1, <2>2, <2>3, <2>4
<1> QED
  BY <1>1, <1>2, Invariance, PTL DEF Spec, ImplementsChannel, Channel!Spec

-----------------------------------------------------------------------------
(* What gets out of reach *)

\* A step that leaves head, or sets it when it was NULL, and the next of the
\* nodes that have one, takes nothing out of reach.
LEMMA ReachedKept ==
    ASSUME IndInv, head' = head \/ head = NULL, 
           \A a \in Live : next'[a] = next[a] \/ next[a] = NULL
    PROVE  Reached \subseteq Reached'
<1> SUFFICES ASSUME NEW x \in Reached, NEW S \in SUBSET Addrs, Closed(S)'
             PROVE  x \in S
  BY DEF Reached
<1>1. Closed(S \cap Live)
  <2>1. head # NULL => head \in S \cap Live
    BY DEF Closed, IndInv, LinksOK
  <2>2. ASSUME NEW a \in S \cap Live, next[a] # NULL
        PROVE  next[a] \in S \cap Live
    <3>1. next'[a] = next[a]
      BY <2>2
    <3> QED
      BY <2>2, <3>1 DEF Closed, IndInv, LinksOK
  <2> QED
    BY <2>1, <2>2 DEF Closed
<1>2. S \cap Live \in SUBSET Addrs
  OBVIOUS
<1> QED
  BY <1>1, <1>2 DEF Reached

\* The exchange of take_first takes the head off, or everything if it stores a
\* NULL that is out of date.
LEMMA TakeLoses ==
    ASSUME IndInv, CasTake(Observer), cur[Observer] # NULL
    PROVE  Reached \subseteq Reached' \cup {head}
<1>1. /\ node[Observer] = head /\ head # NULL /\ cur[Observer] = next[head]
      /\ head' = cur[Observer] /\ next' = next /\ head \in Addrs
  BY DEF CasTake, Goto, IndInv, ObserverOK, TypeOK, ListTypeOK, Pointer
<1> SUFFICES ASSUME NEW x \in Reached, x # head, NEW S \in SUBSET Addrs, Closed(S)'
             PROVE  x \in S
  BY DEF Reached
<1>2. Closed(S \cup {head})
  BY <1>1 DEF Closed
<1>3. S \cup {head} \in SUBSET Addrs
  BY <1>1
<1> QED
  BY <1>2, <1>3 DEF Reached

\* The part of LostOnlyToRaces about the nodes that were in reach,
KeepsReached ==
    \/ Reached \subseteq Reached'
    \/ /\ pc[Observer] = "cas_take"
       /\ Reached \subseteq Reached' \cup {head} \/ cur[Observer] = NULL

\* and the part about a node that is appended.
AppendReaches ==
    \A p \in Appenders : pc[p] \in AppendPCs /\ pc'[p] = "appended" =>
        \/ node[p] \in Reached'
        \/ pc[p] = "cas_next" /\ cur[p] \notin Reached

\* A successful exchange of append puts the new node behind a node that is in
\* reach, or behind one that was out of reach before.
LEMMA CasAppends ==
    ASSUME IndInv, IndInv', NEW p \in Appenders, CasHead(p) \/ CasNext(p)
    PROVE  /\ Reached \subseteq Reached'
           /\ pc'[p] = "appended" =>
                 node[p] \in Reached' \/ (pc[p] = "cas_next" /\ cur[p] \notin Reached)
<1>1. next \in [Addrs -> Pointer] /\ cur[p] \in Pointer /\ Live \subseteq Addrs
  BY Threading DEF IndInv, TypeOK, ListTypeOK, Live
<1>2. Reached \subseteq Reached'
  <2>1. CASE CasHead(p)
    BY <2>1, ReachedKept DEF CasHead
  <2>2. CASE CasNext(p)
    <3>1. head' = head /\ \A a \in Live : next'[a] = next[a] \/ next[a] = NULL
      BY <1>1, <2>2 DEF CasNext
    <3> QED
      BY <3>1, ReachedKept
  <2> QED
    BY <2>1, <2>2
<1>3. ASSUME pc'[p] = "appended"
      PROVE  node[p] \in Reached' \/ (pc[p] = "cas_next" /\ cur[p] \notin Reached)
  <2>1. pc \in [Threads -> {"idle"} \cup AppendPCs \cup TakePCs \cup ReturnPCs \cup CallerPCs] /\ p \in Threads
    BY Threading DEF IndInv, TypeOK, ListTypeOK
  <2>2. node[p] # NULL
    <3>1. pc[p] \in AppendPCs
      BY DEF CasHead, CasNext, Goto, AppendPCs
    <3>2. node[p] \in Addrs
      BY <1>1, <3>1 DEF IndInv, NewNodesOK
    <3> QED
      BY <3>2, Threading
  <2>3. CASE CasHead(p)
    <3>1. head' = node[p]
      BY <1>3, <2>1, <2>3 DEF CasHead, Goto
    <3>2. (head # NULL => head \in Reached)'
      BY ReachedFacts, PTL
    <3> QED
      BY <2>2, <3>1, <3>2
  <2>4. CASE CasNext(p)
    <3>1. /\ pc[p] = "cas_next" /\ cur[p] # NULL /\ next[cur[p]] = NULL
          /\ next' = [next EXCEPT ![cur[p]] = node[p]]
      BY <1>3, <2>1, <2>4 DEF CasNext, Goto
    <3>2. next'[cur[p]] = node[p]
      BY <1>1, <3>1 DEF Pointer
    <3>3. (\A a \in Reached : next[a] # NULL => next[a] \in Reached)'
      BY ReachedFacts, PTL
    <3>4. cur[p] \in Reached' => node[p] \in Reached'
      BY <2>2, <3>2, <3>3
    <3> QED
      BY <1>2, <3>1, <3>4
  <2> QED
    BY <2>3, <2>4
<1> QED
  BY <1>2, <1>3

\* Messages get out of reach only where take_first races with append: its
\* exchange stores a NULL that is out of date, or an append links its node
\* behind one that has been taken off the list.
THEOREM LossesAreRaces == Spec => LostOnlyToRaces
<1>1. IndInv /\ IndInv' /\ [Next]_qvars => [KeepsReached /\ AppendReaches]_qvars
  <2> SUFFICES ASSUME IndInv, IndInv', Next
               PROVE  KeepsReached /\ AppendReaches
    OBVIOUS
  <2>1. pc \in [Threads -> {"idle"} \cup AppendPCs \cup TakePCs \cup ReturnPCs \cup CallerPCs]
    BY DEF IndInv, TypeOK, ListTypeOK
  <2>2. ASSUME NEW p \in Appenders, CasHead(p) \/ CasNext(p)
        PROVE  KeepsReached /\ AppendReaches
    <3>1. \A q \in Appenders : q # p => pc'[q] = pc[q]
      BY <2>1, <2>2, Threading DEF CasHead, CasNext, Goto
    <3>2. \A q \in Appenders : q # p /\ pc[q] \in AppendPCs => pc'[q] # "appended"
      BY <3>1 DEF AppendPCs
    <3> QED
      BY <2>2, <3>2, CasAppends DEF KeepsReached, AppendReaches
  <2>3. ASSUME \A p \in Appenders : pc[p] \in AppendPCs => pc'[p] # "appended"
        PROVE  AppendReaches
    BY <2>3 DEF AppendReaches
  <2>4. ASSUME CasTake(Observer)
        PROVE  KeepsReached /\ AppendReaches
    <3>1. \A q \in Appenders : pc'[q] = pc[q]
      BY <2>1, <2>4, Threading DEF CasTake, Goto
    <3>2. AppendReaches
      BY <2>3, <3>1 DEF AppendPCs
    <3>3. KeepsReached
      BY <2>4, TakeLoses DEF KeepsReached, CasTake, Goto
    <3> QED
      BY <3>2, <3>3
  <2>5. ASSUME NEW p \in Appenders, Enqueue(p)
        PROVE  KeepsReached /\ AppendReaches
    <3>1. PICK a \in Addrs \ alive : next' = [next EXCEPT ![a] = NULL]
      BY <2>5 DEF Enqueue, NewNode
    <3>2. head' = head /\ \A b \in Live : next'[b] = next[b]
      BY <2>5, <3>1 DEF Enqueue, NewNode, Live, IndInv, TypeOK, ListTypeOK
    <3>3. Reached \subseteq Reached'
      BY <3>2, ReachedKept
    <3>4. \A q \in Appenders : pc[q] \in AppendPCs => pc'[q] # "appended"
      BY <2>1, <2>5, Threading DEF Enqueue, NewNode, Goto, AppendPCs
    <3> QED
      BY <2>3, <3>3, <3>4 DEF KeepsReached
  <2>6. ASSUME UNCHANGED <<head, next>>
        PROVE  KeepsReached
    BY <2>6, ReachedKept DEF KeepsReached
  <2>7. ASSUME NEW p \in Appenders,
               \/ LoadHead(p) \/ ReloadHead(p) \/ CheckNext(p) \/ Advance(p)
               \/ Segfault(p) \/ SwapWaker(p) \/ Wake(p)
        PROVE  KeepsReached /\ AppendReaches
    <3>1. UNCHANGED <<head, next>>
      BY <2>7 DEF LoadHead, ReloadHead, CheckNext, Advance, Segfault, SwapWaker, Wake, memVars
    <3>2. pc' = pc \/ \E l : pc' = [pc EXCEPT ![p] = l] /\ l # "appended"
      BY <2>7 DEF LoadHead, ReloadHead, CheckNext, Advance, Segfault, SwapWaker, Wake, Goto
    <3>3. \A q \in Appenders : pc[q] \in AppendPCs => pc'[q] # "appended"
      BY <2>1, <3>2, Threading DEF AppendPCs
    <3> QED
      BY <2>3, <2>6, <3>1, <3>3
  <2>8. ASSUME \/ Poll \/ LoadNext(Observer) \/ FreeNode(Observer) \/ Ready \/ Register \/ Repoll
               \/ ClearDrop \/ ClearEnd \/ CtrlC
        PROVE  KeepsReached /\ AppendReaches
    <3>1. UNCHANGED <<head, next>>
      BY <2>8 DEF Poll, TakeFirst, LoadNext, FreeNode, Ready, Register, Repoll, ClearDrop, ClearEnd, CtrlC, memVars
    <3>2. \A q \in Appenders : pc'[q] = pc[q]
      BY <2>1, <2>8, Threading DEF Poll, TakeFirst, LoadNext, FreeNode, Ready, Register, Repoll,
         ClearDrop, ClearEnd, CtrlC, Goto
    <3>3. \A q \in Appenders : pc[q] \in AppendPCs => pc'[q] # "appended"
      BY <3>2 DEF AppendPCs
    <3> QED
      BY <2>3, <2>6, <3>1, <3>3
  <2> QED
    BY <2>2, <2>4, <2>5, <2>7, <2>8 DEF Next, ProducerStep, AppendStep, ObserverStep, TakeStep
<1>2. KeepsReached /\ AppendReaches <=>
        /\ \/ Reached \subseteq Reached'
           \/ /\ pc[Observer] = "cas_take"
              /\ Reached \subseteq Reached' \cup {head} \/ cur[Observer] = NULL
        /\ \A p \in Appenders : pc[p] \in AppendPCs /\ pc'[p] = "appended" =>
              \/ node[p] \in Reached'
              \/ pc[p] = "cas_next" /\ cur[p] \notin Reached
  BY DEF KeepsReached, AppendReaches
<1> QED
  BY <1>1, <1>2, Invariance, PTL DEF Spec, LostOnlyToRaces
=============================================================================
