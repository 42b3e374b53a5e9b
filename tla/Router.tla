------------------------------- MODULE Router -------------------------------
(***************************************************************************)
(* The topic router: Trie of src/ds/trie.rs with the subscribe and route   *)
(* of message_broker/router.rs.  Client tasks insert subscribers while the *)
(* observer looks topics up; nothing but the pointers in the trie orders   *)
(* them.  One action per access to a node.                                 *)
(*                                                                         *)
(* The map of a node is a HashMap that two threads may touch at once, which*)
(* is undefined behaviour; here an access to it is atomic and a reference  *)
(* into it stays valid, the best that a build can do.                      *)
(***************************************************************************)
EXTENDS Naturals, Sequences

CONSTANTS
    Tasks,      \* client tasks, named by the client they serve
    Parts,      \* the strings between the slashes of a topic
    Topics,     \* the topics, non-empty sequences of parts
    Requests,   \* the SUBSCRIBE packets: sequences of <<topic, max_qos>>
    QoS,        \* service levels
    MaxNodes,   \* bound on the nodes of the trie
    MaxSubs,    \* bound on the SUBSCRIBE packets of a task
    MaxRemoves, \* bound on the calls of remove
    Spurious,   \* whether compare_exchange_weak fails spuriously on the target
    NULL

ASSUME RouterAssumption ==
    /\ Topics \subseteq Seq(Parts) \ {<<>>}
    /\ Requests \subseteq Seq(Topics \X QoS) \ {<<>>}
    /\ MaxNodes \in Nat /\ MaxSubs \in Nat /\ MaxRemoves \in Nat
    /\ Spurious \in BOOLEAN
    /\ NULL \notin Nat /\ NULL \notin Tasks \X QoS /\ NULL \notin Topics \X (Tasks \X QoS)

VARIABLES
    child,    \* Child.child: the node each part leads to
    sub,      \* Child.subscriber: <<client, max_qos>>
    used,     \* number of nodes besides the root, which is node 0
    pc,       \* where each task is in insert
    req,      \* the subscriptions of its packet that it has still to insert
    depth,    \* i: how many parts of the topic it has gone down
    cur,      \* the slot whose pointer it loads next
    ptr,      \* next: the node it loaded
    subs,     \* number of packets it has begun
    asked,    \* history: <<client, topic, max_qos>> of all packets
    acked,    \* history: the part of asked that a SUBACK has confirmed
    removes,  \* number of calls of remove that have removed a subscriber
    opc, otopic, odepth, ocur, optr,   \* the same of the observer in get
    routed    \* <<topic, subscriber>> if the last lookup found one

trieVars == <<child, sub, used>>
taskVars == <<pc, req, depth, cur, ptr, subs, asked, acked>>
obsVars == <<opc, otopic, odepth, ocur, optr, routed>>
rvars == <<trieVars, taskVars, obsVars, removes>>

Nodes == 0 .. MaxNodes
Instance == Tasks \X QoS
RootSlot == <<>>
Slots == {RootSlot} \cup (Nodes \X Parts)

\* Every variable holds a value of its type.
TypeOK ==
    /\ child \in [Nodes -> [Parts -> Nodes \cup {NULL}]]
    /\ sub \in [Nodes -> Instance \cup {NULL}]
    /\ used \in Nodes
    /\ pc \in [Tasks -> {"idle", "load", "get", "branch", "set", "ack"}]
    /\ req \in [Tasks -> Seq(Topics \X QoS)]
    /\ depth \in [Tasks -> Nat]
    /\ cur \in [Tasks -> Slots]
    /\ ptr \in [Tasks -> Nodes]
    /\ subs \in [Tasks -> 0 .. MaxSubs]
    /\ asked \subseteq Tasks \X Topics \X QoS
    /\ acked \subseteq asked
    /\ removes \in 0 .. MaxRemoves
    /\ opc \in {"idle", "load", "get", "val"}
    /\ otopic \in Topics \cup {NULL}
    /\ odepth \in Nat
    /\ ocur \in Slots
    /\ optr \in Nodes
    /\ routed \in (Topics \X Instance) \cup {NULL}

Init ==
    /\ child = [n \in Nodes |-> [p \in Parts |-> NULL]]
    /\ sub = [n \in Nodes |-> NULL]
    /\ used = 0
    /\ pc = [c \in Tasks |-> "idle"]
    /\ req = [c \in Tasks |-> <<>>]
    /\ depth = [c \in Tasks |-> 0]
    /\ cur = [c \in Tasks |-> RootSlot]
    /\ ptr = [c \in Tasks |-> 0]
    /\ subs = [c \in Tasks |-> 0]
    /\ asked = {} /\ acked = {} /\ removes = 0
    /\ opc = "idle" /\ otopic = NULL /\ odepth = 0 /\ ocur = RootSlot /\ optr = 0
    /\ routed = NULL

\* The pointer in a slot.  It is never null: a slot gets its node with its key.
Load(slot) == IF slot = RootSlot THEN 0 ELSE child[slot[1]][slot[2]]

-----------------------------------------------------------------------------
(* subscribe and insert, by a client task *)

Topic(c) == Head(req[c])[1]
Part(c) == Topic(c)[depth[c] + 1]

\* subscribe_topics: a SUBSCRIBE packet of the client.
Subscribe(c, r) ==
    /\ pc[c] = "idle" /\ subs[c] < MaxSubs
    /\ subs' = [subs EXCEPT ![c] = @ + 1]
    /\ req' = [req EXCEPT ![c] = r]
    /\ asked' = asked \cup {<<c, r[i][1], r[i][2]>> : i \in DOMAIN r}
    /\ pc' = [pc EXCEPT ![c] = "load"]
    /\ UNCHANGED <<trieVars, depth, cur, ptr, acked, obsVars, removes>>

\* insert: cur.load at the head of the loop, or after it.
LoadCur(c) ==
    /\ pc[c] = "load"
    /\ ptr' = [ptr EXCEPT ![c] = Load(cur[c])]
    /\ pc' = [pc EXCEPT ![c] = IF depth[c] < Len(Topic(c)) THEN "get" ELSE "set"]
    /\ UNCHANGED <<trieVars, req, depth, cur, subs, asked, acked, obsVars, removes>>

\* Mutant: the last part of the topic is not looked up.
GetBranchShort(c) ==
    /\ pc[c] = "get"
    /\ IF child[ptr[c]][Part(c)] = NULL
       THEN /\ pc' = [pc EXCEPT ![c] = "branch"]
            /\ UNCHANGED <<cur, depth, removes>>
       ELSE /\ pc' = [pc EXCEPT ![c] = "load"]
            /\ cur' = [cur EXCEPT ![c] = <<ptr[c], Part(c)>>]
            /\ depth' = [depth EXCEPT ![c] = Len(Topic(c))]
    /\ UNCHANGED <<trieVars, req, ptr, subs, asked, acked, obsVars, removes>>

\* insert: branch_map.get(part).
GetBranch(c) ==
    /\ pc[c] = "get"
    /\ IF child[ptr[c]][Part(c)] = NULL
       THEN /\ pc' = [pc EXCEPT ![c] = "branch"]
            /\ UNCHANGED <<cur, depth, removes>>
       ELSE /\ pc' = [pc EXCEPT ![c] = "load"]
            /\ cur' = [cur EXCEPT ![c] = <<ptr[c], Part(c)>>]
            /\ depth' = [depth EXCEPT ![c] = @ + 1]
    /\ UNCHANGED <<trieVars, req, ptr, subs, asked, acked, obsVars, removes>>

\* Mutant: the new branch is not put into the map.
CreateBranchLeak(c) ==
    /\ pc[c] = "branch"
    /\ pc' = [pc EXCEPT ![c] = "load"]
    /\ UNCHANGED <<trieVars, req, depth, cur, ptr, subs, asked, acked, obsVars, removes>>

\* insert: create_branch puts a new node into the map, in place of one that
\* another task has put there since the lookup; the loop starts over.
CreateBranch(c) ==
    /\ pc[c] = "branch" /\ used < MaxNodes
    /\ used' = used + 1
    /\ child' = [child EXCEPT ![ptr[c]][Part(c)] = used + 1]
    /\ pc' = [pc EXCEPT ![c] = "load"]
    /\ UNCHANGED <<sub, req, depth, cur, ptr, subs, asked, acked, obsVars, removes>>

\* set_subscriber, whose result subscribe ignores, and on to the next topic.
SetSubscriber(c) ==
    /\ pc[c] = "set"
    /\ \/ sub[ptr[c]] = NULL /\ sub' = [sub EXCEPT ![ptr[c]] = <<c, Head(req[c])[2]>>]
       \/ (sub[ptr[c]] # NULL \/ Spurious) /\ sub' = sub
    /\ req' = [req EXCEPT ![c] = Tail(@)]
    /\ pc' = [pc EXCEPT ![c] = IF Len(req[c]) > 1 THEN "load" ELSE "ack"]
    /\ depth' = [depth EXCEPT ![c] = 0]
    /\ cur' = [cur EXCEPT ![c] = RootSlot]
    /\ UNCHANGED <<child, used, ptr, subs, asked, acked, obsVars, removes>>

\* subscribe_topics: the SUBACK says Ok to every topic.
Ack(c) ==
    /\ pc[c] = "ack"
    /\ acked' = acked \cup {a \in asked : a[1] = c}
    /\ pc' = [pc EXCEPT ![c] = "idle"]
    /\ UNCHANGED <<trieVars, req, depth, cur, ptr, subs, asked, obsVars, removes>>

InsertStep(c) == LoadCur(c) \/ GetBranch(c) \/ CreateBranch(c) \/ SetSubscriber(c) \/ Ack(c)

-----------------------------------------------------------------------------
(* route and get, by the observer *)

\* route: the observer has a message on topic t.
Lookup(t) ==
    /\ opc = "idle"
    /\ otopic' = t
    /\ opc' = "load"
    /\ routed' = NULL
    /\ UNCHANGED <<trieVars, taskVars, odepth, ocur, optr, removes>>

\* get: cur.load at the head of the loop, or after it.
RouteLoad ==
    /\ opc = "load"
    /\ optr' = Load(ocur)
    /\ opc' = IF odepth < Len(otopic) THEN "get" ELSE "val"
    /\ UNCHANGED <<trieVars, taskVars, otopic, odepth, ocur, routed, removes>>

\* The lookup is over; its locals are gone.
Return ==
    /\ opc' = "idle"
    /\ otopic' = NULL /\ odepth' = 0 /\ ocur' = RootSlot /\ optr' = 0

\* Mutant: the lookup goes on where the map has no such part.
RouteGetUnchecked ==
    /\ opc = "get"
    /\ opc' = "load"
    /\ ocur' = <<optr, otopic[odepth + 1]>>
    /\ odepth' = odepth + 1
    /\ UNCHANGED <<otopic, optr, trieVars, taskVars, routed, removes>>

\* get: a part that is not in the map ends the lookup, with no subscriber.
RouteGet ==
    /\ opc = "get"
    /\ LET p == otopic[odepth + 1]
       IN  IF child[optr][p] = NULL
           THEN Return
           ELSE /\ opc' = "load"
                /\ ocur' = <<optr, p>>
                /\ odepth' = odepth + 1
                /\ UNCHANGED <<otopic, optr, removes>>
    /\ UNCHANGED <<trieVars, taskVars, routed, removes>>

\* get_subscriber.
RouteVal ==
    /\ opc = "val"
    /\ routed' = IF sub[optr] = NULL THEN NULL ELSE <<otopic, sub[optr]>>
    /\ Return
    /\ UNCHANGED <<trieVars, taskVars, removes>>

RouteStep == RouteLoad \/ RouteGet \/ RouteVal

-----------------------------------------------------------------------------
(* remove and clean_branch.  Only the tests call them, from one thread. *)

\* What a lookup that is not disturbed finds for topic t.
Walk(t) ==
    LET at[i \in 0 .. Len(t)] ==
            IF i = 0 THEN 0
            ELSE IF at[i - 1] = NULL THEN NULL ELSE child[at[i - 1]][t[i]]
    IN  at[Len(t)]
Found(t) == IF Walk(t) = NULL THEN NULL ELSE sub[Walk(t)]

Quiet == opc = "idle" /\ \A c \in Tasks : pc[c] = "idle"

\* delete_subscriber: compares the clients only.
DeleteSubscriber(n, c) ==
    /\ sub[n] # NULL /\ sub[n][1] = c
    /\ sub' = [sub EXCEPT ![n] = NULL]

\* remove; it changes nothing, and returns None or false, unless c is the
\* subscriber.
Remove(c, t) ==
    /\ Quiet /\ removes < MaxRemoves
    /\ Walk(t) # NULL /\ DeleteSubscriber(Walk(t), c)
    /\ asked' = {x \in asked : x[1] # c \/ x[2] # t}
    /\ acked' = acked \cap asked'
    /\ removes' = removes + 1
    /\ routed' = NULL
    /\ UNCHANGED <<child, used, pc, req, depth, cur, ptr, subs, opc, otopic, odepth, ocur, optr>>

\* Mutant: a node without branches counts as empty, whoever subscribes to it.
EmptyLeaf(n) ==
    LET empty[k \in Nodes] ==
            \A p \in Parts : child[k][p] # NULL => empty[child[k][p]]
    IN  empty[n]

\* dfs_empty_and_remove: nobody subscribes to the node or to one below it.
Empty(n) ==
    LET empty[k \in Nodes] ==
            /\ sub[k] = NULL
            /\ \A p \in Parts : child[k][p] # NULL => empty[child[k][p]]
    IN  empty[n]

\* clean_branch: the branches to empty nodes are taken out of the maps.  Nodes
\* that cannot be reached from the root are pruned, too, which nobody can see.
CleanBranch ==
    /\ Quiet
    /\ child' = [n \in Nodes |-> [p \in Parts |->
                   IF child[n][p] # NULL /\ Empty(child[n][p]) THEN NULL ELSE child[n][p]]]
    /\ UNCHANGED <<sub, used, taskVars, obsVars, removes>>

Next ==
    \/ \E c \in Tasks : (\E r \in Requests : Subscribe(c, r)) \/ InsertStep(c)
    \/ \E t \in Topics : Lookup(t)
    \/ RouteStep
    \/ \E c \in Tasks, t \in Topics : Remove(c, t)
    \/ CleanBranch

Spec == Init /\ [][Next]_rvars

\* A call runs on once it has begun: nothing in it waits.
FairSpec == Spec /\ WF_rvars(RouteStep) /\ \A c \in Tasks : WF_rvars(InsertStep(c))

-----------------------------------------------------------------------------

\* A message is routed only to a client that asked for its very topic, with a
\* service level it asked for, and was not removed since, although branches are
\* replaced while others walk over them.
RoutedAsked == routed # NULL => <<routed[2][1], routed[1], routed[2][2]>> \in asked

\* The loop of insert ends, although it starts over for every branch it makes
\* and other tasks replace branches meanwhile.
SubscribesEnd == \A c \in Tasks : pc[c] # "idle" ~> pc[c] = "idle"

\* clean_branch takes away only what no topic leads to: every topic keeps its
\* subscriber, and the branches that are left lead to one.
CleanKeepsRoutes ==
    [][used' = used /\ child' # child =>
         /\ \A t \in Topics : Found(t)' = Found(t)
         /\ \A n \in Nodes, p \in Parts : child'[n][p] # NULL => ~Empty(child[n][p])']_rvars

\* "subscribers receive messages from these topics": a client whose
\* SUBSCRIBE was answered with Ok is found under its topic, as long as nobody
\* else has asked for that topic.
AckedIsRouted ==
    \A a \in acked : (\A b \in asked : b[2] = a[2] => b[1] = a[1])
                     => Found(a[2]) # NULL

=============================================================================
