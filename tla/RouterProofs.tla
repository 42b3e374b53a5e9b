---------------------------- MODULE RouterProofs ----------------------------
(***************************************************************************)
(* Proofs about the topic router, for every set of topics, tasks and nodes:*)
(* a message is routed only to a client that asked for its topic, whatever *)
(* the tasks do to the trie meanwhile.                                     *)
(***************************************************************************)
EXTENDS Router, Integers, WellFoundedInduction, SequenceTheorems, TLAPS

-----------------------------------------------------------------------------
(* Induction over the naturals *)

\* A set of naturals that is not empty has a least element.
LEMMA LeastNatural ==
    ASSUME NEW T \in SUBSET Nat, T # {}
    PROVE  \E x \in T : \A y \in T : x <= y
<1>1. PICK x \in T : \A y \in T : ~ (<<y, x>> \in OpToRel(<, Nat))
  BY NatLessThanWellFounded, WFMin, Zenon
<1>2. \A y \in T : ~(y < x)
  BY <1>1 DEF OpToRel
<1>3. \A y \in T : x <= y
  BY <1>2
<1> QED
  BY <1>3

\* A set that has 0, and with each number the next one, has every natural. It
\* is stated with a set, since the provers do not instantiate a predicate.
LEMMA NatSetInduction ==
    ASSUME NEW S, 0 \in S, \A n \in Nat : n \in S => n + 1 \in S
    PROVE  Nat \subseteq S
<1>1. SUFFICES ASSUME Nat \ S # {} PROVE FALSE
  OBVIOUS
<1>2. PICK x \in Nat \ S : \A y \in Nat \ S : x <= y
  BY <1>1, LeastNatural
<1>3. x - 1 \in Nat /\ ~(x <= x - 1)
  BY <1>2
<1>4. x - 1 \in S
  BY <1>2, <1>3
<1>5. (x - 1) + 1 \in S
  BY <1>3, <1>4
<1> QED
  BY <1>2, <1>5

-----------------------------------------------------------------------------
(* Topics and their prefixes *)

\* The first d parts of topic t, and one part more.
Pre(t, d) == SubSeq(t, 1, d)
Below(s, p) == Append(s, p)

\* Going down one part at a time goes through the prefixes of a topic.
LEMMA PrefixFacts ==
    ASSUME NEW t \in Seq(Parts)
    PROVE  /\ Len(t) \in Nat
           /\ \A d \in 0 .. Len(t) : Pre(t, d) \in Seq(Parts)
           /\ Pre(t, 0) = <<>>
           /\ Pre(t, Len(t)) = t
           /\ \A d \in 0 .. Len(t) : d < Len(t) =>
                 t[d + 1] \in Parts /\ Pre(t, d + 1) = Below(Pre(t, d), t[d + 1])
<1>1. \A d \in 0 .. Len(t) : Pre(t, d) \in Seq(Parts) /\ Len(Pre(t, d)) = d /\ \A i \in 1 .. d : Pre(t, d)[i] = t[i]
  BY DEF Pre
<1>2. Pre(t, 0) = <<>>
  BY DEF Pre
<1>3. Pre(t, Len(t)) = t
  BY DEF Pre
<1>4. ASSUME NEW d \in 0 .. Len(t), d < Len(t)
      PROVE  t[d + 1] \in Parts /\ Pre(t, d + 1) = Below(Pre(t, d), t[d + 1])
  <2>1. d + 1 \in 1 .. Len(t) /\ d + 1 \in 0 .. Len(t) /\ t[d + 1] \in Parts
    BY <1>4
  <2>2. PICK u \in Seq(Parts) : u = Pre(t, d) /\ Len(u) = d /\ \A i \in 1 .. d : u[i] = t[i]
    BY <1>1
  <2>3. PICK v \in Seq(Parts) : v = Pre(t, d + 1) /\ Len(v) = d + 1 /\ \A i \in 1 .. d + 1 : v[i] = t[i]
    BY <1>1, <2>1
  <2>4. v = Append(u, t[d + 1])
    <3>1. Append(u, t[d + 1]) \in Seq(Parts) /\ Len(Append(u, t[d + 1])) = d + 1
      BY <2>1, <2>2
    <3>2. \A i \in 1 .. d + 1 : Append(u, t[d + 1])[i] = t[i]
      BY <2>1, <2>2
    <3> QED
      BY <2>3, <3>1, <3>2, SeqEqual
  <2> QED
    BY <2>1, <2>2, <2>3, <2>4 DEF Below
<1> QED
  BY <1>1, <1>2, <1>3, <1>4

-----------------------------------------------------------------------------
(* A lookup that is not disturbed *)

\* One step of the walk along t in the maps ch, when g holds the steps before.
WalkStep(ch, t, g, i) ==
    IF i = 0 THEN 0
    ELSE IF g[i - 1] = NULL THEN NULL ELSE ch[g[i - 1]][t[i]]
IsWalk(ch, t, g) == g = [i \in 0 .. Len(t) |-> WalkStep(ch, t, g, i)]
WalkIn(ch, t) == (CHOOSE g : IsWalk(ch, t, g))[Len(t)]

\* The walk is defined.
LEMMA WalkDefined ==
    ASSUME NEW ch, NEW t \in Seq(Parts)
    PROVE  IsWalk(ch, t, CHOOSE g : IsWalk(ch, t, g))
<1> DEFINE Upto(g, d) == \A i \in 0 .. Len(t) : i <= d => g[i] = WalkStep(ch, t, g, i)
<1> DEFINE S == {d \in Nat : \E g : Upto(g, d)}
<1>1. 0 \in S
  <2> DEFINE g == [i \in 0 .. Len(t) |-> 0]
  <2>1. Upto(g, 0)
    BY DEF WalkStep
  <2> QED
    BY <2>1
<1>2. ASSUME NEW d \in Nat, d \in S
      PROVE  d + 1 \in S
  <2>1. PICK g : Upto(g, d)
    BY <1>2
  <2> DEFINE h == [i \in 0 .. Len(t) |-> WalkStep(ch, t, g, i)]
  <2>2. \A i \in 0 .. Len(t) : i <= d => h[i] = g[i]
    BY <2>1
  <2>3. ASSUME NEW i \in 0 .. Len(t), i <= d + 1
        PROVE  h[i] = WalkStep(ch, t, h, i)
    <3>1. h[i] = WalkStep(ch, t, g, i)
      OBVIOUS
    <3> HIDE DEF h
    <3>2. i # 0 => i - 1 \in 0 .. Len(t) /\ i - 1 <= d
      BY <2>3
    <3>3. i # 0 => h[i - 1] = g[i - 1]
      BY <2>2, <3>2
    <3> QED
      BY <3>1, <3>3 DEF WalkStep
  <2>4. Upto(h, d + 1)
    BY <2>3
  <2>5. d + 1 \in Nat
    OBVIOUS
  <2> HIDE DEF h, Upto
  <2> QED
    BY <2>4, <2>5
<1>3. Len(t) \in S
  <2> HIDE DEF S
  <2>1. Nat \subseteq S
    BY <1>1, <1>2, NatSetInduction
  <2> QED
    BY <2>1
<1>4. PICK g : Upto(g, Len(t))
  BY <1>3
<1> DEFINE h == [i \in 0 .. Len(t) |-> g[i]]
<1>5. ASSUME NEW i \in 0 .. Len(t)
      PROVE  h[i] = WalkStep(ch, t, h, i)
  <2>1. i # 0 => i - 1 \in 0 .. Len(t)
    OBVIOUS
  <2>2. h[i] = g[i] /\ (i # 0 => h[i - 1] = g[i - 1])
    BY <2>1
  <2>3. g[i] = WalkStep(ch, t, g, i)
    BY <1>4
  <2> HIDE DEF h
  <2> QED
    BY <2>2, <2>3 DEF WalkStep
<1>6. h = [i \in 0 .. Len(t) |-> h[i]]
  OBVIOUS
<1>7. IsWalk(ch, t, h)
  <2> HIDE DEF h
  <2> QED
    BY <1>5, <1>6, Zenon DEF IsWalk
<1> HIDE DEF h
<1> QED
  BY <1>7, Zenon

\* The walk begins at the root.
LEMMA WalkRoot ==
    ASSUME NEW ch
    PROVE  WalkIn(ch, <<>>) = 0
<1>1. PICK g : g = CHOOSE h : IsWalk(ch, <<>>, h)
  OBVIOUS
<1>2. <<>> \in Seq(Parts)
  OBVIOUS
<1>3. Len(<<>>) = 0
  OBVIOUS
<1>4. IsWalk(ch, <<>>, g)
  BY <1>1, <1>2, WalkDefined, Zenon
<1>5. g[0] = WalkStep(ch, <<>>, g, 0)
  BY <1>3, <1>4 DEF IsWalk
<1>6. WalkIn(ch, <<>>) = g[0]
  BY <1>1, <1>3 DEF WalkIn
<1> QED
  BY <1>5, <1>6 DEF WalkStep

\* The steps of a walk depend on the parts before only.
LEMMA WalkBelow ==
    ASSUME NEW ch, NEW s \in Seq(Parts), NEW p \in Parts
    PROVE  WalkIn(ch, Below(s, p)) = IF WalkIn(ch, s) = NULL THEN NULL ELSE ch[WalkIn(ch, s)][p]
<1>2. PICK t \in Seq(Parts) : t = Below(s, p) /\ Len(t) = Len(s) + 1 /\ t[Len(s) + 1] = p /\ \A i \in 1 .. Len(s) : t[i] = s[i]
  <2>1. Append(s, p) \in Seq(Parts) /\ Len(Append(s, p)) = Len(s) + 1
    OBVIOUS
  <2>2. Append(s, p)[Len(s) + 1] = p /\ \A i \in 1 .. Len(s) : Append(s, p)[i] = s[i]
    OBVIOUS
  <2> QED
    BY <2>1, <2>2, Zenon DEF Below
<1>3. PICK f : f = CHOOSE h : IsWalk(ch, s, h)
  OBVIOUS
<1>4. PICK g : g = CHOOSE h : IsWalk(ch, t, h)
  OBVIOUS
<1>5. PICK n \in Nat : n = Len(s)
  OBVIOUS
<1>6. /\ \A i \in 0 .. n : f[i] = WalkStep(ch, s, f, i)
      /\ \A i \in 0 .. n + 1 : g[i] = WalkStep(ch, t, g, i)
  <2>1. IsWalk(ch, s, f)
    BY <1>3, WalkDefined, Zenon
  <2>2. IsWalk(ch, t, g)
    BY <1>4, WalkDefined, Zenon
  <2>3. f = [i \in 0 .. n |-> WalkStep(ch, s, f, i)]
    BY <1>5, <2>1, Zenon DEF IsWalk
  <2>4. g = [i \in 0 .. n + 1 |-> WalkStep(ch, t, g, i)]
    BY <1>2, <1>5, <2>2, Zenon DEF IsWalk
  <2> QED
    BY <2>3, <2>4, Zenon
<1> DEFINE S == {i \in Nat : i <= n => f[i] = g[i]}
<1>7. 0 \in S
  BY <1>6 DEF WalkStep
<1>8. ASSUME NEW i \in Nat, i \in S
      PROVE  i + 1 \in S
  <2>1. CASE i + 1 <= n
    <3>1. i + 1 \in 0 .. n /\ i + 1 \in 0 .. n + 1 /\ i + 1 \in 1 .. n /\ i + 1 # 0 /\ (i + 1) - 1 = i
      BY <2>1
    <3>2. f[i] = g[i]
      BY <1>8, <2>1
    <3>3. s[i + 1] = t[i + 1]
      BY <1>2, <1>5, <3>1
    <3>4. f[i + 1] = WalkStep(ch, s, f, i + 1) /\ g[i + 1] = WalkStep(ch, t, g, i + 1)
      BY <1>6, <3>1
    <3>5. f[i + 1] = g[i + 1]
      BY <3>1, <3>2, <3>3, <3>4 DEF WalkStep
    <3> QED
      BY <3>5
  <2>2. CASE ~(i + 1 <= n)
    BY <2>2
  <2> QED
    BY <2>1, <2>2
<1>9. f[n] = g[n]
  <2>1. n \in S
    <3> HIDE DEF S
    <3> QED
      BY <1>7, <1>8, NatSetInduction
  <2> QED
    BY <2>1
<1>10. g[n + 1] = IF g[n] = NULL THEN NULL ELSE ch[g[n]][p]
  <2>1. n + 1 \in 0 .. n + 1 /\ n + 1 # 0 /\ (n + 1) - 1 = n /\ t[n + 1] = p
    BY <1>2, <1>5
  <2> QED
    BY <1>6, <2>1 DEF WalkStep
<1>11. WalkIn(ch, s) = f[n] /\ WalkIn(ch, t) = g[n + 1]
  BY <1>2, <1>3, <1>4, <1>5 DEF WalkIn
<1> QED
  BY <1>2, <1>9, <1>10, <1>11

\* Walk of the model is this walk in the trie as it is.
LEMMA WalkIsWalk == \A t : Walk(t) = WalkIn(child, t)
  BY DEF Walk, WalkIn, IsWalk, WalkStep

-----------------------------------------------------------------------------
(* The inductive invariant *)

\* The slot whose pointer leads to the node of prefix w.
SlotAt(path, L, s, w) ==
    \/ s = RootSlot /\ w = <<>>
    \/ /\ s # RootSlot /\ s[1] \in L /\ s[2] \in Parts
       /\ child[s[1]][s[2]] # NULL
       /\ w = Below(path[s[1]], s[2])

\* L holds the nodes that somebody may still walk to and path the prefix each of
\* them stands for, which never changes: a node that is replaced keeps its own.
TrieInv(path, L) ==
    /\ 0 \in L /\ path[0] = <<>>
    /\ \A n \in L : n <= used
    /\ \A n \in L, p \in Parts : child[n][p] # NULL =>
          child[n][p] \in L /\ path[child[n][p]] = Below(path[n], p)
    /\ \A n \in L : sub[n] # NULL => <<sub[n][1], path[n], sub[n][2]>> \in asked

\* Nodes that are not in use yet are empty.
FreshInv == \A n \in Nodes : n > used => sub[n] = NULL /\ \A p \in Parts : child[n][p] = NULL

\* Everything that task c has still to insert is asked for.
ReqAsked(c) == \A i \in DOMAIN req[c] : <<c, req[c][i][1], req[c][i][2]>> \in asked

\* A task in insert has gone down to the prefix that its depth says.
TaskInv(path, L, c) ==
    /\ pc[c] \in {"idle", "ack"} => cur[c] = RootSlot /\ depth[c] = 0
    /\ pc[c] \in {"load", "get", "branch", "set"} =>
          req[c] # <<>> /\ depth[c] \in 0 .. Len(Topic(c)) /\ ReqAsked(c)
    /\ pc[c] \in {"load", "get", "branch"} => SlotAt(path, L, cur[c], Pre(Topic(c), depth[c]))
    /\ pc[c] \in {"get", "branch", "set"} => ptr[c] \in L /\ path[ptr[c]] = Pre(Topic(c), depth[c])
    /\ pc[c] \in {"get", "branch"} => depth[c] < Len(Topic(c))
    /\ pc[c] = "set" => depth[c] = Len(Topic(c))

\* So has the observer.
ObsInv(path, L) ==
    /\ opc = "idle" => ocur = RootSlot /\ odepth = 0
    /\ opc # "idle" => otopic \in Topics /\ odepth \in 0 .. Len(otopic)
    /\ opc \in {"load", "get"} => SlotAt(path, L, ocur, Pre(otopic, odepth))
    /\ opc \in {"get", "val"} => optr \in L /\ path[optr] = Pre(otopic, odepth)
    /\ opc = "get" => odepth < Len(otopic)
    /\ opc = "val" => odepth = Len(otopic)

WalkInv(path, L) ==
    /\ TrieInv(path, L)
    /\ \A c \in Tasks : TaskInv(path, L, c)
    /\ ObsInv(path, L)

RouterInv ==
    /\ TypeOK /\ FreshInv /\ RoutedAsked
    /\ \E path \in [Nodes -> Seq(Parts)], L \in SUBSET Nodes : WalkInv(path, L)

-----------------------------------------------------------------------------
(* What the steps need of the invariant *)

\* The types of what a lookup goes over.
LEMMA TopicFacts ==
    ASSUME TypeOK
    PROVE  /\ Topics \subseteq Seq(Parts)
           /\ \A t \in Topics : t # <<>> /\ Len(t) \in Nat
           /\ NULL \notin Nodes
           /\ \A n \in Nodes, p \in Parts : child[n][p] \in Nodes \cup {NULL}
           /\ \A n \in Nodes : sub[n] \in Instance \cup {NULL}
           /\ 0 \in Nodes
<1>1. Topics \subseteq Seq(Parts) /\ \A t \in Topics : t # <<>>
  BY RouterAssumption
<1>2. \A t \in Topics : Len(t) \in Nat
  BY <1>1
<1>3. NULL \notin Nodes /\ 0 \in Nodes
  BY RouterAssumption DEF Nodes
<1> QED
  BY <1>1, <1>2, <1>3 DEF TypeOK

\* What a task has still to insert, while it is in insert.
LEMMA ReqFacts ==
    ASSUME TypeOK, NEW c \in Tasks, req[c] # <<>>, ReqAsked(c)
    PROVE  /\ Topic(c) \in Topics /\ Head(req[c])[2] \in QoS
           /\ <<c, Topic(c), Head(req[c])[2]>> \in asked
           /\ Tail(req[c]) \in Seq(Topics \X QoS)
           /\ Len(req[c]) > 1 => Tail(req[c]) # <<>>
           /\ \A i \in DOMAIN Tail(req[c]) :
                <<c, Tail(req[c])[i][1], Tail(req[c])[i][2]>> \in asked
<1>1. PICK r \in Seq(Topics \X QoS) : r = req[c]
  BY DEF TypeOK
<1>2. r # <<>> /\ \A i \in DOMAIN r : <<c, r[i][1], r[i][2]>> \in asked
  BY <1>1 DEF ReqAsked
<1>3. Head(r) = r[1] /\ 1 \in DOMAIN r /\ r[1] \in Topics \X QoS
  BY <1>2
<1>4. Tail(r) \in Seq(Topics \X QoS) /\ (Len(r) > 1 => Tail(r) # <<>>)
  <2>1. Len(Tail(r)) = Len(r) - 1 /\ Len(r) \in Nat /\ Len(<<>>) = 0
    BY <1>2
  <2>2. Tail(r) \in Seq(Topics \X QoS)
    BY <1>2
  <2>3. PICK u : u = Tail(r)
    OBVIOUS
  <2>4. Len(r) > 1 => Len(u) # Len(<<>>)
    BY <2>1, <2>3
  <2>5. Len(r) > 1 => u # <<>>
    BY <2>4, Zenon
  <2> QED
    BY <2>2, <2>3, <2>5, Zenon
<1>5. \A i \in DOMAIN Tail(r) : i + 1 \in DOMAIN r /\ Tail(r)[i] = r[i + 1]
  BY <1>2
<1>6. Head(r)[1] \in Topics /\ Head(r)[2] \in QoS
  BY <1>3
<1>7. <<c, Head(r)[1], Head(r)[2]>> \in asked
  BY <1>2, <1>3
<1>8. \A i \in DOMAIN Tail(r) : <<c, Tail(r)[i][1], Tail(r)[i][2]>> \in asked
  BY <1>2, <1>5
<1> QED
  BY <1>1, <1>4, <1>6, <1>7, <1>8 DEF Topic

\* The pointer in a slot leads to the node of the slot's prefix.
LEMMA LoadFacts ==
    ASSUME NEW path \in [Nodes -> Seq(Parts)], NEW L \in SUBSET Nodes, TrieInv(path, L),
           NEW s, NEW w, SlotAt(path, L, s, w)
    PROVE  Load(s) \in L /\ path[Load(s)] = w
  BY DEF TrieInv, SlotAt, Load

\* A node of a prefix and a part that its map has make the slot of the longer
\* prefix.
LEMMA SlotFacts ==
    ASSUME TypeOK, NEW path \in [Nodes -> Seq(Parts)], NEW L \in SUBSET Nodes,
           NEW t \in Topics, NEW d \in 0 .. Len(t), d < Len(t),
           NEW n \in L, path[n] = Pre(t, d)
    PROVE  /\ t[d + 1] \in Parts /\ d + 1 \in 0 .. Len(t)
           /\ <<n, t[d + 1]>> \in Slots
           /\ child[n][t[d + 1]] # NULL => SlotAt(path, L, <<n, t[d + 1]>>, Pre(t, d + 1))
<1>1. t \in Seq(Parts) /\ Len(t) \in Nat
  BY TopicFacts
<1>2. t[d + 1] \in Parts /\ Pre(t, d + 1) = Below(Pre(t, d), t[d + 1])
  BY <1>1, PrefixFacts
<1>3. d + 1 \in 0 .. Len(t)
  BY <1>1
<1>4. PICK q \in Parts : q = t[d + 1]
  BY <1>2
<1>5. <<n, q>> # RootSlot /\ <<n, q>>[1] = n /\ <<n, q>>[2] = q
  BY DEF RootSlot
<1>6. <<n, q>> \in Slots
  BY DEF Slots
<1> QED
  BY <1>2, <1>3, <1>4, <1>5, <1>6 DEF SlotAt

\* A step that keeps the nodes that are walked to, their prefixes and the keys
\* of their maps, and takes back nothing that was asked for.
Extends(path, L, path2, L2) ==
    /\ L \subseteq L2 /\ asked \subseteq asked'
    /\ \A n \in L : path2[n] = path[n]
    /\ \A n \in L, p \in Parts : child[n][p] # NULL => child'[n][p] # NULL

\* Such a step does not disturb a task that does not take it,
LEMMA TaskKept ==
    ASSUME NEW path, NEW L, NEW path2, NEW L2, Extends(path, L, path2, L2),
           NEW c, TaskInv(path, L, c),
           pc'[c] = pc[c], req'[c] = req[c], depth'[c] = depth[c],
           cur'[c] = cur[c], ptr'[c] = ptr[c]
    PROVE  TaskInv(path2, L2, c)'
<1>1. Topic(c)' = Topic(c)
  BY DEF Topic
<1>2. ReqAsked(c) => ReqAsked(c)'
  BY DEF ReqAsked, Extends
<1>4. ptr[c] \in L => ptr[c] \in L2 /\ path2[ptr[c]] = path[ptr[c]]
  BY DEF Extends
<1>5. SlotAt(path, L, cur[c], Pre(Topic(c), depth[c])) => SlotAt(path2, L2, cur[c], Pre(Topic(c), depth[c]))'
  <2>1. Pre(Topic(c), depth[c])' = Pre(Topic(c), depth[c])
    BY <1>1
  <2> QED
    BY <2>1 DEF SlotAt, Extends
<1> QED
  BY <1>1, <1>2, <1>4, <1>5 DEF TaskInv

\* and not the observer.
LEMMA ObsKept ==
    ASSUME NEW path, NEW L, NEW path2, NEW L2, Extends(path, L, path2, L2),
           ObsInv(path, L), UNCHANGED <<opc, otopic, odepth, ocur, optr>>
    PROVE  ObsInv(path2, L2)'
<1>2. optr \in L => optr \in L2 /\ path2[optr] = path[optr]
  BY DEF Extends
<1>3. SlotAt(path, L, ocur, Pre(otopic, odepth)) => SlotAt(path2, L2, ocur, Pre(otopic, odepth))'
  BY DEF SlotAt, Extends
<1> QED
  BY <1>2, <1>3 DEF ObsInv

\* The premises of every step.
Before(path, L) ==
    /\ path \in [Nodes -> Seq(Parts)] /\ L \in SUBSET Nodes
    /\ TypeOK /\ FreshInv /\ RoutedAsked /\ WalkInv(path, L)

\* A step of one task that leaves the trie and the observer alone keeps the
\* invariant if it keeps the task's own part of it.
LEMMA TaskStep ==
    ASSUME NEW path, NEW L, Before(path, L), NEW c \in Tasks,
           UNCHANGED trieVars, UNCHANGED obsVars, asked \subseteq asked',
           \A d \in Tasks : d # c =>
              /\ pc'[d] = pc[d] /\ req'[d] = req[d] /\ depth'[d] = depth[d]
              /\ cur'[d] = cur[d] /\ ptr'[d] = ptr[d],
           TaskInv(path, L, c)', TypeOK'
    PROVE  Before(path, L)'
<1>1. Extends(path, L, path, L)
  BY DEF Extends, trieVars
<1>2. \A d \in Tasks : TaskInv(path, L, d)'
  BY <1>1, TaskKept DEF Before, WalkInv
<1>3. ObsInv(path, L)'
  <2>1. UNCHANGED <<opc, otopic, odepth, ocur, optr>>
    BY DEF obsVars
  <2> QED
    BY <1>1, <2>1, ObsKept DEF Before, WalkInv
<1>4. TrieInv(path, L)'
  BY DEF Before, WalkInv, TrieInv, trieVars
<1>5. FreshInv'
  BY DEF Before, FreshInv, trieVars
<1>6. RoutedAsked'
  BY DEF Before, RoutedAsked, obsVars
<1> QED
  BY <1>2, <1>3, <1>4, <1>5, <1>6 DEF Before, WalkInv

\* A packet makes all it asks for known before its first insert.
LEMMA SubscribeStep ==
    ASSUME NEW path, NEW L, Before(path, L), NEW c \in Tasks, NEW r \in Requests, Subscribe(c, r)
    PROVE  Before(path, L)'
<1>1. r \in Seq(Topics \X QoS) /\ r # <<>>
  BY RouterAssumption
<1>2. \A i \in DOMAIN r : r[i][1] \in Topics /\ r[i][2] \in QoS
  BY <1>1
<1>3. TypeOK
  BY DEF Before
<1>4. TypeOK'
  <2>1. asked' \subseteq Tasks \X Topics \X QoS /\ asked \subseteq asked'
    BY <1>2, <1>3 DEF Subscribe, TypeOK
  <2>2. subs' \in [Tasks -> 0 .. MaxSubs]
    BY <1>3, RouterAssumption DEF Subscribe, TypeOK
  <2>3. req' \in [Tasks -> Seq(Topics \X QoS)]
    BY <1>1, <1>3 DEF Subscribe, TypeOK
  <2>4. pc' \in [Tasks -> {"idle", "load", "get", "branch", "set", "ack"}]
    BY <1>3 DEF Subscribe, TypeOK
  <2> QED
    BY <1>3, <2>1, <2>2, <2>3, <2>4 DEF Subscribe, TypeOK, trieVars, obsVars
<1>5. pc[c] = "idle" /\ pc'[c] = "load" /\ req'[c] = r /\ depth'[c] = depth[c] /\ cur'[c] = cur[c]
  BY <1>3 DEF Subscribe, TypeOK
<1>6. cur'[c] = RootSlot /\ depth'[c] = 0
  BY <1>5 DEF Before, WalkInv, TaskInv
<1>7. Topic(c)' = Head(r)[1] /\ Head(r)[1] \in Seq(Parts)
  <2>1. Head(r) = r[1] /\ 1 \in DOMAIN r
    BY <1>1
  <2> QED
    BY <1>2, <1>3, <1>5, <2>1, TopicFacts DEF Topic
<1>8. ReqAsked(c)'
  BY <1>5 DEF ReqAsked, Subscribe
<1>9. Pre(Topic(c)', 0) = <<>> /\ 0 \in 0 .. Len(Topic(c)')
  BY <1>7, PrefixFacts
<1>10. TaskInv(path, L, c)'
  <2>1. SlotAt(path, L, cur[c], Pre(Topic(c), depth[c]))'
    BY <1>6, <1>9 DEF SlotAt
  <2> QED
    BY <1>1, <1>5, <1>6, <1>8, <1>9, <2>1 DEF TaskInv
<1>11. \A d \in Tasks : d # c =>
              /\ pc'[d] = pc[d] /\ req'[d] = req[d] /\ depth'[d] = depth[d]
              /\ cur'[d] = cur[d] /\ ptr'[d] = ptr[d]
  BY <1>3 DEF Subscribe, TypeOK
<1>12. asked \subseteq asked' /\ UNCHANGED trieVars /\ UNCHANGED obsVars
  BY DEF Subscribe
<1> QED
  BY <1>4, <1>10, <1>11, <1>12, TaskStep

\* The load gives the node of the prefix gone down so far.
LEMMA LoadCurStep ==
    ASSUME NEW path, NEW L, Before(path, L), NEW c \in Tasks, LoadCur(c)
    PROVE  Before(path, L)'
<1>1. TypeOK /\ TaskInv(path, L, c) /\ TrieInv(path, L) /\ pc[c] = "load"
  BY DEF Before, WalkInv, LoadCur
<1>2. /\ req[c] # <<>> /\ depth[c] \in 0 .. Len(Topic(c)) /\ ReqAsked(c)
      /\ SlotAt(path, L, cur[c], Pre(Topic(c), depth[c]))
  BY <1>1 DEF TaskInv
<1>3. PICK w : w = Pre(Topic(c), depth[c])
  OBVIOUS
<1>4. PICK n : n = Load(cur[c]) /\ n \in L /\ path[n] = w
  <2>1. PICK s : s = cur[c]
    OBVIOUS
  <2> QED
    BY <1>1, <1>2, <1>3, <2>1, LoadFacts DEF Before
<1>5. n \in Nodes
  BY <1>4 DEF Before
<1>6. TypeOK'
  <2>1. ptr' \in [Tasks -> Nodes]
    BY <1>1, <1>4, <1>5 DEF LoadCur, TypeOK
  <2>2. pc' \in [Tasks -> {"idle", "load", "get", "branch", "set", "ack"}]
    BY <1>1 DEF LoadCur, TypeOK
  <2> QED
    BY <1>1, <2>1, <2>2 DEF LoadCur, TypeOK, trieVars, obsVars
<1>7. /\ ptr'[c] = n /\ req'[c] = req[c] /\ depth'[c] = depth[c] /\ cur'[c] = cur[c]
      /\ pc'[c] = IF depth[c] < Len(Topic(c)) THEN "get" ELSE "set"
  BY <1>1, <1>4 DEF LoadCur, TypeOK
<1>8. Topic(c)' = Topic(c)
  BY <1>7 DEF Topic
<1>9. TaskInv(path, L, c)'
  <2>1. ReqAsked(c)'
    BY <1>2, <1>7 DEF ReqAsked, LoadCur
  <2>2. SlotAt(path, L, cur[c], Pre(Topic(c), depth[c]))'
    BY <1>2, <1>7, <1>8 DEF SlotAt, LoadCur, trieVars
  <2>3. path[ptr'[c]] = Pre(Topic(c)', depth'[c])
    BY <1>3, <1>4, <1>7, <1>8
  <2>4. Len(Topic(c)) \in Nat
    BY <1>1, <1>2, ReqFacts, TopicFacts
  <2>5. \/ (pc'[c] = "get" /\ depth[c] < Len(Topic(c)))
        \/ (pc'[c] = "set" /\ depth[c] = Len(Topic(c)))
    <3>1. \A k \in Nat : \A d \in 0 .. k : d < k \/ d = k
      OBVIOUS
    <3>2. depth[c] < Len(Topic(c)) \/ depth[c] = Len(Topic(c))
      BY <1>2, <2>4, <3>1, Zenon
    <3>3. \A k \in Nat : ~(k < k)
      OBVIOUS
    <3>4. CASE depth[c] < Len(Topic(c))
      BY <1>7, <3>4
    <3>5. CASE depth[c] = Len(Topic(c))
      <4>1. ~(depth[c] < Len(Topic(c)))
        BY <2>4, <3>3, <3>5, Zenon
      <4> QED
        BY <1>7, <3>5, <4>1
    <3> QED
      BY <3>2, <3>4, <3>5
  <2> QED
    BY <1>2, <1>4, <1>7, <1>8, <2>1, <2>2, <2>3, <2>5 DEF TaskInv
<1>11. \A d \in Tasks : d # c =>
              /\ pc'[d] = pc[d] /\ req'[d] = req[d] /\ depth'[d] = depth[d]
              /\ cur'[d] = cur[d] /\ ptr'[d] = ptr[d]
  BY <1>1 DEF LoadCur, TypeOK
<1>12. asked \subseteq asked' /\ UNCHANGED trieVars /\ UNCHANGED obsVars
  BY DEF LoadCur
<1> QED
  BY <1>6, <1>9, <1>11, <1>12, TaskStep

\* A part that the map has leads one part further down.
LEMMA GetBranchStep ==
    ASSUME NEW path, NEW L, Before(path, L), NEW c \in Tasks, GetBranch(c)
    PROVE  Before(path, L)'
<1>1. TypeOK /\ TaskInv(path, L, c) /\ TrieInv(path, L) /\ pc[c] = "get"
  BY DEF Before, WalkInv, GetBranch
<1>2. /\ req[c] # <<>> /\ depth[c] \in 0 .. Len(Topic(c)) /\ ReqAsked(c)
      /\ SlotAt(path, L, cur[c], Pre(Topic(c), depth[c]))
      /\ ptr[c] \in L /\ path[ptr[c]] = Pre(Topic(c), depth[c])
      /\ depth[c] < Len(Topic(c))
  BY <1>1 DEF TaskInv
<1>3. PICK t \in Topics : t = Topic(c)
  BY <1>1, <1>2, ReqFacts
<1>4. PICK d \in 0 .. Len(t) : d = depth[c]
  BY <1>2, <1>3
<1>5. PICK n \in L : n = ptr[c]
  BY <1>2
<1>6. /\ t[d + 1] \in Parts /\ d + 1 \in 0 .. Len(t)
      /\ <<n, t[d + 1]>> \in Slots
      /\ child[n][t[d + 1]] # NULL => SlotAt(path, L, <<n, t[d + 1]>>, Pre(t, d + 1))
  BY <1>1, <1>2, <1>3, <1>4, <1>5, SlotFacts DEF Before
<1>7. Part(c) = t[d + 1] /\ d + 1 \in Nat
  BY <1>3, <1>4 DEF Part
<1>8. TypeOK'
  <2>4. \/ pc' = [pc EXCEPT ![c] = "branch"] /\ cur' = cur /\ depth' = depth
        \/ /\ pc' = [pc EXCEPT ![c] = "load"]
           /\ cur' = [cur EXCEPT ![c] = <<n, t[d + 1]>>]
           /\ depth' = [depth EXCEPT ![c] = @ + 1]
    BY <1>5, <1>7, Zenon DEF GetBranch
  <2>1. pc' \in [Tasks -> {"idle", "load", "get", "branch", "set", "ack"}]
    BY <1>1, <2>4 DEF TypeOK
  <2>2. cur' \in [Tasks -> Slots]
    <3>1. PICK s \in Slots : s = <<n, t[d + 1]>>
      BY <1>6
    <3> QED
      BY <1>1, <2>4, <3>1 DEF TypeOK
  <2>3. depth' \in [Tasks -> Nat]
    <3>1. depth \in [Tasks -> Nat] /\ depth[c] + 1 \in Nat
      BY <1>1 DEF TypeOK
    <3> QED
      BY <2>4, <3>1
  <2> QED
    BY <1>1, <2>1, <2>2, <2>3 DEF GetBranch, TypeOK, trieVars, obsVars
<1>9. /\ ptr'[c] = n /\ req'[c] = req[c]
      /\ \/ pc'[c] = "branch" /\ depth'[c] = d /\ cur'[c] = cur[c]
         \/ pc'[c] = "load" /\ depth'[c] = d + 1 /\ cur'[c] = <<n, t[d + 1]>> /\ child[n][t[d + 1]] # NULL
  BY <1>1, <1>4, <1>5, <1>7 DEF GetBranch, TypeOK
<1>10. Topic(c)' = t
  BY <1>3, <1>9 DEF Topic
<1>11. TaskInv(path, L, c)'
  <2>1. ReqAsked(c)'
    BY <1>2, <1>9 DEF ReqAsked, GetBranch
  <2>2. CASE pc'[c] = "branch"
    <3>1. depth'[c] = d /\ cur'[c] = cur[c]
      BY <1>9, <2>2
    <3>2. SlotAt(path, L, cur[c], Pre(Topic(c), depth[c]))'
      BY <1>2, <1>3, <1>4, <1>10, <3>1 DEF SlotAt, GetBranch, trieVars
    <3> QED
      BY <1>2, <1>3, <1>4, <1>5, <1>9, <1>10, <2>1, <2>2, <3>1, <3>2 DEF TaskInv
  <2>3. CASE pc'[c] = "load"
    <3>1. depth'[c] = d + 1 /\ cur'[c] = <<n, t[d + 1]>> /\ child[n][t[d + 1]] # NULL
      BY <1>9, <2>3
    <3>2. SlotAt(path, L, cur[c], Pre(Topic(c), depth[c]))'
      BY <1>6, <1>10, <3>1 DEF SlotAt, GetBranch, trieVars
    <3> QED
      BY <1>2, <1>6, <1>9, <1>10, <2>1, <2>3, <3>1, <3>2 DEF TaskInv
  <2> QED
    BY <1>9, <2>2, <2>3
<1>12. \A e \in Tasks : e # c =>
              /\ pc'[e] = pc[e] /\ req'[e] = req[e] /\ depth'[e] = depth[e]
              /\ cur'[e] = cur[e] /\ ptr'[e] = ptr[e]
  BY <1>1 DEF GetBranch, TypeOK
<1>13. asked \subseteq asked' /\ UNCHANGED trieVars /\ UNCHANGED obsVars
  BY DEF GetBranch
<1> QED
  BY <1>8, <1>11, <1>12, <1>13, TaskStep

\* The subscriber is set on the node of the whole topic, or was set before.
LEMMA SetSubscriberStep ==
    ASSUME NEW path, NEW L, Before(path, L), NEW c \in Tasks, SetSubscriber(c)
    PROVE  Before(path, L)'
<1>1. /\ TypeOK /\ TaskInv(path, L, c) /\ TrieInv(path, L) /\ pc[c] = "set"
      /\ path \in [Nodes -> Seq(Parts)] /\ L \in SUBSET Nodes
  BY DEF Before, WalkInv, SetSubscriber
<1>2. /\ req[c] # <<>> /\ depth[c] = Len(Topic(c)) /\ ReqAsked(c)
      /\ ptr[c] \in L /\ path[ptr[c]] = Pre(Topic(c), depth[c])
  BY <1>1 DEF TaskInv
<1>3. PICK t \in Topics : t = Topic(c)
  BY <1>1, <1>2, ReqFacts
<1>4. PICK q \in QoS : q = Head(req[c])[2]
  BY <1>1, <1>2, ReqFacts
<1>5. PICK m \in L : m = ptr[c]
  BY <1>2
<1>6. path[m] = t /\ m \in Nodes /\ m <= used
  <2>1. t \in Seq(Parts)
    BY <1>1, TopicFacts
  <2> QED
    BY <1>1, <1>2, <1>3, <1>5, <2>1, PrefixFacts DEF TrieInv
<1>7. <<c, t, q>> \in asked
  BY <1>1, <1>2, <1>3, <1>4, ReqFacts
<1>8. <<c, q>> \in Instance /\ <<c, q>> # NULL
  BY RouterAssumption DEF Instance
<1>9. \/ sub' = [sub EXCEPT ![m] = <<c, q>>]
      \/ sub' = sub
  BY <1>4, <1>5, Zenon DEF SetSubscriber
<1>10. sub' \in [Nodes -> Instance \cup {NULL}]
  BY <1>1, <1>6, <1>8, <1>9 DEF TypeOK
<1>11. \A n \in Nodes : sub'[n] = sub[n] \/ (n = m /\ sub'[n] = <<c, q>>)
  BY <1>1, <1>6, <1>9 DEF TypeOK
<1>12. /\ child' = child /\ used' = used /\ asked' = asked /\ ptr' = ptr /\ routed' = routed
       /\ UNCHANGED <<opc, otopic, odepth, ocur, optr>>
  BY DEF SetSubscriber, obsVars
<1>13. TrieInv(path, L)'
  <2>1. \A n \in L : sub'[n] # NULL => <<sub'[n][1], path[n], sub'[n][2]>> \in asked'
    <3> SUFFICES ASSUME NEW n \in L, sub'[n] # NULL
                 PROVE  <<sub'[n][1], path[n], sub'[n][2]>> \in asked
      BY <1>12
    <3>1. CASE sub'[n] = sub[n]
      BY <1>1, <3>1 DEF TrieInv
    <3>2. CASE n = m /\ sub'[n] = <<c, q>>
      <4>1. sub'[n][1] = c /\ sub'[n][2] = q
        BY <3>2
      <4> QED
        BY <1>6, <1>7, <3>2, <4>1
    <3> QED
      BY <1>1, <1>11, <3>1, <3>2
  <2> QED
    BY <1>1, <1>12, <2>1 DEF TrieInv
<1>14. FreshInv'
  <2>1. used \in Nat /\ m \in Nat
    BY <1>1, <1>6, RouterAssumption DEF TypeOK, Nodes
  <2>2. \A n \in Nodes : n > used => n # m
    BY <1>6, <2>1 DEF Nodes
  <2>3. FreshInv
    BY DEF Before
  <2> QED
    BY <1>11, <1>12, <2>2, <2>3 DEF FreshInv
<1>15. Extends(path, L, path, L)
  BY <1>12 DEF Extends
<1>16. ObsInv(path, L)'
  BY <1>12, <1>15, ObsKept DEF Before, WalkInv
<1>17. /\ req' = [req EXCEPT ![c] = Tail(req[c])]
       /\ depth' = [depth EXCEPT ![c] = 0]
       /\ cur' = [cur EXCEPT ![c] = RootSlot]
       /\ \/ pc' = [pc EXCEPT ![c] = "load"] /\ Len(req[c]) > 1
          \/ pc' = [pc EXCEPT ![c] = "ack"]
  BY DEF SetSubscriber
<1>18. /\ Tail(req[c]) \in Seq(Topics \X QoS)
       /\ Len(req[c]) > 1 => Tail(req[c]) # <<>>
       /\ \A i \in DOMAIN Tail(req[c]) : <<c, Tail(req[c])[i][1], Tail(req[c])[i][2]>> \in asked
  BY <1>1, <1>2, ReqFacts
<1>19. TypeOK'
  <2>1. req' \in [Tasks -> Seq(Topics \X QoS)]
    BY <1>1, <1>17, <1>18 DEF TypeOK
  <2>2. depth' \in [Tasks -> Nat]
    BY <1>1, <1>17 DEF TypeOK
  <2>3. cur' \in [Tasks -> Slots]
    BY <1>1, <1>17 DEF TypeOK, Slots
  <2>4. pc' \in [Tasks -> {"idle", "load", "get", "branch", "set", "ack"}]
    BY <1>1, <1>17 DEF TypeOK
  <2> QED
    BY <1>1, <1>10, <1>12, <2>1, <2>2, <2>3, <2>4 DEF SetSubscriber, TypeOK
<1>20. \A d \in Tasks : TaskInv(path, L, d)'
  <2>1. ASSUME NEW d \in Tasks, d # c
        PROVE  TaskInv(path, L, d)'
    <3>1. /\ pc'[d] = pc[d] /\ req'[d] = req[d] /\ depth'[d] = depth[d]
          /\ cur'[d] = cur[d] /\ ptr'[d] = ptr[d]
      BY <1>1, <1>12, <1>17, <2>1 DEF TypeOK
    <3> QED
      BY <1>15, <3>1, TaskKept DEF Before, WalkInv
  <2>2. /\ depth'[c] = 0 /\ cur'[c] = RootSlot /\ req'[c] = Tail(req[c])
        /\ (pc'[c] = "load" /\ req'[c] # <<>>) \/ pc'[c] = "ack"
    BY <1>1, <1>17, <1>18 DEF TypeOK
  <2>3. ReqAsked(c)'
    BY <1>12, <1>18, <2>2 DEF ReqAsked
  <2>4. ASSUME pc'[c] = "ack"
        PROVE  TaskInv(path, L, c)'
    BY <2>2, <2>4 DEF TaskInv
  <2>5. ASSUME pc'[c] = "load" /\ req'[c] # <<>>
        PROVE  TaskInv(path, L, c)'
    <3>1. PICK u \in Topics : u = Topic(c)'
      <4>1. PICK r \in Seq(Topics \X QoS) : r = req'[c]
        BY <1>18, <2>2
      <4>2. Head(r)[1] \in Topics
        BY <2>5, <4>1
      <4> QED
        BY <4>1, <4>2 DEF Topic
    <3>2. u \in Seq(Parts) /\ 0 \in 0 .. Len(u)
      BY <1>1, TopicFacts
    <3>3. Pre(u, 0) = <<>>
      BY <3>2, PrefixFacts
    <3>4. SlotAt(path, L, cur[c], Pre(Topic(c), depth[c]))'
      BY <2>2, <3>1, <3>3 DEF SlotAt
    <3> QED
      BY <2>2, <2>3, <2>5, <3>1, <3>2, <3>4 DEF TaskInv
  <2> QED
    BY <2>1, <2>2, <2>4, <2>5
<1>21. RoutedAsked'
  BY <1>12 DEF Before, RoutedAsked
<1> QED
  BY <1>1, <1>13, <1>14, <1>16, <1>19, <1>20, <1>21 DEF Before, WalkInv

\* Nothing but what was asked for is acknowledged.
LEMMA AckStep ==
    ASSUME NEW path, NEW L, Before(path, L), NEW c \in Tasks, Ack(c)
    PROVE  Before(path, L)'
<1>1. TypeOK /\ TaskInv(path, L, c)
  BY DEF Before, WalkInv
<1>2. TypeOK'
  <2>1. pc' \in [Tasks -> {"idle", "load", "get", "branch", "set", "ack"}]
    BY <1>1 DEF Ack, TypeOK
  <2> QED
    BY <1>1, <2>1 DEF Ack, TypeOK, trieVars, obsVars
<1>3. TaskInv(path, L, c)'
  <2>1. pc[c] = "ack" /\ pc'[c] = "idle" /\ cur' = cur /\ depth' = depth
    BY <1>1 DEF Ack, TypeOK
  <2> QED
    BY <1>1, <2>1 DEF TaskInv
<1>4. \A d \in Tasks : d # c =>
              /\ pc'[d] = pc[d] /\ req'[d] = req[d] /\ depth'[d] = depth[d]
              /\ cur'[d] = cur[d] /\ ptr'[d] = ptr[d]
  BY <1>1 DEF Ack, TypeOK
<1>5. asked \subseteq asked' /\ UNCHANGED trieVars /\ UNCHANGED obsVars
  BY DEF Ack
<1> QED
  BY <1>2, <1>3, <1>4, <1>5, TaskStep

\* The new node stands for the prefix of its slot, and the node whose place it
\* takes, if any, goes on standing for the same.
LEMMA CreateBranchStep ==
    ASSUME NEW path, NEW L, Before(path, L), NEW c \in Tasks, CreateBranch(c)
    PROVE  \E path2, L2 : Before(path2, L2)'
<1>1. /\ TypeOK /\ TaskInv(path, L, c) /\ TrieInv(path, L) /\ FreshInv /\ pc[c] = "branch"
      /\ path \in [Nodes -> Seq(Parts)] /\ L \in SUBSET Nodes
  BY DEF Before, WalkInv, CreateBranch
<1>2. /\ req[c] # <<>> /\ depth[c] \in 0 .. Len(Topic(c)) /\ ReqAsked(c)
      /\ SlotAt(path, L, cur[c], Pre(Topic(c), depth[c]))
      /\ ptr[c] \in L /\ path[ptr[c]] = Pre(Topic(c), depth[c])
      /\ depth[c] < Len(Topic(c))
  BY <1>1 DEF TaskInv
<1>3. PICK m \in L : m = ptr[c]
  BY <1>2
<1>4. PICK q \in Parts : q = Part(c)
  <2>1. PICK t \in Topics : t = Topic(c)
    BY <1>1, <1>2, ReqFacts
  <2>2. PICK d \in 0 .. Len(t) : d = depth[c]
    BY <1>2, <2>1
  <2>3. t[d + 1] \in Parts
    BY <1>1, <1>2, <1>3, <2>1, <2>2, SlotFacts
  <2> QED
    BY <2>1, <2>2, <2>3 DEF Part
<1>5. PICK u : u = used + 1
  OBVIOUS
<1>6. u \in Nodes /\ used \in Nat /\ u \notin L /\ m \in Nodes /\ m # u /\ u # 0
  <2>1. used \in Nat /\ used < MaxNodes
    BY <1>1, RouterAssumption DEF TypeOK, Nodes, CreateBranch
  <2>2. u \in Nodes /\ ~(u <= used) /\ u # 0
    BY <1>5, <2>1, RouterAssumption DEF Nodes
  <2> QED
    BY <1>1, <2>1, <2>2 DEF TrieInv
<1>7. /\ child' = [child EXCEPT ![m][q] = u]
      /\ used' = u /\ sub' = sub /\ asked' = asked /\ routed' = routed
      /\ pc' = [pc EXCEPT ![c] = "load"]
      /\ UNCHANGED <<req, depth, cur, ptr, subs, acked, removes>>
      /\ UNCHANGED <<opc, otopic, odepth, ocur, optr>>
  BY <1>3, <1>4, <1>5 DEF CreateBranch, obsVars
<1>8. /\ child' \in [Nodes -> [Parts -> Nodes \cup {NULL}]]
      /\ child'[m][q] = u
      /\ \A n \in Nodes, p \in Parts : n # m \/ p # q => child'[n][p] = child[n][p]
  <2>1. child \in [Nodes -> [Parts -> Nodes \cup {NULL}]]
    BY <1>1 DEF TypeOK
  <2> QED
    BY <1>6, <1>7, <2>1
<1> DEFINE L2 == L \cup {u}
<1> DEFINE path2 == [path EXCEPT ![u] = Below(path[m], q)]
<1>9. /\ path2 \in [Nodes -> Seq(Parts)] /\ path2[u] = Below(path[m], q)
      /\ \A n \in Nodes : n # u => path2[n] = path[n]
  <2>1. Below(path[m], q) \in Seq(Parts)
    BY <1>1, <1>6 DEF Below
  <2> QED
    BY <1>1, <1>6, <2>1
<1>10. L2 \in SUBSET Nodes /\ u \in L2 /\ L \subseteq L2 /\ \A n \in L : n # u /\ n \in Nodes
  BY <1>1, <1>6
<1> HIDE DEF path2
<1>11. u # NULL
  BY <1>1, <1>6, TopicFacts
<1>12. Extends(path, L, path2, L2)
  BY <1>7, <1>8, <1>9, <1>10, <1>11 DEF Extends
<1>13. TrieInv(path2, L2)'
  <2>1. 0 \in L2 /\ path2[0] = <<>>
    BY <1>1, <1>9, <1>10 DEF TrieInv
  <2>2. \A n \in L2 : n <= used'
    <3>1. \A n \in L : n \in Nat /\ n <= used
      BY <1>1 DEF TrieInv, Nodes
    <3> QED
      BY <1>5, <1>6, <1>7, <3>1
  <2>3. ASSUME NEW n \in L2, NEW p \in Parts, child'[n][p] # NULL
        PROVE  child'[n][p] \in L2 /\ path2[child'[n][p]] = Below(path2[n], p)
    <3>1. CASE n = m /\ p = q
      <4>1. child'[n][p] = u /\ path2[n] = path[m]
        BY <1>6, <1>8, <1>9, <3>1
      <4> QED
        BY <1>9, <1>10, <3>1, <4>1
    <3>2. CASE n \in L /\ ~(n = m /\ p = q)
      <4>1. PICK k : k = child[n][p] /\ k = child'[n][p] /\ k # NULL
        BY <1>8, <1>10, <2>3, <3>2
      <4>2. k \in L /\ path[k] = Below(path[n], p)
        BY <1>1, <3>2, <4>1 DEF TrieInv
      <4>3. path2[k] = path[k] /\ path2[n] = path[n]
        BY <1>9, <1>10, <3>2, <4>2
      <4> QED
        BY <1>10, <4>1, <4>2, <4>3
    <3>3. CASE n = u
      <4>1. child'[n][p] = child[n][p]
        BY <1>6, <1>8, <3>3
      <4>2. u > used
        BY <1>5, <1>6
      <4>3. child[n][p] = NULL
        BY <1>1, <1>6, <3>3, <4>2 DEF FreshInv
      <4> QED
        BY <2>3, <4>1, <4>3
    <3> QED
      BY <3>1, <3>2, <3>3
  <2>4. \A n \in L2 : sub'[n] # NULL => <<sub'[n][1], path2[n], sub'[n][2]>> \in asked'
    <3>1. sub[u] = NULL
      <4>1. u > used
        BY <1>5, <1>6
      <4> QED
        BY <1>1, <1>6, <4>1 DEF FreshInv
    <3>2. \A n \in L : path2[n] = path[n]
      BY <1>9, <1>10
    <3> QED
      BY <1>1, <1>7, <3>1, <3>2 DEF TrieInv
  <2> HIDE DEF L2
  <2> QED
    BY <2>1, <2>2, <2>3, <2>4 DEF TrieInv
<1>14. FreshInv'
  <2>1. \A n \in Nodes : n > u => n > used /\ n # m
    <3>1. m \in Nat /\ m <= used
      BY <1>1, <1>6 DEF TrieInv, Nodes
    <3> QED
      BY <1>5, <1>6, <3>1 DEF Nodes
  <2> QED
    BY <1>1, <1>7, <1>8, <2>1 DEF FreshInv
<1>15. \A d \in Tasks : TaskInv(path2, L2, d)'
  <2>1. ASSUME NEW d \in Tasks, d # c
        PROVE  TaskInv(path2, L2, d)'
    <3>1. /\ pc'[d] = pc[d] /\ req'[d] = req[d] /\ depth'[d] = depth[d]
          /\ cur'[d] = cur[d] /\ ptr'[d] = ptr[d]
      BY <1>1, <1>7, <2>1 DEF TypeOK
    <3> QED
      BY <1>12, <3>1, TaskKept DEF Before, WalkInv
  <2>2. TaskInv(path2, L2, c)'
    <3>1. pc'[c] = "load" /\ req'[c] = req[c] /\ depth'[c] = depth[c] /\ cur'[c] = cur[c]
      BY <1>1, <1>7 DEF TypeOK
    <3>2. Topic(c)' = Topic(c)
      BY <3>1 DEF Topic
    <3>3. ReqAsked(c)'
      BY <1>2, <1>7, <3>1 DEF ReqAsked
    <3>4. SlotAt(path2, L2, cur[c], Pre(Topic(c), depth[c]))'
      <4>1. SlotAt(path, L, cur[c], Pre(Topic(c), depth[c]))
        BY <1>2
      <4> QED
        BY <1>12, <3>1, <3>2, <4>1 DEF SlotAt, Extends
    <3> QED
      BY <1>2, <3>1, <3>2, <3>3, <3>4 DEF TaskInv
  <2> QED
    BY <2>1, <2>2
<1>16. ObsInv(path2, L2)'
  BY <1>7, <1>12, ObsKept DEF Before, WalkInv
<1>17. TypeOK'
  <2>1. pc' \in [Tasks -> {"idle", "load", "get", "branch", "set", "ack"}]
    BY <1>1, <1>7 DEF TypeOK
  <2> QED
    BY <1>1, <1>6, <1>7, <1>8, <2>1 DEF TypeOK
<1>18. RoutedAsked'
  BY <1>7 DEF Before, RoutedAsked
<1>19. Before(path2, L2)'
  BY <1>9, <1>10, <1>13, <1>14, <1>15, <1>16, <1>17, <1>18 DEF Before, WalkInv
<1> HIDE DEF L2
<1> QED
  BY <1>19

-----------------------------------------------------------------------------
(* The observer *)

\* A step of the observer leaves the trie and the tasks alone.
LEMMA ObsStep ==
    ASSUME NEW path, NEW L, Before(path, L), UNCHANGED trieVars, UNCHANGED taskVars,
           ObsInv(path, L)', TypeOK', RoutedAsked'
    PROVE  Before(path, L)'
<1>1. UNCHANGED <<child, sub, used, pc, req, depth, cur, ptr, asked>>
  BY DEF trieVars, taskVars
<1>2. Extends(path, L, path, L)
  BY <1>1 DEF Extends
<1>3. \A c \in Tasks : TaskInv(path, L, c)'
  BY <1>1, <1>2, TaskKept DEF Before, WalkInv
<1>4. TrieInv(path, L)' /\ FreshInv'
  BY <1>1 DEF Before, WalkInv, TrieInv, FreshInv
<1> QED
  BY <1>3, <1>4 DEF Before, WalkInv

\* A lookup begins at the root.
LEMMA LookupStep ==
    ASSUME NEW path, NEW L, Before(path, L), NEW t \in Topics, Lookup(t)
    PROVE  Before(path, L)'
<1>1. TypeOK /\ ObsInv(path, L)
  BY DEF Before, WalkInv
<1>2. TypeOK'
  BY <1>1 DEF TypeOK, Lookup, trieVars, taskVars
<1>3. ocur' = RootSlot /\ odepth' = 0 /\ otopic' = t /\ opc' = "load"
  BY <1>1 DEF ObsInv, Lookup
<1>4. t \in Seq(Parts) /\ 0 \in 0 .. Len(t)
  BY <1>1, TopicFacts
<1>5. Pre(t, 0) = <<>>
  BY <1>4, PrefixFacts
<1>6. ObsInv(path, L)'
  BY <1>3, <1>4, <1>5 DEF ObsInv, SlotAt
<1>7. RoutedAsked'
  BY DEF RoutedAsked, Lookup
<1> QED
  BY <1>2, <1>6, <1>7, ObsStep DEF Lookup

\* Its load gives the node of the prefix gone down so far.
LEMMA RouteLoadStep ==
    ASSUME NEW path, NEW L, Before(path, L), RouteLoad
    PROVE  Before(path, L)'
<1>1. /\ TypeOK /\ ObsInv(path, L) /\ TrieInv(path, L) /\ opc = "load"
      /\ path \in [Nodes -> Seq(Parts)] /\ L \in SUBSET Nodes
  BY DEF Before, WalkInv, RouteLoad
<1>2. PICK t \in Topics : t = otopic
  BY <1>1 DEF ObsInv
<1>3. PICK d \in 0 .. Len(t) : d = odepth
  BY <1>1, <1>2 DEF ObsInv
<1>4. PICK s : s = ocur
  OBVIOUS
<1>5. SlotAt(path, L, s, Pre(t, d))
  BY <1>1, <1>2, <1>3, <1>4 DEF ObsInv
<1>6. PICK n \in L : n = Load(s) /\ path[n] = Pre(t, d)
  BY <1>1, <1>5, LoadFacts
<1>7. Len(t) \in Nat
  BY <1>1, TopicFacts
<1>8. (opc' = "get" /\ d < Len(t)) \/ (opc' = "val" /\ d = Len(t))
  BY <1>2, <1>3, <1>7 DEF RouteLoad
<1>9. /\ optr' = n /\ otopic' = t /\ odepth' = d /\ ocur' = s /\ child' = child
      /\ UNCHANGED trieVars /\ UNCHANGED taskVars /\ routed' = routed /\ asked' = asked
      /\ removes' = removes
  BY <1>2, <1>3, <1>4, <1>6 DEF RouteLoad, trieVars, taskVars
<1>10. TypeOK'
  <2>1. n \in Nodes
    BY <1>1
  <2> QED
    BY <1>1, <1>2, <1>3, <1>4, <1>8, <1>9, <2>1 DEF TypeOK, trieVars, taskVars
<1>11. SlotAt(path, L, s, Pre(t, d))'
  BY <1>5, <1>9 DEF SlotAt
<1>12. ObsInv(path, L)'
  BY <1>6, <1>8, <1>9, <1>11 DEF ObsInv
<1>13. RoutedAsked'
  BY <1>9 DEF RoutedAsked, Before
<1> QED
  BY <1>9, <1>10, <1>12, <1>13, ObsStep

\* It goes one part down, or ends.
LEMMA RouteGetStep ==
    ASSUME NEW path, NEW L, Before(path, L), RouteGet
    PROVE  Before(path, L)'
<1>1. /\ TypeOK /\ ObsInv(path, L) /\ TrieInv(path, L) /\ opc = "get"
      /\ path \in [Nodes -> Seq(Parts)] /\ L \in SUBSET Nodes
  BY DEF Before, WalkInv, RouteGet
<1>2. PICK t \in Topics : t = otopic
  BY <1>1 DEF ObsInv
<1>3. PICK d \in 0 .. Len(t) : d = odepth /\ d < Len(t)
  BY <1>1, <1>2 DEF ObsInv
<1>4. PICK n \in L : n = optr /\ path[n] = Pre(t, d)
  BY <1>1, <1>2, <1>3 DEF ObsInv
<1>5. PICK q : q = t[d + 1]
  OBVIOUS
<1>6. /\ q \in Parts /\ d + 1 \in 0 .. Len(t) /\ <<n, q>> \in Slots
      /\ child[n][q] # NULL => SlotAt(path, L, <<n, q>>, Pre(t, d + 1))
  BY <1>1, <1>3, <1>4, <1>5, SlotFacts
<1>7. /\ UNCHANGED trieVars /\ UNCHANGED taskVars /\ routed' = routed
      /\ removes' = removes /\ child' = child /\ asked' = asked
  BY DEF RouteGet, trieVars, taskVars
<1>8. \/ opc' = "idle" /\ otopic' = NULL /\ odepth' = 0 /\ ocur' = RootSlot /\ optr' = 0
      \/ /\ opc' = "load" /\ ocur' = <<n, q>> /\ odepth' = d + 1 /\ otopic' = t /\ optr' = n
         /\ child[n][q] # NULL
  BY <1>2, <1>3, <1>4, <1>5 DEF RouteGet, Return
<1>9. TypeOK' /\ ObsInv(path, L)'
  <2>1. CASE opc' = "idle" /\ otopic' = NULL /\ odepth' = 0 /\ ocur' = RootSlot /\ optr' = 0
    <3>1. 0 \in Nodes /\ RootSlot \in Slots
      BY <1>1, TopicFacts DEF Slots
    <3> QED
      BY <1>1, <1>7, <2>1, <3>1 DEF TypeOK, ObsInv, trieVars, taskVars
  <2>2. CASE /\ opc' = "load" /\ ocur' = <<n, q>> /\ odepth' = d + 1 /\ otopic' = t /\ optr' = n
             /\ child[n][q] # NULL
    <3>1. d + 1 \in Nat
      OBVIOUS
    <3>2. TypeOK'
      BY <1>1, <1>6, <1>7, <2>2, <3>1 DEF TypeOK, trieVars, taskVars
    <3>3. PICK s : s = <<n, q>>
      OBVIOUS
    <3>4. SlotAt(path, L, s, Pre(t, d + 1))
      BY <1>6, <2>2, <3>3
    <3>5. SlotAt(path, L, s, Pre(t, d + 1))'
      BY <1>7, <3>4 DEF SlotAt
    <3> QED
      BY <1>6, <2>2, <3>2, <3>3, <3>5 DEF ObsInv
  <2> QED
    BY <1>8, <2>1, <2>2
<1>10. RoutedAsked'
  BY <1>7 DEF RoutedAsked, Before
<1> QED
  BY <1>7, <1>9, <1>10, ObsStep

\* The node it ends at is that of the whole topic, whose subscriber asked for it.
LEMMA RouteValStep ==
    ASSUME NEW path, NEW L, Before(path, L), RouteVal
    PROVE  Before(path, L)'
<1>1. /\ TypeOK /\ ObsInv(path, L) /\ TrieInv(path, L) /\ opc = "val"
      /\ path \in [Nodes -> Seq(Parts)] /\ L \in SUBSET Nodes
  BY DEF Before, WalkInv, RouteVal
<1>2. PICK t \in Topics : t = otopic
  BY <1>1 DEF ObsInv
<1>3. t \in Seq(Parts)
  BY <1>1, TopicFacts
<1>4. PICK n \in L : n = optr /\ path[n] = t
  BY <1>1, <1>2, <1>3, PrefixFacts DEF ObsInv
<1>5. /\ UNCHANGED trieVars /\ UNCHANGED taskVars /\ removes' = removes /\ asked' = asked
      /\ opc' = "idle" /\ otopic' = NULL /\ odepth' = 0 /\ ocur' = RootSlot /\ optr' = 0
      /\ routed' = IF sub[n] = NULL THEN NULL ELSE <<t, sub[n]>>
  BY <1>2, <1>4 DEF RouteVal, Return, taskVars
<1>6. n \in Nodes /\ sub[n] \in Instance \cup {NULL} /\ 0 \in Nodes /\ RootSlot \in Slots
  BY <1>1, TopicFacts DEF Slots
<1>7. TypeOK'
  <2>1. routed' \in (Topics \X Instance) \cup {NULL}
    BY <1>5, <1>6
  <2> QED
    BY <1>1, <1>5, <1>6, <2>1 DEF TypeOK, trieVars, taskVars
<1>8. ObsInv(path, L)'
  BY <1>5 DEF ObsInv
<1>9. RoutedAsked'
  <2>1. sub[n] # NULL => <<sub[n][1], t, sub[n][2]>> \in asked
    BY <1>1, <1>4 DEF TrieInv
  <2>2. CASE sub[n] = NULL
    BY <1>5, <2>2 DEF RoutedAsked
  <2>3. CASE sub[n] # NULL
    <3>1. routed'[1] = t /\ routed'[2] = sub[n]
      BY <1>5, <2>3
    <3> QED
      BY <1>5, <2>1, <2>3, <3>1 DEF RoutedAsked
  <2> QED
    BY <2>2, <2>3
<1> QED
  BY <1>5, <1>7, <1>8, <1>9, ObsStep

-----------------------------------------------------------------------------
(* remove and clean_branch *)

\* While nobody is in a call, the walks say nothing about the trie.
LEMMA QuietWalks ==
    ASSUME NEW path, NEW L, Before(path, L), Quiet,
           UNCHANGED <<pc, depth, cur, opc, odepth, ocur>>,
           NEW path2, NEW L2
    PROVE  (\A c \in Tasks : TaskInv(path2, L2, c)') /\ ObsInv(path2, L2)'
<1>1. \A c \in Tasks : pc'[c] = "idle" /\ cur'[c] = RootSlot /\ depth'[c] = 0
  BY DEF Quiet, Before, WalkInv, TaskInv
<1>2. opc' = "idle" /\ ocur' = RootSlot /\ odepth' = 0
  BY DEF Quiet, Before, WalkInv, ObsInv
<1> QED
  BY <1>1, <1>2 DEF TaskInv, ObsInv

\* remove finds the node that the topic leads to now; a node that was replaced
\* may keep its subscriber, but nobody walks to it any more.
LEMMA RemoveStep ==
    ASSUME NEW path, NEW L, Before(path, L), NEW c \in Tasks, NEW t \in Topics, Remove(c, t)
    PROVE  \E L2 : Before(path, L2)'
<1>1. /\ TypeOK /\ TrieInv(path, L) /\ FreshInv /\ Quiet
      /\ path \in [Nodes -> Seq(Parts)] /\ L \in SUBSET Nodes
  BY DEF Before, WalkInv, Remove
<1>2. PICK m : m = Walk(t)
  OBVIOUS
<1>3. /\ sub[m] # NULL /\ sub[m][1] = c /\ sub' = [sub EXCEPT ![m] = NULL]
      /\ asked' = {x \in asked : x[1] # c \/ x[2] # t}
      /\ acked' = acked \cap asked' /\ routed' = NULL
      /\ UNCHANGED <<child, used, pc, req, depth, cur, ptr, subs, opc, otopic, odepth, ocur, optr>>
  BY <1>2 DEF Remove, DeleteSubscriber
<1>4. sub' \in [Nodes -> Instance \cup {NULL}] /\ \A n \in Nodes : sub'[n] = IF n = m THEN NULL ELSE sub[n]
  BY <1>1, <1>3 DEF TypeOK
<1>12. PICK L2 : L2 = {n \in L : WalkIn(child, path[n]) = n}
  OBVIOUS
<1>5. TrieInv(path, L2)'
  <2>1. 0 \in L2
    <3>1. WalkIn(child, <<>>) = 0
      BY WalkRoot
    <3> QED
      BY <1>1, <1>12, <3>1 DEF TrieInv
  <2>2. ASSUME NEW n \in L2, NEW p \in Parts, child[n][p] # NULL
        PROVE  child[n][p] \in L2 /\ path[child[n][p]] = Below(path[n], p)
    <3>1. n \in L /\ n \in Nodes /\ WalkIn(child, path[n]) = n /\ path[n] \in Seq(Parts) /\ n # NULL
      BY <1>1, <1>12, TopicFacts
    <3>2. child[n][p] \in L /\ path[child[n][p]] = Below(path[n], p)
      BY <1>1, <2>2, <3>1 DEF TrieInv
    <3>3. WalkIn(child, Below(path[n], p)) = child[n][p]
      BY <3>1, WalkBelow
    <3> QED
      BY <1>12, <3>2, <3>3
  <2>3. ASSUME NEW n \in L2, sub'[n] # NULL
        PROVE  <<sub'[n][1], path[n], sub'[n][2]>> \in asked'
    <3>1. n \in L /\ n \in Nodes /\ WalkIn(child, path[n]) = n
      BY <1>1, <1>12
    <3>2. n # m /\ sub'[n] = sub[n]
      BY <1>4, <2>3, <3>1
    <3>3. path[n] # t
      BY <1>2, <3>1, <3>2, WalkIsWalk
    <3>4. PICK x \in asked : x = <<sub[n][1], path[n], sub[n][2]>>
      BY <1>1, <2>3, <3>1, <3>2 DEF TrieInv
    <3>5. x[2] = path[n]
      BY <3>4
    <3>6. x \in asked'
      BY <1>3, <3>3, <3>5
    <3> QED
      BY <3>2, <3>4, <3>6
  <2>4. path[0] = <<>> /\ \A n \in L2 : n <= used
    BY <1>1, <1>12 DEF TrieInv
  <2> QED
    BY <1>3, <2>1, <2>2, <2>3, <2>4 DEF TrieInv
<1>6. L2 \in SUBSET Nodes
  BY <1>1, <1>12
<1>7. (\A d \in Tasks : TaskInv(path, L2, d)') /\ ObsInv(path, L2)'
  BY <1>1, <1>3, QuietWalks
<1>8. FreshInv'
  BY <1>1, <1>3, <1>4 DEF FreshInv
<1>9. TypeOK'
  <2>1. removes' \in 0 .. MaxRemoves
    BY <1>1, RouterAssumption DEF TypeOK, Remove
  <2>2. asked' \subseteq Tasks \X Topics \X QoS /\ acked' \subseteq asked'
    BY <1>1, <1>3 DEF TypeOK
  <2> QED
    BY <1>1, <1>3, <1>4, <2>1, <2>2 DEF TypeOK
<1>10. RoutedAsked'
  BY <1>3 DEF RoutedAsked
<1>11. Before(path, L2)'
  BY <1>1, <1>5, <1>6, <1>7, <1>8, <1>9, <1>10 DEF Before, WalkInv
<1> QED
  BY <1>11

\* clean_branch only takes keys out of the maps.
LEMMA CleanBranchStep ==
    ASSUME NEW path, NEW L, Before(path, L), CleanBranch
    PROVE  Before(path, L)'
<1>1. /\ TypeOK /\ TrieInv(path, L) /\ FreshInv /\ Quiet
      /\ path \in [Nodes -> Seq(Parts)] /\ L \in SUBSET Nodes
  BY DEF Before, WalkInv, CleanBranch
<1>2. UNCHANGED <<sub, used, removes>> /\ UNCHANGED taskVars /\ UNCHANGED obsVars
  BY DEF CleanBranch
<1>3. /\ child' \in [Nodes -> [Parts -> Nodes \cup {NULL}]]
      /\ \A n \in Nodes, p \in Parts : child'[n][p] \in {NULL, child[n][p]}
  <2>1. \A n \in Nodes, p \in Parts :
           (IF child[n][p] # NULL /\ Empty(child[n][p]) THEN NULL ELSE child[n][p]) \in {NULL, child[n][p]}
    OBVIOUS
  <2>2. \A n \in Nodes, p \in Parts : {NULL, child[n][p]} \subseteq Nodes \cup {NULL}
    BY <1>1 DEF TypeOK
  <2> QED
    BY <2>1, <2>2 DEF CleanBranch
<1>4. UNCHANGED <<pc, req, depth, cur, ptr, subs, asked, acked, opc, otopic, odepth, ocur, optr, routed>>
  BY <1>2 DEF taskVars, obsVars
<1>5. (\A d \in Tasks : TaskInv(path, L, d)') /\ ObsInv(path, L)'
  BY <1>1, <1>4, QuietWalks
<1>6. TrieInv(path, L)'
  <2>1. \A n \in L, p \in Parts : child'[n][p] # NULL => child'[n][p] = child[n][p]
    BY <1>1, <1>3
  <2>2. \A n \in L, p \in Parts : child'[n][p] # NULL =>
          child'[n][p] \in L /\ path[child'[n][p]] = Below(path[n], p)
    BY <1>1, <2>1 DEF TrieInv
  <2> QED
    BY <1>1, <1>2, <1>4, <2>2 DEF TrieInv
<1>7. FreshInv'
  BY <1>1, <1>2, <1>3 DEF FreshInv
<1>8. TypeOK'
  BY <1>1, <1>2, <1>3, <1>4 DEF TypeOK
<1>9. RoutedAsked'
  BY <1>4 DEF RoutedAsked, Before
<1> QED
  BY <1>1, <1>5, <1>6, <1>7, <1>8, <1>9 DEF Before, WalkInv

-----------------------------------------------------------------------------
(* The theorems *)

\* The invariant in the form that the steps use.
LEMMA RouterInvForm == RouterInv <=> \E path, L : Before(path, L)
  BY DEF RouterInv, Before

\* The trie begins as a root that nobody subscribes to.
LEMMA InitRouterInv == Init => RouterInv
<1> SUFFICES ASSUME Init PROVE RouterInv
  OBVIOUS
<1>1. 0 \in Nodes /\ RootSlot \in Slots /\ <<>> \in Seq(Parts) /\ <<>> \in Seq(Topics \X QoS)
  BY RouterAssumption DEF Nodes, Slots
<1>2. TypeOK
  BY <1>1, RouterAssumption DEF Init, TypeOK
<1> DEFINE path == [n \in Nodes |-> <<>>]
<1>3. path \in [Nodes -> Seq(Parts)] /\ path[0] = <<>> /\ {0} \in SUBSET Nodes
  BY <1>1
<1> HIDE DEF path
<1>4. TrieInv(path, {0}) /\ FreshInv
  BY <1>1, <1>3 DEF Init, TrieInv, FreshInv
<1>5. (\A c \in Tasks : TaskInv(path, {0}, c)) /\ ObsInv(path, {0})
  BY DEF Init, TaskInv, ObsInv
<1>6. RoutedAsked
  BY DEF Init, RoutedAsked
<1> QED
  BY <1>2, <1>3, <1>4, <1>5, <1>6 DEF RouterInv, WalkInv

\* Every step keeps the invariant.
LEMMA NextRouterInv == RouterInv /\ [Next]_rvars => RouterInv'
<1> SUFFICES ASSUME RouterInv, [Next]_rvars PROVE RouterInv'
  OBVIOUS
<1>1. PICK path, L : Before(path, L)
  BY RouterInvForm
<1>2. SUFFICES \E path2, L2 : Before(path2, L2)'
  BY <1>2 DEF RouterInv, Before
<1>3. ASSUME NEW c \in Tasks, NEW r \in Requests, Subscribe(c, r)
      PROVE  \E path2, L2 : Before(path2, L2)'
  BY <1>1, <1>3, SubscribeStep
<1>4. ASSUME NEW c \in Tasks, InsertStep(c)
      PROVE  \E path2, L2 : Before(path2, L2)'
  BY <1>1, <1>4, LoadCurStep, GetBranchStep, CreateBranchStep, SetSubscriberStep, AckStep DEF InsertStep
<1>5. ASSUME NEW t \in Topics, Lookup(t)
      PROVE  \E path2, L2 : Before(path2, L2)'
  BY <1>1, <1>5, LookupStep
<1>6. ASSUME RouteStep
      PROVE  \E path2, L2 : Before(path2, L2)'
  BY <1>1, <1>6, RouteLoadStep, RouteGetStep, RouteValStep DEF RouteStep
<1>7. ASSUME NEW c \in Tasks, NEW t \in Topics, Remove(c, t)
      PROVE  \E path2, L2 : Before(path2, L2)'
  BY <1>1, <1>7, RemoveStep
<1>8. ASSUME CleanBranch
      PROVE  \E path2, L2 : Before(path2, L2)'
  BY <1>1, <1>8, CleanBranchStep
<1>9. ASSUME UNCHANGED rvars
      PROVE  Before(path, L)'
  <2>1. /\ UNCHANGED trieVars /\ UNCHANGED taskVars /\ UNCHANGED <<opc, otopic, odepth, ocur, optr>>
        /\ UNCHANGED <<child, asked, removes, routed>>
    BY <1>9 DEF rvars, trieVars, taskVars, obsVars
  <2>2. TypeOK' /\ RoutedAsked'
    BY <1>1, <2>1 DEF Before, TypeOK, RoutedAsked, trieVars, taskVars
  <2>3. Extends(path, L, path, L)
    BY <2>1 DEF Extends
  <2>4. ObsInv(path, L)'
    BY <1>1, <2>1, <2>3, ObsKept DEF Before, WalkInv
  <2> QED
    BY <1>1, <2>1, <2>2, <2>4, ObsStep
<1> QED
  BY <1>3, <1>4, <1>5, <1>6, <1>7, <1>8, <1>9 DEF Next

\* The invariant holds in every reachable state.
THEOREM RouterInvariance == Spec => []RouterInv
  BY InitRouterInv, NextRouterInv, PTL DEF Spec

\* Every variable of the router keeps its type: a slot that a task or the
\* observer loads always has its node.
THEOREM TypeCorrect == Spec => []TypeOK
<1>1. RouterInv => TypeOK
  BY DEF RouterInv
<1> QED
  BY <1>1, RouterInvariance, PTL

\* A message is routed only to a client that asked for its very topic and was
\* not removed since, although create_branch replaces branches that other tasks
\* and the observer are walking over.
THEOREM RoutedOnlyAsked == Spec => []RoutedAsked
<1>1. RouterInv => RoutedAsked
  BY DEF RouterInv
<1> QED
  BY <1>1, RouterInvariance, PTL

-----------------------------------------------------------------------------
(* clean_branch takes away what no topic leads to *)

\* The nodes a branch leads to are younger than the node it is in, so that the
\* recursion of dfs_empty_and_remove ends.
Deeper(ch) == \A n \in Nodes, p \in Parts : ch[n][p] # NULL => n < ch[n][p]
TrieIsDeeper == Deeper(child)
Maps == [Nodes -> [Parts -> Nodes \cup {NULL}]]

\* The empty trie has no branches.
LEMMA InitDeeper == Init => TrieIsDeeper
  BY DEF Init, TrieIsDeeper, Deeper

\* create_branch makes the youngest node, in a node that is in use.
LEMMA NextDeeper == RouterInv /\ TrieIsDeeper /\ [Next]_rvars => TrieIsDeeper'
<1> SUFFICES ASSUME RouterInv, Deeper(child), [Next]_rvars PROVE Deeper(child')
  BY DEF TrieIsDeeper
<1>1. ASSUME child' = child
      PROVE  Deeper(child')
  BY <1>1 DEF Deeper
<1>2. ASSUME NEW c \in Tasks, CreateBranch(c)
      PROVE  Deeper(child')
  <2>1. PICK path, L : Before(path, L)
    BY RouterInvForm
  <2>2. TypeOK /\ ptr[c] \in L /\ L \in SUBSET Nodes /\ TrieInv(path, L)
    BY <1>2, <2>1 DEF Before, WalkInv, TaskInv, CreateBranch
  <2>3. PICK m \in Nodes : m = ptr[c] /\ m <= used
    BY <2>2 DEF TrieInv
  <2>4. PICK u : u = used + 1
    OBVIOUS
  <2>5. m < u
    BY <2>2, <2>3, <2>4, RouterAssumption DEF TypeOK, Nodes
  <2>6. PICK q : q = Part(c)
    OBVIOUS
  <2>7. child \in Maps /\ child' = [child EXCEPT ![m][q] = u]
    BY <1>2, <2>2, <2>3, <2>4, <2>6 DEF CreateBranch, TypeOK, Maps
  <2>8. \A n \in Nodes, p \in Parts : child'[n][p] = child[n][p] \/ (n = m /\ child'[n][p] = u)
    BY <2>7 DEF Maps
  <2> QED
    BY <2>5, <2>8 DEF Deeper
<1>3. ASSUME CleanBranch
      PROVE  Deeper(child')
  <2>1. \A n \in Nodes, p \in Parts : child'[n][p] = NULL \/ child'[n][p] = child[n][p]
    BY <1>3 DEF CleanBranch
  <2> QED
    BY <2>1 DEF Deeper
<1>4. child' = child \/ CleanBranch \/ \E c \in Tasks : CreateBranch(c)
  BY DEF Next, InsertStep, RouteStep, Subscribe, LoadCur, GetBranch, SetSubscriber, Ack, Lookup,
         RouteLoad, RouteGet, RouteVal, Remove, trieVars, rvars
<1> QED
  BY <1>1, <1>2, <1>3, <1>4

\* dfs_empty_and_remove at node k, when g holds its results below the node.
EmptyStep(ch, sb, g, k) == sb[k] = NULL /\ \A p \in Parts : ch[k][p] # NULL => g[ch[k][p]]
IsEmptyMap(ch, sb, g) == g = [k \in Nodes |-> EmptyStep(ch, sb, g, k)]
EmptyIn(ch, sb, n) == (CHOOSE g : IsEmptyMap(ch, sb, g))[n]

\* A set of nodes that has a node whenever it has all the younger ones has all.
LEMMA NodeInduction ==
    ASSUME NEW S, \A n \in Nodes : (\A k \in Nodes : n < k => k \in S) => n \in S
    PROVE  Nodes \subseteq S
<1> DEFINE D == {d \in Nat : \A n \in Nodes : MaxNodes < n + d => n \in S}
<1>1. 0 \in D
  BY RouterAssumption DEF Nodes
<1>2. ASSUME NEW d \in Nat, d \in D
      PROVE  d + 1 \in D
  <2>1. ASSUME NEW n \in Nodes, MaxNodes < n + (d + 1)
        PROVE  n \in S
    <3>1. ASSUME NEW k \in Nodes, n < k
          PROVE  k \in S
      <4>1. MaxNodes < k + d
        BY <2>1, <3>1, RouterAssumption DEF Nodes
      <4> QED
        BY <1>2, <4>1
    <3> QED
      BY <3>1
  <2>2. d + 1 \in Nat
    OBVIOUS
  <2> QED
    BY <2>1, <2>2
<1>3. MaxNodes + 1 \in D
  <2>1. MaxNodes + 1 \in Nat
    BY RouterAssumption
  <2> HIDE DEF D
  <2> QED
    BY <1>1, <1>2, <2>1, NatSetInduction
<1>4. \A n \in Nodes : MaxNodes < n + (MaxNodes + 1)
  BY RouterAssumption DEF Nodes
<1> QED
  BY <1>3, <1>4

\* The recursion is defined in every trie whose branches lead to younger nodes.
LEMMA EmptyDefined ==
    ASSUME NEW ch \in Maps, Deeper(ch), NEW sb
    PROVE  IsEmptyMap(ch, sb, CHOOSE g : IsEmptyMap(ch, sb, g))
<1> DEFINE From(g, n) == \A k \in Nodes : n <= k => g[k] = EmptyStep(ch, sb, g, k)
<1> DEFINE S == {n \in Nodes : \E g : From(g, n)}
<1>1. ASSUME NEW n \in Nodes, \A k \in Nodes : n < k => k \in S
      PROVE  n \in S
  <2>1. PICK g : \A k \in Nodes : n < k => g[k] = EmptyStep(ch, sb, g, k)
    <3>1. CASE n + 1 \in Nodes
      <4>1. PICK g : From(g, n + 1)
        BY <1>1, <3>1 DEF Nodes
      <4> QED
        BY <4>1 DEF Nodes
    <3>2. CASE n + 1 \notin Nodes
      <4>1. \A k \in Nodes : ~(n < k)
        BY <3>2, RouterAssumption DEF Nodes
      <4> QED
        BY <4>1
    <3> QED
      BY <3>1, <3>2
  <2> DEFINE h == [k \in Nodes |-> EmptyStep(ch, sb, g, k)]
  <2>2. \A k \in Nodes : n < k => h[k] = g[k]
    BY <2>1
  <2>3. \A k \in Nodes : h[k] = EmptyStep(ch, sb, g, k)
    OBVIOUS
  <2> HIDE DEF h
  <2>4. ASSUME NEW k \in Nodes, n <= k
        PROVE  h[k] = EmptyStep(ch, sb, h, k)
    <3>1. \A p \in Parts : ch[k][p] # NULL => ch[k][p] \in Nodes /\ n < ch[k][p]
      BY <2>4 DEF Deeper, Maps, Nodes
    <3>2. \A p \in Parts : ch[k][p] # NULL => h[ch[k][p]] = g[ch[k][p]]
      BY <2>2, <3>1
    <3>3. EmptyStep(ch, sb, h, k) = EmptyStep(ch, sb, g, k)
      BY <3>2 DEF EmptyStep
    <3> QED
      BY <2>3, <3>3
  <2>5. From(h, n)
    BY <2>4
  <2> QED
    BY <2>5
<1>2. Nodes \subseteq S
  <2> HIDE DEF S
  <2> QED
    BY <1>1, NodeInduction
<1>3. PICK g : \A k \in Nodes : g[k] = EmptyStep(ch, sb, g, k)
  <2>1. 0 \in Nodes /\ \A k \in Nodes : 0 <= k
    BY RouterAssumption DEF Nodes
  <2> QED
    BY <1>2, <2>1
<1> DEFINE h == [k \in Nodes |-> EmptyStep(ch, sb, g, k)]
<1>4. \A k \in Nodes : h[k] = EmptyStep(ch, sb, g, k) /\ h[k] = g[k]
  BY <1>3
<1>5. \A k \in Nodes : EmptyStep(ch, sb, h, k) = EmptyStep(ch, sb, g, k)
  <2> HIDE DEF h
  <2>1. \A k \in Nodes, p \in Parts : ch[k][p] # NULL => ch[k][p] \in Nodes
    BY DEF Maps
  <2> QED
    BY <1>4, <2>1 DEF EmptyStep
<1>6. h = [k \in Nodes |-> EmptyStep(ch, sb, h, k)]
  BY <1>5
<1> HIDE DEF h
<1>7. IsEmptyMap(ch, sb, h)
  BY <1>6 DEF IsEmptyMap
<1> QED
  BY <1>7, Zenon

\* A node is empty if nobody subscribes to it and its branches lead to empty
\* nodes.
LEMMA EmptyFacts ==
    ASSUME NEW ch \in Maps, Deeper(ch), NEW sb, NEW n \in Nodes
    PROVE  EmptyIn(ch, sb, n) <=>
             sb[n] = NULL /\ \A p \in Parts : ch[n][p] # NULL => EmptyIn(ch, sb, ch[n][p])
<1>1. PICK g : g = CHOOSE h : IsEmptyMap(ch, sb, h)
  OBVIOUS
<1>2. IsEmptyMap(ch, sb, g)
  BY <1>1, EmptyDefined, Zenon
<1>3. \A k : EmptyIn(ch, sb, k) = g[k]
  BY <1>1, Zenon DEF EmptyIn
<1>4. g[n] = EmptyStep(ch, sb, g, n)
  BY <1>2, Zenon DEF IsEmptyMap
<1> QED
  BY <1>3, <1>4, Zenon DEF EmptyStep

\* Empty of the model is this recursion in the trie as it is.
LEMMA EmptyIsEmpty == \A n : Empty(n) = EmptyIn(child, sub, n)
  BY DEF Empty, EmptyIn, IsEmptyMap, EmptyStep

\* The maps after clean_branch: the branches to empty nodes are gone.
Cleaned(ch, sb, ch2) ==
    \A n \in Nodes, p \in Parts :
       ch2[n][p] = IF ch[n][p] # NULL /\ EmptyIn(ch, sb, ch[n][p]) THEN NULL ELSE ch[n][p]

\* Taking them out makes no other node empty and leaves no empty one behind.
LEMMA CleanKeepsEmpty ==
    ASSUME NEW ch \in Maps, Deeper(ch), NEW ch2 \in Maps, Deeper(ch2), NEW sb, Cleaned(ch, sb, ch2)
    PROVE  \A n \in Nodes : EmptyIn(ch2, sb, n) <=> EmptyIn(ch, sb, n)
<1> DEFINE S == {n \in Nodes : EmptyIn(ch2, sb, n) <=> EmptyIn(ch, sb, n)}
<1>1. ASSUME NEW n \in Nodes, \A k \in Nodes : n < k => k \in S
      PROVE  n \in S
  <2>1. ASSUME NEW p \in Parts
        PROVE  (ch2[n][p] # NULL => EmptyIn(ch2, sb, ch2[n][p]))
                 <=> (ch[n][p] # NULL => EmptyIn(ch, sb, ch[n][p]))
    <3>1. CASE ch[n][p] = NULL
      BY <3>1 DEF Cleaned
    <3>2. CASE ch[n][p] # NULL /\ EmptyIn(ch, sb, ch[n][p])
      BY <3>2 DEF Cleaned
    <3>3. CASE ch[n][p] # NULL /\ ~EmptyIn(ch, sb, ch[n][p])
      <4>1. ch2[n][p] = ch[n][p]
        BY <3>3 DEF Cleaned
      <4>2. ch[n][p] \in Nodes /\ n < ch[n][p]
        BY <3>3 DEF Maps, Deeper
      <4>3. ~EmptyIn(ch2, sb, ch[n][p])
        BY <1>1, <3>3, <4>2
      <4> QED
        BY <3>3, <4>1, <4>3
    <3> QED
      BY <3>1, <3>2, <3>3
  <2>2. EmptyIn(ch2, sb, n) <=> EmptyIn(ch, sb, n)
    BY <2>1, EmptyFacts
  <2> QED
    BY <2>2
<1>2. Nodes \subseteq S
  <2> HIDE DEF S
  <2> QED
    BY <1>1, NodeInduction
<1> QED
  BY <1>2

\* The node that a prefix leads to stays, or it was empty and is gone.
WalkKept(ch, sb, ch2, s) ==
    /\ WalkIn(ch, s) \in Nodes \cup {NULL}
    /\ \/ WalkIn(ch2, s) = WalkIn(ch, s)
       \/ WalkIn(ch2, s) = NULL /\ WalkIn(ch, s) # NULL /\ EmptyIn(ch, sb, WalkIn(ch, s))

\* By induction along the topic.
LEMMA CleanKeepsWalks ==
    ASSUME NEW ch \in Maps, Deeper(ch), NEW ch2, NEW sb, Cleaned(ch, sb, ch2), NEW t \in Seq(Parts)
    PROVE  WalkKept(ch, sb, ch2, t)
<1> DEFINE S == {d \in Nat : d <= Len(t) => WalkKept(ch, sb, ch2, Pre(t, d))}
<1>1. 0 \in S
  <2>1. Pre(t, 0) = <<>>
    BY PrefixFacts
  <2>2. WalkIn(ch, <<>>) = 0 /\ WalkIn(ch2, <<>>) = 0
    BY WalkRoot
  <2> QED
    BY <2>1, <2>2, RouterAssumption DEF WalkKept, Nodes
<1>2. ASSUME NEW d \in Nat, d \in S
      PROVE  d + 1 \in S
  <2>1. ASSUME d + 1 <= Len(t)
        PROVE  WalkKept(ch, sb, ch2, Pre(t, d + 1))
    <3>1. d \in 0 .. Len(t) /\ d < Len(t) /\ d <= Len(t)
      BY <2>1
    <3>2. PICK p \in Parts : p = t[d + 1]
      BY <3>1, PrefixFacts
    <3>3. PICK s \in Seq(Parts) : s = Pre(t, d)
      BY <3>1, PrefixFacts
    <3>4. Pre(t, d + 1) = Below(s, p)
      BY <3>1, <3>2, <3>3, PrefixFacts
    <3>5. WalkKept(ch, sb, ch2, s)
      BY <1>2, <3>1, <3>3
    <3>6. PICK n : n = WalkIn(ch, s)
      OBVIOUS
    <3>7. /\ WalkIn(ch, Below(s, p)) = IF n = NULL THEN NULL ELSE ch[n][p]
          /\ WalkIn(ch2, Below(s, p)) = IF WalkIn(ch2, s) = NULL THEN NULL ELSE ch2[WalkIn(ch2, s)][p]
      BY <3>6, WalkBelow
    <3>8. NULL \notin Nodes /\ (n # NULL => n \in Nodes /\ ch[n][p] \in Nodes \cup {NULL})
      BY <3>5, <3>6, RouterAssumption DEF WalkKept, Maps, Nodes
    <3>9. CASE n = NULL
      <4>1. WalkIn(ch2, s) = NULL
        BY <3>5, <3>6, <3>9 DEF WalkKept
      <4> QED
        BY <3>4, <3>7, <3>9, <4>1 DEF WalkKept
    <3>10. CASE n # NULL /\ WalkIn(ch2, s) = n
      <4>1. ch2[n][p] = ch[n][p] \/ (ch2[n][p] = NULL /\ ch[n][p] # NULL /\ EmptyIn(ch, sb, ch[n][p]))
        BY <3>8, <3>10 DEF Cleaned
      <4>2. WalkIn(ch, Below(s, p)) = ch[n][p] /\ WalkIn(ch2, Below(s, p)) = ch2[n][p]
        BY <3>7, <3>10
      <4> QED
        BY <3>4, <3>8, <3>10, <4>1, <4>2 DEF WalkKept
    <3>11. CASE n # NULL /\ WalkIn(ch2, s) = NULL /\ EmptyIn(ch, sb, n)
      <4>1. WalkIn(ch, Below(s, p)) = ch[n][p] /\ WalkIn(ch2, Below(s, p)) = NULL
        BY <3>7, <3>11
      <4>2. ch[n][p] # NULL => EmptyIn(ch, sb, ch[n][p])
        BY <3>8, <3>11, EmptyFacts
      <4> QED
        BY <3>4, <3>8, <3>11, <4>1, <4>2 DEF WalkKept
    <3> QED
      BY <3>5, <3>6, <3>9, <3>10, <3>11 DEF WalkKept
  <2>2. d + 1 \in Nat
    OBVIOUS
  <2> QED
    BY <2>1, <2>2
<1>3. Len(t) \in Nat /\ Pre(t, Len(t)) = t
  BY PrefixFacts
<1>4. Len(t) \in S
  <2> HIDE DEF S
  <2> QED
    BY <1>1, <1>2, <1>3, NatSetInduction
<1> QED
  BY <1>3, <1>4

\* clean_branch changes no lookup and leaves only branches that lead to a
\* subscriber.
LEMMA CleanStep ==
    ASSUME RouterInv, RouterInv', Deeper(child), Deeper(child'), CleanBranch
    PROVE  /\ \A t \in Topics : Found(t)' = Found(t)
           /\ \A n \in Nodes, p \in Parts : child'[n][p] # NULL => ~Empty(child[n][p])'
<1>1. child \in Maps /\ child' \in Maps /\ sub' = sub /\ Topics \subseteq Seq(Parts)
  BY RouterAssumption DEF RouterInv, TypeOK, Maps, CleanBranch
<1>2. Cleaned(child, sub, child')
  BY EmptyIsEmpty, Zenon DEF Cleaned, CleanBranch
<1>3. \A n : Empty(n)' = EmptyIn(child', sub', n)
  BY DEF Empty, EmptyIn, IsEmptyMap, EmptyStep
<1>4. \A t : Walk(t)' = WalkIn(child', t)
  BY DEF Walk, WalkIn, IsWalk, WalkStep
<1>5. ASSUME NEW t \in Topics
      PROVE  Found(t)' = Found(t)
  <2>1. WalkKept(child, sub, child', t)
    BY <1>1, <1>2, CleanKeepsWalks
  <2>2. PICK m, k : m = Walk(t) /\ k = Walk(t)'
    OBVIOUS
  <2>3. m = WalkIn(child, t) /\ k = WalkIn(child', t)
    BY <1>4, <2>2, WalkIsWalk
  <2>4. k = m \/ (k = NULL /\ m # NULL /\ sub[m] = NULL)
    BY <1>1, <2>1, <2>3, EmptyFacts DEF WalkKept
  <2>5. Found(t) = IF m = NULL THEN NULL ELSE sub[m]
    BY <2>2 DEF Found
  <2>6. Found(t)' = IF k = NULL THEN NULL ELSE sub[k]
    BY <1>1, <2>2 DEF Found
  <2> QED
    BY <2>4, <2>5, <2>6
<1>6. ASSUME NEW n \in Nodes, NEW p \in Parts, child'[n][p] # NULL
      PROVE  ~Empty(child[n][p])'
  <2>1. PICK k : k = child'[n][p]
    OBVIOUS
  <2>2. k \in Nodes /\ ~EmptyIn(child, sub, k)
    BY <1>1, <1>2, <1>6, <2>1 DEF Cleaned, Maps
  <2>3. ~EmptyIn(child', sub, k)
    BY <1>1, <1>2, <2>2, CleanKeepsEmpty
  <2> QED
    BY <1>1, <1>3, <2>1, <2>3
<1> QED
  BY <1>5, <1>6

\* clean_branch takes away only what no topic leads to: every topic keeps its
\* subscriber, and the branches that are left lead to one.
THEOREM CleanAlwaysKeepsRoutes == Spec => CleanKeepsRoutes
<1>1. RouterInv /\ RouterInv' /\ TrieIsDeeper /\ TrieIsDeeper' /\ [Next]_rvars =>
        [used' = used /\ child' # child =>
          /\ \A t \in Topics : Found(t)' = Found(t)
          /\ \A n \in Nodes, p \in Parts : child'[n][p] # NULL => ~Empty(child[n][p])']_rvars
  <2> SUFFICES ASSUME RouterInv, RouterInv', Deeper(child), Deeper(child'), Next, used' = used, child' # child
               PROVE  /\ \A t \in Topics : Found(t)' = Found(t)
                      /\ \A n \in Nodes, p \in Parts : child'[n][p] # NULL => ~Empty(child[n][p])'
    BY DEF TrieIsDeeper
  <2>1. child' = child \/ CleanBranch \/ \E c \in Tasks : CreateBranch(c)
    BY DEF Next, InsertStep, RouteStep, Subscribe, LoadCur, GetBranch, SetSubscriber, Ack, Lookup,
           RouteLoad, RouteGet, RouteVal, Remove, trieVars
  <2>2. ASSUME NEW c \in Tasks, CreateBranch(c)
        PROVE  FALSE
    <3>1. used \in Nat /\ used' = used + 1
      BY <2>2, RouterAssumption DEF RouterInv, TypeOK, Nodes, CreateBranch
    <3> QED
      BY <3>1
  <2> QED
    BY <2>1, <2>2, CleanStep
<1>2. Spec => [](RouterInv /\ TrieIsDeeper)
  BY RouterInvariance, InitDeeper, NextDeeper, PTL DEF Spec
<1> QED
  BY <1>1, <1>2, PTL DEF Spec, CleanKeepsRoutes
=============================================================================
