-------------------------------- MODULE List --------------------------------
(***************************************************************************)
(* The lock-free singly linked list of src/ds/linked_list.rs, one action   *)
(* per access to shared memory.  Threads in Appenders run List::append,    *)
(* threads in Takers run List::take_first.                                 *)
(*                                                                         *)
(* A node is a heap cell at an address.  Box::into_raw allocates an        *)
(* address that is not in use, Box::from_raw frees it.  A freed cell keeps *)
(* its contents until its address is allocated again, and dereferencing    *)
(* it, or NULL, is undefined behaviour: the access either faults (Segfault *)
(* ends the process) or, for a freed cell, reads what the cell holds then. *)
(* The atomics are taken as sequentially consistent, which is stronger     *)
(* than the orderings of the code: everything found here is found under    *)
(* the weaker orderings too.                                               *)
(***************************************************************************)
EXTENDS Naturals, Sequences, FiniteSets

CONSTANTS
    Appenders,   \* threads that call append
    Takers,      \* threads that call take_first
    Addrs,       \* heap addresses that can hold an AtmcNode
    NULL,        \* ptr::null_mut()
    MaxAppends   \* bound on the calls of append of each thread

ASSUME ListAssumption ==
    /\ NULL \notin Addrs
    /\ Appenders \cap Takers = {}
    /\ MaxAppends \in [Appenders -> Nat]

VARIABLES
    head,    \* List.head
    next,    \* AtmcNode.next of the cell at each address
    val,     \* AtmcNode.val of the cell at each address, <<appender, number>>
    alive,   \* addresses of the boxes that have not been freed
    pc,      \* the next access each thread makes
    node,    \* append: new_node.  take_first: the head that was loaded
    cur,     \* append: curr.  take_first: the next that was loaded
    sent,    \* number of append calls each appender has begun
    taken,   \* history: the values take_first has returned, in order
    fault    \* the process was ended by an invalid access

memVars == <<head, next, val, alive>>
vars == <<memVars, pc, node, cur, sent, taken, fault>>

Threads == Appenders \cup Takers
Pointer == Addrs \cup {NULL}
Message == Appenders \X Nat

AppendPCs == {"load_head", "cas_head", "reload_head", "check_next", "advance", "cas_next"}
TakePCs == {"load_next", "cas_take", "free"}
\* Where a call has returned: append; take_first with Some and with None.
ReturnPCs == {"appended", "some", "none"}
\* Where a caller of the list is between two calls (see MessageQueue).
CallerPCs == {"waking", "parked", "stopped"}

\* Every variable holds a value of its type.
ListTypeOK ==
    /\ head \in Pointer
    /\ next \in [Addrs -> Pointer]
    /\ val \in [Addrs -> Message \cup {NULL}]
    /\ alive \subseteq Addrs
    /\ pc \in [Threads -> {"idle"} \cup AppendPCs \cup TakePCs \cup ReturnPCs \cup CallerPCs]
    /\ node \in [Threads -> Pointer]
    /\ cur \in [Threads -> Pointer]
    /\ sent \in [Appenders -> Nat]
    /\ taken \in Seq(Message)
    /\ fault \in BOOLEAN

ListInit ==
    /\ head = NULL
    /\ next = [a \in Addrs |-> NULL]
    /\ val = [a \in Addrs |-> NULL]
    /\ alive = {}
    /\ pc = [p \in Threads |-> "idle"]
    /\ node = [p \in Threads |-> NULL]
    /\ cur = [p \in Threads |-> NULL]
    /\ sent = [p \in Appenders |-> 0]
    /\ taken = <<>>
    /\ fault = FALSE

Goto(p, from, to) == pc[p] = from /\ ~fault /\ pc' = [pc EXCEPT ![p] = to]

-----------------------------------------------------------------------------
(* append *)

\* Mutant: the value of a node that is used again is not written.
NewNodeStale(p) ==
    /\ sent[p] < MaxAppends[p]
    /\ Goto(p, "idle", "load_head")
    /\ sent' = [sent EXCEPT ![p] = @ + 1]
    /\ \E a \in Addrs \ alive :
          /\ alive' = alive \cup {a}
          /\ node' = [node EXCEPT ![p] = a]
          /\ val' = IF val[a] = NULL THEN [val EXCEPT ![a] = <<p, sent[p] + 1>>] ELSE val
          /\ next' = [next EXCEPT ![a] = NULL]
    /\ UNCHANGED <<head, cur, taken, fault>>

\* let new_node = Box::into_raw(Box::new(AtmcNode::new(val)))
NewNode(p) ==
    /\ sent[p] < MaxAppends[p]
    /\ Goto(p, "idle", "load_head")
    /\ sent' = [sent EXCEPT ![p] = @ + 1]
    /\ \E a \in Addrs \ alive :
          /\ alive' = alive \cup {a}
          /\ node' = [node EXCEPT ![p] = a]
          /\ val' = [val EXCEPT ![a] = <<p, sent[p] + 1>>]
          /\ next' = [next EXCEPT ![a] = NULL]
    /\ UNCHANGED <<head, cur, taken, fault>>

\* Mutant: append does not look whether the list is empty.
LoadHeadUnchecked(p) ==
    /\ Goto(p, "load_head", "reload_head")
    /\ UNCHANGED <<memVars, node, cur, sent, taken, fault>>

\* The load of head at the top of the loop: is the list empty?
LoadHead(p) ==
    /\ Goto(p, "load_head", IF head = NULL THEN "cas_head" ELSE "reload_head")
    /\ UNCHANGED <<memVars, node, cur, sent, taken, fault>>

\* Mutant: the failed exchange is repeated without a fresh load.
CasHeadSpin(p) ==
    /\ Goto(p, "cas_head", IF head = NULL THEN "appended" ELSE "cas_head")
    /\ head' = IF head = NULL THEN node[p] ELSE head
    /\ UNCHANGED <<next, val, alive, node, cur, sent, taken, fault>>

\* compare_exchange(null, new_node) on head; a failure goes round the loop.
CasHead(p) ==
    /\ Goto(p, "cas_head", IF head = NULL THEN "appended" ELSE "load_head")
    /\ head' = IF head = NULL THEN node[p] ELSE head
    /\ UNCHANGED <<next, val, alive, node, cur, sent, taken, fault>>

\* The second load of head, the argument of iter_exchange.
ReloadHead(p) ==
    /\ Goto(p, "reload_head", "check_next")
    /\ cur' = [cur EXCEPT ![p] = head]
    /\ UNCHANGED <<memVars, node, sent, taken, fault>>

\* iter_exchange: the load of next in the condition of the while.
CheckNext(p) ==
    /\ cur[p] # NULL
    /\ Goto(p, "check_next", IF next[cur[p]] = NULL THEN "cas_next" ELSE "advance")
    /\ UNCHANGED <<memVars, node, cur, sent, taken, fault>>

\* iter_exchange: the second load of next, in the body of the while.
Advance(p) ==
    /\ cur[p] # NULL
    /\ Goto(p, "advance", "check_next")
    /\ cur' = [cur EXCEPT ![p] = next[cur[p]]]
    /\ UNCHANGED <<memVars, node, sent, taken, fault>>

\* Mutant: a plain store instead of compare_exchange.
CasNextStore(p) ==
    /\ cur[p] # NULL
    /\ Goto(p, "cas_next", "appended")
    /\ next' = [next EXCEPT ![cur[p]] = node[p]]
    /\ UNCHANGED <<head, val, alive, node, cur, sent, taken, fault>>

\* iter_exchange: compare_exchange(null, new_node) on the last node's next; a
\* failure makes append go round its loop.
CasNext(p) ==
    /\ cur[p] # NULL
    /\ Goto(p, "cas_next", IF next[cur[p]] = NULL THEN "appended" ELSE "load_head")
    /\ next' = IF next[cur[p]] = NULL THEN [next EXCEPT ![cur[p]] = node[p]] ELSE next
    /\ UNCHANGED <<head, val, alive, node, cur, sent, taken, fault>>

-----------------------------------------------------------------------------
(* take_first *)

TakeFirst(t) ==
    /\ Goto(t, "idle", IF head = NULL THEN "none" ELSE "load_next")
    /\ node' = [node EXCEPT ![t] = head]
    /\ UNCHANGED <<memVars, cur, sent, taken, fault>>

LoadNext(t) ==
    /\ Goto(t, "load_next", "cas_take")
    /\ cur' = [cur EXCEPT ![t] = next[node[t]]]
    /\ UNCHANGED <<memVars, node, sent, taken, fault>>

\* Mutant: the exchange leaves head where it is.
CasTakeStays(t) ==
    /\ Goto(t, "cas_take", IF head = node[t] THEN "free" ELSE "none")
    /\ UNCHANGED <<memVars, node, cur, sent, taken, fault>>

\* compare_exchange(head, next).ok()? : a failure returns None.
CasTake(t) ==
    /\ Goto(t, "cas_take", IF head = node[t] THEN "free" ELSE "none")
    /\ head' = IF head = node[t] THEN cur[t] ELSE head
    /\ UNCHANGED <<next, val, alive, node, cur, sent, taken, fault>>

\* Mutant: the box is dropped before its value is moved out.
FreeNodeFirst(t) ==
    /\ Goto(t, "free", "some")
    /\ taken' = Append(taken, NULL)
    /\ alive' = alive \ {node[t]}
    /\ UNCHANGED <<head, next, val, node, cur, sent, fault>>

\* Box::from_raw(head), whose val is returned; the box is dropped.
FreeNode(t) ==
    /\ Goto(t, "free", "some")
    /\ taken' = Append(taken, val[node[t]])
    /\ alive' = alive \ {node[t]}
    /\ UNCHANGED <<head, next, val, node, cur, sent, fault>>

-----------------------------------------------------------------------------

\* The pointer a thread is about to dereference.
Dereferenced(p) ==
    CASE pc[p] \in {"check_next", "advance", "cas_next"} -> {cur[p]}
      [] pc[p] \in {"load_next", "free"} -> {node[p]}
      [] OTHER -> {}

Dangles(p) == \E a \in Dereferenced(p) : a \notin alive

\* Undefined behaviour that ends the process.
Segfault(p) ==
    /\ ~fault
    /\ Dangles(p)
    /\ fault' = TRUE
    /\ UNCHANGED <<memVars, pc, node, cur, sent, taken>>

AppendStep(p) ==
    \/ LoadHead(p) \/ CasHead(p) \/ ReloadHead(p)
    \/ CheckNext(p) \/ Advance(p) \/ CasNext(p)

TakeStep(t) == LoadNext(t) \/ CasTake(t) \/ FreeNode(t)

-----------------------------------------------------------------------------

\* A walk from the head along next does not leave S.
Closed(S) ==
    /\ head # NULL => head \in S
    /\ \A a \in S : next[a] # NULL => next[a] \in S

\* The nodes that collects() and take_first can come to.
Reached == {a \in Addrs : \A S \in SUBSET Addrs : Closed(S) => a \in S}

=============================================================================
