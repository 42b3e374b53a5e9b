------------------------------ MODULE Clients -------------------------------
(***************************************************************************)
(* The list of clients of src/message_broker/client/clients.rs: a vector   *)
(* of pointers to Client boxes behind an RwLock, kept in the order of the  *)
(* client ids and searched with a binary search.  What an operation does   *)
(* to the vector under the lock is one action, except in insert: the       *)
(* session of the client that it swaps out is prolonged by the client's    *)
(* own task, which takes no lock (keep_alive).  A forwarder (pubish) keeps *)
(* the reference it found after it has released the lock.                  *)
(***************************************************************************)
EXTENDS Naturals, Sequences, SequencesExt

CONSTANTS
    Ids,          \* client ids; their order is the order of ClientID::cmp
    Forwarders,   \* tasks that forward a packet to a client
    MaxConns,     \* bound on the number of connections
    NULL

ASSUME ClientsAssumption ==
    /\ Ids \subseteq Nat
    /\ MaxConns \in Nat
    /\ NULL \notin Nat

VARIABLES
    list,     \* Clients.list: for each slot <<id, connection>> of its box
    conns,    \* number of connections made; a Client box is named by its number
    dead,     \* the boxes whose session is not alive
    freed,    \* the boxes that have been dropped
    logged,   \* the connections whose end clear has logged
    held,     \* the box each forwarder is writing to
    stage,    \* insert: "swap" when it has found a dead client and holds the
              \* write lock, "drop" when it has swapped the boxes and released it
    old       \* insert: the box that is swapped out, odl_cl

cvars == <<list, conns, dead, freed, logged, held, stage, old>>
insertVars == <<stage, old>>

Conns == 1 .. MaxConns

\* Every variable holds a value of its type.
TypeOK ==
    /\ list \in Seq(Ids \X Conns)
    /\ conns \in 0 .. MaxConns
    /\ dead \subseteq Conns
    /\ freed \subseteq Conns
    /\ logged \subseteq Conns
    /\ held \in [Forwarders -> Conns \cup {NULL}]
    /\ stage \in {"none", "swap", "drop"}
    /\ old \in Conns \cup {NULL}

Init ==
    /\ list = <<>>
    /\ conns = 0
    /\ dead = {}
    /\ freed = {}
    /\ logged = {}
    /\ held = [f \in Forwarders |-> NULL]
    /\ stage = "none"
    /\ old = NULL

-----------------------------------------------------------------------------
(* insert, by the accept task: one at a time *)

\* Mutant: the loop stops at the first slot.
StopsAtFirst(id, i) == i = 1

\* The slot at which the loop of insert stops: behind every smaller id.
StopsAt(id, i) ==
    /\ i \in 1 .. Len(list) + 1
    /\ \A j \in 1 .. i - 1 : list[j][1] < id
    /\ i <= Len(list) => id <= list[i][1]

Occupied(id, i) == i <= Len(list) /\ list[i][1] = id

\* Mutant: the box gets the number of the connection before it.
InsertSlotOld(id) ==
    /\ stage = "none"
    /\ conns < MaxConns
    /\ \E i \in 1 .. Len(list) + 1 :
          /\ StopsAt(id, i)
          /\ ~Occupied(id, i)
          /\ list' = InsertAt(list, i, <<id, conns>>)
    /\ conns' = conns + 1
    /\ UNCHANGED <<dead, freed, logged, held, insertVars>>

\* A new id gets a slot of its own.
InsertSlot(id) ==
    /\ stage = "none"
    /\ conns < MaxConns
    /\ \E i \in 1 .. Len(list) + 1 :
          /\ StopsAt(id, i)
          /\ ~Occupied(id, i)
          /\ list' = InsertAt(list, i, <<id, conns + 1>>)
    /\ conns' = conns + 1
    /\ UNCHANGED <<dead, freed, logged, held, insertVars>>

\* duplicate client id: the new client is dropped.
InsertDuplicate(id) ==
    /\ stage = "none"
    /\ conns < MaxConns
    /\ \E i \in 1 .. Len(list) :
          /\ StopsAt(id, i)
          /\ Occupied(id, i)
          /\ list[i][2] \notin dead
    /\ conns' = conns + 1
    /\ freed' = freed \cup {conns + 1}
    /\ UNCHANGED <<list, dead, logged, held, insertVars>>

\* Mutant: is_alive is not asked.
InsertDeadUnasked(id) ==
    /\ stage = "none"
    /\ conns < MaxConns
    /\ \E i \in 1 .. Len(list) :
          /\ StopsAt(id, i)
          /\ Occupied(id, i)
          /\ old' = list[i][2]
    /\ conns' = conns + 1
    /\ stage' = "swap"
    /\ UNCHANGED <<list, dead, freed, logged, held>>

\* The client of the same id is dead: swap = true.
InsertDead(id) ==
    /\ stage = "none"
    /\ conns < MaxConns
    /\ \E i \in 1 .. Len(list) :
          /\ StopsAt(id, i)
          /\ Occupied(id, i)
          /\ list[i][2] \in dead
          /\ old' = list[i][2]
    /\ conns' = conns + 1
    /\ stage' = "swap"
    /\ UNCHANGED <<list, dead, freed, logged, held>>

\* The boxes are swapped, and drop(clients) releases the lock.
InsertSwap ==
    /\ stage = "swap"
    /\ \E i \in 1 .. Len(list) :
          /\ list[i][2] = old
          /\ list' = [list EXCEPT ![i] = <<list[i][1], conns>>]
    /\ stage' = "drop"
    /\ UNCHANGED <<conns, dead, freed, logged, held, old>>

\* Mutant: the box that was swapped in is dropped.
InsertDropNew ==
    /\ stage = "drop"
    /\ freed' = freed \cup {conns}
    /\ stage' = "none"
    /\ old' = NULL
    /\ UNCHANGED <<list, conns, dead, logged, held>>

\* Mutant: the box that was swapped out is forgotten.
InsertDropNot ==
    /\ stage = "drop"
    /\ stage' = "none"
    /\ old' = NULL
    /\ UNCHANGED <<list, conns, dead, freed, logged, held>>

\* drop(Box::from_raw(odl_cl)), without the lock.
InsertDrop ==
    /\ stage = "drop"
    /\ freed' = freed \cup {old}
    /\ stage' = "none"
    /\ old' = NULL
    /\ UNCHANGED <<list, conns, dead, logged, held>>

-----------------------------------------------------------------------------
(* search_mut_client, as pubish uses it *)

\* pubish: the closure makes the future of write_all, which refers to the
\* client, and the read guard is dropped.  On a sorted vector (StrictlySorted)
\* binary_search_by returns the slot of the id, if it has one.
Search(f, id) ==
    /\ stage # "swap"
    /\ held[f] = NULL
    /\ \E i \in 1 .. Len(list) :
          /\ list[i][1] = id
          /\ held' = [held EXCEPT ![f] = list[i][2]]
    /\ UNCHANGED <<list, conns, dead, freed, logged, insertVars>>

\* pubish: the future is awaited.
Written(f) ==
    /\ held[f] # NULL
    /\ held' = [held EXCEPT ![f] = NULL]
    /\ UNCHANGED <<list, conns, dead, freed, logged, insertVars>>

-----------------------------------------------------------------------------

\* clear: every client is popped, logged and dropped under the write lock.
Clear ==
    /\ stage # "swap"
    /\ list # <<>>
    /\ LET all == {list[i][2] : i \in 1 .. Len(list)}
       IN  freed' = freed \cup all /\ logged' = logged \cup all
    /\ list' = <<>>
    /\ UNCHANGED <<conns, dead, held, insertVars>>

\* The session of a client runs out as time goes by.
Expire ==
    \E b \in (1 .. conns) \ freed :
        /\ dead' = dead \cup {b}
        /\ UNCHANGED <<list, conns, freed, logged, held, insertVars>>

\* The task of a client prolongs its session with a packet that it had already
\* begun to handle.  It takes no lock, and it has the reference it loaded at the
\* head of its loop: the box may just have been swapped out.
Revive ==
    \E b \in (dead \ freed) :
        /\ stage = "swap" => b # conns
        /\ dead' = dead \ {b}
        /\ UNCHANGED <<list, conns, freed, logged, held, insertVars>>

Next ==
    \/ \E id \in Ids : InsertSlot(id) \/ InsertDead(id) \/ InsertDuplicate(id)
    \/ InsertSwap \/ InsertDrop
    \/ \E f \in Forwarders : (\E id \in Ids : Search(f, id)) \/ Written(f)
    \/ Clear
    \/ Expire \/ Revive

Spec == Init /\ [][Next]_cvars

-----------------------------------------------------------------------------

\* The ids of the slots increase strictly: insert keeps the order that the
\* binary search relies on, and an id never has two slots.
StrictlySorted == \A i, j \in 1 .. Len(list) : i < j => list[i][1] < list[j][1]

\* A box that is in the list has not been dropped, and is in the list once.
ListedIsAllocated ==
    /\ \A i \in 1 .. Len(list) : list[i][2] \notin freed
    /\ \A i, j \in 1 .. Len(list) : list[i][2] = list[j][2] => i = j

\* The boxes in the list, and the one that insert has in its hands.
Listed == {list[i][2] : i \in 1 .. Len(list)}
InHand == CASE stage = "swap" -> {conns} [] stage = "drop" -> {old} [] OTHER -> {}

\* The raw pointers of insert and clear lose no box and drop none twice: every
\* box that was made is in the list, or in the hands of insert, or dropped, and
\* only one of them, although insert drops after it has released the lock and
\* clear can come in between.
OwnedOnce ==
    /\ 1 .. conns = Listed \cup InHand \cup freed
    /\ Listed \cap freed = {} /\ Listed \cap InHand = {} /\ InHand \cap freed = {}

\* The list implements the registry: insert gives an id to a second connection
\* only if it has found the first one dead, under the lock under which it
\* replaces it.  (The first one may have come back to life since.)
Reg == INSTANCE Registry WITH
    entries <- {list[i] : i \in 1 .. Len(list)},
    doomed <- IF stage = "swap" THEN {old} ELSE {}

ImplementsRegistry == Reg!Spec

=============================================================================
