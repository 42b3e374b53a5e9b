--------------------------- MODULE SessionsProofs ---------------------------
(***************************************************************************)
(* Proofs about the life of a client session, for every number of ids,     *)
(* connections and seconds: the end of a session is logged, and a packet   *)
(* prolongs it from the packet before.                                     *)
(***************************************************************************)
EXTENDS Sessions, TLAPS

Connecting == {"check", "restore", "create", "insert", "swap", "drop", "spawn"}

\* The accept task and the running tasks have a client, and a box in the list
\* belongs to the id of its slot; insert has a box to drop.
RefsInv ==
    /\ apc \in Connecting \cup {"connack"} => conns \in Conns /\ cid[conns] \in Ids
    /\ apc \in {"swap", "drop"} => old \in Conns
    /\ \A c \in Conns : tpc[c] \in Running => cid[c] \in Ids /\ slot[cid[c]] \in Conns
    /\ \A c \in Conns : tpc[c] \in Running \ {"top"} => tobj[c] \in Conns
    /\ \A id \in Ids : slot[id] # NULL => slot[id] <= conns /\ cid[slot[id]] = id

\* A connection has no task before its box is inserted.
NoTaskYet ==
    /\ \A c \in Conns : c > conns => tpc[c] = "none"
    /\ apc \in Connecting => tpc[conns] = "none"

\* The clock has started, and a packet was served before the task loaded the
\* box for the next one.
ClockInv ==
    /\ now >= 1
    /\ \A c \in Conns : served[c] <= now
    /\ \A c \in Conns : tpc[c] = "read" => served[c] <= tt[c]

SessionsInv == TypeOK /\ RefsInv /\ NoTaskYet /\ ClockInv /\ EndIsLogged

\* The numbers that the clock adds are naturals.
LEMMA NumberFacts ==
    /\ U16 \in Nat /\ MaxConns \in Nat /\ NULL \notin Nat /\ MaxLate \in Nat
    /\ MinKeepAlive \in 0 .. U16 - 1 /\ KeepAlives \subseteq 0 .. U16 - 1 /\ Expiries \subseteq Nat
    /\ \A k \in 0 .. U16 - 1 : Window(k) \in Nat
<1>1. U16 \in Nat \ {0}
  BY SessionsAssumption
<1>2. \A k \in Nat : k + k \div 2 \in Nat
  OBVIOUS
<1>3. \A n \in Nat : n % U16 \in Nat
  BY <1>1
<1>4. \A k \in 0 .. U16 - 1 : Window(k) \in Nat
  BY <1>1, <1>2, <1>3 DEF Window
<1> QED
  BY <1>4, SessionsAssumption

\* Connections are numbered from 1.
LEMMA ConnsFacts ==
    /\ Conns \subseteq Nat /\ NULL \notin Conns
    /\ 0 .. MaxConns \subseteq Nat
  BY NumberFacts DEF Conns

-----------------------------------------------------------------------------
(* The accept task *)

\* A connection that arrives, or does not.
LEMMA RequestInv ==
    ASSUME SessionsInv,
           \/ \E id \in Ids, cs \in BOOLEAN, k \in KeepAlives, x \in Expiries : ReadRequest(id, cs, k, x)
           \/ BadRequest \/ SilentRequest
    PROVE  SessionsInv'
<1> USE ConnsFacts DEF clock, accVars, boxVars, listVars, taskVars, diskVars, Connecting, AcceptPCs, Panics, Running, Over
<1>1. conns < MaxConns => conns + 1 \in 0 .. MaxConns /\ conns + 1 \in Conns
  BY NumberFacts DEF SessionsInv, TypeOK, Conns
<1>2. ASSUME NEW id \in Ids, NEW cs \in BOOLEAN, NEW k \in KeepAlives, NEW x \in Expiries, ReadRequest(id, cs, k, x)
      PROVE  SessionsInv'
  <2>1. /\ conns' = conns + 1 /\ conns' \in Conns /\ conns' \in 0 .. MaxConns /\ apc = "listen" /\ apc' = "check"
        /\ cid' \in [Conns -> Ids \cup {NULL}] /\ cid'[conns'] = id
        /\ \A c \in Conns : c # conns' => cid'[c] = cid[c]
        /\ UNCHANGED <<clock, broker, ttl, listVars, inbox, taskVars, diskVars>>
    BY <1>1, <1>2 DEF SessionsInv, TypeOK, ReadRequest
  <2>2. TypeOK'
    <3>1. clean' \in [Conns -> BOOLEAN] /\ ka' \in [Conns -> 0 .. U16 - 1] /\ expr' \in [Conns -> Nat]
      BY <1>2, NumberFacts DEF SessionsInv, TypeOK, ReadRequest
    <3> QED
      BY <2>1, <3>1 DEF SessionsInv, TypeOK
  <2>3. RefsInv'
    <3>1. \A c \in Conns : tpc[c] \in Running => c # conns'
      BY <2>1 DEF SessionsInv, TypeOK, NoTaskYet
    <3>2. \A i \in Ids : slot[i] # NULL => slot[i] \in Conns /\ slot[i] # conns'
      BY <2>1 DEF SessionsInv, TypeOK, RefsInv
    <3>3. \A i \in Ids : slot[i] # NULL => slot[i] <= conns'
      <4>1. conns \in Nat
        BY DEF SessionsInv, TypeOK
      <4>2. \A s \in Conns : s <= conns => s <= conns'
        BY <2>1, <4>1
      <4> QED
        BY <3>2, <4>2 DEF SessionsInv, RefsInv
    <3> QED
      BY <2>1, <3>1, <3>2, <3>3 DEF SessionsInv, RefsInv
  <2>4. NoTaskYet' /\ ClockInv'
    BY <2>1 DEF SessionsInv, TypeOK, NoTaskYet, ClockInv
  <2>5. EndIsLogged'
    BY <2>1 DEF SessionsInv, TypeOK, EndIsLogged
  <2> QED
    BY <2>2, <2>3, <2>4, <2>5 DEF SessionsInv
<1>3. CASE BadRequest \/ SilentRequest
  <2>1. /\ conns' = conns + 1 /\ conns' \in Conns /\ conns' \in 0 .. MaxConns /\ apc = "listen" /\ apc' \in {"listen", "timedOut"}
        /\ UNCHANGED <<clock, broker, cid, clean, boxVars, listVars, inbox, taskVars, diskVars>>
    BY <1>1, <1>3 DEF BadRequest, SilentRequest
  <2>2. TypeOK'
    BY <2>1 DEF SessionsInv, TypeOK
  <2>3. /\ \A c \in Conns : c > conns' => c > conns
        /\ \A id \in Ids : slot[id] # NULL => slot[id] <= conns'
    <3>1. conns \in Nat /\ \A i \in Ids : slot[i] # NULL => slot[i] \in Conns
      BY DEF SessionsInv, TypeOK
    <3>2. \A s \in Conns : (s <= conns => s <= conns') /\ (s > conns' => s > conns)
      BY <2>1, <3>1
    <3> QED
      BY <3>1, <3>2 DEF SessionsInv, RefsInv
  <2>4. RefsInv' /\ NoTaskYet' /\ ClockInv'
    BY <2>1, <2>3 DEF SessionsInv, RefsInv, NoTaskYet, ClockInv
  <2>5. EndIsLogged'
    BY <2>1 DEF SessionsInv, TypeOK, EndIsLogged
  <2> QED
    BY <2>2, <2>4, <2>5 DEF SessionsInv
<1> QED
  BY <1>2, <1>3

\* The steps that only decide where the accept task goes on.
LEMMA DecideInv ==
    ASSUME SessionsInv, CheckAlive \/ RestoreFails \/ Connack \/ CtrlCAgain
    PROVE  SessionsInv'
<1> USE ConnsFacts DEF clock, accVars, boxVars, listVars, taskVars, diskVars, Connecting, AcceptPCs, Panics, Running, Over
<1>1. CASE CheckAlive
  <2>1. TypeOK'
    BY <1>1 DEF SessionsInv, TypeOK, RefsInv, CheckAlive
  <2>2. RefsInv' /\ NoTaskYet'
    BY <1>1 DEF SessionsInv, TypeOK, RefsInv, NoTaskYet, CheckAlive
  <2>3. ClockInv'
    BY <1>1 DEF SessionsInv, TypeOK, ClockInv, NoTaskYet, CheckAlive
  <2>4. EndIsLogged'
    BY <1>1 DEF SessionsInv, TypeOK, RefsInv, NoTaskYet, EndIsLogged, CheckAlive
  <2> QED
    BY <2>1, <2>2, <2>3, <2>4 DEF SessionsInv
<1>2. CASE RestoreFails
  <2>1. TypeOK'
    BY <1>2 DEF SessionsInv, TypeOK, RefsInv, RestoreFails
  <2>2. RefsInv' /\ NoTaskYet'
    BY <1>2 DEF SessionsInv, TypeOK, RefsInv, NoTaskYet, RestoreFails
  <2>3. ClockInv'
    BY <1>2 DEF SessionsInv, TypeOK, ClockInv, NoTaskYet, RestoreFails
  <2>4. EndIsLogged'
    BY <1>2 DEF SessionsInv, TypeOK, RefsInv, NoTaskYet, EndIsLogged, RestoreFails
  <2> QED
    BY <2>1, <2>2, <2>3, <2>4 DEF SessionsInv
<1>3. CASE Connack
  <2>1. TypeOK'
    BY <1>3 DEF SessionsInv, TypeOK, RefsInv, Connack
  <2>2. RefsInv' /\ NoTaskYet'
    BY <1>3 DEF SessionsInv, TypeOK, RefsInv, NoTaskYet, Connack
  <2>3. ClockInv'
    BY <1>3 DEF SessionsInv, TypeOK, ClockInv, NoTaskYet, Connack
  <2>4. EndIsLogged'
    BY <1>3 DEF SessionsInv, TypeOK, RefsInv, NoTaskYet, EndIsLogged, Connack
  <2> QED
    BY <2>1, <2>2, <2>3, <2>4 DEF SessionsInv
<1>4. CASE CtrlCAgain
  <2>1. TypeOK'
    BY <1>4 DEF SessionsInv, TypeOK, RefsInv, CtrlCAgain
  <2>2. RefsInv' /\ NoTaskYet'
    BY <1>4 DEF SessionsInv, TypeOK, RefsInv, NoTaskYet, CtrlCAgain
  <2>3. ClockInv'
    BY <1>4 DEF SessionsInv, TypeOK, ClockInv, NoTaskYet, CtrlCAgain
  <2>4. EndIsLogged'
    BY <1>4 DEF SessionsInv, TypeOK, RefsInv, NoTaskYet, EndIsLogged, CtrlCAgain
  <2> QED
    BY <2>1, <2>2, <2>3, <2>4 DEF SessionsInv
<1> QED
  BY <1>1, <1>2, <1>3, <1>4

\* A session is restored or made, and logged before its box is in the list.
LEMMA StartInv ==
    ASSUME SessionsInv, Restore \/ Create
    PROVE  SessionsInv'
<1> USE ConnsFacts DEF clock, accVars, boxVars, listVars, taskVars, diskVars, Connecting, AcceptPCs, Panics, Running, Over
<1>1. CASE Restore
  <2>1. TypeOK'
    <3>1. conns \in Conns /\ cid[conns] \in Ids
      BY <1>1 DEF SessionsInv, RefsInv, Restore
    <3>2. now \in Nat /\ \A k \in 0 .. U16 - 1 : now + Window(k) \in Nat
      BY NumberFacts DEF SessionsInv, TypeOK
    <3>3. ka' \in [Conns -> 0 .. U16 - 1] /\ expr' \in [Conns -> Nat]
      BY <1>1, <3>1 DEF SessionsInv, TypeOK, Restore
    <3>4. ttl' \in [Conns -> Nat] /\ served' \in [Conns -> Nat]
      BY <1>1, <3>1, <3>2 DEF SessionsInv, TypeOK, Restore
    <3>5. /\ wal' \in [Ids -> {"none", "ClientCreated", "ClientRestored", "Disconnected"} \X Nat]
          /\ meta' \in [Ids -> (0 .. U16 - 1) \X Nat]
      BY <1>1, <3>1 DEF SessionsInv, TypeOK, Restore, Restored
    <3> QED
      BY <1>1, <3>3, <3>4, <3>5 DEF SessionsInv, TypeOK, Restore
  <2>2. RefsInv' /\ NoTaskYet'
    BY <1>1 DEF SessionsInv, TypeOK, RefsInv, NoTaskYet, Restore, Restored
  <2>3. ClockInv'
    <3>1. UNCHANGED <<now, tpc, tt>> /\ served' = [served EXCEPT ![conns] = now] /\ tpc[conns] # "read"
      BY <1>1 DEF SessionsInv, NoTaskYet, Restore
    <3>2. now \in Nat /\ \A c \in Conns : served'[c] = served[c] \/ (c = conns /\ served'[c] = now)
      BY <3>1 DEF SessionsInv, TypeOK
    <3> QED
      BY <3>1, <3>2 DEF SessionsInv, ClockInv
  <2>4. EndIsLogged'
    <3>1. conns \in Conns /\ cid[conns] \in Ids /\ apc = "restore" /\ apc' = "insert"
          /\ UNCHANGED <<slot, tpc, conns, cid>>
          /\ \A id \in Ids : id # cid[conns] => wal'[id] = wal[id]
      BY <1>1 DEF SessionsInv, RefsInv, TypeOK, Restore
    <3>2. conns > 0
      BY <3>1 DEF Conns
    <3> QED
      BY <3>1, <3>2 DEF SessionsInv, EndIsLogged
  <2> QED
    BY <2>1, <2>2, <2>3, <2>4 DEF SessionsInv
<1>2. CASE Create
  <2>1. TypeOK'
    <3>1. conns \in Conns /\ cid[conns] \in Ids
      BY <1>2 DEF SessionsInv, RefsInv, Create
    <3>2. now \in Nat /\ \A k \in 0 .. U16 - 1 : now + Window(k) \in Nat
      BY NumberFacts DEF SessionsInv, TypeOK
    <3>3. ka' \in [Conns -> 0 .. U16 - 1] /\ expr' \in [Conns -> Nat]
      BY <1>2, <3>1, NumberFacts DEF SessionsInv, TypeOK, Create
    <3>4. ttl' \in [Conns -> Nat] /\ served' \in [Conns -> Nat]
      BY <1>2, <3>1, <3>2 DEF SessionsInv, TypeOK, Create
    <3>5. /\ wal' \in [Ids -> {"none", "ClientCreated", "ClientRestored", "Disconnected"} \X Nat]
          /\ meta' \in [Ids -> (0 .. U16 - 1) \X Nat]
      BY <1>2, <3>1, NumberFacts DEF SessionsInv, TypeOK, Create, Created
    <3> QED
      BY <1>2, <3>3, <3>4, <3>5 DEF SessionsInv, TypeOK, Create
  <2>2. RefsInv' /\ NoTaskYet'
    BY <1>2 DEF SessionsInv, TypeOK, RefsInv, NoTaskYet, Create, Created
  <2>3. ClockInv'
    <3>1. UNCHANGED <<now, tpc, tt>> /\ served' = [served EXCEPT ![conns] = now] /\ tpc[conns] # "read"
      BY <1>2 DEF SessionsInv, NoTaskYet, Create
    <3>2. now \in Nat /\ \A c \in Conns : served'[c] = served[c] \/ (c = conns /\ served'[c] = now)
      BY <3>1 DEF SessionsInv, TypeOK
    <3> QED
      BY <3>1, <3>2 DEF SessionsInv, ClockInv
  <2>4. EndIsLogged'
    <3>1. conns \in Conns /\ cid[conns] \in Ids /\ apc = "create" /\ apc' = "insert"
          /\ UNCHANGED <<slot, tpc, conns, cid>>
          /\ \A id \in Ids : id # cid[conns] => wal'[id] = wal[id]
      BY <1>2 DEF SessionsInv, RefsInv, TypeOK, Create
    <3>2. conns > 0
      BY <3>1 DEF Conns
    <3> QED
      BY <3>1, <3>2 DEF SessionsInv, EndIsLogged
  <2> QED
    BY <2>1, <2>2, <2>3, <2>4 DEF SessionsInv
<1> QED
  BY <1>1, <1>2

\* The box of a connection is put into the slot of its id.
LEMMA SlotInv ==
    ASSUME SessionsInv, InsertNew \/ InsertSwap
    PROVE  SessionsInv'
<1> USE ConnsFacts DEF clock, accVars, boxVars, listVars, taskVars, diskVars, Connecting, AcceptPCs, Panics, Running, Over
<1>1. /\ conns \in Conns /\ cid[conns] \in Ids /\ tpc[conns] = "none" /\ apc \in {"insert", "swap"}
      /\ apc' = "spawn" \/ (apc' = "drop" /\ old \in Conns)
  BY DEF InsertNew, InsertSwap, SessionsInv, RefsInv, NoTaskYet
<1>2. /\ UNCHANGED <<clock, broker, conns, cid, clean, boxVars, freed, old, inbox, taskVars, diskVars>>
      /\ slot' \in [Ids -> Conns \cup {NULL}] /\ slot'[cid[conns]] = conns
      /\ \A id \in Ids : id # cid[conns] => slot'[id] = slot[id]
  BY <1>1 DEF InsertNew, InsertSwap, SessionsInv, TypeOK
<1>3. TypeOK'
  BY <1>1, <1>2 DEF SessionsInv, TypeOK
<1>4. RefsInv'
  <2>1. \A id \in Ids : slot[id] \in Conns => slot'[id] \in Conns
    BY <1>1, <1>2
  <2>2. \A id \in Ids : slot'[id] # NULL => slot'[id] <= conns /\ cid[slot'[id]] = id
    <3>1. conns <= conns
      BY <1>1
    <3> QED
      BY <1>1, <1>2, <3>1 DEF SessionsInv, RefsInv
  <2>3. \A c \in Conns : tpc[c] \in Running => cid[c] \in Ids /\ slot'[cid[c]] \in Conns
    BY <1>1, <1>2, <2>1 DEF SessionsInv, RefsInv
  <2> QED
    BY <1>1, <1>2, <2>2, <2>3 DEF SessionsInv, RefsInv
<1>5. NoTaskYet' /\ ClockInv'
  BY <1>1, <1>2 DEF SessionsInv, NoTaskYet, ClockInv
<1>6. EndIsLogged'
  <2>1. ASSUME NEW id \in Ids, slot'[id] # NULL, tpc[slot'[id]] = "done"
        PROVE  wal[id][1] = "Disconnected"
    <3>1. id # cid[conns]
      BY <1>1, <1>2, <2>1
    <3>2. slot'[id] = slot[id] /\ slot[id] \in Conns /\ cid[slot[id]] = id
      BY <1>2, <2>1, <3>1 DEF SessionsInv, TypeOK, RefsInv
    <3> QED
      BY <2>1, <3>1, <3>2 DEF SessionsInv, EndIsLogged
  <2> QED
    BY <1>2, <2>1 DEF EndIsLogged
<1> QED
  BY <1>3, <1>4, <1>5, <1>6 DEF SessionsInv

\* The other steps of insert: none of them touches a slot or a task.
LEMMA InsertInv ==
    ASSUME SessionsInv, InsertDead \/ InsertDrop \/ InsertFails
    PROVE  SessionsInv'
<1> USE ConnsFacts DEF clock, accVars, boxVars, listVars, taskVars, diskVars, Connecting, AcceptPCs, Panics, Running, Over
<1>1. /\ conns \in Conns /\ cid[conns] \in Ids /\ apc \in {"insert", "drop"} /\ apc' \in {"swap", "spawn", "refused"}
      /\ UNCHANGED <<clock, broker, conns, cid, clean, boxVars, slot, inbox, taskVars, diskVars>>
      /\ apc = "drop" => apc' = "spawn"
      /\ apc = "insert" => apc' \in {"swap", "refused"}
  BY DEF InsertDead, InsertDrop, InsertFails, SessionsInv, RefsInv
<1>2. freed' \subseteq Conns /\ old' \in Conns \cup {NULL} /\ (apc' = "swap" => old' \in Conns)
  <2>1. /\ freed \subseteq Conns /\ old \in Conns \cup {NULL} /\ slot[cid[conns]] \in Conns \cup {NULL}
        /\ apc = "drop" => old \in Conns
    BY <1>1 DEF SessionsInv, RefsInv, TypeOK
  <2>2. CASE InsertDead
    BY <2>1, <2>2 DEF InsertDead
  <2>3. CASE InsertDrop
    BY <2>1, <2>3 DEF InsertDrop
  <2>4. CASE InsertFails
    BY <1>1, <2>1, <2>4 DEF InsertFails
  <2> QED
    BY <2>2, <2>3, <2>4
<1>3. TypeOK'
  BY <1>1, <1>2 DEF SessionsInv, TypeOK
<1>4. RefsInv' /\ NoTaskYet' /\ ClockInv'
  BY <1>1, <1>2 DEF SessionsInv, RefsInv, NoTaskYet, ClockInv
<1>5. EndIsLogged'
  <2>1. ASSUME NEW id \in Ids, slot[id] # NULL, tpc[slot[id]] = "done", apc = "drop"
        PROVE  wal[id][1] = "Disconnected"
    BY <2>1 DEF SessionsInv, EndIsLogged
  <2>2. CASE apc = "drop"
    BY <1>1, <2>1, <2>2 DEF EndIsLogged
  <2>3. CASE apc = "insert"
    BY <1>1, <2>3 DEF SessionsInv, EndIsLogged
  <2> QED
    BY <1>1, <2>2, <2>3
<1> QED
  BY <1>3, <1>4, <1>5 DEF SessionsInv

\* The task of the client that was inserted is spawned, unless the client is
\* gone.
LEMMA SpawnInv ==
    ASSUME SessionsInv, SpawnTask
    PROVE  SessionsInv'
<1> USE ConnsFacts DEF clock, accVars, boxVars, listVars, taskVars, diskVars, Connecting, AcceptPCs, Panics, Running, Over
<1>1. /\ conns \in Conns /\ cid[conns] \in Ids /\ tpc[conns] = "none" /\ apc = "spawn"
      /\ UNCHANGED <<clock, broker, conns, cid, clean, boxVars, listVars, inbox, tobj, tt, until, served, diskVars>>
  BY DEF SpawnTask, SessionsInv, RefsInv, NoTaskYet
<1>2. CASE slot[cid[conns]] = NULL
  <2>1. apc' = "unfound" /\ tpc' = tpc
    BY <1>2 DEF SpawnTask
  <2>2. TypeOK' /\ RefsInv' /\ NoTaskYet' /\ ClockInv'
    BY <1>1, <2>1 DEF SessionsInv, TypeOK, RefsInv, NoTaskYet, ClockInv
  <2>3. EndIsLogged'
    BY <1>1, <2>1 DEF SessionsInv, EndIsLogged
  <2> QED
    BY <2>2, <2>3 DEF SessionsInv
<1>3. CASE slot[cid[conns]] # NULL
  <2>1. apc' = "connack" /\ slot[cid[conns]] \in Conns
    BY <1>1, <1>3 DEF SpawnTask, SessionsInv, TypeOK
  <2>2. /\ tpc' \in [Conns -> {"none"} \cup Running \cup Over] /\ tpc'[conns] = "top"
        /\ \A c \in Conns : c # conns => tpc'[c] = tpc[c]
    BY <1>1, <1>3 DEF SpawnTask, SessionsInv, TypeOK
  <2>3. TypeOK'
    BY <1>1, <2>1, <2>2 DEF SessionsInv, TypeOK
  <2>4. RefsInv'
    BY <1>1, <2>1, <2>2 DEF SessionsInv, RefsInv
  <2>5. NoTaskYet'
    BY <1>1, <2>1, <2>2 DEF SessionsInv, TypeOK, NoTaskYet
  <2>6. ClockInv'
    BY <1>1, <2>2 DEF SessionsInv, ClockInv
  <2>7. EndIsLogged'
    <3>1. ASSUME NEW id \in Ids, slot[id] # NULL, tpc'[slot[id]] = "done"
          PROVE  wal[id][1] = "Disconnected"
      <4>1. slot[id] \in Conns /\ slot[id] # conns
        BY <1>1, <2>2, <3>1 DEF SessionsInv, TypeOK
      <4>2. tpc[slot[id]] = "done"
        BY <2>2, <3>1, <4>1
      <4> QED
        BY <1>1, <3>1, <4>2 DEF SessionsInv, EndIsLogged
    <3> QED
      BY <1>1, <3>1 DEF EndIsLogged
  <2> QED
    BY <2>3, <2>4, <2>5, <2>6, <2>7 DEF SessionsInv
<1> QED
  BY <1>2, <1>3

-----------------------------------------------------------------------------
(* The tasks *)

\* The task of c goes from one place to another: every step of it is of this
\* form, and none of them ends the task quietly.
Moves(c, l, o, t, u) ==
    /\ tpc[c] \in Running /\ l \in Running \cup Over
    /\ tpc' = [tpc EXCEPT ![c] = l]
    /\ tobj' = [tobj EXCEPT ![c] = o] /\ tt' = [tt EXCEPT ![c] = t] /\ until' = [until EXCEPT ![c] = u]
    /\ l \in Running \ {"top"} => o \in Conns
    /\ l = "read" => t = now
    /\ l = "done" => wal'[cid[c]][1] = "Disconnected"
    /\ UNCHANGED <<now, late, broker, apc, conns, cid, clean, ka, expr, slot, freed, old, meta>>

\* What a step of a task may do to the other variables.
LEMMA MovesInv ==
    ASSUME SessionsInv, NEW c \in Conns, NEW l, NEW o \in Conns \cup {NULL}, NEW t \in Nat, NEW u \in Nat,
           Moves(c, l, o, t, u),
           \/ served' = served
           \/ served' = [served EXCEPT ![c] = now] /\ l = "write",
           wal' = wal \/ wal' = [wal EXCEPT ![cid[c]] = Ended(until[c])],
           inbox' \in [Conns -> {"empty", "packet", "malformed", "eof", "reset"}],
           ttl' \in [Conns -> Nat]
    PROVE  SessionsInv'
<1> USE ConnsFacts DEF Connecting, AcceptPCs, Panics
<1>1. /\ tpc' \in [Conns -> {"none"} \cup Running \cup Over] /\ tobj' \in [Conns -> Conns \cup {NULL}]
      /\ tt' \in [Conns -> Nat] /\ until' \in [Conns -> Nat]
  BY DEF SessionsInv, TypeOK, Moves
<1>2. /\ served' \in [Conns -> Nat]
      /\ \A d \in Conns : served'[d] = served[d] \/ (d = c /\ served'[d] = now /\ l = "write")
  BY DEF SessionsInv, TypeOK
<1>3. /\ tpc'[c] = l /\ tobj'[c] = o /\ tt'[c] = t
      /\ \A d \in Conns : d # c => tpc'[d] = tpc[d] /\ tobj'[d] = tobj[d] /\ tt'[d] = tt[d]
  BY DEF SessionsInv, TypeOK, Moves
<1>4. cid[c] \in Ids /\ tpc[c] # "none" /\ l # "none"
  BY DEF SessionsInv, RefsInv, Moves, Running, Over
<1>5. /\ wal' \in [Ids -> {"none", "ClientCreated", "ClientRestored", "Disconnected"} \X Nat]
      /\ \A id \in Ids : wal'[id] = wal[id] \/ wal'[id][1] = "Disconnected"
  <2>1. /\ Ended(until[c]) \in {"none", "ClientCreated", "ClientRestored", "Disconnected"} \X Nat
        /\ Ended(until[c])[1] = "Disconnected"
    BY DEF SessionsInv, TypeOK, Ended
  <2>2. wal \in [Ids -> {"none", "ClientCreated", "ClientRestored", "Disconnected"} \X Nat]
    BY DEF SessionsInv, TypeOK
  <2> QED
    BY <1>4, <2>1, <2>2
<1>6. TypeOK'
  BY <1>1, <1>2, <1>5 DEF SessionsInv, TypeOK, Moves
<1>7. RefsInv'
  <2>1. UNCHANGED <<apc, conns, cid, slot, old>>
    BY DEF Moves
  <2>2. apc' \in {"swap", "drop"} => old' \in Conns
    BY <2>1 DEF SessionsInv, RefsInv
  <2>3. \A d \in Conns : tpc'[d] \in Running => cid[d] \in Ids /\ slot[cid[d]] \in Conns
    BY <1>3, <1>4 DEF SessionsInv, RefsInv, Moves
  <2>4. \A d \in Conns : tpc'[d] \in Running \ {"top"} => tobj'[d] \in Conns
    BY <1>3, <1>4 DEF SessionsInv, RefsInv, Moves
  <2> QED
    BY <2>1, <2>2, <2>3, <2>4 DEF SessionsInv, RefsInv
<1>8. NoTaskYet'
  BY <1>3, <1>4 DEF SessionsInv, NoTaskYet, Moves
<1>9. ClockInv'
  <2>1. \A n \in Nat : n <= n
    OBVIOUS
  <2>2. now \in Nat /\ \A d \in Conns : served[d] <= now
    BY DEF SessionsInv, TypeOK, ClockInv
  <2>3. \A d \in Conns : served'[d] <= now
    BY <1>2, <2>1, <2>2
  <2>4. ASSUME NEW d \in Conns, tpc'[d] = "read"
        PROVE  served'[d] <= tt'[d]
    <3>1. CASE d = c
      BY <1>3, <2>3, <2>4, <3>1 DEF Moves
    <3>2. CASE d # c
      BY <1>2, <1>3, <2>4, <3>2 DEF SessionsInv, ClockInv
    <3> QED
      BY <3>1, <3>2
  <2> QED
    BY <2>2, <2>3, <2>4 DEF SessionsInv, ClockInv, Moves
<1>10. EndIsLogged'
  <2>1. ASSUME NEW id \in Ids, slot[id] # NULL, tpc'[slot[id]] = "done",
               conns > 0 /\ cid[conns] = id => apc \notin {"insert", "swap", "refused"}
        PROVE  wal'[id][1] = "Disconnected"
    <3>1. slot[id] \in Conns /\ cid[slot[id]] = id
      BY <2>1 DEF SessionsInv, TypeOK, RefsInv
    <3>2. CASE slot[id] = c
      BY <1>3, <2>1, <3>1, <3>2 DEF Moves
    <3>3. CASE slot[id] # c
      BY <1>3, <1>5, <2>1, <3>1, <3>3 DEF SessionsInv, EndIsLogged
    <3> QED
      BY <3>2, <3>3
  <2>2. UNCHANGED <<slot, conns, cid, apc>>
    BY DEF Moves
  <2> QED
    BY <2>1, <2>2 DEF EndIsLogged
<1> QED
  BY <1>6, <1>7, <1>8, <1>9, <1>10 DEF SessionsInv

\* The values a task loads from its box.
LEMMA BoxFacts ==
    ASSUME SessionsInv
    PROVE  /\ \A o \in Conns : ttl[o] \in Nat /\ ExpirationTime(o) \in Nat /\ Window(ka[o]) \in Nat
           /\ \A c \in Conns : tpc[c] \in Running => cid[c] \in Ids /\ slot[cid[c]] \in Conns
           /\ \A c \in Conns : tpc[c] \in {"read", "write", "dead", "lost"} => tobj[c] \in Conns
           /\ now - 1 \in Nat /\ now \in Nat /\ 0 \in Nat
           /\ \A c \in Conns : tt[c] \in Nat /\ until[c] \in Nat
           /\ wal \in [Ids -> {"none", "ClientCreated", "ClientRestored", "Disconnected"} \X Nat]
           /\ inbox \in [Conns -> {"empty", "packet", "malformed", "eof", "reset"}]
           /\ ttl \in [Conns -> Nat]
           /\ tobj \in [Conns -> Conns \cup {NULL}] /\ tt \in [Conns -> Nat] /\ until \in [Conns -> Nat]
<1>1. \A o \in Conns : ttl[o] \in Nat /\ expr[o] \in Nat /\ ka[o] \in 0 .. U16 - 1
  BY DEF SessionsInv, TypeOK
<1>2. \A o \in Conns : ttl[o] \in Nat /\ ExpirationTime(o) \in Nat /\ Window(ka[o]) \in Nat
  BY <1>1, NumberFacts DEF ExpirationTime
<1>3. now - 1 \in Nat /\ now \in Nat
  BY DEF SessionsInv, TypeOK, ClockInv
<1>4. /\ \A c \in Conns : tpc[c] \in Running => cid[c] \in Ids /\ slot[cid[c]] \in Conns
      /\ \A c \in Conns : tpc[c] \in {"read", "write", "dead", "lost"} => tobj[c] \in Conns
  BY DEF SessionsInv, RefsInv, Running
<1> QED
  BY <1>2, <1>3, <1>4 DEF SessionsInv, TypeOK

\* The steps of a task.
LEMMA TaskInv ==
    ASSUME SessionsInv, NEW c \in Conns, TaskStep(c)
    PROVE  SessionsInv'
<1> USE ConnsFacts DEF clock, accVars, boxVars, listVars, taskVars, diskVars, Running, Over
<1>1. CASE LoopHead(c)
  <2> DEFINE b == slot[cid[c]]
  <2>1. tpc[c] \in Running /\ b \in Conns
    BY <1>1, BoxFacts DEF LoopHead
  <2>2. \E l, u \in {"read", "dead"} \cup Nat : Moves(c, l, b, now, u) /\ u \in Nat
    <3>1. CASE IsAlive(b)
      BY <1>1, <2>1, <3>1, BoxFacts DEF LoopHead, Moves
    <3>2. CASE ~IsAlive(b)
      BY <1>1, <2>1, <3>2, BoxFacts DEF LoopHead, Moves
    <3> QED
      BY <3>1, <3>2
  <2>3. served' = served /\ wal' = wal /\ inbox' = inbox /\ ttl' = ttl
    BY <1>1 DEF LoopHead
  <2> QED
    BY <2>1, <2>2, <2>3, BoxFacts, MovesInv
<1>2. ASSUME tpc[c] \in Running, NEW l \in {"top"} \cup Over, Leave(c, l),
             UNCHANGED <<clock, broker, accVars, ka, expr, listVars, meta, served>>,
             (wal' = wal /\ l # "done") \/ wal' = [wal EXCEPT ![cid[c]] = Ended(until[c])],
             inbox' \in [Conns -> {"empty", "packet", "malformed", "eof", "reset"}],
             ttl' \in [Conns -> Nat]
      PROVE  SessionsInv'
  <2>1. cid[c] \in Ids
    BY <1>2, BoxFacts
  <2>2. l = "done" => wal'[cid[c]][1] = "Disconnected"
    BY <1>2, <2>1, BoxFacts DEF Ended
  <2>3. Moves(c, l, NULL, 0, 0)
    BY <1>2, <2>2 DEF Moves, Leave
  <2> QED
    BY <1>2, <2>3, MovesInv
<1>3. CASE LogDead(c)
  BY <1>2, <1>3, BoxFacts DEF LogDead
<1>4. CASE LogLost(c)
  BY <1>2, <1>4, BoxFacts DEF LogLost
<1>5. CASE Answer(c)
  BY <1>2, <1>5, BoxFacts DEF Answer
<1>6. CASE UseAfterFree(c)
  BY <1>2, <1>6, BoxFacts DEF UseAfterFree
<1>7. CASE ReadTimeout(c)
  BY <1>2, <1>7, BoxFacts DEF ReadTimeout
<1>8. CASE ReadError(c)
  <2> DEFINE u == ExpirationTime(tobj[c])
  <2>1. tpc[c] \in Running /\ tobj[c] \in Conns /\ u \in Nat /\ tt[c] \in Nat
    BY <1>8, BoxFacts DEF ReadError
  <2>2. Moves(c, "lost", tobj[c], tt[c], u)
    BY <1>8, <2>1, BoxFacts DEF ReadError, Goto, Moves
  <2>3. served' = served /\ wal' = wal /\ inbox' = inbox /\ ttl' = ttl
    BY <1>8 DEF ReadError
  <2> QED
    BY <2>1, <2>2, <2>3, BoxFacts, MovesInv
<1>9. CASE ReadEof(c)
  <2>1. tobj[c] \in Conns /\ ttl' \in [Conns -> Nat]
    BY <1>9, BoxFacts DEF ReadEof
  <2> QED
    BY <1>2, <1>9, <2>1, BoxFacts DEF ReadEof
<1>10. CASE ReadMalformed(c)
  BY <1>2, <1>10, BoxFacts DEF ReadMalformed
<1>11. CASE ReadPacket(c)
  <2>1. tpc[c] \in Running /\ tobj[c] \in Conns /\ until[c] \in Nat /\ tt[c] \in Nat
    BY <1>11, BoxFacts DEF ReadPacket
  <2>2. Moves(c, "write", tobj[c], tt[c], until[c])
    BY <1>11, <2>1, BoxFacts DEF ReadPacket, Goto, Moves
  <2>3. ttl' \in [Conns -> Nat]
    <3>1. tt[c] + 1 + Window(ka[tobj[c]]) \in Nat
      BY <2>1, BoxFacts
    <3> QED
      BY <1>11, <3>1, BoxFacts DEF ReadPacket, Prolong
  <2>4. inbox' \in [Conns -> {"empty", "packet", "malformed", "eof", "reset"}]
    BY <1>11, BoxFacts DEF ReadPacket
  <2>5. served' = [served EXCEPT ![c] = now] /\ wal' = wal
    BY <1>11 DEF ReadPacket
  <2> QED
    BY <2>1, <2>2, <2>3, <2>4, <2>5, MovesInv
<1>12. CASE DropPacket(c)
  <2>1. inbox' \in [Conns -> {"empty", "packet", "malformed", "eof", "reset"}]
    BY <1>12, BoxFacts DEF DropPacket
  <2> QED
    BY <1>2, <1>12, <2>1, BoxFacts DEF DropPacket
<1> QED
  BY <1>1, <1>3, <1>4, <1>5, <1>6, <1>7, <1>8, <1>9, <1>10, <1>11, <1>12 DEF TaskStep

-----------------------------------------------------------------------------
(* Shutdown, crash and the environment *)

\* When the running tasks end and the slots are kept or emptied, no task is
\* left that could have missed to log.
LEMMA StopInv ==
    ASSUME SessionsInv, CtrlC \/ ClearClients \/ Restart
    PROVE  SessionsInv'
<1> USE ConnsFacts DEF clock, accVars, boxVars, listVars, taskVars, diskVars
<1>1. PICK l \in {"gone", "dangling"} : Stop(l)
  BY DEF CtrlC, ClearClients, Restart
<1>2. /\ tpc' \in [Conns -> {"none"} \cup Running \cup Over] /\ tobj' \in [Conns -> Conns \cup {NULL}]
      /\ tt' \in [Conns -> Nat] /\ until' \in [Conns -> Nat]
      /\ \A c \in Conns : tpc'[c] \notin Running /\ (tpc'[c] = tpc[c] \/ (tpc[c] \in Running /\ tpc'[c] # "done"))
  <2>1. tpc \in [Conns -> {"none"} \cup Running \cup Over] /\ 0 \in Nat
    BY DEF SessionsInv, TypeOK
  <2>2. \A c \in Conns : tpc'[c] = IF tpc[c] \in Running THEN l ELSE tpc[c]
    BY <1>1 DEF Stop
  <2>3. l \in Over /\ l \notin Running /\ l # "done"
    BY DEF Running, Over
  <2>4. tpc' \in [Conns -> {"none"} \cup Running \cup Over]
    BY <1>1, <2>1, <2>3 DEF Stop
  <2>5. /\ tobj' \in [Conns -> Conns \cup {NULL}]
        /\ tt' \in [Conns -> Nat] /\ until' \in [Conns -> Nat]
    BY <1>1, <2>1 DEF Stop
  <2>6. ASSUME NEW c \in Conns
        PROVE  tpc'[c] \notin Running /\ (tpc'[c] = tpc[c] \/ (tpc[c] \in Running /\ tpc'[c] # "done"))
    <3>1. CASE tpc[c] \in Running
      BY <2>2, <2>3, <3>1
    <3>2. CASE tpc[c] \notin Running
      BY <2>2, <3>2
    <3> QED
      BY <3>1, <3>2
  <2> QED
    BY <2>4, <2>5, <2>6
<1>3. /\ UNCHANGED <<clock, conns, cid, boxVars, meta>>
      /\ (slot' = slot /\ wal' = wal) \/ slot' = [id \in Ids |-> NULL]
      /\ apc' = apc \/ apc' \in {"stopped", "listen"}
      /\ apc' \in {"swap", "drop"} => apc' = apc /\ old' = old
      /\ apc' # apc => apc = "listen" \/ slot' = [id \in Ids |-> NULL]
      /\ broker' \in {"up", "stopping", "cleared"}
  BY DEF CtrlC, ClearClients, Restart
<1>4. /\ freed' \subseteq Conns /\ old' \in Conns \cup {NULL} /\ inbox' \in [Conns -> {"empty", "packet", "malformed", "eof", "reset"}]
      /\ clean' \in [Conns -> BOOLEAN] /\ served' \in [Conns -> Nat]
      /\ served' = served \/ \A c \in Conns : served'[c] = 0
  <2>1. /\ freed \subseteq Conns /\ old \in Conns \cup {NULL} /\ inbox \in [Conns -> {"empty", "packet", "malformed", "eof", "reset"}]
        /\ clean \in [Conns -> BOOLEAN] /\ served \in [Conns -> Nat]
        /\ \A id \in Ids : slot[id] # NULL => slot[id] \in Conns
    BY DEF SessionsInv, TypeOK
  <2>2. CASE CtrlC \/ ClearClients
    BY <2>1, <2>2 DEF CtrlC, ClearClients
  <2>3. CASE Restart
    BY <2>3 DEF Restart
  <2> QED
    BY <2>2, <2>3
<1>5. wal' \in [Ids -> {"none", "ClientCreated", "ClientRestored", "Disconnected"} \X Nat]
  <2>1. CASE ClearClients
    <3>1. \A id \in Ids : slot[id] # NULL => ExpirationTime(slot[id]) \in Nat
      BY BoxFacts DEF SessionsInv, TypeOK
    <3>2. \A u \in Nat : Ended(u) \in {"none", "ClientCreated", "ClientRestored", "Disconnected"} \X Nat
      BY DEF Ended
    <3> QED
      BY <2>1, <3>1, <3>2, BoxFacts DEF ClearClients
  <2>2. CASE CtrlC \/ Restart
    BY <2>2, BoxFacts DEF CtrlC, Restart
  <2> QED
    BY <2>1, <2>2
<1>6. TypeOK'
  <2>1. slot' \in [Ids -> Conns \cup {NULL}] /\ apc' \in AcceptPCs
    BY <1>3 DEF SessionsInv, TypeOK, AcceptPCs
  <2> QED
    BY <1>2, <1>3, <1>4, <1>5, <2>1 DEF SessionsInv, TypeOK
<1>7. RefsInv'
  <2>1. \A id \in Ids : slot'[id] # NULL => slot[id] = slot'[id]
    BY <1>3
  <2> QED
    BY <1>2, <1>3, <2>1 DEF SessionsInv, RefsInv, Connecting
<1>8. NoTaskYet'
  BY <1>2, <1>3 DEF SessionsInv, NoTaskYet, RefsInv, Connecting, Running
<1>9. ClockInv'
  <2>1. now \in Nat
    BY DEF SessionsInv, TypeOK
  <2> QED
    BY <1>2, <1>3, <1>4, <2>1 DEF SessionsInv, ClockInv, Running
<1>10. EndIsLogged'
  <2>1. CASE slot' = [id \in Ids |-> NULL]
    BY <2>1 DEF EndIsLogged
  <2>2. CASE slot' # [id \in Ids |-> NULL]
    <3>1. \A id \in Ids : slot[id] # NULL => slot[id] \in Conns
      BY DEF SessionsInv, TypeOK
    <3> QED
      BY <1>2, <1>3, <2>2, <3>1 DEF SessionsInv, EndIsLogged
  <2> QED
    BY <2>1, <2>2
<1> QED
  BY <1>6, <1>7, <1>8, <1>9, <1>10 DEF SessionsInv

\* What the peers send, and time.
LEMMA EnvInv ==
    ASSUME SessionsInv,
           (\E c \in Conns, what \in {"packet", "malformed", "eof", "reset"} : Peer(c, what)) \/ Tick
    PROVE  SessionsInv'
<1> USE ConnsFacts DEF clock, accVars, boxVars, listVars, taskVars, diskVars
<1>1. /\ UNCHANGED <<broker, accVars, boxVars, listVars, taskVars, diskVars>>
      /\ inbox' \in [Conns -> {"empty", "packet", "malformed", "eof", "reset"}]
  BY DEF Peer, Tick, SessionsInv, TypeOK
<1>2. now \in Nat /\ now' \in {now, now + 1} /\ late' \in 0 .. MaxLate
  BY NumberFacts DEF Peer, Tick, SessionsInv, TypeOK
<1>3. TypeOK'
  BY <1>1, <1>2 DEF SessionsInv, TypeOK
<1>4. RefsInv' /\ NoTaskYet' /\ EndIsLogged'
  BY <1>1 DEF SessionsInv, RefsInv, NoTaskYet, EndIsLogged
<1>5. ClockInv'
  <2>1. \A c \in Conns : served[c] \in Nat
    BY DEF SessionsInv, TypeOK
  <2>2. \A n \in Nat : n <= now => n <= now'
    BY <1>2
  <2>3. now' >= 1
    BY <1>2 DEF SessionsInv, ClockInv
  <2> QED
    BY <1>1, <2>1, <2>2, <2>3 DEF SessionsInv, ClockInv
<1> QED
  BY <1>3, <1>4, <1>5 DEF SessionsInv

-----------------------------------------------------------------------------

\* The inductive step.
LEMMA SessionsNextInv == SessionsInv /\ [Next]_svars => SessionsInv'
<1> SUFFICES ASSUME SessionsInv, [Next]_svars PROVE SessionsInv'
  OBVIOUS
<1>1. CASE UNCHANGED svars
  BY <1>1 DEF svars, clock, accVars, boxVars, listVars, taskVars, diskVars,
    SessionsInv, TypeOK, RefsInv, NoTaskYet, ClockInv, EndIsLogged
<1>2. CASE AcceptStep
  BY <1>2, DecideInv, StartInv, SlotInv, InsertInv, SpawnInv DEF AcceptStep
<1>3. CASE CtrlC \/ ClearClients \/ CtrlCAgain \/ Exit \/ Crash
  BY <1>3, StopInv, DecideInv DEF Exit, Crash
<1> QED
  BY <1>1, <1>2, <1>3, RequestInv, TaskInv, EnvInv DEF Next

\* The inductive invariant of the sessions.
THEOREM SessionsInvariance == Spec => []SessionsInv
<1>1. Init => SessionsInv
  <2> SUFFICES ASSUME Init PROVE SessionsInv
    OBVIOUS
  <2>1. TypeOK
    BY NumberFacts, SessionsAssumption DEF Init, TypeOK, NoFile, AcceptPCs
  <2>2. RefsInv /\ NoTaskYet /\ ClockInv /\ EndIsLogged
    BY DEF Init, RefsInv, NoTaskYet, ClockInv, EndIsLogged, Running, Connecting
  <2> QED
    BY <2>1, <2>2 DEF SessionsInv
<1> QED
  BY <1>1, SessionsNextInv, PTL DEF Spec

\* Every variable of the sessions keeps its type: among others, no task looks
\* for a client in an empty slot, and no clock is set before its start.
THEOREM TypeCorrect == Spec => []TypeOK
  BY SessionsInvariance, PTL DEF SessionsInv

\* A task that is done has logged the end of its session, whatever the accept
\* task and the signals did between its steps.
THEOREM EndAlwaysLogged == Spec => []EndIsLogged
  BY SessionsInvariance, PTL DEF SessionsInv

\* keep_alive never moves the deadline back behind the window of the packet that
\* was served before.
THEOREM PacketProlongs == Spec => ProlongsFromLastButOne
<1> DEFINE A == \A c \in Conns : served'[c] > served[c] /\ tpc[c] = "read"
                                 => ttl'[tobj[c]] > served[c] + Window(ka[tobj[c]])
<1>1. SessionsInv /\ [Next]_svars => [A]_svars
  <2> SUFFICES ASSUME SessionsInv, Next,
                      NEW c \in Conns, served'[c] > served[c], tpc[c] = "read"
               PROVE  ttl'[tobj[c]] > served[c] + Window(ka[tobj[c]])
    BY DEF A
  <2> USE DEF clock, accVars, boxVars, listVars, taskVars, diskVars
  <2>1. served[c] \in Nat /\ ~(served[c] > served[c]) /\ ~(0 > served[c])
    BY DEF SessionsInv, TypeOK
  <2>2. CASE Restore \/ Create
    <3>1. served' = [served EXCEPT ![conns] = now] /\ tpc[conns] = "none"
      BY <2>2 DEF Restore, Create, SessionsInv, NoTaskYet, Connecting
    <3>2. served'[c] = served[c]
      BY <3>1 DEF SessionsInv, TypeOK
    <3> QED
      BY <2>1, <3>2
  <2>3. ASSUME NEW d \in Conns, ReadPacket(d)
        PROVE  ttl'[tobj[c]] > served[c] + Window(ka[tobj[c]])
    <3>1. d = c
      BY <2>1, <2>3 DEF ReadPacket, SessionsInv, TypeOK
    <3>2. tobj[c] \in Conns /\ tt[c] \in Nat /\ Window(ka[tobj[c]]) \in Nat
      BY BoxFacts
    <3>3. ttl'[tobj[c]] = tt[c] + 1 + Window(ka[tobj[c]])
      BY <2>3, <3>1, <3>2, BoxFacts DEF ReadPacket, Prolong
    <3>4. served[c] <= tt[c]
      BY DEF SessionsInv, ClockInv
    <3> QED
      BY <2>1, <3>2, <3>3, <3>4
  <2>4. CASE Restart
    BY <2>1, <2>4 DEF Restart
  <2>5. CASE served' = served
    BY <2>1, <2>5
  <2>6. ASSUME NEW d \in Conns, TaskStep(d), ~ReadPacket(d)
        PROVE  served' = served
    BY <2>6 DEF TaskStep, LoopHead, LogDead, LogLost, Answer, UseAfterFree, ReadTimeout, ReadError, ReadEof,
      ReadMalformed, DropPacket
  <2>7. CASE AcceptStep
    BY <2>2, <2>5, <2>7 DEF AcceptStep, CheckAlive, RestoreFails, InsertNew, InsertDead,
      InsertSwap, InsertDrop, InsertFails, SpawnTask, Connack
  <2>8. CASE CtrlC \/ ClearClients \/ CtrlCAgain \/ Exit \/ Crash
    BY <2>4, <2>5, <2>8 DEF CtrlC, ClearClients, CtrlCAgain, Exit, Crash
  <2>9. CASE \/ \E id \in Ids, cs \in BOOLEAN, k \in KeepAlives, x \in Expiries : ReadRequest(id, cs, k, x)
             \/ BadRequest \/ SilentRequest
             \/ \E d \in Conns, what \in {"packet", "malformed", "eof", "reset"} : Peer(d, what)
             \/ Tick
    BY <2>5, <2>9 DEF ReadRequest, BadRequest, SilentRequest, Peer, Tick
  <2> QED
    BY <2>3, <2>5, <2>6, <2>7, <2>8, <2>9 DEF Next
<1> QED
  BY <1>1, SessionsInvariance, PTL DEF Spec, ProlongsFromLastButOne, A
=============================================================================
