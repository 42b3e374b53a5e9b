------------------------------ MODULE Sessions ------------------------------
(***************************************************************************)
(* The life of a client session: the accept task that checks, restores or  *)
(* creates it (connection/handler.rs), the task that serves it             *)
(* (spawn_client of mediator.rs), its clock (Session of clobj.rs), the log *)
(* of its events on disk (storage.rs), and the stop or crash of the broker.*)
(*                                                                         *)
(* The list of clients is the registry of module Registry, one slot for    *)
(* each id.  A connection, its Client box and its task have one number.    *)
(* Time is sys_now, in seconds; the peers, the network and the clock are   *)
(* the environment.                                                        *)
(***************************************************************************)
EXTENDS Integers

CONSTANTS
    Ids,            \* client ids
    KeepAlives,     \* keep alive intervals that clients ask for
    Expiries,       \* session expiry intervals that clients ask for
    MinKeepAlive,   \* 60 in client.rs
    U16,            \* 2^16, the values of a keep alive interval
    MaxConns,       \* bound on the number of connections
    MaxTime,        \* bound on the clock
    MaxLate,        \* bound on how often the clock moves while a task is ready
    LastSend,       \* bound on the time at which clients connect and send
    NULL

ASSUME SessionsAssumption ==
    /\ U16 \in Nat \ {0}
    /\ MinKeepAlive \in 0 .. U16 - 1
    /\ KeepAlives \subseteq 0 .. U16 - 1
    /\ Expiries \subseteq Nat
    /\ MaxConns \in Nat /\ MaxTime \in Nat /\ LastSend \in Nat /\ MaxLate \in Nat
    /\ NULL \notin Nat

VARIABLES
    now,      \* sys_now()
    late,     \* how often the clock moved while a task was ready
    broker,   \* where the shutdown of the broker is
    apc,      \* where the accept task is with connection conns
    conns,    \* Proxy.access_total: number of connections accepted
    cid, clean, ka, expr,   \* id, clean start, keep alive and expiry interval of each connection
    ttl,      \* Session.ttl of each box
    slot,     \* the box of each id in the list of clients
    freed,    \* the boxes that have been dropped
    old,      \* the box that insert has found dead, until it is dropped
    inbox,    \* what the socket of each connection holds for the next read
    tpc,      \* where the task of each connection is
    tobj,     \* the box the task has loaded
    tt,       \* its t, the time at which it loaded it
    until,    \* the deadline of its read, or the expiry it logs
    wal,      \* the last event in the session file of each id
    meta,     \* the metadata file of each id
    served    \* history: when the task last served a packet

clock    == <<now, late>>
accVars  == <<apc, conns, cid, clean>>
boxVars  == <<ka, expr, ttl>>
listVars == <<slot, freed, old>>
taskVars == <<tpc, tobj, tt, until, served>>
diskVars == <<wal, meta>>
svars == <<clock, broker, accVars, boxVars, listVars, inbox, taskVars, diskVars>>

Conns == 1 .. MaxConns

\* Pairs of an event and the expiration time it carries.
NoFile   == <<"none", 0>>
Created  == <<"ClientCreated", 0>>
Restored == <<"ClientRestored", 0>>
Ended(u) == <<"Disconnected", u>>     \* ClientDisconnected or DisconnectByServer

Panics == {"timedOut", "duplicate", "refused", "unfound", "unwritten"}
AcceptPCs == {"listen", "check", "restore", "create", "insert", "swap", "drop", "spawn", "connack", "stopped"}
             \cup Panics
Running == {"top", "read", "write", "dead", "lost"}
Over == {"done", "panicked", "dangling", "gone"}

\* Every variable holds a value of its type.
TypeOK ==
    /\ now \in Nat /\ late \in 0 .. MaxLate
    /\ broker \in {"up", "stopping", "cleared"}
    /\ apc \in AcceptPCs
    /\ conns \in 0 .. MaxConns
    /\ cid \in [Conns -> Ids \cup {NULL}]
    /\ clean \in [Conns -> BOOLEAN]
    /\ ka \in [Conns -> 0 .. U16 - 1]
    /\ expr \in [Conns -> Nat]
    /\ ttl \in [Conns -> Nat]
    /\ slot \in [Ids -> Conns \cup {NULL}]
    /\ freed \subseteq Conns
    /\ old \in Conns \cup {NULL}
    /\ inbox \in [Conns -> {"empty", "packet", "malformed", "eof", "reset"}]
    /\ tpc \in [Conns -> {"none"} \cup Running \cup Over]
    /\ tobj \in [Conns -> Conns \cup {NULL}]
    /\ tt \in [Conns -> Nat]
    /\ until \in [Conns -> Nat]
    /\ wal \in [Ids -> {"none", "ClientCreated", "ClientRestored", "Disconnected"} \X Nat]
    /\ meta \in [Ids -> (0 .. U16 - 1) \X Nat]
    /\ served \in [Conns -> Nat]

Init ==
    /\ now = 1 /\ late = 0 /\ broker = "up" /\ apc = "listen" /\ conns = 0
    /\ cid = [c \in Conns |-> NULL]
    /\ clean = [c \in Conns |-> FALSE]
    /\ ka = [c \in Conns |-> 0]
    /\ expr = [c \in Conns |-> 0]
    /\ ttl = [c \in Conns |-> 0]
    /\ slot = [id \in Ids |-> NULL]
    /\ freed = {} /\ old = NULL
    /\ inbox = [c \in Conns |-> "empty"]
    /\ tpc = [c \in Conns |-> "none"]
    /\ tobj = [c \in Conns |-> NULL]
    /\ tt = [c \in Conns |-> 0]
    /\ until = [c \in Conns |-> 0]
    /\ wal = [id \in Ids |-> NoFile]
    /\ meta = [id \in Ids |-> <<0, 0>>]
    /\ served = [c \in Conns |-> 0]

-----------------------------------------------------------------------------
(* Session *)

\* keep_alive + keep_alive/2 in u16, which wraps in a release build.
Window(k) == (k + k \div 2) % U16

IsAlive(c) == ttl[c] >= now

ExpirationTime(c) == expr[c] + ttl[c]

\* keep_alive: an error if the session has run out at time t.
MayProlong(c, t) == ttl[c] > t

\* Mutant: the session is prolonged by the interval instead of its window.
ProlongShort(c, t) == ttl' = [ttl EXCEPT ![c] = t + ka[c]]

Prolong(c, t) == ttl' = [ttl EXCEPT ![c] = t + Window(ka[c])]

-----------------------------------------------------------------------------
(* The accept task *)

\* read_request and collect: a CONNECT of a client arrives.
ReadRequest(id, cs, k, x) ==
    /\ apc = "listen" /\ conns < MaxConns
    /\ apc' = "check"
    /\ conns' = conns + 1
    /\ cid' = [cid EXCEPT ![conns + 1] = id]
    /\ clean' = [clean EXCEPT ![conns + 1] = cs]
    /\ ka' = [ka EXCEPT ![conns + 1] = k]
    /\ expr' = [expr EXCEPT ![conns + 1] = x]
    /\ UNCHANGED <<clock, broker, ttl, listVars, inbox, taskVars, diskVars>>

\* read_request: the peer sends something else, and the connection is dropped.
BadRequest ==
    /\ apc = "listen" /\ conns < MaxConns
    /\ conns' = conns + 1
    /\ UNCHANGED <<clock, broker, apc, cid, clean, boxVars, listVars, inbox, taskVars, diskVars>>

\* read_request: the peer is silent for 3 seconds, or resets, and the error is
\* unwrapped; or it closes, or its CONNECT is cut, and the decoder panics (see
\* RefuseConnect of module Stream).
SilentRequest ==
    /\ apc = "listen" /\ conns < MaxConns
    /\ conns' = conns + 1
    /\ apc' = "timedOut"
    /\ UNCHANGED <<clock, broker, cid, clean, boxVars, listVars, inbox, taskVars, diskVars>>

\* start_session asks is_still_alive; its error is unwrapped by the caller.
CheckAlive ==
    /\ apc = "check"
    /\ LET s == slot[cid[conns]]
       IN  apc' = IF s # NULL /\ IsAlive(s) THEN "duplicate"
                  ELSE IF clean[conns] THEN "create" ELSE "restore"
    /\ UNCHANGED <<clock, broker, conns, cid, clean, boxVars, listVars, inbox, taskVars, diskVars>>

\* ClientStore::restore gives a session only if its last event is an end that
\* has not expired.
Restorable(id) == wal[id][1] = "Disconnected" /\ now < wal[id][2]

\* Client::restore: the box gets the interval and expiry of the metadata file.
Restore ==
    /\ apc = "restore" /\ now <= LastSend
    /\ LET id == cid[conns]
           k == meta[id][1]
       IN  /\ Restorable(id)
           /\ wal' = [wal EXCEPT ![id] = Restored]
           /\ ka' = [ka EXCEPT ![conns] = k]
           /\ expr' = [expr EXCEPT ![conns] = meta[id][2]]
           /\ ttl' = [ttl EXCEPT ![conns] = now + Window(k)]
    /\ served' = [served EXCEPT ![conns] = now]
    /\ apc' = "insert"
    /\ UNCHANGED <<clock, broker, conns, cid, clean, listVars, inbox, tpc, tobj, tt, until, meta>>

\* failed to restore: a new session is made instead.
RestoreFails ==
    /\ apc = "restore"
    /\ ~Restorable(cid[conns])
    /\ apc' = "create"
    /\ UNCHANGED <<clock, broker, conns, cid, clean, boxVars, listVars, inbox, taskVars, diskVars>>

\* Client::new: ttl is set before the interval is raised to its minimum, and
\* the files of the id are overwritten.
Create ==
    /\ apc = "create" /\ now <= LastSend
    /\ LET k == IF ka[conns] < MinKeepAlive THEN MinKeepAlive ELSE ka[conns]
       IN  /\ ttl' = [ttl EXCEPT ![conns] = now + Window(ka[conns])]
           /\ ka' = [ka EXCEPT ![conns] = k]
           /\ wal' = [wal EXCEPT ![cid[conns]] = Created]
           /\ meta' = [meta EXCEPT ![cid[conns]] = <<k, expr[conns]>>]
    /\ served' = [served EXCEPT ![conns] = now]
    /\ apc' = "insert"
    /\ UNCHANGED <<clock, broker, conns, cid, clean, expr, listVars, inbox, tpc, tobj, tt, until>>

\* insert, for an id that is not in the list.
InsertNew ==
    /\ apc = "insert"
    /\ slot[cid[conns]] = NULL
    /\ slot' = [slot EXCEPT ![cid[conns]] = conns]
    /\ apc' = "spawn"
    /\ UNCHANGED <<clock, broker, conns, cid, clean, boxVars, freed, old, inbox, taskVars, diskVars>>

\* is_alive says that the client with the id is dead.  insert holds the lock of
\* the list until the swap; the task of the client does not need it.
InsertDead ==
    /\ apc = "insert"
    /\ LET s == slot[cid[conns]]
       IN  /\ s # NULL /\ ~IsAlive(s)
           /\ old' = s
    /\ apc' = "swap"
    /\ UNCHANGED <<clock, broker, conns, cid, clean, boxVars, slot, freed, inbox, taskVars, diskVars>>

\* The box is swapped into the slot, and the lock is released.
InsertSwap ==
    /\ apc = "swap"
    /\ slot' = [slot EXCEPT ![cid[conns]] = conns]
    /\ apc' = "drop"
    /\ UNCHANGED <<clock, broker, conns, cid, clean, boxVars, freed, old, inbox, taskVars, diskVars>>

\* The box that was in the slot is dropped.
InsertDrop ==
    /\ apc = "drop"
    /\ freed' = freed \cup {old}
    /\ old' = NULL
    /\ apc' = "spawn"
    /\ UNCHANGED <<clock, broker, conns, cid, clean, boxVars, slot, inbox, taskVars, diskVars>>

\* register and try_restore_session look for the client they have inserted and
\* spawn its task.  Clients::clear may have taken it: the unwrap of get_client
\* panics, or that of the socket that restore has used.
SpawnTask ==
    /\ apc = "spawn"
    /\ IF slot[cid[conns]] = NULL
       THEN apc' = "unfound" /\ tpc' = tpc
       ELSE apc' = "connack" /\ tpc' = [tpc EXCEPT ![conns] = "top"]
    /\ UNCHANGED <<clock, broker, conns, cid, clean, boxVars, listVars, inbox, tobj, tt, until, served, diskVars>>

\* duplicate client id: insert drops the new box, and its error is unwrapped.
InsertFails ==
    /\ apc = "insert"
    /\ LET s == slot[cid[conns]] IN s # NULL /\ IsAlive(s)
    /\ freed' = freed \cup {conns}
    /\ apc' = "refused"
    /\ UNCHANGED <<clock, broker, conns, cid, clean, boxVars, slot, old, inbox, taskVars, diskVars>>

\* The CONNACK is written; the error of a connection that is gone is unwrapped.
Connack ==
    /\ apc = "connack"
    /\ \/ apc' = "listen"
       \/ inbox[conns] = "reset" /\ apc' = "unwritten"
    /\ UNCHANGED <<clock, broker, conns, cid, clean, boxVars, listVars, inbox, taskVars, diskVars>>

AcceptStep ==
    \/ CheckAlive \/ Restore \/ RestoreFails \/ Create
    \/ InsertNew \/ InsertDead \/ InsertSwap \/ InsertDrop \/ InsertFails
    \/ SpawnTask \/ Connack

-----------------------------------------------------------------------------
(* The task of connection c: spawn_client *)

\* The task goes on to l within the body of the loop.
Goto(c, l) == tpc' = [tpc EXCEPT ![c] = l] /\ UNCHANGED <<tobj, tt>>

\* It leaves the body, to the loop head or for good, and its locals are gone.
Leave(c, l) ==
    /\ tpc' = [tpc EXCEPT ![c] = l]
    /\ tobj' = [tobj EXCEPT ![c] = NULL]
    /\ tt' = [tt EXCEPT ![c] = 0]
    /\ until' = [until EXCEPT ![c] = 0]

\* The task refers to a box that has been dropped.
Dangles(c) == tobj[c] \in freed

\* The head of the loop: load the client from the slot and look at its ttl.
LoopHead(c) ==
    /\ tpc[c] = "top"
    /\ LET o == slot[cid[c]]
       IN  /\ tobj' = [tobj EXCEPT ![c] = o]
           /\ tt' = [tt EXCEPT ![c] = now]
           /\ tpc' = [tpc EXCEPT ![c] = IF IsAlive(o) THEN "read" ELSE "dead"]
           /\ until' = [until EXCEPT ![c] = IF IsAlive(o) THEN ttl[o] ELSE ExpirationTime(o)]
    /\ UNCHANGED <<clock, broker, accVars, boxVars, listVars, inbox, served, diskVars>>

\* DisconnectByServer is logged; then the id is read from the box.
LogDead(c) ==
    /\ tpc[c] = "dead"
    /\ wal' = [wal EXCEPT ![cid[c]] = Ended(until[c])]
    /\ Leave(c, IF Dangles(c) THEN "dangling" ELSE "done")
    /\ UNCHANGED <<clock, broker, accVars, boxVars, listVars, inbox, served, meta>>

\* Mutant: the deadline of the read prolongs the session.
ReadTimeoutProlongs(c) ==
    /\ tpc[c] = "read" /\ ~Dangles(c)
    /\ inbox[tobj[c]] = "empty" /\ now >= until[c]
    /\ Prolong(tobj[c], now)
    /\ Leave(c, "top")
    /\ UNCHANGED <<clock, broker, accVars, ka, expr, listVars, inbox, served, diskVars>>

\* read_timeout gives up; what has arrived is read first.
ReadTimeout(c) ==
    /\ tpc[c] = "read" /\ ~Dangles(c)
    /\ inbox[tobj[c]] = "empty" /\ now >= until[c]
    /\ Leave(c, "top")
    /\ UNCHANGED <<clock, broker, accVars, boxVars, listVars, inbox, served, diskVars>>

\* Mutant: the end of the session is not logged.
ReadErrorUnlogged(c) ==
    /\ tpc[c] = "read" /\ ~Dangles(c)
    /\ inbox[tobj[c]] = "reset"
    /\ Leave(c, "done")
    /\ UNCHANGED <<clock, broker, accVars, boxVars, listVars, inbox, served, diskVars>>

\* Any other error of the read.
ReadError(c) ==
    /\ tpc[c] = "read" /\ ~Dangles(c)
    /\ inbox[tobj[c]] = "reset"
    /\ until' = [until EXCEPT ![c] = ExpirationTime(tobj[c])]
    /\ Goto(c, "lost")
    /\ UNCHANGED <<clock, broker, accVars, boxVars, listVars, inbox, served, diskVars>>

\* ClientDisconnected is logged.
LogLost(c) ==
    /\ tpc[c] = "lost"
    /\ wal' = [wal EXCEPT ![cid[c]] = Ended(until[c])]
    /\ Leave(c, "done")
    /\ UNCHANGED <<clock, broker, accVars, boxVars, listVars, inbox, served, meta>>

\* Mutant: kill also takes the expiry interval off the clock.
ReadEofExpires(c) ==
    /\ tpc[c] = "read" /\ ~Dangles(c)
    /\ inbox[tobj[c]] = "eof"
    /\ ttl' = [ttl EXCEPT ![tobj[c]] = now - 1 - expr[tobj[c]]]
    /\ Leave(c, "top")
    /\ UNCHANGED <<clock, broker, accVars, ka, expr, listVars, inbox, served, diskVars>>

\* The peer has closed the connection: kill.
ReadEof(c) ==
    /\ tpc[c] = "read" /\ ~Dangles(c)
    /\ inbox[tobj[c]] = "eof"
    /\ ttl' = [ttl EXCEPT ![tobj[c]] = now - 1]
    /\ Leave(c, "top")
    /\ UNCHANGED <<clock, broker, accVars, ka, expr, listVars, inbox, served, diskVars>>

\* The error of ClientPacketV5::decode is unwrapped.
ReadMalformed(c) ==
    /\ tpc[c] = "read" /\ ~Dangles(c)
    /\ inbox[tobj[c]] = "malformed"
    /\ Leave(c, "panicked")
    /\ UNCHANGED <<clock, broker, accVars, boxVars, listVars, inbox, served, diskVars>>

\* A packet prolongs the session from the t of the loop head.
ReadPacket(c) ==
    /\ tpc[c] = "read" /\ ~Dangles(c)
    /\ LET o == tobj[c]
       IN  /\ inbox[o] = "packet"
           /\ inbox' = [inbox EXCEPT ![o] = "empty"]
           /\ MayProlong(o, tt[c] + 1)
           /\ Prolong(o, tt[c] + 1)
    /\ served' = [served EXCEPT ![c] = now]
    /\ Goto(c, "write")
    /\ UNCHANGED <<clock, broker, accVars, ka, expr, listVars, until, diskVars>>

\* keep_alive fails: the packet is dropped.
DropPacket(c) ==
    /\ tpc[c] = "read" /\ ~Dangles(c)
    /\ LET o == tobj[c]
       IN  /\ inbox[o] = "packet"
           /\ inbox' = [inbox EXCEPT ![o] = "empty"]
           /\ ~MayProlong(o, tt[c] + 1)
    /\ Leave(c, "top")
    /\ UNCHANGED <<clock, broker, accVars, boxVars, listVars, served, diskVars>>

\* The packet is answered, or queued.  The error of a write is ignored for a
\* PINGREQ and unwrapped for a SUBSCRIBE.
Answer(c) ==
    /\ tpc[c] = "write" /\ ~Dangles(c)
    /\ \/ Leave(c, "top")
       \/ inbox[tobj[c]] = "reset" /\ Leave(c, "panicked")
    /\ UNCHANGED <<clock, broker, accVars, boxVars, listVars, inbox, served, diskVars>>

\* The task goes on with a box that has been dropped.  What it does is
\* undefined; it is followed no further.
UseAfterFree(c) ==
    /\ tpc[c] \in {"read", "write"} /\ Dangles(c)
    /\ Leave(c, "dangling")
    /\ UNCHANGED <<clock, broker, accVars, boxVars, listVars, inbox, served, diskVars>>

TaskStep(c) ==
    \/ LoopHead(c) \/ LogDead(c) \/ LogLost(c) \/ Answer(c) \/ UseAfterFree(c)
    \/ ReadTimeout(c) \/ ReadError(c) \/ ReadEof(c) \/ ReadMalformed(c)
    \/ ReadPacket(c) \/ DropPacket(c)

-----------------------------------------------------------------------------
(* Shutdown and crash *)

\* The running tasks end.
Stop(l) ==
    /\ tpc' = [c \in Conns |-> IF tpc[c] \in Running THEN l ELSE tpc[c]]
    /\ tobj' = [c \in Conns |-> NULL]
    /\ tt' = [c \in Conns |-> 0]
    /\ until' = [c \in Conns |-> 0]

\* The observer takes the signal and aborts the tasks.  The accept task only
\* sees the signal while it listens.
CtrlC ==
    /\ broker = "up"
    /\ broker' = "stopping"
    /\ Stop("gone")
    /\ apc' = IF apc = "listen" THEN "stopped" ELSE apc
    /\ UNCHANGED <<clock, conns, cid, clean, boxVars, listVars, inbox, served, diskVars>>

\* Clients::clear logs the end of every client and drops it, also under a task
\* that was spawned after the others were aborted.  It waits for the lock that
\* insert holds.
ClearClients ==
    /\ broker = "stopping" /\ apc # "swap"
    /\ broker' = "cleared"
    /\ wal' = [id \in Ids |-> IF slot[id] = NULL THEN wal[id] ELSE Ended(ExpirationTime(slot[id]))]
    /\ freed' = freed \cup {slot[id] : id \in {i \in Ids : slot[i] # NULL}}
    /\ slot' = [id \in Ids |-> NULL]
    /\ Stop("dangling")
    /\ UNCHANGED <<clock, accVars, boxVars, old, inbox, served, meta>>

\* A later signal reaches an accept task that missed the first one.
CtrlCAgain ==
    /\ broker = "cleared" /\ apc = "listen"
    /\ apc' = "stopped"
    /\ UNCHANGED <<clock, broker, conns, cid, clean, boxVars, listVars, inbox, taskVars, diskVars>>

\* The process is started anew; only the files are left.
Restart ==
    /\ broker' = "up" /\ apc' = "listen"
    /\ slot' = [id \in Ids |-> NULL]
    /\ freed' = {} /\ old' = NULL
    /\ inbox' = [c \in Conns |-> "empty"]
    /\ clean' = [c \in Conns |-> FALSE]
    /\ served' = [c \in Conns |-> 0]
    /\ Stop("gone")
    /\ UNCHANGED <<clock, conns, cid, boxVars, diskVars>>

\* app returns when the observer and the accept task have.
Exit == broker = "cleared" /\ apc \in {"stopped"} \cup Panics /\ Restart

Crash == Restart

-----------------------------------------------------------------------------
(* The environment *)

\* The peer of connection c, whose box is in the list, sends a packet or
\* something else, closes or resets.
Peer(c, what) ==
    /\ cid[c] # NULL /\ slot[cid[c]] = c /\ now <= LastSend
    /\ inbox[c] = "empty"
    /\ inbox' = [inbox EXCEPT ![c] = what]
    /\ UNCHANGED <<clock, broker, accVars, boxVars, listVars, taskVars, diskVars>>

\* No task can go on before something arrives or its deadline has passed.
Idle ==
    /\ apc \in {"listen", "stopped"} \cup Panics
    /\ \A c \in Conns : tpc[c] \in Running =>
          /\ tpc[c] = "read" /\ ~Dangles(c)
          /\ inbox[tobj[c]] = "empty" /\ now <= until[c]

\* The clock moves, from the first connection on; MaxLate times also while a
\* task is ready.
Tick ==
    /\ now < MaxTime /\ conns > 0
    /\ now' = now + 1
    /\ \/ Idle /\ late' = late
       \/ ~Idle /\ late < MaxLate /\ late' = late + 1
    /\ UNCHANGED <<broker, accVars, boxVars, listVars, inbox, taskVars, diskVars>>

Next ==
    \/ \E id \in Ids, cs \in BOOLEAN, k \in KeepAlives, x \in Expiries : ReadRequest(id, cs, k, x)
    \/ BadRequest \/ SilentRequest
    \/ AcceptStep
    \/ \E c \in Conns : TaskStep(c)
    \/ CtrlC \/ ClearClients \/ CtrlCAgain \/ Exit \/ Crash
    \/ \E c \in Conns, what \in {"packet", "malformed", "eof", "reset"} : Peer(c, what)
    \/ Tick

Spec == Init /\ [][Next]_svars

\* Time passes, and the runtime polls a task that is ready.
Fairness ==
    /\ SF_svars(Tick)
    /\ WF_svars(AcceptStep)
    /\ \A c \in Conns : WF_svars(TaskStep(c))

FairSpec == Spec /\ Fairness

-----------------------------------------------------------------------------

\* The end of a session is on disk when its task is done: whatever the client
\* and the accept task did meanwhile, the session file of an id that is not
\* being connected ends with the end of the session.
EndIsLogged ==
    \A id \in Ids :
        /\ slot[id] # NULL
        /\ tpc[slot[id]] = "done"
        /\ conns > 0 /\ cid[conns] = id => apc \notin {"insert", "swap", "refused"}
        => wal[id][1] = "Disconnected"

\* A packet prolongs the session by its keep alive window beyond the packet
\* that the task served before it.
ProlongsFromLastButOne ==
    [][\A c \in Conns :
          served'[c] > served[c] /\ tpc[c] = "read"
          => ttl'[tobj[c]] > served[c] + Window(ka[tobj[c]])]_svars

\* Silent clients are let go: once no more packets come, every task ends, also
\* the ones that wait for a deadline or for the disk.
TasksEnd ==
    <>[](\A c \in Conns : inbox[c] # "packet")
    => \A c \in Conns : tpc[c] = "top" ~> tpc[c] \in Over

\* The unwraps of register and of insert assert that an id which was not alive
\* when it was checked can be inserted.
CheckedIdIsFree == apc # "refused"

=============================================================================
