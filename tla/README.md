# A TLA+ model of SIPUSU

SIPUSU is an MQTT 5 broker in Rust on tokio. This directory holds a model of it,
TLC runs that check the model on small instances, and proofs, checked by TLAPS,
that hold for every instance. Paths below are relative to the crate's `src/`.

## The system

| Part | State | Operations | Shares with |
|---|---|---|---|
| Accept loop (`server.rs`, `connection/`) | number of connections | `bind_unsecure`, `read_request`, `collect`, `start_session` | calls the mediator; runs in one task for all connections |
| Client list (`message_broker/client/clients.rs`) | sorted vector of pointers to `Client` boxes, `RwLock` | `insert`, `search_mut_client`, `get_client`, `pubish`, `clear` | accept task, forwarders, observer; references outlive the lock |
| Client task (`spawn_client` in `mediator.rs`) | box it has loaded, `t`, read buffer | read with deadline, keep alive, publish, subscribe, log its end | one per connection; writes the box that others read |
| Session clock (`client.rs`, `clobj.rs`) | `ttl`, interval, expiry | `is_alive`, `keep_alive`, `kill`, `expiration_time` | client task, accept task |
| Client storage (`storage.rs`) | per id: session log, metadata, subscriptions | `new`, `restore`, `log_session`, `subscribe`, `unsubscribe` | survives the process |
| Message queue (`ds/linked_list.rs`, `message.rs`) | lock-free list, slot for a waker | `append`, `take_first`, `enqueue`, `poll`, `clear` | client tasks enqueue, the observer dequeues |
| Topic router (`ds/trie.rs`, `router.rs`) | trie with one subscriber a node | `insert`, `get`, `subscribe`, `route`; `remove`, `clean_branch` in tests | client tasks insert, the observer looks up |
| Observer and delivery (`mediator.rs`, `clients.rs`) | none of its own | route a message, spawn a forward task, QoS 0/1/2 sequences, shutdown | everything above |
| Wire protocol (`protocol/`, the reads and writes of `line.rs`, `mediator.rs`, `clobj.rs`) | the bytes not read yet, the read buffer | encode, decode | accept task and client task unwrap its errors |
| Message state (`msg_state.rs`) | messages waiting for an acknowledgement | not used by the broker yet | |
| Authentication (`authentication.rs`) | user file | not used by the broker | |

What is hard here: the queue and the trie are shared between threads with
nothing but atomics, nodes and clients are freed by hand while others hold
pointers to them, a session is a clock that several tasks read and one prolongs,
an error of one connection is unwrapped in the task that serves all of them, a
read is taken for a packet although TCP knows no packets, and the session files have to
tell after a crash what went on before it.

What makes each part correct:

* queue: nothing twice, nothing lost, nothing made up, no access to freed memory,
  the observer does not sleep on a message;
* client list: sorted, one slot an id, no slot dangles, no box is dropped twice or
  forgotten, an id is only taken from a dead client;
* sessions: a packet prolongs by its window, a silent client is let go, its end is
  logged, a session that was logged can be restored, nobody ends the accept task;
* router: only who asked is routed to, who was acknowledged is routed to;
* delivery: a publisher is told of a delivery after it, nothing twice, nothing to
  others, a forward task is held up by its own client at most;
* wire protocol: a packet is read as it was sent, half a packet is refused, what is
  written is framed and reads as it was meant;
* storage: whatever the crash point, and whatever tasks of earlier connections still
  write, the files can be read, are of one session and hold its subscriptions.

`PROJECT.json` lists the hazards line by line.

## Modules

* `List`: `ds/linked_list.rs`. One action per access to shared memory: the two
  loads of `head` in `append`, its two exchanges, the two loads of `next` in each
  round of `iter_exchange`; the loads, the exchange and the free of `take_first`.
  A node is a cell at an address; freed addresses are used again. A dereference of
  a freed cell either faults (`Segfault`, the process ends) or sees what the cell
  holds. Atomics are sequentially consistent: what goes wrong here goes wrong under
  the weaker orderings of the code, what holds here is claimed only for this memory
  model.
* `MessageQueue` extends `List` by the waker slot of `message.rs`, the client tasks that
  enqueue and the observer that polls, sleeps, is woken and clears the queue on ctrl_c.
  The clear is a loop of `take_first`, and client tasks may be anywhere in an enqueue, or
  begin one, while it runs: `Tasks::clear` does not abort a task that the accept task
  spawns after its loop. `LossyChannel` is what it promises: messages are sent once, may
  be lost or overtake each other, and are received at most once.
* `Clients`: `clients.rs`. An operation under the lock is one action, except for `insert`:
  its check of `is_alive`, the swap and the drop behind the lock are three, since
  `keep_alive` of the client's own task takes no lock (`Revive`). A box is named by the
  number of its connection. `Search` and `Written` are the two halves of `pubish`, between
  which the lock is not held; `binary_search_by` of the standard library is what it
  promises on a sorted vector. `Registry` is what the list promises: a map in which an
  entry is taken over only if it is free or has been found dead.
* `Sessions`: accept task, client tasks, session clock, session log, shutdown, crash and
  restart. The list of clients is reduced to one slot for each id, as `Registry` allows.
  Actions are the pieces between awaits at which another task can get in: check, restore
  or create, insert (its check, its swap and its drop apart), the start of the task,
  CONNACK; loop head, read, answer, log. The shutdown aborts the tasks, sleeps and clears
  the clients, with the accept task going on in between. Each file operation is atomic. A
  task that goes on with a dropped box (`UseAfterFree`) is undefined behaviour and is
  followed no further.
* `Router`: trie and `TopicRouter`. One action per access to a node, for inserts of
  client tasks and the lookup of the observer; `Remove` and `CleanBranch` happen
  between the calls, as in the tests. Access to a node's `HashMap` is
  atomic, which is the best that the data race in the code can turn out to be.
* `Delivery`: `queue_message`, the observer, `Publish::forward` and the QoS sequences of
  `clients.rs`. It uses `LossyChannel` for the queue, one connection number for each
  client in place of the list, and a map from topics to their first subscriber in
  place of the trie. Each call of `pubish` is a lookup and a write; a packet is
  written at once, in two halves, or waits for a socket that takes nothing. A socket
  has one waker for writers: the last task that waited for it is the one that is woken.
  Connections break, clients stop to read, and clients come back under a new number, at any
  time, also during the three steps of the shutdown (client tasks, list, queue).
* `ClientStore`: the three files of one client, one action per system call of `new`,
  `restore`, `subscribe`, `unsubscribe` (which nothing calls yet) and `log_session`,
  and a crash between any two. The accept task and any number of client tasks run
  side by side, so that the `subscribe` of a task that was taken over meets `new` and
  `restore` at each of their steps. The log has lines with lengths, because the length of
  the buffer matters; a write at a position where an earlier task has appended
  meanwhile leaves garbage. `Sessions` uses the last line only.
* `Codec`: the decoders and encoders of `protocol/` and of the metadata file, as
  operators on sequences of bytes. A decoder ends with a value, an error or a panic:
  the `get_` and `split_to` of the crate `bytes` panic on a short buffer, and only
  some callers check first. One operator reads, and one writes, a field of each kind
  (`KindOf` has the kind of each property); a packet is a list of kinds, its properties a
  table from identifiers to kinds. The decoders of the properties are recursive functions
  on the position, so that they can be proved about.
* `Stream` extends `Codec`: one client at the other end of TCP. It sends a CONNECT, then
  PUBLISH, SUBSCRIBE, PINGREQ and the packets for which the broker has no decoder (PUBACK,
  PUBREC, PUBREL, PUBCOMP, UNSUBSCRIBE, DISCONNECT, AUTH) as bytes; a read returns any
  number of the bytes that have arrived, up to the length of its buffer, and none when the
  client has closed; the broker decodes each read as one packet, answers, forwards, writes
  or restores the metadata. The client's side stands for code outside the repository and
  is MQTT 5: `Standard` is its table of properties, which has four bytes for the maximum
  packet size 0x27 where the code (`connect.rs:159`, `connack.rs:110`) has two, and with
  it CONNECTs are written and CONNACKs read. The packets are those with fewer than 16384
  bytes behind the remaining length, ASCII strings, a will without properties, and user
  names and passwords of one byte. The clock and the list of clients are nondeterminism
  here; `Sessions` has them.
* `MC*`: the modules TLC is given, with the `.cfg` files of the same or a similar
  name.
* `MessageQueueProofs`, `ClientsProofs`, `SessionsProofs`, `RouterProofs`,
  `DeliveryProofs`, `ClientStoreProofs`, `CodecProofs`, `StreamProofs` hold the inductive
  invariants and theorems of the modules they are named after. `StreamProofs` extends
  `CodecProofs`, which has the lemmas on the codec and on the operators of `Stream`.

An operator after the comment "Mutant" is a plausible mistake in the definition
below it. It is used nowhere; putting it in place of that definition violates the
property `PROJECT.json` pairs it with, which shows that the property depends on
the code.

## Runs

| Run | Shows |
|---|---|
| `queue` | `AtMostOnce`, `ObserverNeverDangles`, `ClearLeavesNothing` under concurrent enqueues, the refinement `ImplementsChannel`; `FaultsOnlyAfterTake`: appends alone do not fault; `LostOnlyToRaces`: the only two ways in which a message gets lost; `WokenTakes`: the hand-off through the waker; `AppendsReturn`: appends alone do not loop |
| `queue_delivers` | violated: see below |
| `clients` | `StrictlySorted`, `ListedIsAllocated`, `OwnedOnce`, refines `Registry`, with a client that revives between the steps of `insert` and a clear between its swap and its drop |
| `sessions` | `EndIsLogged`, `ProlongsFromLastButOne` with crash, restart, shutdown |
| `sessions_live` | `TasksEnd`, also for an interval of 0 and one whose window overflows |
| `sessions_insert` | violated: see below |
| `router` | `RoutedAsked`, `SubscribesEnd`, `CleanKeepsRoutes` |
| `router_race` | violated: see below |
| `delivery` | `AckedIsWritten`, `DeliveredOnce`, `NeverPanics`, with broken, stalled and new connections and a shutdown between the writes; `HeldUpOnlyByItsClient`: a client that reads no more holds up the tasks that write to it, and no others |
| `store` | `RestoredIsOneSession`, `EachEndRestoresOnce`, `RestoreLosesNothing`, with crashes and two client tasks at every point of `new` and `restore` |
| `store_recover` | violated: see below |
| `stream` | `TruncatedIsRefused`, `SentIsRead`, `PanicsAreKnown` for reads of every length; `FramesOK`, `ReadsAsPublished`, `ConnackAnswers` for what is written; `RestoredIsMade` for the metadata file; `LengthsAgree` for the remaining length |

What the violated properties show (the lines are quoted in `PROJECT.json`):

* `EnqueuedIsTaken`: an enqueue between the observer's `take_first` and the
  registration of its waker wakes nobody. Also, `take_first` loads `next`, an append
  links a node behind the old head and returns, and the exchange unlinks both.
* `CheckedIdIsFree`: a connection whose id was dead when it was checked and is alive
  again when it is inserted ends the accept task by an unwrap.
* `RecoversSession`: after a crash between the truncation of the session file and its
  first line, `restore` panics. It also panics when the file is longer than 512 bytes
  and no line ends there (after about seven restores), and when an earlier task
  appends its end before `new` or `restore` writes; and a session that was online in
  a crash is refused.
* `AckedIsRouted`: two tasks make the same branch, the later replaces the earlier.

The model also does the following, as the code does; no run is spent on it:

* `append` checks `head`, loads it again (`linked_list.rs:47`) and dereferences it,
  although the observer may have taken the last node in between; it may also walk
  onto a node that was freed. `Segfault` can happen.
* `insert` finds the client of an id dead (`clients.rs:34`), its task, which takes no lock,
  handles the packet it was waiting for and revives it, and `insert` swaps it out (line
  53) and frees it alive (line 55). `OwnedOnce` is that it is freed once, and
  `ImplementsRegistry` that it had been found dead.
* A packet prolongs its session from the time at which the task began to wait for it
  (`mediator.rs:164`, `212`). What does hold is `ProlongsFromLastButOne`.
* In the last second of a session a packet is dropped: `ttl = t` is alive for
  `is_alive` and expired for `keep_alive` (`clobj.rs:140`, `148`).
* A client that the accept task inserts after `Clients::clear` gets a task that runs until
  the process ends, and nobody logs its end; `EndIsLogged` is of tasks that are done.
* The first deadline of a session is computed before its interval is raised to the
  minimum of 60 (`client.rs:51-52`).
* A second connection with an id that is alive ends the accept task
  (`handler.rs:38`), and so does a peer that sends nothing for 3 seconds
  (`line.rs:38`).
* `pubish` awaits a write into a client after the lock is released; `insert` may have
  swapped the client out, or `clear` dropped it (`clients.rs:160`). `Clients!Written`
  and `UseAfterFree` of `Delivery` and `Sessions` are these steps.
* Two forward tasks write to one socket without a lock, so that the halves of their
  packets may mix, and of two that wait for it only the later is woken; messages of one
  publisher may overtake each other, since each has a task of its own (`mediator.rs:312`).
* A subscriber gets a packet that says the publisher's QoS, whatever level it is
  delivered at (`mediator.rs:333`, `346`). A publisher of QoS 1 or 2 whose message has
  no subscriber, or one of QoS 0, hears nothing. The last packet of the QoS 2 exchange
  is a PUBREL where the comment says "Pub Comp" (`clients.rs:140`).
* Subscriptions get lost in four ways, which `RestoreLosesNothing` excepts (`torn`):
  `subscribe` reads at most 1024 bytes and writes back what it has read
  (`storage.rs:231`); a crash or a restore comes between its `set_len(0)` and its write
  (`storage.rs:181`); two tasks of one client edit the file at a time; and `new` is cut
  short after a task of the earlier session has logged its end into the new log.
* A task that was taken over and is inside `subscribe` writes its subscriptions behind
  the metadata of the new session (`storage.rs:184`); a restore returns both.
  `RestoredIsOneSession` excepts these subscriptions (`late`) and no others.
* The second subscriber of a topic is acknowledged and ignored (`router.rs:35`).
* A read is one packet (`mediator.rs:209`): a second packet in it becomes part of the
  payload of a PUBLISH and is dropped behind any other packet (`SentIsRead` says exactly
  this). A read that ends inside a packet panics the client task (`mediator.rs:211`).
  So does every packet of more than 1024 bytes.
* A CONNECT that arrives in two reads, or is longer than 256 bytes, is refused when the
  decoder sees that it is short and panics in the accept task when it does not (an
  empty read, from a client that closes first, or a remaining length that is cut).
* A PINGREQ is recognised by its first half byte, and the answer is the one byte 0x0D.
* A DISCONNECT, PUBACK, UNSUBSCRIBE or any other packet without a decoder, read whole and
  alone, is an `Err` of `ClientPacketV5::decode` (`mqtt.rs:21`), and `spawn_client`
  unwraps it (`mediator.rs:211`): the task ends without a log entry.
* A maximum packet size has two bytes behind 0x27 in the code, both in the CONNECT it reads
  (`connect.rs:159`) and in the CONNACK it writes (`connack.rs:110`), where MQTT 5 and the
  test of the encoder (`connack.rs:323-325`) have four. A CONNECT with 5889 is accepted with
  a packet size of 0, since the two bytes left over are another property; one with 4352
  panics the accept task; and no client can decode the CONNACK. `ConnackAnswers` excepts it.
* The properties of a SUBSCRIBE are read as topic filters (`subscribe.rs:34`). This and the
  CONNECT with a maximum packet size are the two packets that `Misread` names.
* A message is forwarded without its dup flag, which is shifted onto a bit that is set
  anyway (`publish.rs:211`), and without topic alias, response topic, correlation data
  and subscription identifier. One that has only such properties is written without a
  property length, because the length 0 is encoded as no byte at all; `ReadsAsPublished`
  excepts it. For the same reason SUBACK and PUBACK have no property length.
* The buffer of a client task loses the bytes of each packet that `keep_alive` refuses
  (`mediator.rs:214`).
* The CONNACK tells a client the interval it asked for, although at least 60 is used; a
  client without an id gets the id `raw_clid`, as all others without one
  (`handler.rs:160`).
* A restored session has the receive maximum for its topic alias maximum
  (`client.rs:94`).
* `ClientID::eq` compares lengths and hashes, and the hash skips the first bytes of a
  tail of two or three (`clobj.rs:48-53`): different ids can be equal. The client list
  compares with the derived `cmp`, which looks at the id first; `eq` is used only by
  `remove` and by the unused message state.

### Bounds

* Queue: two client tasks, one with two messages and one with one, one observer, three
  addresses; no `SYMMETRY`, because liveness is checked in the same run. Both
  exchanges of `append` can fail, a freed address is reused while another task walks
  over it, and the head moves under a walk. `MCQueueDelivers` needs one task and two
  messages.
  `CHECK_DEADLOCK FALSE`: the queue stops when the messages are spent, on shutdown
  and on a fault.
* Clients: four ids (front, middle, end), five
  connections, one forwarder; it stops when the connections are spent.
* Sessions: one id, two connections, so that the second one meets the first in each
  of its states; a clock that runs to 5, with an interval of 2 (window 3) and expiry 2, so that
  a session dies, can be restored and expires. `MinKeepAlive` is 2 and `U16` 16, in
  place of 60 and 65536. `MaxLate` bounds how often time passes while a task is
  ready to run. The clock starts with the first connection. In the liveness run
  clients are silent from time 3 on, and the clock reaches 12, after every deadline; the
  intervals are 0, 2 and 11, whose window 16 wraps to 0.
* Router: topics `a`, `a/b`, `a/c`: one that ends inside the others, and two that
  share a branch. Two client tasks with one packet each; one of the packets has two
  topics. `MaxNodes` is 7, which no behaviour exceeds: `SubscribesEnd` would fail. One
  subscriber is removed; `clean_branch` may run at any time.
* Delivery: two clients, one topic, a message of QoS 0 and one of QoS 2, which
  subscriptions take down to 1 and 0; one connection of the publisher of the former and
  two of that of the latter, so that one is swapped out in the middle of a write. It stops
  when all is sent.
* Store: two sessions, two client tasks, two crashes, a log of five lines of 5 and 8 bytes
  and a buffer of 20 (in place of lines of 25, 26 and 41 bytes and 512), so that a log of four
  lines is too long; one subscription fits into the buffer and two do not. Expiry is 1 and
  the clock runs to 1 (2 and 3 in `MCStoreRecover`, with one crash). Tasks and topics are
  interchangeable (`SYMMETRY`); the properties are invariants and one action property. It
  stops at these bounds.
* Stream: three packets on all connections together, so that two of them can be in one
  read, and a client can come back to be restored; reads of every length. `ConnCap` is 48
  in place of 256, which one CONNECT exceeds, and `ReadCap` 145 in place of 1024, which
  holds any one packet but not every two. The packets cover the service levels, all kinds
  of properties, remaining lengths of one and two bytes, subscription options, will, user
  name, an old protocol level, a packet size of which the rest is a property and one of
  which it is none, and two packets without a decoder. `Lengths` are zero and the limits
  of each number of bytes. It stops when the packets are spent or the accept task has
  panicked.

### Fairness

* `MessageQueue!FairSpec`, `Router!FairSpec`: a thread that is inside a
  call goes on; none of these calls waits. Nobody is obliged to publish, subscribe
  or press ctrl_c.
* `Sessions!FairSpec`: tokio polls a task that is ready (weak fairness of the steps of
  a task), and time passes (strong fairness of `Tick`, since a task may be ready
  again and again). A write is assumed to complete or fail: `write_all` has no
  deadline in the code, and a peer that stops reading would stop its task for good.

* `Delivery!FairSpec`: a forward task goes on when it is polled, which it is at first and
  when the socket it waits for wakes it. A socket of a client that still reads makes room
  in time; one of a client that has stopped (`Stall`) need not, ever, and tokio keeps
  one waker for the writers of a socket, so that a second one that waits pushes the first out.
  `HeldUpOnlyByItsClient` says that nothing else stops a task.

## Proofs

Every theorem holds for all values of the constants that satisfy the assumption of its
module, in particular for any number of tasks, clients, messages, nodes and
connections. A theorem rests on an invariant that is stronger than what it says;
each of these was checked by TLC on the run's instance before it was proved.

`MessageQueueProofs`, from `ListAssumption` (NULL is no address, appenders are not
takers) and `ObserverAssumption` (one taker):

* `IndInv` is inductive (`Invariance`): it says that live links lead to live nodes,
  each from one place (`LinksOK`); a node that is not linked yet is live and nothing
  leads to it (`NewNodesOK`); the observer holds the head between its load and its
  exchange and the `next` it loaded is still right, unless it was NULL
  (`ObserverOK`); the values of allocated nodes are distinct, sent and not taken
  (`ValuesOK`); and behind a node that was appended after `Queue::clear` had begun there
  is none of those that were there before (`ClearingOK`). It is
  needed because a walking `append` may hold any pointer, freed or reused: what keeps
  the list a list is that every exchange of an append writes over NULL.
* From it `TypeCorrect`, `TakenAtMostOnce`, `ObserverSafe`, `ClearAlwaysLeavesNothing`, and the
  refinement `QueueImplementsChannel`.
* `AppendsAloneSafe` (`FaultsOnlyAfterTake`) adds `GrowsOnly`: until the first take the
  nodes that appends hold stay allocated and a list seen non-empty stays so.
* `LossesAreRaces` (`LostOnlyToRaces`): what is in reach is the least set that has the
  head and with a node its next, so that the proof shows of each exchange which such
  sets it leaves alone.

`ClientsProofs`, from `ClientsAssumption`: `ClientsInv` (types, `StrictlySorted`,
`ListedIsAllocated`, `OwnedOnce`, and that the box insert is about to swap out is in the
list, `SwapOK`: the clear of a shutdown waits for the lock until the swap) is inductive;
`TypeCorrect`, `AlwaysSorted`, `AlwaysAllocated`, `AlwaysOwnedOnce` and the refinement
`ClientsImplementRegistry` follow. The registry takes an entry over in two steps, too: it
is found dead (`doomed`), and it is replaced, alive again or not. `InsertAtElements` says
what `Vec::insert` does to a sequence.

`SessionsProofs`, from `SessionsAssumption`: `SessionsInv` says which boxes the list, the
accept task and the client tasks refer to in each of their states (`RefsInv`,
`NoTaskYet`), and how the clock a task has loaded stands to the clock and to its last
packet (`ClockInv`). `TypeCorrect`, `EndAlwaysLogged` (`EndIsLogged`, which is part of the
invariant) and the action property `PacketProlongs` (`ProlongsFromLastButOne`) follow.

`RouterProofs`, from `RouterAssumption`: `RouterInv` says that there is a set of nodes that
somebody may still walk to, and a prefix for each of them, such that branches lead from a
prefix to the prefix one part longer, a subscriber has asked for the prefix of its node
(`TrieInv`), and every task and the observer are at the prefix that their depth says
(`TaskInv`, `ObsInv`). The prefix is not state of the program, so that it is quantified
over; a node that `create_branch` replaces keeps its own, and `remove` drops the replaced
nodes from the set, since they keep subscribers that were removed. `TypeCorrect` and
`RoutedOnlyAsked` follow. `CleanAlwaysKeepsRoutes` (`CleanKeepsRoutes`) adds that branches
lead to younger nodes, which makes the recursion of `dfs_empty_and_remove` well-founded
(`EmptyDefined`), and goes by induction over the nodes (`CleanKeepsEmpty`) and along the
topic (`CleanKeepsWalks`).

`DeliveryProofs`, from `DeliveryAssumption`: `DeliveryInv` ties what is written and begun to
the step at which each forward task is. `TypeCorrect`, `AckAfterWrite`
(`AckedIsWritten`), `WrittenAtMostOnce` (`DeliveredOnce`) and `ForwardNeverPanics`
(`NeverPanics`) follow.

`ClientStoreProofs`, from `StoreAssumption`: `StoreInv` says, for each point at which a crash
may come and for any number of tasks, that a file which a step uses exists and that the
metadata is of the last session made (`FilesInv`, `TaskInv`); that what lies beyond the
position at which the log is written are ends, which are longer than what is written over
them (`PosInv`); that the subscriptions in the file, and in the maps of tasks that
rewrite it, are of the session of the metadata or late (`SubsInv`, `GotInv`); how many restores
the ends in the log still allow (`CreditInv`); and that the subscriptions to be kept are in
the file, or in the map of the task that has emptied it, or that no restore can come, as long
as nothing has torn them (`KeptInv`). `TypeCorrect`, `RestoresOneSession`
(`RestoredIsOneSession`: the subscriptions are truncated before the metadata), `RestoresAllKept`
(`RestoreLosesNothing`) and `RestoresAtMostOnce` (`EachEndRestoresOnce`) follow.

`StreamProofs`, from `StreamAssumption` (buffers of at most `MaxCap` = 2048 bytes, which
includes the 256 and 1024 of the code) and `PacketAssumption` (clients send packets of
MQTT 5, of the forms named under `Stream`, those without a decoder included; whatever the
packets are, the reads are cut at any byte). `CodecProofs`, and the first part of
`StreamProofs`, are about the codec alone. For every input: the remaining length round
trip (`LengthRoundTrip`); what each decoder gives if it succeeds (`ConnectOk`,
`DecodeOk`), if the read begins with a whole packet (`ConnectReads`, `PacketReads`), and
that it does not succeed if the read is a proper prefix of it; every encoder writes a
frame (`ConnackFrame`, `AnswersOK`); PUBLISH, CONNACK and metadata are read back
(`PublishBack`, `ConnackBack`, `MetaRoundTrip`). A client writes by the standard's table
and the broker reads by its own, which agree on any property but 0x27 (`StandardTable`,
`StandardFits`); on a packet with that one the lemmas say nothing but that a part of it is
refused. The loops over properties and topic filters are recursive functions, of which
induction over the naturals shows what they compute, from the last property back to the
first. `StreamInv` then says:

* `PlaceOK`: a CONNECT comes first; what is on the wire is the stream of what was sent, from
  `pos` on; as long as no read was cut, `pos` is where a packet ends. Without it a read is any
  bytes, and nothing can be said of it;
* `ReadingOK`: `TruncatedIsRefused` and `SentIsRead` of the last read, which lies before
  `pos`, so that a packet sent later does not begin where it began;
* `PanicOf`: `PanicsAreKnown`. It needs that a decoder succeeds on whole packets, also on
  several at once, and that this fails only behind a packet that is `Strange`;
* `OutOK`: what is written was made from the packet read, which has the form its decoder
  gives and is not longer than a buffer: the lengths of the answers are bounded by it;
* `BoxesOK`, `ClientOK`: the metadata files are those of the boxes that were made, and the
  box of a restored session is what its file says.

`StreamTypes`, `StreamTruncated`, `StreamSentIsRead`, `StreamPanicsKnown`, `StreamFrames`,
`StreamPublished`, `StreamConnack`, `StreamRestored` and `StreamLengths` follow, one for each
invariant of the run `stream`.

Induction over data: the library states induction with an operator as parameter, which
the provers cannot instantiate. `RouterProofs` and `CodecProofs` state it
for a set of naturals (`NatSetInduction`), from the well-foundedness of `<`; a recursive
function is then shown to exist, and to have the property, by taking the set of the depths
up to which it does.

Only model-checked: liveness (`AppendsReturn`, `WokenTakes`, `TasksEnd`,
`SubscribesEnd`, `HeldUpOnlyByItsClient`), which is out of this prover's reach. The fairness
assumptions are not used by any theorem. Every invariant and every other action property
of a passing run is a theorem.

## Not modelled

* TLS: the handshake is tokio_rustls, and there is no state of the program's own.
* Authentication and the message state: dead code that nothing calls, so that there is
  no caller whose steps could be modelled. By reading: `authenticate` panics for a user
  that is stored (`authentication.rs:198` copies into an empty vector), and `resolve`
  skips the client it is asked about (`msg_state.rs:92`).
* Of the wire protocol, what the broker never sends: properties of SUBACK and PUBACK,
  a CONNACK without properties, reason codes other than success; and multi-byte
  characters. The user properties of the metadata are always empty; the loop that would
  read them back does not end (`storage.rs:356`).
* Of what a client may send: packets of 16384 bytes and more behind the remaining
  length (the buffers hold 256 and 1024 bytes), multi-byte characters, properties of a will.
* The destructor of the trie; writes that a power failure tears in two; weak memory
  orderings; and what undefined behaviour does
  beyond a fault or a stale read.

## Plan

1. `List`, `MessageQueue`, `LossyChannel`, `Clients`, `Registry`, `Sessions`, `Router`,
   `Delivery`, `ClientStore`: modelled and checked, every safety property proved.
2. `Codec`, `Stream`: modelled and checked, every safety property proved.
3. Left: weaker memory orderings in `List`; the message state and authentication, once
   something calls them; the data race on a `HashMap` of the trie.
