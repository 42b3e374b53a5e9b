------------------------------- MODULE Stream -------------------------------
(***************************************************************************)
(* A client and the broker at the two ends of a TCP connection: the        *)
(* packets the client sends are a stream of bytes, a read returns any      *)
(* number of the bytes that have arrived, up to the length of its buffer,  *)
(* and the broker decodes each read as if it were one packet               *)
(* (SocketConnection::read_request, spawn_client).  The answers, what is   *)
(* forwarded and the metadata file are bytes, too.                         *)
(*                                                                         *)
(* The clock, the log and the list of clients are those of Sessions; here  *)
(* a session runs out, and a restore succeeds or fails, at any time.       *)
(***************************************************************************)
EXTENDS Codec

CONSTANTS
    Connects,       \* CONNECT packets of clients
    Packets,        \* what they send then
    ConnCap,        \* the buffer of read_request, 256 bytes
    ReadCap,        \* the buffer of spawn_client, 1024 bytes
    MinKeepAlive,   \* 60 in client.rs
    Lengths,        \* remaining lengths
    MaxSends        \* bound on the packets sent

MaxCap == 2048
U16(v) == v \in Nat /\ v < 65536

ASSUME StreamAssumption ==
    /\ ConnCap \in Nat /\ ConnCap <= MaxCap /\ ReadCap \in Nat /\ ReadCap <= MaxCap
    /\ U16(MinKeepAlive) /\ MaxSends \in Nat
    /\ Lengths \subseteq 0 .. MaxEncodable

VARIABLES
    sent,     \* the packets the client has sent on its connection
    sends,    \* number of packets sent on all connections
    wire,     \* the bytes that the broker has not read
    pos,      \* number of bytes that it has read
    task,     \* what the broker does with the connection
    cap,      \* length of the buffer of spawn_client
    late,     \* the session has run out for keep_alive
    got,      \* the packet of the last read and where it began and ended
    out,      \* the packets written because of it
    cut,      \* history: a read has ended inside a packet
    client,   \* the Client box
    made,     \* history: the box that Client::new made for each id
    meta      \* the metadata file of each id

wvars == <<sent, sends, wire, pos, task, cap, late, got, out, cut, client, made, meta>>

-----------------------------------------------------------------------------
(* The client, and the specification of MQTT 5 *)

ClientLength(n) == IF n < 128 THEN <<n>> ELSE <<128 + (n % 128), n \div 128>>

\* Every identifier, in ascending order.
ClientOrder == <<1, 2, 3, 8, 9, 11, 17, 21, 22, 23, 25, 33, 34, 35, 38, 39>>

\* The standard's way to write the properties of a table of the code.  They differ
\* in the maximum packet size, 0x27, for which connect.rs and connack.rs have two
\* bytes and MQTT 5, like the test of connack.rs, has four.
Standard(kinds) == [id \in DOMAIN kinds |-> IF id = 39 THEN "u32" ELSE kinds[id]]

ClientProps(kinds, p) ==
    LET s == PutProperties(ClientOrder, kinds, p) IN ClientLength(Len(s)) \o s

Flag(f, n) == IF f THEN 2 ^ n ELSE 0

ConnectBody(p) ==
    PutStr(MQTT) \o <<p.level>>
    \o <<Flag(p.clean, 5) + Flag(p.will, 2) + Flag(p.user, 7) + Flag(p.user, 6)>>
    \o PutU16(p.ka) \o ClientProps(Standard(ConnectKinds), p.props) \o PutStr(p.clid)
    \o (IF p.will THEN <<0>> \o PutStr(<<116>>) \o PutStr(<<200>>) ELSE <<>>)
    \o (IF p.user THEN PutStr(<<117>>) \o PutStr(<<201>>) ELSE <<>>)

PublishBody(p) ==
    PutStr(p.topic) \o (IF p.id # None THEN PutU16(p.id[1]) ELSE <<>>)
    \o ClientProps(PublishKinds, p.props) \o p.payload

SubscribeBody(p) ==
    PutU16(p.id) \o ClientProps(PublishKinds, p.props)
    \o FlattenSeq([n \in DOMAIN p.list |-> PutStr(p.list[n][1]) \o <<p.list[n][2]>>])

Framed(header, body) == <<header>> \o ClientLength(Len(body)) \o body

\* The bytes of a packet.
Bytes(p) ==
    CASE p.type = "connect" -> Framed(16, ConnectBody(p))
      [] p.type = "publish" ->
            Framed(48 + Flag(p.dup, 3) + 2 * p.qos + Flag(p.retain, 0), PublishBody(p))
      [] p.type = "subscribe" -> Framed(130, SubscribeBody(p))
      [] p.type = "other" -> Framed(p.header, p.body)
      [] OTHER -> Framed(192, <<>>)

\* The values of a field, with strings of at most max bytes.
Blobs(max) == {s \in Seq(Byte) : Len(s) <= max}
Texts(max) == {s \in Seq(Ascii) : Len(s) <= max}

Fits(kind, v, max) ==
    /\ kind = "u8" => v \in Byte
    /\ kind = "u16" => U16(v)
    /\ kind = "u32" => v \in Seq(Byte) /\ Len(v) = 4
    /\ kind = "var" => v \in 0 .. MaxEncodable
    /\ kind = "str" => v \in Texts(max)
    /\ kind = "bin" => v \in Blobs(max)
    /\ kind = "pair" => v \in Texts(max) \X Texts(max)

FitProps(kinds, p, max) ==
    /\ p = [id \in DOMAIN p |-> p[id]] /\ DOMAIN p \subseteq DOMAIN kinds
    /\ \A id \in DOMAIN p :
          IF id = UserProperty
          THEN p[id] \in Seq(Texts(max) \X Texts(max)) /\ Len(p[id]) \in 1 .. max
          ELSE Fits(kinds[id], p[id], max)

\* The packets that a client may send by MQTT 5, with less than 16384 bytes behind
\* the remaining length.  Strings are ASCII; a will has no properties, its topic and
\* payload, user name and password are one byte each.
IsConnect(p) ==
    /\ p.type = "connect" /\ p.level \in Byte /\ p.clean \in BOOLEAN /\ p.will \in BOOLEAN
    /\ p.user \in BOOLEAN /\ U16(p.ka) /\ FitProps(Standard(ConnectKinds), p.props, 65535)
    /\ p.clid \in Texts(65535) /\ Len(ConnectBody(p)) < 16384

IsPublish(p) ==
    /\ p.type = "publish"
    /\ p = [type |-> "publish", dup |-> p.dup, qos |-> p.qos, retain |-> p.retain, topic |-> p.topic,
            id |-> p.id, props |-> p.props, payload |-> p.payload]
    /\ p.dup \in BOOLEAN /\ p.retain \in BOOLEAN /\ p.topic \in Texts(65535)
    /\ \/ p.qos = 0 /\ p.id = None
       \/ p.qos \in {1, 2} /\ p.id = <<p.id[1]>> /\ U16(p.id[1])
    /\ FitProps(PublishKinds, p.props, 65535) /\ (11 \in DOMAIN p.props => p.props[11] # 0)
    /\ p.payload \in Seq(Byte) /\ Len(PublishBody(p)) < 16384

IsSubscribe(p) ==
    /\ p.type = "subscribe" /\ U16(p.id) /\ FitProps(PublishKinds, p.props, 65535)
    /\ p.list \in Seq(Texts(65535) \X {o \in Byte : o % 4 # 3}) /\ Len(SubscribeBody(p)) < 16384

\* PUBACK, PUBREC, PUBREL, PUBCOMP, UNSUBSCRIBE, DISCONNECT and AUTH, with any body.
IsOther(p) ==
    /\ p.type = "other" /\ p.header \in {64, 80, 98, 112, 162, 224, 240}
    /\ p.body \in Seq(Byte) /\ Len(p.body) < 16384

ASSUME PacketAssumption ==
    /\ \A p \in Connects : IsConnect(p)
    /\ \A p \in Packets : IsPublish(p) \/ IsSubscribe(p) \/ IsOther(p) \/ p = [type |-> "pingreq"]

\* The bytes of the first k packets of the connection, and where packet k begins
\* and ends in them.
Upto(k) == FlattenSeq([n \in 1 .. k |-> Bytes(sent[n])])
End(k) == Len(Upto(k))
Start(k) == End(k - 1)

-----------------------------------------------------------------------------

\* Every variable holds a value of its type.
TypeOK ==
    /\ sent \in Seq(Connects \cup Packets) /\ sends \in 0 .. MaxSends
    /\ wire \in Seq(Byte) /\ pos \in Nat
    /\ task \in {"accept", "open", "refused", "lost", "panicked", "done"}
    /\ cap \in 0 .. ReadCap
    /\ late \in BOOLEAN /\ cut \in BOOLEAN
    /\ \A f \in out : f \in Seq(Byte)
    /\ \A id \in DOMAIN meta : meta[id] \in Seq(Byte)
    /\ DOMAIN made = DOMAIN meta

Init ==
    /\ sent = <<>> /\ sends = 0 /\ wire = <<>> /\ pos = 0
    /\ task = "accept" /\ cap = ReadCap /\ late = FALSE
    /\ got = None /\ out = {} /\ cut = FALSE
    /\ client = None /\ made = <<>> /\ meta = <<>>

\* The client sends a packet; it need not wait for an answer.
Send(p) ==
    /\ sends < MaxSends /\ task \in {"accept", "open"}
    /\ p \in (IF sent = <<>> THEN Connects ELSE Packets)
    /\ sent' = Append(sent, p)
    /\ sends' = sends + 1
    /\ wire' = wire \o Bytes(p)
    /\ UNCHANGED <<pos, task, cap, late, got, out, cut, client, made, meta>>

\* A read into a buffer of length limit returns n bytes.
Returns(n, limit) ==
    /\ n <= Len(wire) /\ n <= limit
    /\ cut' = (cut \/ \A k \in 0 .. Len(sent) : pos + n # End(k))
    /\ UNCHANGED <<sent, sends>>

\* They are behind the reader.
Consume(n) ==
    /\ wire' = SubSeq(wire, n + 1, Len(wire))
    /\ pos' = pos + n

\* The connection is dropped with what it holds.
Hangup(to) ==
    /\ task' = to
    /\ wire' = <<>> /\ pos' = 0 /\ cap' = ReadCap /\ late' = FALSE
    /\ got' = None /\ out' = {} /\ client' = None
    /\ UNCHANGED <<made, meta>>

-----------------------------------------------------------------------------
(* read_request and start_session *)

\* The packet is refused, or its decoder panics in the accept task.  A client that
\* closes the connection before it has sent anything is read as 0 bytes.
RefuseConnect(n) ==
    /\ task = "accept" /\ Returns(n, ConnCap) /\ (n = 0 => wire = <<>>)
    /\ LET r == DecodeConnect(SubSeq(wire, 1, n))
       IN  /\ r.st # "ok"
           /\ Hangup(IF r.st = "err" THEN "refused" ELSE "lost")

\* Zero where the client sets no limit.
Limit(req, id) == IF id \in DOMAIN req.props THEN req.props[id] ELSE 0

\* Client::new.
NewClient(req) ==
    [level |-> 5, ka |-> IF req.ka < MinKeepAlive THEN MinKeepAlive ELSE req.ka,
     expr |-> Expiry(req), rm |-> Limit(req, 33), mps |-> Limit(req, 39), tam |-> Limit(req, 34)]

\* The session is created, or restored from the file unless the client wants a
\* clean start; the CONNACK says which.
AcceptConnect(n, restore) ==
    /\ task = "accept" /\ Returns(n, ConnCap) /\ Consume(n)
    /\ LET r == DecodeConnect(SubSeq(wire, 1, n))
           id == IF r.v.clid = <<>> THEN RawClid ELSE r.v.clid
       IN  /\ r.st = "ok"
           /\ got' = [from |-> pos, to |-> pos + n, packet |-> r.v]
           /\ out' = {EncodeConnack(restore, Collect(r.v))}
           /\ IF restore
              THEN /\ ~r.v.clean /\ id \in DOMAIN meta
                   /\ client' = [id |-> id, restored |-> TRUE, val |-> Deserialize(meta[id]).v]
                   /\ UNCHANGED <<made, meta>>
              ELSE /\ client' = [id |-> id, restored |-> FALSE, val |-> NewClient(r.v)]
                   /\ made' = With(made, id, NewClient(r.v))
                   /\ meta' = With(meta, id, Serialize(NewClient(r.v)))
    /\ task' = "open"
    /\ UNCHANGED <<cap, late>>

-----------------------------------------------------------------------------
(* spawn_client *)

\* Mutant: as many zeros are put back as a fresh buffer has.
RefillAll(left, n) == left + ReadCap

\* buffer.reserve(readed); buffer.put_bytes(0, readed)
Refill(left, n) == left + n

\* What is written because of a packet: PING_RES, a SUBACK, or the message and
\* its acknowledgements, at the service level it came with or a lower one.
Answers(p) ==
    CASE p.type = "pingreq" -> {PingRes}
      [] p.type = "subscribe" -> {EncodeSuback(p.id, [n \in DOMAIN p.list |-> p.list[n][2]])}
      [] OTHER -> {EncodePublish(p)}
                  \cup {EncodePuback(kind, p.id[1]) :
                            kind \in (CASE p.qos = 0 -> {} [] p.qos = 1 -> {"PubAck"}
                                        [] OTHER -> {"PubAck", "PubRec", "PubRel"})}

\* The error of decode is unwrapped.
ReadMalformed(n) ==
    /\ task = "open" /\ Returns(n, cap)
    /\ Decode(SubSeq(wire, 1, n)).st # "ok"
    /\ Hangup("panicked")

ReadPacket(n) ==
    /\ task = "open" /\ Returns(n, cap) /\ Consume(n) /\ ~late
    /\ LET r == Decode(SubSeq(wire, 1, n))
       IN  /\ r.st = "ok"
           /\ got' = [from |-> pos, to |-> pos + n, packet |-> r.v]
           /\ out' = Answers(r.v)
    /\ cap' = Refill(cap - n, n)
    /\ UNCHANGED <<task, late, client, made, meta>>

\* keep_alive fails: the packet is dropped, and the buffer stays shorter by it.
DropPacket(n) ==
    /\ task = "open" /\ Returns(n, cap) /\ Consume(n) /\ late
    /\ Decode(SubSeq(wire, 1, n)).st = "ok"
    /\ cap' = cap - n
    /\ UNCHANGED <<task, late, got, out, client, made, meta>>

\* The last second of the session has begun.
RunOut ==
    /\ task = "open" /\ ~late
    /\ late' = TRUE
    /\ UNCHANGED <<sent, sends, wire, pos, task, cap, got, out, cut, client, made, meta>>

\* The session is over, the client has closed the connection, or a read into a
\* buffer of length 0 returns 0.
EndTask ==
    /\ task = "open"
    /\ late \/ wire = <<>> \/ cap = 0
    /\ Hangup("done")
    /\ UNCHANGED <<sent, sends, cut>>

\* The client connects again, once its session is no longer alive.
Reconnect ==
    /\ task \in {"refused", "panicked", "done"} /\ sends < MaxSends
    /\ Hangup("accept")
    /\ sent' = <<>> /\ cut' = FALSE
    /\ UNCHANGED sends

Next ==
    \/ \E p \in Connects \cup Packets : Send(p)
    \/ \E n \in 0 .. ConnCap : RefuseConnect(n)
    \/ \E n \in 1 .. ConnCap, restore \in BOOLEAN : AcceptConnect(n, restore)
    \/ \E n \in 1 .. ReadCap : ReadMalformed(n) \/ ReadPacket(n) \/ DropPacket(n)
    \/ RunOut \/ EndTask \/ Reconnect

Spec == Init /\ [][Next]_wvars

-----------------------------------------------------------------------------

\* The packet at whose first byte the last read began.
IsAt(k) == got # None /\ got.from = Start(k)

\* Packets of MQTT 5 that the decoders do not understand, even when they are whole:
\* a SUBSCRIBE with properties, which are taken for topic filters, and a CONNECT
\* with a maximum packet size, of which two bytes are left in the buffer.
Misread(p) ==
    \/ p.type = "subscribe" /\ p.props # None
    \/ p.type = "connect" /\ 39 \in DOMAIN p.props

\* What the decoder should give for packet p, if the read holds rest behind it.
Decoded(p, rest) ==
    CASE p.type = "connect" -> [type |-> "connect", clean |-> p.clean, ka |-> p.ka,
                                props |-> p.props, clid |-> p.clid]
      [] p.type = "publish" -> [p EXCEPT !.payload = @ \o rest]
      [] p.type = "subscribe" -> [type |-> "subscribe", id |-> p.id,
                                  list |-> [n \in DOMAIN p.list |-> <<p.list[n][1], p.list[n][2] % 4>>]]
      [] OTHER -> p

\* A read that ends inside the packet it begins with is never taken for a
\* packet: no message is forwarded, and nothing is subscribed, by half.  (A
\* PINGREQ is recognised by its first byte.)
TruncatedIsRefused ==
    \A k \in DOMAIN sent :
        IsAt(k) /\ sent[k].type # "pingreq" => got.to >= End(k)

\* A read that begins with a whole packet gives the packet the client sent, or
\* nothing; the two packets that are misread are excepted.  What the read holds
\* behind the packet ends up in the payload of a PUBLISH and is dropped behind any
\* other.  A packet that the broker has no decoder for is not taken for another one.
SentIsRead ==
    \A k \in DOMAIN sent :
        IsAt(k) /\ got.to >= End(k) /\ ~Misread(sent[k])
        => /\ sent[k].type # "other"
           /\ got.packet = Decoded(sent[k], SubSeq(Upto(Len(sent)), End(k) + 1, got.to))

\* Why the accept task or a client task panics: a read ends inside a packet, the
\* client closes before its CONNECT, or it has sent a packet that is misread or that
\* ClientPacketV5 does not have.  Anything else, read in whole packets, be it one or
\* several, the unwraps of decode survive.
PanicsAreKnown ==
    task \in {"lost", "panicked"} =>
        cut \/ sent = <<>> \/ \E k \in DOMAIN sent : Misread(sent[k]) \/ sent[k].type = "other"

\* Every packet the broker writes, but PING_RES, has a remaining length that is
\* the number of bytes behind it.
FramesOK ==
    \A f \in out : f # PingRes =>
        LET r == DecodeLength(f, 1) IN r.st = "ok" /\ r.at + r.v = Len(f)

\* A subscriber reads what the publisher sent, without the dup flag and the four
\* properties that are not encoded; a message that has only such properties is
\* encoded without a property length and excepted here.
ReadsAsPublished ==
    got # None /\ got.packet.type = "publish" =>
        LET p == got.packet
            kept == Only(p.props, {1, 2, 3, 38})
        IN  p.props = None \/ kept # <<>>
            => EncodePublish(p) \in out
               /\ Decode(EncodePublish(p)).v = [p EXCEPT !.dup = FALSE, !.props = kept]

\* The properties of a CONNACK as a client reads them.
AckRead(f) ==
    Then(DecodeLength(f, 1), LAMBDA n, i :
        Then(DecodeLength(f, i + 2), LAMBDA m, j : GetProperties(Standard(ConnackKinds), f, j)))

\* The CONNACK tells a client that has set no maximum packet size the interval,
\* expiry and limits it asked for, and its id if it sent none.
ConnackAnswers ==
    got # None /\ got.packet.type = "connect" /\ 39 \notin DOMAIN got.packet.props =>
        \A f \in out :
            LET req == got.packet
                r == AckRead(f)
            IN  /\ r.st = "ok"
                /\ {17, 19} \subseteq DOMAIN r.v /\ (18 \in DOMAIN r.v <=> req.clid = <<>>)
                /\ r.v[17] = Expiry(req) /\ r.v[19] = req.ka /\ (req.clid = <<>> => r.v[18] = RawClid)
                /\ Only(r.v, {33, 34, 38, 39}) = Only(req.props, {33, 34, 38, 39})

\* A session that is restored from its metadata file has the interval, expiry,
\* protocol level, receive maximum and packet size of the one that was made.
RestoredIsMade ==
    client # None /\ client.restored =>
        \A f \in {"level", "ka", "expr", "rm", "mps"} : client.val[f] = made[client.id][f]

\* encode of a length, one of the boundaries or that of a packet written, is
\* what decode reads back, in as few bytes as the number needs, and a fifth byte
\* is an error.  Zero alone is encoded as nothing, where MQTT 5 has one byte: from
\* an empty buffer decode reads nothing back.
LengthsAgree ==
    /\ \A n \in Lengths \cup {Len(f) : f \in out} :
          LET e == EncodeLength(n)
              r == DecodeLength(e, 0)
          IN  /\ r.st # "ok" <=> n = 0
              /\ n # 0 => r.v = n /\ r.at = Len(e)
              /\ \A k \in 1 .. 3 : Len(e) <= k <=> n < 128 ^ k
    /\ DecodeLength(<<128, 128, 128, 128, 1>>, 0).st = "err"

=============================================================================
