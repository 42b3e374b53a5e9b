-------------------------------- MODULE Codec --------------------------------
(***************************************************************************)
(* The MQTT 5 formats of src/protocol: what the decoders make of a buffer  *)
(* of bytes and what the encoders write.                                   *)
(*                                                                         *)
(* A decoder is given a buffer b and the number i of its bytes that have   *)
(* been consumed.  It ends with a value and the bytes consumed so far,     *)
(* with an Err, or with a panic: the get_ and split_to of the crate bytes  *)
(* panic when the buffer is too short, which only some callers check.      *)
(* A u32 stays four bytes, a string is its bytes.  Properties are a        *)
(* function from the identifiers of the fields that are Some.              *)
(***************************************************************************)
EXTENDS Naturals, Sequences, SequencesExt, TLC

Byte == 0 .. 255
Ok(v, i) == [st |-> "ok", v |-> v, at |-> i]
Err == [st |-> "err", v |-> <<>>, at |-> 0]
Panic == [st |-> "panic", v |-> <<>>, at |-> 0]

\* The ? operator: what F makes of the value, unless there is none.
Then(r, F(_, _)) == IF r.st = "ok" THEN F(r.v, r.at) ELSE r

\* Bit n of x, counted from 0.
Bit(x, n) == (x \div 2 ^ n) % 2 = 1

-----------------------------------------------------------------------------
(* RemainingLength *)

MaxEncodable == 268435455

\* Mutant: a number that fills its last byte gets a continuation bit.
EncodeLengthOver(n) ==
    LET enc[k \in 0 .. MaxEncodable] ==
            IF k = 0 THEN <<>>
            ELSE <<(k % 128) + (IF k >= 127 THEN 128 ELSE 0)>> \o enc[k \div 128]
    IN  enc[n]

\* RemainingLength::encode: nothing at all for 0.
EncodeLength(n) ==
    LET enc[k \in 0 .. MaxEncodable] ==
            IF k = 0 THEN <<>>
            ELSE <<(k % 128) + (IF k >= 128 THEN 128 ELSE 0)>> \o enc[k \div 128]
    IN  enc[n]

\* RemainingLength::decode: at most four bytes.
DecodeLength(b, i) ==
    LET last == {n \in 1 .. 4 : i + n > Len(b) \/ b[i + n] < 128}
        n == CHOOSE x \in last : \A y \in last : x <= y
        part(k) == IF k <= n THEN b[i + k] % 128 ELSE 0
    IN  IF last = {} THEN Err
        ELSE IF i + n > Len(b) THEN Panic
        ELSE Ok(part(1) + 128 * (part(2) + 128 * (part(3) + 128 * part(4))), i + n)

-----------------------------------------------------------------------------
(* Fields *)

PutU16(n) == <<n \div 256, n % 256>>

\* encode_utf8_string and encode_binary_data.
PutStr(s) == PutU16(Len(s)) \o s

\* from_utf8, for strings without multi-byte characters.
Ascii == 0 .. 127
IsUtf8(s) == \A n \in DOMAIN s : s[n] \in Ascii

GetFixed(w, b, i) ==
    IF i + w > Len(b) THEN Panic
    ELSE Ok(CASE w = 1 -> b[i + 1]
              [] w = 2 -> 256 * b[i + 1] + b[i + 2]
              [] OTHER -> SubSeq(b, i + 1, i + w), i + w)

\* decode_utf8_string and decode_binary_data check the length; the decoder of a
\* topic filter does not.
GetStr(kind, b, i) ==
    Then(GetFixed(2, b, i), LAMBDA n, j :
        IF n > Len(b) - j THEN IF kind = "filter" THEN Panic ELSE Err
        ELSE LET s == SubSeq(b, j + 1, j + n)
             IN  IF kind # "bin" /\ ~IsUtf8(s) THEN Err ELSE Ok(s, j + n))

GetField(kind, b, i) ==
    CASE kind = "u8"  -> GetFixed(1, b, i)
      [] kind = "u16" -> GetFixed(2, b, i)
      [] kind = "u32" -> GetFixed(4, b, i)
      [] kind = "var" -> DecodeLength(b, i)
      [] kind = "pair" ->
            Then(GetStr("str", b, i), LAMBDA k, j :
                Then(GetStr("str", b, j), LAMBDA v, e : Ok(<<k, v>>, e)))
      [] OTHER -> GetStr(kind, b, i)

\* Fields one after the other.
GetFields(kinds, b, i) ==
    LET get[n \in 0 .. Len(kinds)] ==
            IF n = 0 THEN Ok(<<>>, i)
            ELSE Then(get[n - 1], LAMBDA vs, j :
                    Then(GetField(kinds[n], b, j), LAMBDA v, e : Ok(Append(vs, v), e)))
    IN  get[Len(kinds)]

PutField(kind, v) ==
    CASE kind = "u8"  -> <<v>>
      [] kind = "u16" -> PutU16(v)
      [] kind = "u32" -> v
      [] kind = "var" -> EncodeLength(v)
      [] kind = "pair" -> PutStr(v[1]) \o PutStr(v[2])
      [] OTHER -> PutStr(v)

-----------------------------------------------------------------------------
(* Properties *)

UserProperty == 38   \* 0x26, the one that may occur more than once

\* How the value of a property is written: the same in every packet that has it.
KindOf(id) ==
    CASE id \in {1, 23, 25, 36, 37, 40, 41, 42} -> "u8"
      [] id \in {19, 33, 34, 35, 39} -> "u16"
      [] id \in {2, 17} -> "u32"
      [] id = 11 -> "var"
      [] id \in {9, 22} -> "bin"
      [] id = UserProperty -> "pair"
      [] OTHER -> "str"

ConnectKinds == [id \in {17, 21, 22, 23, 25, 33, 34, 38, 39} |-> KindOf(id)]
PublishKinds == [id \in {1, 2, 3, 8, 9, 11, 35, 38} |-> KindOf(id)]
ConnackKinds ==
    [id \in {17, 18, 19, 21, 22, 26, 28, 31, 33, 34, 36, 37, 38, 39, 40, 41, 42} |-> KindOf(id)]

\* The properties p with the value v of id.
With(p, id, v) == [x \in DOMAIN p \cup {id} |-> IF x = id THEN v ELSE p[x]]

\* Mutant: a user property replaces the one before it.
StoredLast(id, v, rest) ==
    IF id \in DOMAIN rest THEN rest ELSE With(rest, id, IF id = UserProperty THEN <<v>> ELSE v)

\* A property that is followed by the properties rest: the last value of an
\* identifier stays; the user properties are kept in order.
Stored(id, v, rest) ==
    IF id = UserProperty
    THEN With(rest, id, <<v>> \o (IF id \in DOMAIN rest THEN rest[id] ELSE <<>>))
    ELSE IF id \in DOMAIN rest THEN rest ELSE With(rest, id, v)

\* The loop over the rest of b, with one match arm for each identifier.
GetProperties(kinds, b, i) ==
    LET loop[j \in 0 .. Len(b)] ==
            IF j = Len(b) THEN Ok(<<>>, j)
            ELSE LET id == b[j + 1]
                 IN  IF id \notin DOMAIN kinds THEN Err
                     ELSE Then(GetField(kinds[id], b, j + 1), LAMBDA v, k :
                             Then(loop[k], LAMBDA rest, e : Ok(Stored(id, v, rest), e)))
    IN  loop[i]

PutProperty(kind, id, v) == <<id>> \o PutField(kind, v)

\* What is written for the field id of the properties p.
PutOf(kinds, p, id) ==
    IF id \notin DOMAIN p THEN <<>>
    ELSE IF id = UserProperty
         THEN FlattenSeq([m \in DOMAIN p[id] |-> PutProperty(kinds[id], id, p[id][m])])
         ELSE PutProperty(kinds[id], id, p[id])

\* Some properties p in the order of the code.
PutProperties(order, kinds, p) ==
    FlattenSeq([n \in DOMAIN order |-> PutOf(kinds, p, order[n])])

-----------------------------------------------------------------------------
(* PUBLISH *)

None == <<>>

\* publish.rs, Properties::decode: the length is checked, and 0 means None.
PublishProperties(b, i) ==
    Then(DecodeLength(b, i), LAMBDA n, j :
        IF n = 0 THEN Ok(None, j)
        ELSE IF Len(b) - j < n THEN Err
        ELSE GetProperties(PublishKinds, SubSeq(b, 1, j + n), j))

\* Mutant: a buffer that is shorter than the packet is taken as it is.
DecodePublishShort(b) ==
    LET qos == (b[1] \div 2) % 4
    IN  IF Len(b) < 2 \/ qos = 3 THEN Err
        ELSE Then(DecodeLength(b, 1), LAMBDA n, i :
               Then(GetFields(IF qos > 0 THEN <<"str", "u16">> ELSE <<"str">>, b, i), LAMBDA f, j :
                 Then(PublishProperties(b, j), LAMBDA p, k :
                   Ok([type |-> "publish", dup |-> Bit(b[1], 3), qos |-> qos, retain |-> Bit(b[1], 0),
                       topic |-> f[1], id |-> Tail(f), props |-> p,
                       payload |-> SubSeq(b, k + 1, Len(b))], Len(b)))))

\* PublishPacket::decode: the remaining length bounds the buffer from below
\* only, and the payload is whatever the buffer still holds.
DecodePublish(b) ==
    LET qos == (b[1] \div 2) % 4
    IN  IF Len(b) < 2 \/ qos = 3 THEN Err
        ELSE Then(DecodeLength(b, 1), LAMBDA n, i :
               IF Len(b) - i < n THEN Err ELSE
               Then(GetFields(IF qos > 0 THEN <<"str", "u16">> ELSE <<"str">>, b, i), LAMBDA f, j :
                 Then(PublishProperties(b, j), LAMBDA p, k :
                   Ok([type |-> "publish", dup |-> Bit(b[1], 3), qos |-> qos, retain |-> Bit(b[1], 0),
                       topic |-> f[1], id |-> Tail(f), props |-> p,
                       payload |-> SubSeq(b, k + 1, Len(b))], Len(b)))))

\* The properties that Properties::encode writes; the other four are dropped.
PublishOrder == <<1, 2, 3, 38>>

Sum(s) ==
    LET sum[n \in 0 .. Len(s)] == IF n = 0 THEN 0 ELSE sum[n - 1] + s[n] IN sum[Len(s)]

\* Mutant: the length of the value of a user property is forgotten.
EstLenKeys(p) ==
    (IF 1 \in DOMAIN p THEN 2 ELSE 0) + (IF 2 \in DOMAIN p THEN 5 ELSE 0)
    + (IF 3 \in DOMAIN p THEN 3 + Len(p[3]) ELSE 0)
    + (IF 38 \in DOMAIN p THEN Sum([n \in DOMAIN p[38] |-> 5 + Len(p[38][n][1])]) ELSE 0)

\* Properties::est_len.
EstLen(p) ==
    (IF 1 \in DOMAIN p THEN 2 ELSE 0) + (IF 2 \in DOMAIN p THEN 5 ELSE 0)
    + (IF 3 \in DOMAIN p THEN 3 + Len(p[3]) ELSE 0)
    + (IF 38 \in DOMAIN p
       THEN Sum([n \in DOMAIN p[38] |-> 5 + Len(p[38][n][1]) + Len(p[38][n][2])]) ELSE 0)

\* PublishPacket::encode.  The dup flag is shifted onto a bit that is set anyway.
EncodePublish(m) ==
    LET prop == IF m.props = None THEN <<0>>
                ELSE EncodeLength(EstLen(m.props)) \o PutProperties(PublishOrder, PublishKinds, m.props)
        len == 2 + Len(m.topic) + Len(prop) + Len(m.payload) + (IF m.id # None THEN 2 ELSE 0)
    IN  <<48 + 2 * m.qos + (IF m.retain THEN 1 ELSE 0)>> \o EncodeLength(len) \o PutStr(m.topic)
        \o (IF m.id # None THEN PutU16(m.id[1]) ELSE <<>>) \o prop \o m.payload

-----------------------------------------------------------------------------
(* SUBSCRIBE, SUBACK, PUBACK and its kin *)

\* Mutant: all bits of the subscription options are taken for the service level.
FiltersUnmasked(b, i) ==
    LET loop[j \in 0 .. Len(b)] ==
            IF j = Len(b) THEN Ok(<<>>, j)
            ELSE Then(GetFields(<<"filter", "u8">>, b, j), LAMBDA f, k :
                    IF f[2] > 2 THEN Err
                    ELSE Then(loop[k], LAMBDA fs, e : Ok(<<<<f[1], f[2]>>>> \o fs, e)))
    IN  loop[i]

\* The loop over the topic filters.
Filters(b, i) ==
    LET loop[j \in 0 .. Len(b)] ==
            IF j = Len(b) THEN Ok(<<>>, j)
            ELSE Then(GetFields(<<"filter", "u8">>, b, j), LAMBDA f, k :
                    IF f[2] % 4 = 3 THEN Err
                    ELSE Then(loop[k], LAMBDA fs, e : Ok(<<<<f[1], f[2] % 4>>>> \o fs, e)))
    IN  loop[i]

\* SubscribePacket::decode.  What follows the packet is dropped.  The property
\* length is read as one byte, and no properties are expected behind it.
DecodeSubscribe(b) ==
    Then(DecodeLength(b, 1), LAMBDA n, i :
        IF Len(b) - i < n THEN Panic
        ELSE LET c == SubSeq(b, 1, i + n)
             IN  Then(GetFields(<<"u16", "u8">>, c, i), LAMBDA f, j :
                    Then(Filters(c, j), LAMBDA fs, e :
                        Ok([type |-> "subscribe", id |-> f[1], list |-> fs], e))))

\* Mutant: the property length is counted although it is not written.
EncodeSubackCounts(id, codes) ==
    <<144>> \o EncodeLength(Len(codes) + 3) \o PutU16(id) \o EncodeLength(0) \o codes

\* SubsAck::encode of a SUBACK without properties, as subscribe_topics makes it.
EncodeSuback(id, codes) ==
    <<144>> \o EncodeLength(Len(codes) + 2) \o PutU16(id) \o EncodeLength(0) \o codes

PubackCodes == [PubAck |-> 64, PubRec |-> 80, PubRel |-> 96, PubComp |-> 112]

\* PubackPacket::encode with reason 0 and no properties, as clients.rs makes it.
EncodePuback(kind, id) ==
    <<PubackCodes[kind]>> \o EncodeLength(3) \o PutU16(id) \o <<0>> \o EncodeLength(0)

\* PING_RES.
PingRes == <<13>>

\* ClientPacketV5::decode of a read that is not empty.
Decode(b) ==
    CASE b[1] \div 16 = 8  -> DecodeSubscribe(b)
      [] b[1] \div 16 = 3  -> DecodePublish(b)
      [] b[1] \div 16 = 12 -> Ok([type |-> "pingreq"], Len(b))
      [] OTHER -> Err

-----------------------------------------------------------------------------
(* CONNECT and CONNACK *)

MQTT == <<77, 81, 84, 84>>

\* connect.rs, decode_properties: the length is not checked.
ConnectProperties(b, i) ==
    Then(DecodeLength(b, i), LAMBDA n, j :
        IF Len(b) - j < n THEN Panic
        ELSE GetProperties(ConnectKinds, SubSeq(b, 1, j + n), j))

\* The will, which nothing uses: its properties, topic and payload.
SkipWill(b, i) ==
    Then(ConnectProperties(b, i), LAMBDA p, j : GetFields(<<"str", "bin">>, b, j))

\* The client id and, as the flags f[1] say, the will, user name and password.
ConnectPayload(f, p, b, i) ==
    Then(GetStr("str", b, i), LAMBDA clid, j :
      Then(IF Bit(f[1], 2) THEN SkipWill(b, j) ELSE Ok(<<>>, j), LAMBDA w, k :
        Then(GetFields((IF Bit(f[1], 7) THEN <<"str">> ELSE <<>>)
                       \o (IF Bit(f[1], 6) THEN <<"bin">> ELSE <<>>), b, k), LAMBDA u, e :
          Ok([type |-> "connect", clean |-> Bit(f[1], 5), ka |-> f[2], props |-> p, clid |-> clid], e))))

\* The flags, the keep alive interval and the properties.
ConnectHeader(b, i) ==
    Then(GetFields(<<"u8", "u16">>, b, i), LAMBDA f, j :
      Then(ConnectProperties(b, j), LAMBDA p, k : ConnectPayload(f, p, b, k)))

\* The name and level of the protocol.
ConnectProtocol(b, i) ==
    Then(GetStr("str", b, i), LAMBDA name, j :
      IF name # MQTT THEN Err
      ELSE Then(GetFixed(1, b, j), LAMBDA level, k :
             IF level # 5 THEN Err ELSE ConnectHeader(b, k)))

\* ConnectPacket::decode.  What follows the packet is dropped.
DecodeConnect(b) ==
    IF b = <<>> THEN Panic
    ELSE IF b[1] \div 16 # 1 THEN Err
    ELSE Then(DecodeLength(b, 1), LAMBDA n, i :
           IF Len(b) - i < n THEN Err ELSE ConnectProtocol(b, i))

RawClid == <<114, 97, 119, 95, 99, 108, 105, 100>>

\* Keeps the fields of a record or function that are in S.
Only(p, S) == [id \in DOMAIN p \cap S |-> p[id]]

\* session_expiry_interval.unwrap_or_default().
Expiry(req) == IF 17 \in DOMAIN req.props THEN req.props[17] ELSE <<0, 0, 0, 0>>

\* Mutant: the interval is not told.
CollectNoKeepAlive(req) ==
    LET p == With(With(Only(req.props, {33, 34, 38, 39}), 17, Expiry(req)), 36, 2)
    IN  IF req.clid = <<>> THEN With(p, 18, RawClid) ELSE p

\* collect: the properties of the CONNACK.
Collect(req) ==
    LET p == With(With(With(Only(req.props, {33, 34, 38, 39}), 17, Expiry(req)), 36, 2), 19, req.ka)
    IN  IF req.clid = <<>> THEN With(p, 18, RawClid) ELSE p

ConnackOrder == <<17, 33, 36, 37, 39, 18, 34, 31, 38, 40, 41, 42, 19, 26, 28, 21, 22>>

\* ConnackPacket::encode with Some properties and return code 0.
EncodeConnack(present, p) ==
    LET prop == PutProperties(ConnackOrder, ConnackKinds, p)
        plen == EncodeLength(Len(prop))
    IN  <<32>> \o EncodeLength(Len(prop) + 2 + Len(plen))
        \o <<IF present THEN 1 ELSE 0, 0>> \o plen \o prop

-----------------------------------------------------------------------------
(* The metadata file of storage.rs.  A limit of 0 stands for None, too. *)

\* Mutant: two limits change places.
SerializeSwapped(c) ==
    <<c.level>> \o PutU16(c.ka) \o c.expr \o PutU16(c.mps) \o PutU16(c.rm) \o PutU16(c.tam)
    \o <<0, 0, 0, 0>>

\* MetaData::serialize; the user properties are always empty.
Serialize(c) ==
    <<c.level>> \o PutU16(c.ka) \o c.expr \o PutU16(c.rm) \o PutU16(c.mps) \o PutU16(c.tam)
    \o <<0, 0, 0, 0>>

\* MetaData::deserialize of a whole file, and Client::restore, which takes the
\* topic alias maximum from the field of the receive maximum.
Deserialize(b) ==
    Then(GetFields(<<"u8", "u16", "u32", "u16", "u16", "u16", "u32">>, b, 0), LAMBDA f, e :
        Ok([level |-> f[1], ka |-> f[2], expr |-> f[3], rm |-> f[4], mps |-> f[5], tam |-> f[4]], e))

=============================================================================
