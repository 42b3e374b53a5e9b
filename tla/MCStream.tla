------------------------------ MODULE MCStream ------------------------------
(***************************************************************************)
(* An instance of Stream.  The packets of a client differ in what the      *)
(* decoders look at: service level, properties that are forwarded or not,  *)
(* a remaining length of two bytes, options of a subscription.  One        *)
(* CONNECT is longer than its buffer; the longest PUBLISH fits into a      *)
(* buffer that has not shrunk, and two packets may not fit together.       *)
(***************************************************************************)
EXTENDS Stream

MCLengths == {0, 1, 127, 128, 16383, 16384, 2097151, 2097152, MaxEncodable}

t == 116

ConnectPlain == [type |-> "connect", level |-> 5, clean |-> TRUE, ka |-> 2, props |-> None,
                 clid |-> <<>>, will |-> TRUE, user |-> TRUE]
ConnectLimits == [type |-> "connect", level |-> 5, clean |-> FALSE, ka |-> 300,
                  props |-> 17 :> <<0, 0, 1, 2>> @@ 33 :> 7 @@ 34 :> 9,
                  clid |-> <<t>>, will |-> FALSE, user |-> FALSE]
ConnectLong == [ConnectPlain EXCEPT !.clean = FALSE,
                    !.props = 38 :> << <<<<t>>, [n \in 1 .. 30 |-> t]>> >>]
ConnectOld == [ConnectPlain EXCEPT !.level = 4]

\* A packet size in four bytes: the last two are taken for another property.
ConnectSize == [ConnectPlain EXCEPT !.props = 39 :> <<0, 0, 23, 1>>]
ConnectSizeCut == [ConnectPlain EXCEPT !.props = 39 :> <<0, 0, 17, 0>>]

MCConnects == {ConnectPlain, ConnectLimits, ConnectLong, ConnectOld, ConnectSize, ConnectSizeCut}

Message == [type |-> "publish", dup |-> FALSE, qos |-> 0, retain |-> TRUE, topic |-> <<t>>,
            id |-> None, props |-> None, payload |-> <<1, 2>>]

MCPackets ==
    {Message,
     [Message EXCEPT !.dup = TRUE, !.qos = 2, !.id = <<258>>, !.payload = <<>>,
        !.props = 1 :> 1 @@ 2 :> <<0, 0, 1, 44>> @@ 35 :> 3
                  @@ 38 :> << <<<<t>>, <<>>>>, <<<<t>>, <<t, t>>>> >>],
     [Message EXCEPT !.qos = 1, !.id = <<3>>, !.props = 8 :> <<t>> @@ 9 :> <<200>> @@ 11 :> 200],
     [Message EXCEPT !.props = 3 :> <<t>>, !.payload = [n \in 1 .. 130 |-> 48]],
     [type |-> "subscribe", id |-> 10, list |-> << <<<<t>>, 1>>, <<<<t, t>>, 6>> >>, props |-> None],
     [type |-> "subscribe", id |-> 11, list |-> << <<<<t>>, 1>> >>, props |-> 11 :> 5],
     [type |-> "other", header |-> 64, body |-> <<0, 3>>],
     [type |-> "other", header |-> 224, body |-> <<>>],
     [type |-> "pingreq"]}

=============================================================================
