---------------------------- MODULE StreamProofs ----------------------------
(***************************************************************************)
(* What is written is read back, and the proofs about the stream: its      *)
(* inductive invariant, and the properties that follow from it.            *)
(***************************************************************************)
EXTENDS CodecProofs

-----------------------------------------------------------------------------
(* Properties are read back *)

\* The loop makes q of the properties behind byte o.
PropsFrom(kinds, b, o, q) == GetProperties(kinds, b, o) = Ok(q, Len(b))

\* It stores the property it begins with.
LEMMA ReadOne ==
    ASSUME NEW kinds, TableOK(kinds), NEW b \in Seq(Byte), NEW o \in Nat, NEW id \in DOMAIN kinds,
           NEW max \in Nat, U16(max), NEW v, Fits(kinds[id], v, max), kinds[id] = "var" => v # 0,
           At(b, o, PutProperty(kinds[id], id, v)),
           NEW rest, PropsFrom(kinds, b, o + Len(PutProperty(kinds[id], id, v)), rest)
    PROVE  PropsFrom(kinds, b, o, Stored(id, v, rest))
<1>1. PICK k, c, t : k = kinds[id] /\ c = <<id>> /\ t = PutField(k, v)
  OBVIOUS
<1>2. k \in Kinds /\ kinds[id] = k /\ id \in Byte /\ KindsOK(kinds)
  BY <1>1, Zenon DEF TableOK, KindsOK
<1>3. c \in Seq(Byte) /\ Len(c) = 1 /\ c[1] = id
  BY <1>1, <1>2
<1>4. t \in Seq(Byte)
  BY <1>1, <1>2, FieldBytes, Zenon
<1>5. PutProperty(k, id, v) = c \o t
  BY <1>1, Zenon DEF PutProperty
<1>6. Len(b) \in Nat
  BY LenProperties, Zenon
<1>7. At(b, o, c) /\ At(b, o + 1, t)
  BY <1>1, <1>3, <1>4, <1>5, <1>6, AtConcat, ZenonT(60)
<1>8. o + 1 <= Len(b) /\ b[o + 1] = id
  <2>1. 1 \in 1 .. 1
    OBVIOUS
  <2> QED
    BY <1>3, <1>7, <2>1, Zenon DEF At
<1>9. o \in 0 .. Len(b) /\ o # Len(b) /\ o + 1 \in Nat
  BY <1>6, <1>8
<1>10. GetField(k, b, o + 1) = Ok(v, (o + 1) + Len(t))
  <2>1. Fits(k, v, max) /\ (k = "var" => v # 0) /\ At(b, o + 1, PutField(k, v))
    BY <1>1, <1>7, Zenon
  <2>2. GetField(k, b, o + 1) = Ok(v, (o + 1) + Len(PutField(k, v)))
    BY <1>2, <1>9, <2>1, FieldAt
  <2> QED
    BY <1>1, <2>2, Zenon
<1>11. PICK e : e = (o + 1) + Len(t)
  OBVIOUS
<1>12. e = o + Len(PutProperty(k, id, v))
  <2>1. Len(PutProperty(k, id, v)) = 1 + Len(t)
    BY <1>1, <1>2, PutPropertyBytes, Zenon
  <2>2. PICK n \in Nat : n = Len(t)
    BY <1>4, LenProperties, Zenon
  <2>3. (o + 1) + n = o + (1 + n)
    OBVIOUS
  <2> QED
    BY <1>11, <2>1, <2>2, <2>3, Zenon
<1>13. PICK r : r = PropAt(kinds, b, o)
  OBVIOUS
<1>14. r = Ok(v, e)
  BY <1>2, <1>8, <1>10, <1>11, <1>13, Zenon DEF PropAt
<1>15. r.st = "ok" /\ r.v = v /\ r.at = e
  BY <1>14, OkIs, Zenon
<1>16. PICK q : q = GetProperties(kinds, b, e)
  OBVIOUS
<1>17. q = Ok(rest, Len(b))
  BY <1>1, <1>12, <1>16, Zenon DEF PropsFrom
<1>18. q.st = "ok" /\ q.v = rest /\ q.at = Len(b)
  <2>1. PICK l : l = Len(b)
    OBVIOUS
  <2>2. q = Ok(rest, l)
    BY <1>17, <2>1, Zenon
  <2>3. q.st = "ok" /\ q.v = rest /\ q.at = l
    BY <2>2, OkIs, Zenon
  <2> QED
    BY <2>1, <2>3, Zenon
<1>19. GetProperties(kinds, b, o) = PropsCase(kinds, b, o, r, q)
  BY <1>2, <1>9, <1>13, <1>15, <1>16, PropsLoop, Zenon
<1>20. PropsCase(kinds, b, o, r, q) = Ok(Stored(id, v, rest), Len(b))
  BY <1>8, <1>9, <1>15, <1>18, Zenon DEF PropsCase
<1> QED
  BY <1>19, <1>20, Zenon DEF PropsFrom

\* The properties that remain behind some user properties.
UserRest(u, m, rest) ==
    IF m = Len(u) THEN rest ELSE With(rest, UserProperty, SubSeq(u, m + 1, Len(u)))

\* A sequence of one.
LEMMA SubSeqOne ==
    ASSUME NEW S, NEW u \in Seq(S), NEW k \in 1 .. Len(u)
    PROVE  SubSeq(u, k, k) = <<u[k]>>
<1>1. u[k] \in S
  BY ElementOfSeq, Zenon
<1>2. <<u[k]>> \in Seq(S) /\ Len(<<u[k]>>) = 1 /\ <<u[k]>>[1] = u[k]
  BY <1>1
<1>3. SubSeq(u, k, k) \in Seq(S) /\ Len(SubSeq(u, k, k)) = 1 /\ SubSeq(u, k, k)[1] = u[k]
  OBVIOUS
<1>4. \A j \in 1 .. 1 : j = 1
  OBVIOUS
<1>5. \A j \in 1 .. Len(SubSeq(u, k, k)) : SubSeq(u, k, k)[j] = <<u[k]>>[j]
  BY <1>2, <1>3, <1>4, Zenon
<1>6. Len(SubSeq(u, k, k)) = Len(<<u[k]>>)
  BY <1>2, <1>3, Zenon
<1> QED
  BY <1>2, <1>3, <1>5, <1>6, SeqEqual, Zenon

\* A user property is put before those behind it.
LEMMA StoredUser ==
    ASSUME NEW S, NEW u \in Seq(S), NEW m \in Nat, m < Len(u), NEW rest, UserProperty \notin DOMAIN rest
    PROVE  Stored(UserProperty, u[m + 1], UserRest(u, m + 1, rest)) = UserRest(u, m, rest)
<1>1. PICK l \in Nat : l = Len(u)
  BY LenProperties, Zenon
<1>2. m # l /\ m + 1 <= l /\ m + 1 \in 1 .. l /\ m + 1 \in Nat
  BY <1>1
<1>3. PICK w : w = SubSeq(u, m + 1, l)
  OBVIOUS
<1>4. UserRest(u, m, rest) = With(rest, UserProperty, w)
  BY <1>1, <1>2, <1>3, Zenon DEF UserRest
<1>5. CASE m + 1 = l
  <2>1. w = <<u[m + 1]>>
    BY <1>1, <1>2, <1>3, <1>5, SubSeqOne, Zenon
  <2>2. <<u[m + 1]>> \o <<>> = <<u[m + 1]>>
    <3>1. u[m + 1] \in S
      BY <1>1, <1>2, ElementOfSeq, Zenon
    <3>2. <<u[m + 1]>> \in Seq(S)
      BY <3>1
    <3> QED
      BY <3>2, ConcatEmptySeq, Zenon
  <2>3. UserRest(u, m + 1, rest) = rest
    BY <1>1, <1>5, Zenon DEF UserRest
  <2> QED
    BY <1>4, <2>1, <2>2, <2>3, Zenon DEF Stored
<1>6. CASE m + 1 # l
  <2>1. PICK x : x = SubSeq(u, (m + 1) + 1, l)
    OBVIOUS
  <2>2. <<u[m + 1]>> \o x = w
    <3>1. m + 1 \in 1 .. l + 1 /\ m + 1 \in (m + 1) - 1 .. l /\ l \in m + 1 .. l
      BY <1>2, <1>6
    <3>2. SubSeq(u, m + 1, m + 1) \o SubSeq(u, (m + 1) + 1, l) = SubSeq(u, m + 1, l)
      BY <1>1, <3>1, ConcatAdjacentSubSeq, Zenon
    <3>3. SubSeq(u, m + 1, m + 1) = <<u[m + 1]>>
      BY <1>1, <1>2, SubSeqOne, Zenon
    <3> QED
      BY <1>3, <2>1, <3>2, <3>3, Zenon
  <2>3. PICK q : q = With(rest, UserProperty, x)
    OBVIOUS
  <2>4. UserRest(u, m + 1, rest) = q
    BY <1>1, <1>6, <2>1, <2>3, Zenon DEF UserRest
  <2>5. IsWith(q, rest, UserProperty, x)
    BY <2>3, WithIs, Zenon
  <2>6. Stored(UserProperty, u[m + 1], q) = With(q, UserProperty, w)
    <3>1. UserProperty \in DOMAIN q /\ q[UserProperty] = x
      BY <2>5, Zenon DEF IsWith
    <3> QED
      BY <2>2, <3>1, Zenon DEF Stored
  <2>7. With(q, UserProperty, w) = With(rest, UserProperty, w)
    <3>1. DOMAIN q \cup {UserProperty} = DOMAIN rest \cup {UserProperty}
      BY <2>5, Zenon DEF IsWith
    <3>2. \A y \in DOMAIN rest \cup {UserProperty} :
             (IF y = UserProperty THEN w ELSE q[y]) = (IF y = UserProperty THEN w ELSE rest[y])
      BY <2>5, Zenon DEF IsWith
    <3> QED
      BY <3>1, <3>2, Zenon DEF With
  <2> QED
    BY <1>4, <2>4, <2>6, <2>7, Zenon
<1> QED
  BY <1>5, <1>6, Zenon

\* A sequence of parts: what holds behind all of them, and behind a part if it
\* holds behind the next one, holds before all of them.
LEMMA Downward ==
    ASSUME NEW l \in Nat, NEW T, l \in T, \A m \in Nat : m < l /\ m + 1 \in T => m \in T
    PROVE  0 \in T
<1> DEFINE S == {d \in Nat : \A m \in Nat : m + d = l => m \in T}
<1>1. 0 \in S
  <2>1. ASSUME NEW m \in Nat, m + 0 = l PROVE m \in T
    <3>1. m = l
      BY <2>1
    <3> QED
      BY <3>1
  <2> QED
    BY <2>1
<1>2. ASSUME NEW d \in Nat, d \in S PROVE d + 1 \in S
  <2>1. ASSUME NEW m \in Nat, m + (d + 1) = l PROVE m \in T
    <3>1. (m + 1) + d = l /\ m < l /\ m + 1 \in Nat
      BY <2>1
    <3>2. m + 1 \in T
      BY <1>2, <3>1, Zenon
    <3> QED
      BY <3>1, <3>2, Zenon
  <2>2. d + 1 \in Nat
    OBVIOUS
  <2> QED
    BY <2>1, <2>2, Zenon
<1>3. l \in S
  <2>1. Nat \subseteq S
    BY <1>1, <1>2, NatSetInduction, Zenon
  <2> QED
    BY <2>1, Zenon
<1>4. 0 + l = l /\ 0 \in Nat
  OBVIOUS
<1> QED
  BY <1>3, <1>4, Zenon

\* Where a part begins and ends.
LEMMA PartAt ==
    ASSUME NEW b \in Seq(Byte), NEW o \in Nat, NEW t \in Seq(Seq(Byte)), At(b, o, FlattenSeq(t)),
           NEW m \in Nat, m < Len(t)
    PROVE  /\ o + Len(Flat(t, m)) \in Nat /\ t[m + 1] \in Seq(Byte)
           /\ At(b, o + Len(Flat(t, m)), t[m + 1])
           /\ o + Len(Flat(t, m + 1)) = (o + Len(Flat(t, m))) + Len(t[m + 1])
<1>1. Len(b) \in Nat /\ Len(t) \in Nat
  BY LenProperties, Zenon
<1>2. m \in 0 .. Len(t) /\ m \in 0 .. Len(t) - 1 /\ m + 1 \in 1 .. Len(t)
  BY <1>1
<1>3. Flat(t, m) \in Seq(Byte) /\ Flat(t, m + 1) = Flat(t, m) \o t[m + 1]
  BY <1>2, FlatIs, Zenon
<1>4. t[m + 1] \in Seq(Byte)
  BY <1>2, ElementOfSeq, Zenon
<1>5. PICK x \in Nat, y \in Nat : x = Len(Flat(t, m)) /\ y = Len(t[m + 1])
  BY <1>3, <1>4, LenProperties, Zenon
<1>6. Len(Flat(t, m + 1)) = x + y
  BY <1>3, <1>4, <1>5, Joined, Zenon
<1>7. o + x \in Nat /\ o + (x + y) = (o + x) + y
  OBVIOUS
<1>8. At(b, o + Len(Flat(t, m)), t[m + 1])
  BY <1>1, FlatAt, Zenon
<1> QED
  BY <1>4, <1>5, <1>6, <1>7, <1>8, Zenon

\* The loop stores the user properties, in order.
LEMMA ReadUser ==
    ASSUME NEW kinds, TableOK(kinds), UserProperty \in DOMAIN kinds, NEW b \in Seq(Byte), NEW o \in Nat,
           NEW max \in Nat, U16(max), NEW u \in Seq(Texts(max) \X Texts(max)),
           At(b, o, FlattenSeq(UserParts("pair", u))), NEW rest, UserProperty \notin DOMAIN rest,
           PropsFrom(kinds, b, o + Len(FlattenSeq(UserParts("pair", u))), rest)
    PROVE  PropsFrom(kinds, b, o, UserRest(u, 0, rest))
<1>1. PICK t : t = UserParts("pair", u)
  OBVIOUS
<1>2. t \in Seq(Seq(Byte)) /\ Len(t) = Len(u)
      /\ \A k \in 1 .. Len(u) : t[k] = PutProperty("pair", UserProperty, u[k])
  BY <1>1, UserBytes, Zenon
<1>3. PICK l \in Nat : l = Len(u) /\ l = Len(t)
  BY <1>2, LenProperties, Zenon
<1> DEFINE T == {m \in Nat : PropsFrom(kinds, b, o + Len(Flat(t, m)), UserRest(u, m, rest))}
<1>4. l \in T
  <2>1. FlattenSeq(t) = Flat(t, l)
    BY <1>2, <1>3, FlatIs, Zenon
  <2>2. UserRest(u, l, rest) = rest
    BY <1>3, Zenon DEF UserRest
  <2>3. PropsFrom(kinds, b, o + Len(Flat(t, l)), UserRest(u, l, rest))
    BY <1>1, <2>1, <2>2, Zenon
  <2> QED
    BY <2>3, Zenon
<1>5. ASSUME NEW m \in Nat, m < l, m + 1 \in T PROVE m \in T
  <2>1. PICK e : e = o + Len(Flat(t, m))
    OBVIOUS
  <2>2. /\ e \in Nat /\ At(b, e, t[m + 1]) /\ o + Len(Flat(t, m + 1)) = e + Len(t[m + 1])
    <3>1. At(b, o, FlattenSeq(t)) /\ m < Len(t)
      BY <1>1, <1>3, <1>5, Zenon
    <3>2. /\ o + Len(Flat(t, m)) \in Nat /\ At(b, o + Len(Flat(t, m)), t[m + 1])
          /\ o + Len(Flat(t, m + 1)) = (o + Len(Flat(t, m))) + Len(t[m + 1])
      BY <1>2, <3>1, PartAt, ZenonT(60)
    <3> QED
      BY <2>1, <3>2, Zenon
  <2>3. m + 1 \in 1 .. l
    BY <1>5, SMTT(30)
  <2>4. PICK v : v = u[m + 1]
    OBVIOUS
  <2>5. v \in Texts(max) \X Texts(max)
    BY <1>3, <2>3, <2>4, ElementOfSeq, Zenon
  <2>6. t[m + 1] = PutProperty("pair", UserProperty, v) /\ kinds[UserProperty] = "pair"
    BY <1>2, <1>3, <2>3, <2>4, Zenon DEF TableOK, KindsOK
  <2>7. Fits("pair", v, max) /\ "pair" # "var"
    BY <2>5 DEF Fits
  <2>8. PropsFrom(kinds, b, e + Len(PutProperty("pair", UserProperty, v)), UserRest(u, m + 1, rest))
    BY <1>5, <2>2, <2>6, Zenon
  <2>9. At(b, e, PutProperty("pair", UserProperty, v))
    BY <2>2, <2>6, Zenon
  <2>10. PropsFrom(kinds, b, e, Stored(UserProperty, v, UserRest(u, m + 1, rest)))
    <3>1. PICK k, q : k = kinds[UserProperty] /\ q = UserRest(u, m + 1, rest)
      OBVIOUS
    <3>2. /\ Fits(kinds[UserProperty], v, max) /\ (kinds[UserProperty] = "var" => v # 0)
          /\ At(b, e, PutProperty(kinds[UserProperty], UserProperty, v))
          /\ PropsFrom(kinds, b, e + Len(PutProperty(kinds[UserProperty], UserProperty, v)), q)
      BY <2>6, <2>7, <2>8, <2>9, <3>1, Zenon
    <3>3. PropsFrom(kinds, b, e, Stored(UserProperty, v, q))
      BY <2>2, <3>2, ReadOne
    <3> QED
      BY <3>1, <3>3, Zenon
  <2>11. Stored(UserProperty, v, UserRest(u, m + 1, rest)) = UserRest(u, m, rest)
    BY <1>3, <1>5, <2>4, StoredUser, Zenon
  <2> QED
    BY <2>1, <2>10, <2>11, Zenon
<1> HIDE DEF T
<1>6. 0 \in T
  BY <1>4, <1>5, Downward, Zenon
<1>7. o + Len(Flat(t, 0)) = o
  <2>1. Len(Flat(t, 0)) = 0
    BY <1>2, FlatIs, EmptySeq, Zenon
  <2>2. o + 0 = o
    OBVIOUS
  <2> QED
    BY <2>1, <2>2, Zenon
<1> QED
  BY <1>6, <1>7, Zenon DEF T

\* A property is added to those that are kept.
IsMore(p, S, id) == id \in DOMAIN p => With(Only(p, S), id, p[id]) = Only(p, S \cup {id})

\* One more identifier is kept.
LEMMA OnlyMore ==
    ASSUME NEW p, NEW S, NEW id, id \notin S
    PROVE  /\ id \notin DOMAIN Only(p, S)
           /\ id \notin DOMAIN p => Only(p, S \cup {id}) = Only(p, S)
           /\ IsMore(p, S, id)
<1>1. DOMAIN Only(p, S) = DOMAIN p \cap S /\ \A x \in DOMAIN p \cap S : Only(p, S)[x] = p[x]
  BY Zenon DEF Only
<1>2. ASSUME id \notin DOMAIN p PROVE Only(p, S \cup {id}) = Only(p, S)
  <2>1. DOMAIN p \cap (S \cup {id}) = DOMAIN p \cap S
    BY <1>2, Zenon
  <2> QED
    BY <2>1, Zenon DEF Only
<1>3. ASSUME id \in DOMAIN p PROVE With(Only(p, S), id, p[id]) = Only(p, S \cup {id})
  <2>1. PICK q : q = Only(p, S)
    OBVIOUS
  <2>2. DOMAIN q \cup {id} = DOMAIN p \cap (S \cup {id})
    BY <1>1, <1>3, <2>1, Zenon
  <2>3. \A x \in DOMAIN p \cap (S \cup {id}) : (IF x = id THEN p[id] ELSE q[x]) = p[x]
    BY <1>1, <2>1, Zenon
  <2>4. With(q, id, p[id]) = Only(p, S \cup {id})
    BY <2>2, <2>3, Zenon DEF With, Only
  <2> QED
    BY <2>1, <2>4, Zenon
<1> QED
  BY <1>1, <1>2, <1>3, Zenon DEF IsMore

\* The identifiers of an order, but its first n.
Behind(order, n) == {order[k] : k \in n + 1 .. Len(order)}
Distinct(order) == \A j, k \in 1 .. Len(order) : order[j] = order[k] => j = k

\* Each of them once.
LEMMA BehindIs ==
    ASSUME NEW order \in Seq(Byte), Distinct(order)
    PROVE  /\ Behind(order, Len(order)) = {}
           /\ \A m \in Nat : m < Len(order) => /\ Behind(order, m) = Behind(order, m + 1) \cup {order[m + 1]}
                                               /\ order[m + 1] \notin Behind(order, m + 1)
<1>1. PICK l \in Nat : l = Len(order)
  BY LenProperties, Zenon
<1>2. Behind(order, l) = {}
  BY <1>1 DEF Behind
<1>3. ASSUME NEW m \in Nat, m < l
      PROVE  Behind(order, m) = Behind(order, m + 1) \cup {order[m + 1]} /\ order[m + 1] \notin Behind(order, m + 1)
  <2>1. m + 1 \in m + 1 .. l /\ m + 1 \in 1 .. l
    BY <1>3
  <2>2. \A k \in m + 1 .. l : k = m + 1 \/ k \in (m + 1) + 1 .. l
    BY <1>3
  <2>3. \A k \in (m + 1) + 1 .. l : k \in m + 1 .. l /\ k \in 1 .. l /\ k # m + 1
    BY <1>3
  <2>4. order[m + 1] \notin Behind(order, m + 1)
    BY <1>1, <2>1, <2>3, Zenon DEF Behind, Distinct
  <2>5. Behind(order, m) = Behind(order, m + 1) \cup {order[m + 1]}
    BY <1>1, <2>1, <2>2, <2>3, Zenon DEF Behind
  <2> QED
    BY <2>4, <2>5, Zenon
<1> QED
  BY <1>1, <1>2, <1>3, Zenon

\* Properties that can be written and read: no variable number is 0.
Whole(p) == 11 \in DOMAIN p => p[11] # 0

\* The loop reads what is written for one identifier.
LEMMA ReadPart ==
    ASSUME NEW kinds, TableOK(kinds), NEW b \in Seq(Byte), NEW o \in Nat, NEW max \in Nat, U16(max),
           NEW p, FitProps(kinds, p, max), Whole(p), NEW id, NEW s, IsPut(kinds, s, p, id), At(b, o, s),
           NEW S, id \notin S, PropsFrom(kinds, b, o + Len(s), Only(p, S))
    PROVE  PropsFrom(kinds, b, o, Only(p, S \cup {id}))
<1>1. PICK rest : rest = Only(p, S)
  OBVIOUS
<1>2. KindsOK(kinds) /\ id \notin DOMAIN rest
  BY <1>1, OnlyMore, Zenon DEF TableOK
<1>3. CASE id \notin DOMAIN p
  <2>1. s = <<>>
    BY <1>3, Zenon DEF IsPut
  <2>2. o + Len(s) = o
    <3>1. Len(s) = 0
      BY <2>1, EmptySeq, Zenon
    <3>2. o + 0 = o
      OBVIOUS
    <3> QED
      BY <3>1, <3>2, Zenon
  <2>3. Only(p, S \cup {id}) = Only(p, S)
    BY <1>3, OnlyMore, Zenon
  <2> QED
    BY <2>2, <2>3, Zenon
<1>4. CASE id \in DOMAIN p /\ id # UserProperty
  <2>1. id \in DOMAIN kinds /\ Fits(kinds[id], p[id], max)
    BY <1>2, <1>4, PropertyFits, Zenon
  <2>2. PICK v : v = p[id]
    OBVIOUS
  <2>3. kinds[id] = "var" => v # 0
    BY <1>2, <1>4, <2>1, <2>2, Zenon DEF KindsOK, Whole
  <2>4. s = PutProperty(kinds[id], id, v)
    BY <1>4, <2>2, Zenon DEF IsPut
  <2>5. /\ Fits(kinds[id], v, max) /\ At(b, o, PutProperty(kinds[id], id, v))
        /\ PropsFrom(kinds, b, o + Len(PutProperty(kinds[id], id, v)), rest)
    BY <1>1, <2>1, <2>2, <2>4, Zenon
  <2>6. PropsFrom(kinds, b, o, Stored(id, v, rest))
    BY <2>1, <2>3, <2>5, ReadOne
  <2>7. Stored(id, v, rest) = With(rest, id, v)
    BY <1>2, <1>4, Zenon DEF Stored
  <2>8. With(rest, id, v) = Only(p, S \cup {id})
    <3>1. With(Only(p, S), id, p[id]) = Only(p, S \cup {id})
      <4>1. IsMore(p, S, id)
        BY OnlyMore, Zenon
      <4> QED
        BY <1>4, <4>1, Zenon DEF IsMore
    <3> QED
      BY <1>1, <2>2, <3>1, Zenon
  <2> QED
    BY <2>6, <2>7, <2>8, Zenon
<1>5. CASE id \in DOMAIN p /\ id = UserProperty
  <2>1. PICK u : u = p[id]
    OBVIOUS
  <2>2. UserProperty \in DOMAIN kinds /\ u \in Seq(Texts(max) \X Texts(max)) /\ Len(u) \in 1 .. max
    BY <1>2, <1>5, <2>1, PropertyFits, Zenon
  <2>3. s = FlattenSeq(UserParts("pair", u))
    BY <1>5, <2>1, Zenon DEF IsPut
  <2>4. /\ At(b, o, FlattenSeq(UserParts("pair", u))) /\ UserProperty \notin DOMAIN rest
        /\ PropsFrom(kinds, b, o + Len(FlattenSeq(UserParts("pair", u))), rest)
    BY <1>1, <1>2, <1>5, <2>3, Zenon
  <2>5. PropsFrom(kinds, b, o, UserRest(u, 0, rest))
    BY <2>2, <2>4, ReadUser, Zenon
  <2>6. UserRest(u, 0, rest) = With(rest, UserProperty, u)
    <3>1. 0 # Len(u)
      BY <2>2
    <3>2. 0 + 1 = 1
      OBVIOUS
    <3>3. SubSeq(u, 1, Len(u)) = u
      BY <2>2, SubSeqFull, Zenon
    <3> QED
      BY <3>1, <3>2, <3>3, Zenon DEF UserRest
  <2>7. With(rest, id, u) = Only(p, S \cup {id})
    <3>1. With(Only(p, S), id, p[id]) = Only(p, S \cup {id})
      <4>1. IsMore(p, S, id)
        BY OnlyMore, Zenon
      <4> QED
        BY <1>5, <4>1, Zenon DEF IsMore
    <3> QED
      BY <1>1, <2>1, <3>1, Zenon
  <2> QED
    BY <1>5, <2>5, <2>6, <2>7, Zenon
<1> QED
  BY <1>3, <1>4, <1>5, Zenon

\* The loop reads the properties that were written, each in its place.
LEMMA ReadProps ==
    ASSUME NEW kinds, TableOK(kinds), NEW b \in Seq(Byte), NEW o \in Nat, NEW max \in Nat, U16(max),
           NEW p, FitProps(kinds, p, max), Whole(p), NEW order \in Seq(Byte), Distinct(order),
           At(b, o, PutProperties(order, kinds, p))
    PROVE  o + Len(PutProperties(order, kinds, p)) = Len(b)
           => PropsFrom(kinds, b, o, Only(p, Behind(order, 0)))
<1>1. SUFFICES ASSUME o + Len(PutProperties(order, kinds, p)) = Len(b)
               PROVE  PropsFrom(kinds, b, o, Only(p, Behind(order, 0)))
  OBVIOUS
<1>2. PICK t : t = Parts(order, kinds, p)
  OBVIOUS
<1>3. /\ Parts(order, kinds, p) \in Seq(Seq(Byte)) /\ Len(Parts(order, kinds, p)) = Len(order)
      /\ PutProperties(order, kinds, p) = FlattenSeq(Parts(order, kinds, p))
  BY PartsIs
<1>4. \A k \in 1 .. Len(order) : IsPut(kinds, t[k], p, order[k])
  BY <1>2, PartsIs, Zenon
<1>5. PICK l \in Nat : l = Len(order) /\ l = Len(t)
  BY <1>2, <1>3, LenProperties, Zenon
<1>6. t \in Seq(Seq(Byte)) /\ PutProperties(order, kinds, p) = FlattenSeq(t) /\ At(b, o, FlattenSeq(t))
  BY <1>2, <1>3, Zenon
<1> DEFINE T == {m \in Nat : PropsFrom(kinds, b, o + Len(Flat(t, m)), Only(p, Behind(order, m)))}
<1>7. l \in T
  <2>1. FlattenSeq(t) = Flat(t, l)
    BY <1>5, <1>6, FlatIs, Zenon
  <2>2. o + Len(Flat(t, l)) = Len(b)
    BY <1>1, <1>6, <2>1, Zenon
  <2>3. Only(p, Behind(order, l)) = <<>>
    <3>1. Behind(order, l) = {}
      BY <1>5, BehindIs, Zenon
    <3>2. DOMAIN p \cap {} = {}
      OBVIOUS
    <3>3. Only(p, {}) = [x \in {} |-> p[x]]
      BY <3>2, Zenon DEF Only
    <3>4. [x \in {} |-> p[x]] = <<>>
      OBVIOUS
    <3> QED
      BY <3>1, <3>3, <3>4, Zenon
  <2>4. PropsFrom(kinds, b, Len(b), <<>>)
    BY PropsGoodEnd, Zenon DEF TableOK, PropsFrom
  <2> QED
    BY <2>2, <2>3, <2>4, Zenon
<1>8. ASSUME NEW m \in Nat, m < l, m + 1 \in T PROVE m \in T
  <2>1. PICK e, s, id, S : e = o + Len(Flat(t, m)) /\ s = t[m + 1] /\ id = order[m + 1] /\ S = Behind(order, m + 1)
    OBVIOUS
  <2>2. e \in Nat /\ At(b, e, s) /\ o + Len(Flat(t, m + 1)) = e + Len(s)
    <3>1. m < Len(t)
      BY <1>5, <1>8, Zenon
    <3>2. /\ o + Len(Flat(t, m)) \in Nat /\ At(b, o + Len(Flat(t, m)), t[m + 1])
          /\ o + Len(Flat(t, m + 1)) = (o + Len(Flat(t, m))) + Len(t[m + 1])
      BY <1>6, <3>1, PartAt, ZenonT(60)
    <3> QED
      BY <2>1, <3>2, Zenon
  <2>3. IsPut(kinds, s, p, id)
    <3>1. m + 1 \in 1 .. l
      BY <1>8
    <3> QED
      BY <1>4, <1>5, <2>1, <3>1, Zenon
  <2>4. id \notin S /\ Behind(order, m) = S \cup {id}
    <3>1. m < Len(order)
      BY <1>5, <1>8, Zenon
    <3>2. Behind(order, m) = Behind(order, m + 1) \cup {order[m + 1]} /\ order[m + 1] \notin Behind(order, m + 1)
      BY <3>1, BehindIs
    <3> QED
      BY <2>1, <3>2, Zenon
  <2>5. PropsFrom(kinds, b, e + Len(s), Only(p, S))
    BY <1>8, <2>1, <2>2, Zenon
  <2>6. PropsFrom(kinds, b, e, Only(p, S \cup {id}))
    BY <2>2, <2>3, <2>4, <2>5, ReadPart
  <2> QED
    BY <2>1, <2>4, <2>6, Zenon
<1> HIDE DEF T
<1>9. 0 \in T
  BY <1>7, <1>8, Downward, Zenon
<1>10. o + Len(Flat(t, 0)) = o
  <2>1. Len(Flat(t, 0)) = 0
    BY <1>6, FlatIs, EmptySeq, Zenon
  <2>2. o + 0 = o
    OBVIOUS
  <2> QED
    BY <2>1, <2>2, Zenon
<1> QED
  BY <1>9, <1>10, Zenon DEF T

\* The orders name each identifier once.
LEMMA OrdersDistinct ==
    /\ Distinct(PublishOrder) /\ Behind(PublishOrder, 0) = {1, 2, 3, 38}
    /\ Distinct(ConnackOrder) /\ {17, 18, 19, 33, 34, 36, 38, 39} \subseteq Behind(ConnackOrder, 0)
    /\ Distinct(ClientOrder) /\ DOMAIN ConnectKinds \subseteq Behind(ClientOrder, 0)
    /\ DOMAIN PublishKinds \subseteq Behind(ClientOrder, 0)
<1>1. Distinct(PublishOrder)
  BY DEF Distinct, PublishOrder
<1>2. Behind(PublishOrder, 0) = {1, 2, 3, 38}
  BY DEF Behind, PublishOrder
<1>3. Distinct(ConnackOrder)
  BY DEF Distinct, ConnackOrder
<1>4. {17, 18, 19, 33, 34, 36, 38, 39} \subseteq Behind(ConnackOrder, 0)
  BY DEF Behind, ConnackOrder
<1>5. Distinct(ClientOrder)
  BY DEF Distinct, ClientOrder
<1>6. {1, 2, 3, 8, 9, 11, 17, 21, 22, 23, 25, 33, 34, 35, 38, 39} \subseteq Behind(ClientOrder, 0)
  BY DEF Behind, ClientOrder
<1>7. DOMAIN ConnectKinds = {17, 21, 22, 23, 25, 33, 34, 38, 39} /\ DOMAIN PublishKinds = {1, 2, 3, 8, 9, 11, 35, 38}
  BY Zenon DEF ConnectKinds, PublishKinds
<1>8. DOMAIN ConnectKinds \subseteq Behind(ClientOrder, 0) /\ DOMAIN PublishKinds \subseteq Behind(ClientOrder, 0)
  BY <1>6, <1>7
<1> QED
  BY <1>1, <1>2, <1>3, <1>4, <1>5, <1>8, Zenon

-----------------------------------------------------------------------------
(* What a client sends is read back *)

\* A number that the client writes as a length, and the longest string.
Short(n) == n \in Nat /\ n < 16384
Max16 == 65535

\* The longest string is a u16.
LEMMA Max16Is ==
    Max16 \in Nat /\ U16(Max16) /\ Max16 = 65535
BY SMT DEF Max16, U16

\* The length of a client, which is read back.
LEMMA ShortLength ==
    ASSUME NEW n, Short(n)
    PROVE  /\ ClientLength(n) \in Seq(Byte) /\ Len(ClientLength(n)) \in 1 .. 2
           /\ \A b \in Seq(Byte), i \in Nat :
                 At(b, i, ClientLength(n)) => DecodeLength(b, i) = Ok(n, i + Len(ClientLength(n)))
<1>1. n \in Nat /\ n < 16384
  BY SMT DEF Short
<1>2. ClientLength(n) \in Seq(Byte) /\ Len(ClientLength(n)) \in 1 .. 2
  BY <1>1, ClientLengthBytes, SMT
<1>3. ASSUME NEW b \in Seq(Byte), NEW i \in Nat, At(b, i, ClientLength(n))
      PROVE  DecodeLength(b, i) = Ok(n, i + Len(ClientLength(n)))
  <2>1. Len(b) \in Nat
    BY LenProperties, Zenon
  <2> QED
    BY <1>1, <1>3, <2>1, ClientLengthRead, SMT
<1> QED
  BY <1>2, <1>3, Zenon

\* Properties whose identifiers are all in a set are kept.
LEMMA OnlyAll ==
    ASSUME NEW p, IsFcn(p), NEW S, DOMAIN p \subseteq S
    PROVE  Only(p, S) = p
<1>1. DOMAIN p \cap S = DOMAIN p
  BY Zenon
<1>2. Only(p, S) = [x \in DOMAIN p |-> p[x]]
  BY <1>1, Zenon DEF Only
<1> QED
  BY <1>2, Zenon DEF IsFcn

\* A prefix of a buffer.
LEMMA PrefixIs ==
    ASSUME NEW b \in Seq(Byte), NEW n \in Nat, n <= Len(b)
    PROVE  SubSeq(b, 1, n) \in Seq(Byte) /\ Len(SubSeq(b, 1, n)) = n
<1>1. 0 + n <= Len(b) /\ 0 + 1 = 1 /\ 0 + n = n /\ 0 \in Nat
  OBVIOUS
<1>2. SubSeq(b, 0 + 1, 0 + n) \in Seq(Byte) /\ Len(SubSeq(b, 0 + 1, 0 + n)) = n
  BY <1>1, Slice
<1> QED
  BY <1>1, <1>2, Zenon

\* A property length followed by that many bytes of properties is read.
LEMMA ReadSection ==
    ASSUME NEW kinds, TableOK(kinds), NEW b \in Seq(Byte), NEW j \in Nat, NEW max \in Nat, U16(max),
           NEW p, FitProps(kinds, p, max), Whole(p), NEW order \in Seq(Byte), Distinct(order),
           At(b, j, PutProperties(order, kinds, p)), NEW r, NEW short,
           r = Ok(Len(PutProperties(order, kinds, p)), j)
    PROVE  PropertiesCase(kinds, b, r, short)
           = Ok(Only(p, Behind(order, 0)), j + Len(PutProperties(order, kinds, p)))
<1>1. PICK s : s = PutProperties(order, kinds, p)
  OBVIOUS
<1>2. s \in Seq(Byte)
  BY <1>1, PutPropertiesBytes, Zenon
<1>3. PICK n \in Nat, l \in Nat : n = Len(s) /\ l = Len(b)
  BY <1>2, LenProperties, Zenon
<1>4. j + n <= l
  BY <1>1, <1>3, Zenon DEF At
<1>5. r = Ok(n, j)
  BY <1>1, <1>3, Zenon
<1>6. r.st = "ok" /\ r.v = n /\ r.at = j
  BY <1>5 DEF Ok
<1>7. ~(l - j < n) /\ j + n \in Nat /\ j + n <= j + n
  BY <1>4
<1>8. PICK c : c = SubSeq(b, 1, j + n)
  OBVIOUS
<1>9. c \in Seq(Byte) /\ Len(c) = j + n
  BY <1>3, <1>4, <1>7, <1>8, PrefixIs, Zenon
<1>10. At(c, j, s)
  <2>1. At(b, j, s) /\ j + Len(s) <= j + n /\ j + n <= Len(b)
    BY <1>1, <1>3, <1>4, <1>7, Zenon
  <2> QED
    BY <1>2, <1>7, <1>8, <2>1, AtPrefix, Zenon
<1>11. PropsFrom(kinds, c, j, Only(p, Behind(order, 0)))
  <2>1. At(c, j, PutProperties(order, kinds, p)) /\ j + Len(PutProperties(order, kinds, p)) = Len(c)
    BY <1>1, <1>3, <1>9, <1>10, Zenon
  <2> QED
    BY <1>9, <2>1, ReadProps
<1>12. PropertiesCase(kinds, b, r, short) = GetProperties(kinds, c, j)
  BY <1>3, <1>6, <1>7, <1>8, Zenon DEF PropertiesCase
<1> QED
  BY <1>1, <1>3, <1>9, <1>11, <1>12, Zenon DEF PropsFrom

\* Two results are equal only if their values are.
LEMMA OkEqual ==
    ASSUME NEW v, NEW i, NEW w, NEW j, Ok(v, i) = Ok(w, j)
    PROVE  v = w /\ i = j
<1>1. PICK r : r = Ok(v, i) /\ r = Ok(w, j)
  OBVIOUS
<1>2. r.v = v /\ r.at = i
  BY <1>1 DEF Ok
<1>3. r.v = w /\ r.at = j
  BY <1>1 DEF Ok
<1> QED
  BY <1>2, <1>3, Zenon


\* Bytes are natural numbers.
LEMMA NatSeq ==
    ASSUME NEW s \in Seq(Byte)
    PROVE  s \in Seq(Nat) /\ Len(s) \in Nat
<1>1. Byte \subseteq Nat
  BY ByteIs
<1>2. \A k \in 1 .. Len(s) : s[k] \in Nat
  BY <1>1, ElementOfSeq, Zenon
<1>3. IsFcn(s) /\ DOMAIN s = 1 .. Len(s) /\ Len(s) \in Nat
  BY LenProperties DEF IsFcn
<1> QED
  BY <1>2, <1>3, FcnSeq, Zenon

\* The length of two sequences of numbers.
LEMMA NatJoin ==
    ASSUME NEW s \in Seq(Nat), NEW t \in Seq(Nat)
    PROVE  /\ s \o t \in Seq(Nat) /\ Len(s \o t) = Len(s) + Len(t)
           /\ Len(s \o t) \in Nat /\ Len(s) \in Nat /\ Len(t) \in Nat
           /\ Len(s) <= Len(s \o t) /\ Len(t) <= Len(s \o t)
<1>1. s \o t \in Seq(Nat) /\ Len(s \o t) = Len(s) + Len(t)
  BY ConcatProperties, Zenon
<1>2. Len(s) \in Nat /\ Len(t) \in Nat
  BY LenProperties, Zenon
<1>3. \A x, y \in Nat : x <= x + y /\ y <= x + y /\ x + y \in Nat
  OBVIOUS
<1> QED
  BY <1>1, <1>2, <1>3, Zenon

\* The table of the standard differs from one of the code in one identifier.
LEMMA StandardIs ==
    ASSUME NEW kinds
    PROVE  /\ DOMAIN Standard(kinds) = DOMAIN kinds
           /\ \A id \in DOMAIN kinds : Standard(kinds)[id] = IF id = 39 THEN "u32" ELSE kinds[id]
<1>1. PICK s : s = Standard(kinds)
  OBVIOUS
<1>2. s = [id \in DOMAIN kinds |-> IF id = 39 THEN "u32" ELSE kinds[id]]
  BY <1>1, Zenon DEF Standard
<1>3. DOMAIN s = DOMAIN kinds
  BY <1>2, Zenon
<1>4. \A id \in DOMAIN kinds : s[id] = IF id = 39 THEN "u32" ELSE kinds[id]
  BY <1>2, Zenon
<1> QED
  BY <1>1, <1>3, <1>4, Zenon

\* It is a table.
LEMMA StandardTable ==
    ASSUME NEW kinds, TableOK(kinds)
    PROVE  TableOK(Standard(kinds))
<1>1. PICK s : s = Standard(kinds)
  OBVIOUS
<1>2. DOMAIN s = DOMAIN kinds /\ \A id \in DOMAIN s : s[id] = IF id = 39 THEN "u32" ELSE kinds[id]
  BY <1>1, StandardIs, Zenon
<1>3. "u32" \in Kinds /\ "u32" # "var" /\ 39 # UserProperty
  BY DEF Kinds, FieldKinds, UserProperty
<1>4. ASSUME NEW id \in DOMAIN s
      PROVE  s[id] \in Kinds /\ (s[id] = "var" => id = 11) /\ (id = UserProperty => s[id] = "pair")
  <2>1. kinds[id] \in Kinds /\ (kinds[id] = "var" => id = 11) /\ (id = UserProperty => kinds[id] = "pair")
    BY <1>2, Zenon DEF TableOK, KindsOK
  <2>2. CASE id = 39
    BY <1>2, <1>3, <2>2, Zenon
  <2>3. CASE id # 39
    BY <1>2, <2>1, <2>3, Zenon
  <2> QED
    BY <2>2, <2>3, Zenon
<1>5. KindsOK(s)
  BY <1>4, Zenon DEF KindsOK
<1>6. DOMAIN s \subseteq Byte
  BY <1>2, Zenon DEF TableOK
<1> QED
  BY <1>1, <1>5, <1>6, Zenon DEF TableOK

\* The tables of a client.
LEMMA StandardTables ==
    /\ TableOK(Standard(ConnectKinds)) /\ DOMAIN Standard(ConnectKinds) \subseteq Behind(ClientOrder, 0)
    /\ TableOK(Standard(ConnackKinds))
BY ByteTables, StandardTable, StandardIs, OrdersDistinct, Zenon

\* Without a maximum packet size, it is as good as the table of the code.
LEMMA StandardFits ==
    ASSUME NEW kinds, NEW p, NEW max, 39 \notin DOMAIN p
    PROVE  FitProps(Standard(kinds), p, max) <=> FitProps(kinds, p, max)
<1>1. PICK s : s = Standard(kinds)
  OBVIOUS
<1>2. DOMAIN s = DOMAIN kinds /\ \A id \in DOMAIN kinds : s[id] = IF id = 39 THEN "u32" ELSE kinds[id]
  BY <1>1, StandardIs, Zenon
<1>3. DOMAIN p \subseteq DOMAIN kinds => \A id \in DOMAIN p : s[id] = kinds[id]
  BY <1>2, Zenon
<1>4. FitProps(s, p, max) => FitProps(kinds, p, max)
  BY <1>2, <1>3, Zenon DEF FitProps
<1>5. FitProps(kinds, p, max) => FitProps(s, p, max)
  BY <1>2, <1>3, Zenon DEF FitProps
<1> QED
  BY <1>1, <1>4, <1>5, Zenon

\* The same is written with it.
LEMMA StandardPut ==
    ASSUME NEW kinds, NEW p, DOMAIN p \subseteq DOMAIN kinds, 39 \notin DOMAIN p, NEW order
    PROVE  PutProperties(order, Standard(kinds), p) = PutProperties(order, kinds, p)
<1>1. PICK s : s = Standard(kinds)
  OBVIOUS
<1>2. \A id \in DOMAIN p : s[id] = kinds[id]
  BY <1>1, StandardIs, Zenon
<1>3. \A id : PutOf(s, p, id) = PutOf(kinds, p, id)
  BY <1>2, Zenon DEF PutOf
<1>4. PutProperties(order, s, p) = PutProperties(order, kinds, p)
  BY <1>3, Zenon DEF PutProperties
<1> QED
  BY <1>1, <1>4, Zenon

\* The properties that a client writes, without their length.
PropBytes(kinds, p) == PutProperties(ClientOrder, kinds, p)

\* What a client writes for its properties.
LEMMA ClientPropsIs ==
    ASSUME NEW kinds, TableOK(kinds), NEW p, FitProps(kinds, p, Max16)
    PROVE  /\ PropBytes(kinds, p) \in Seq(Byte) /\ Len(PropBytes(kinds, p)) \in Nat
           /\ ClientProps(kinds, p) = ClientLength(Len(PropBytes(kinds, p))) \o PropBytes(kinds, p)
           /\ ClientProps(kinds, p) \in Seq(Nat)
           /\ Len(PropBytes(kinds, p)) <= Len(ClientProps(kinds, p))
<1>1. PropBytes(kinds, p) \in Seq(Byte)
  BY Max16Is, OrdersOK, PutPropertiesBytes DEF PropBytes
<1>2. PICK s \in Seq(Byte) : s = PropBytes(kinds, p)
  BY <1>1, Zenon
<1>3. PICK n \in Nat : n = Len(s)
  BY LenProperties, Zenon
<1>4. ClientProps(kinds, p) = ClientLength(n) \o s
  BY <1>2, <1>3, Zenon DEF ClientProps, PropBytes
<1>5. ClientLength(n) \in Seq(Nat)
  <2>1. CASE n < 128
    BY <2>1 DEF ClientLength
  <2>2. CASE ~(n < 128)
    <3>1. 128 + (n % 128) \in Nat /\ n \div 128 \in Nat
      OBVIOUS
    <3>2. ClientLength(n) = <<128 + (n % 128), n \div 128>>
      BY <2>2, Zenon DEF ClientLength
    <3> QED
      BY <3>1, <3>2
  <2> QED
    BY <2>1, <2>2, Zenon
<1>6. PICK c \in Seq(Nat) : c = ClientLength(n)
  BY <1>5, Zenon
<1>7. s \in Seq(Nat)
  BY NatSeq, Zenon
<1>8. c \o s \in Seq(Nat) /\ Len(s) <= Len(c \o s)
  BY <1>7, NatJoin, Zenon
<1> QED
  BY <1>2, <1>3, <1>4, <1>6, <1>8, Zenon

\* The properties p are read from b, between i and e.
SectionRead(kinds, b, i, p, e, short) ==
    \E n \in Nat, j \in Nat :
        /\ DecodeLength(b, i) = Ok(n, j) /\ n + j = e /\ n + j <= Len(b)
        /\ PropertiesCase(kinds, b, DecodeLength(b, i), short) = Ok(p, e)

\* If they are not too long they are bytes, and are read.
LEMMA ClientPropsRead ==
    ASSUME NEW kinds, TableOK(kinds), DOMAIN kinds \subseteq Behind(ClientOrder, 0),
           NEW p, FitProps(kinds, p, Max16), Short(Len(PropBytes(kinds, p)))
    PROVE  /\ ClientProps(kinds, p) \in Seq(Byte)
           /\ \A b \in Seq(Byte), i \in Nat : \A short :
                 At(b, i, ClientProps(kinds, p)) /\ Whole(p) =>
                 SectionRead(kinds, b, i, p, i + Len(ClientProps(kinds, p)), short)
<1>1. PICK s \in Seq(Byte) : s = PropBytes(kinds, p)
  BY ClientPropsIs, Zenon
<1>2. PICK n \in Nat : n = Len(s)
  BY LenProperties, Zenon
<1>3. Short(n)
  BY <1>1, <1>2, Zenon
<1>4. PICK c \in Seq(Byte) : c = ClientLength(n)
  BY <1>3, ShortLength, Zenon
<1>5. ClientProps(kinds, p) = c \o s
  BY <1>1, <1>2, <1>4, ClientPropsIs, Zenon
<1>6. PICK m \in Nat : m = Len(c)
  BY LenProperties, Zenon
<1>7. c \o s \in Seq(Byte) /\ Len(c \o s) = m + n
  BY <1>2, <1>6, Joined, Zenon
<1>8. IsFcn(p) /\ DOMAIN p \subseteq Behind(ClientOrder, 0)
  BY Zenon DEF FitProps, IsFcn
<1>9. Only(p, Behind(ClientOrder, 0)) = p
  BY <1>8, OnlyAll, Zenon
<1>10. ASSUME NEW b \in Seq(Byte), NEW i \in Nat, NEW short, At(b, i, c \o s), Whole(p)
       PROVE  SectionRead(kinds, b, i, p, i + Len(c \o s), short)
  <2>1. PICK l \in Nat : l = Len(b)
    BY LenProperties, Zenon
  <2>2. At(b, i, c) /\ At(b, i + m, s)
    BY <1>6, <1>10, <2>1, AtConcat
  <2>3. DecodeLength(b, i) = Ok(n, i + m)
    BY <1>3, <1>4, <1>6, <2>2, ShortLength, Zenon
  <2>4. i + m \in Nat /\ n + (i + m) = i + (m + n) /\ (i + m) + n = i + (m + n)
    OBVIOUS
  <2>5. (i + m) + n <= l
    BY <1>2, <2>1, <2>2, Zenon DEF At
  <2>6. At(b, i + m, PutProperties(ClientOrder, kinds, p)) /\ n = Len(PutProperties(ClientOrder, kinds, p))
    BY <1>1, <1>2, <2>2, Zenon DEF PropBytes
  <2>7. PropertiesCase(kinds, b, DecodeLength(b, i), short) = Ok(Only(p, Behind(ClientOrder, 0)), (i + m) + n)
    <3>1. PICK r : r = DecodeLength(b, i) /\ r = Ok(Len(PutProperties(ClientOrder, kinds, p)), i + m)
      BY <2>3, <2>6, Zenon
    <3>2. PICK o : o = i + m
      OBVIOUS
    <3>3. ClientOrder \in Seq(Byte) /\ Distinct(ClientOrder) /\ Max16 \in Nat /\ U16(Max16)
      <4>1. Max16 \in Nat /\ U16(Max16)
        BY Max16Is
      <4> QED
        BY <4>1, OrdersOK, OrdersDistinct, Zenon
    <3>4. o \in Nat /\ At(b, o, PutProperties(ClientOrder, kinds, p))
          /\ r = Ok(Len(PutProperties(ClientOrder, kinds, p)), o)
      BY <2>4, <2>6, <3>1, <3>2, Zenon
    <3>5. PropertiesCase(kinds, b, r, short)
          = Ok(Only(p, Behind(ClientOrder, 0)), o + Len(PutProperties(ClientOrder, kinds, p)))
      BY <1>10, <3>3, <3>4, ReadSection
    <3> QED
      BY <2>6, <3>1, <3>2, <3>5, Zenon
  <2>8. n + (i + m) <= Len(b)
    BY <2>1, <2>4, <2>5, Zenon
  <2> QED
    BY <1>7, <1>9, <2>3, <2>4, <2>7, <2>8, Zenon DEF SectionRead
<1> QED
  BY <1>5, <1>7, <1>10, Zenon

\* The properties of a CONNECT are read.
LEMMA ConnectPropsRead ==
    ASSUME NEW p, FitProps(Standard(ConnectKinds), p, Max16), 39 \notin DOMAIN p, Whole(p),
           Short(Len(PropBytes(Standard(ConnectKinds), p))),
           NEW b \in Seq(Byte), NEW i \in Nat, At(b, i, ClientProps(Standard(ConnectKinds), p))
    PROVE  ConnectProperties(b, i) = Ok(p, i + Len(ClientProps(Standard(ConnectKinds), p)))
<1>0. FitProps(ConnectKinds, p, Max16)
  BY StandardFits, Zenon
<1>a. PropBytes(Standard(ConnectKinds), p) = PropBytes(ConnectKinds, p)
  BY <1>0, StandardPut, Zenon DEF PropBytes, FitProps
<1>b. ClientProps(Standard(ConnectKinds), p) = ClientProps(ConnectKinds, p)
  BY <1>a, Zenon DEF PropBytes, ClientProps
<1>c. Short(Len(PropBytes(ConnectKinds, p))) /\ At(b, i, ClientProps(ConnectKinds, p))
  BY <1>a, <1>b, Zenon
<1>1. DOMAIN ConnectKinds \subseteq Behind(ClientOrder, 0) /\ TableOK(ConnectKinds)
  BY ByteTables, OrdersDistinct, Zenon
<1>2. SectionRead(ConnectKinds, b, i, p, i + Len(ClientProps(ConnectKinds, p)), Panic)
  BY <1>0, <1>1, <1>c, ClientPropsRead, Zenon
<1> QED
  BY <1>2, <1>b, ConnectPropertiesIs, Zenon DEF SectionRead

\* The properties of a PUBLISH are read.
LEMMA PublishPropsRead ==
    ASSUME NEW p, FitProps(PublishKinds, p, Max16), Whole(p), Short(Len(PropBytes(PublishKinds, p))),
           NEW b \in Seq(Byte), NEW i \in Nat, At(b, i, ClientProps(PublishKinds, p))
    PROVE  PublishProperties(b, i) = Ok(p, i + Len(ClientProps(PublishKinds, p)))
<1>1. PICK e : e = i + Len(ClientProps(PublishKinds, p))
  OBVIOUS
<1>2. SectionRead(PublishKinds, b, i, p, e, Err)
  <2>1. DOMAIN PublishKinds \subseteq Behind(ClientOrder, 0) /\ TableOK(PublishKinds)
    BY ByteTables, OrdersDistinct, Zenon
  <2> QED
    BY <1>1, <2>1, ClientPropsRead, Zenon
<1>3. PICK n \in Nat, j \in Nat :
         /\ DecodeLength(b, i) = Ok(n, j) /\ n + j = e /\ n + j <= Len(b)
         /\ PropertiesCase(PublishKinds, b, DecodeLength(b, i), Err) = Ok(p, e)
  BY <1>2, Zenon DEF SectionRead
<1>4. PICK r : r = DecodeLength(b, i)
  OBVIOUS
<1>5. r.st = "ok" /\ r.v = n /\ r.at = j
  BY <1>3, <1>4 DEF Ok
<1>6. CASE n # 0
  BY <1>1, <1>3, <1>4, <1>5, <1>6, PublishPropertiesIs, Zenon
<1>7. CASE n = 0
  <2>1. PICK l \in Nat : l = Len(b)
    BY LenProperties, Zenon
  <2>2. j + 0 = j /\ n + j = j /\ j <= l /\ ~(l - j < 0) /\ e = j
    BY <1>3, <1>7, <2>1
  <2>3. PropertiesCase(PublishKinds, b, r, Err) = GetProperties(PublishKinds, SubSeq(b, 1, j), j)
    BY <1>5, <1>7, <2>1, <2>2, Zenon DEF PropertiesCase
  <2>4. PICK c : c = SubSeq(b, 1, j)
    OBVIOUS
  <2>5. c \in Seq(Byte) /\ Len(c) = j
    BY <2>1, <2>2, <2>4, PrefixIs, Zenon
  <2>6. GetProperties(PublishKinds, c, j) = Ok(<<>>, j)
    BY <2>5, PropsGoodEnd, TablesOK, Zenon
  <2>7. Ok(p, e) = Ok(<<>>, j)
    BY <1>3, <1>4, <2>3, <2>4, <2>6, Zenon
  <2>8. p = None
    BY <2>7, OkEqual, Zenon DEF None
  <2> QED
    BY <1>1, <1>4, <1>5, <1>7, <2>2, <2>8, PublishPropertiesIs, Zenon
<1> QED
  BY <1>6, <1>7, Zenon


\* The flags of a CONNECT, and its last two parts.
FlagByte(p) == Flag(p.clean, 5) + Flag(p.will, 2) + Flag(p.user, 7) + Flag(p.user, 6)
WillPart(p) == IF p.will THEN << 0 >> \o PutStr(<< 116 >>) \o PutStr(<< 200 >>) ELSE <<>>
UserPart(p) == IF p.user THEN PutStr(<< 117 >>) \o PutStr(<< 201 >>) ELSE <<>>

\* The flags are read.
LEMMA FlagsRead ==
    ASSUME NEW p, p.clean \in BOOLEAN, p.will \in BOOLEAN, p.user \in BOOLEAN
    PROVE  /\ FlagByte(p) \in Byte
           /\ Bit(FlagByte(p), 5) = p.clean /\ Bit(FlagByte(p), 2) = p.will
           /\ Bit(FlagByte(p), 7) = p.user /\ Bit(FlagByte(p), 6) = p.user
<1>1. PICK c, w, u : c = Flag(p.clean, 5) /\ w = Flag(p.will, 2) /\ u = Flag(p.user, 7) + Flag(p.user, 6)
  OBVIOUS
<1>2. /\ (p.clean = TRUE /\ c = 32) \/ (p.clean = FALSE /\ c = 0)
      /\ (p.will = TRUE /\ w = 4) \/ (p.will = FALSE /\ w = 0)
      /\ (p.user = TRUE /\ u = 192) \/ (p.user = FALSE /\ u = 0)
  BY <1>1, SMT DEF Flag
<1>3. FlagByte(p) = c + w + u
  BY <1>1, <1>2, SMT DEF FlagByte, Flag
<1>4. PICK f : f = c + w + u
  OBVIOUS
<1>5. f \in Byte
  BY <1>2, <1>4, ByteIs, SMT
<1>6. /\ Bit(f, 5) <=> (f \div 32) % 2 = 1
      /\ Bit(f, 2) <=> (f \div 4) % 2 = 1
      /\ Bit(f, 7) <=> (f \div 128) % 2 = 1
      /\ Bit(f, 6) <=> (f \div 64) % 2 = 1
  BY SMT DEF Bit
<1>7. /\ Bit(f, 5) <=> p.clean = TRUE
      /\ Bit(f, 2) <=> p.will = TRUE
      /\ Bit(f, 7) <=> p.user = TRUE
      /\ Bit(f, 6) <=> p.user = TRUE
  BY <1>2, <1>4, <1>6, SMT
<1>8. \A n : Bit(f, n) \in BOOLEAN
  BY Zenon DEF Bit
<1> QED
  BY <1>3, <1>4, <1>5, <1>7, <1>8, Zenon

\* Short strings.
LEMMA StringsOK ==
    /\ MQTT \in Seq(Ascii) /\ MQTT \in Seq(Byte) /\ Len(MQTT) = 4 /\ U16(4)
    /\ << 116 >> \in Seq(Ascii) /\ << 116 >> \in Seq(Byte) /\ << 200 >> \in Seq(Byte)
    /\ << 117 >> \in Seq(Ascii) /\ << 117 >> \in Seq(Byte) /\ << 201 >> \in Seq(Byte)
    /\ U16(1)
<1>1. 77 \in Ascii /\ 81 \in Ascii /\ 84 \in Ascii /\ 116 \in Ascii /\ 117 \in Ascii
  BY AsciiIs
<1>2. 77 \in Byte /\ 81 \in Byte /\ 84 \in Byte /\ 116 \in Byte /\ 117 \in Byte /\ 200 \in Byte /\ 201 \in Byte
  BY ByteIs
<1>3. MQTT \in Seq(Ascii) /\ Len(MQTT) = 4
  BY <1>1 DEF MQTT
<1>4. MQTT \in Seq(Byte)
  BY <1>2 DEF MQTT
<1>5. U16(4) /\ U16(1)
  BY SMT DEF U16
<1> QED
  BY <1>1, <1>2, <1>3, <1>4, <1>5

\* A one byte string.
LEMMA OneChar ==
    ASSUME NEW x \in Byte
    PROVE  PutStr(<<x>>) \in Seq(Byte) /\ Len(PutStr(<<x>>)) = 3
<1>1. <<x>> \in Seq(Byte) /\ Len(<<x>>) = 1 /\ 2 + 1 = 3
  OBVIOUS
<1> QED
  BY <1>1, StrBytes, StringsOK, Zenon

\* The will, user name and password.
LEMMA LastParts ==
    ASSUME NEW p
    PROVE  WillPart(p) \in Seq(Byte) /\ UserPart(p) \in Seq(Byte)
<1>1. PutStr(<< 116 >>) \in Seq(Byte) /\ PutStr(<< 200 >>) \in Seq(Byte)
      /\ PutStr(<< 117 >>) \in Seq(Byte) /\ PutStr(<< 201 >>) \in Seq(Byte)
  <2>1. 116 \in Byte /\ 200 \in Byte /\ 117 \in Byte /\ 201 \in Byte
    BY ByteIs
  <2> QED
    BY <2>1, OneChar, ZenonT(60)
<1>2. << 0 >> \in Seq(Byte)
  BY SomeBytes
<1>3. << 0 >> \o PutStr(<< 116 >>) \o PutStr(<< 200 >>) \in Seq(Byte)
  BY <1>1, <1>2, Joined3, ZenonT(60)
<1>4. PutStr(<< 117 >>) \o PutStr(<< 201 >>) \in Seq(Byte)
  BY <1>1, Joined, Zenon
<1> QED
  BY <1>3, <1>4, EmptySeq, Zenon DEF WillPart, UserPart

\* A CONNECT whose fields have their types, with the numbers hidden.
ConnectFits(p) ==
    /\ p.type = "connect" /\ p.level \in Byte /\ p.clean \in BOOLEAN /\ p.will \in BOOLEAN
    /\ p.user \in BOOLEAN /\ U16(p.ka) /\ FitProps(Standard(ConnectKinds), p.props, Max16)
    /\ p.clid \in Texts(Max16) /\ Short(Len(ConnectBody(p)))

\* What comes before and behind the properties.
ConnectFirst(p) == PutStr(MQTT) \o <<p.level>> \o <<FlagByte(p)>> \o PutU16(p.ka)

\* The parts of a CONNECT.
LEMMA ConnectParts ==
    ASSUME NEW p, ConnectFits(p)
    PROVE  /\ PutStr(MQTT) \in Seq(Byte) /\ Len(PutStr(MQTT)) = 6
           /\ <<p.level>> \in Seq(Byte) /\ <<FlagByte(p)>> \in Seq(Byte)
           /\ PutU16(p.ka) \in Seq(Byte) /\ Len(PutU16(p.ka)) = 2
           /\ ConnectFirst(p) \in Seq(Byte) /\ Len(ConnectFirst(p)) = 10
           /\ PutStr(p.clid) \in Seq(Byte) /\ Len(PutStr(p.clid)) = 2 + Len(p.clid)
           /\ ConnectBody(p) = ConnectFirst(p) \o ClientProps(Standard(ConnectKinds), p.props) \o PutStr(p.clid)
                               \o WillPart(p) \o UserPart(p)
           /\ Short(Len(PropBytes(Standard(ConnectKinds), p.props)))
           /\ ClientProps(Standard(ConnectKinds), p.props) \in Seq(Byte)
           /\ ConnectBody(p) \in Seq(Byte)
<1>1. PutStr(MQTT) \in Seq(Byte) /\ Len(PutStr(MQTT)) = 6
  <2>1. 2 + 4 = 6
    OBVIOUS
  <2> QED
    BY <2>1, StringsOK, StrBytes, ZenonT(60)
<1>2. p.level \in Byte /\ FlagByte(p) \in Byte /\ U16(p.ka)
  <2>1. p.level \in Byte /\ U16(p.ka) /\ p.clean \in BOOLEAN /\ p.will \in BOOLEAN /\ p.user \in BOOLEAN
    BY Zenon DEF ConnectFits
  <2>2. FlagByte(p) \in Byte
    BY <2>1, FlagsRead
  <2> QED
    BY <2>1, <2>2, Zenon
<1>3. <<p.level>> \in Seq(Byte) /\ <<FlagByte(p)>> \in Seq(Byte) /\ Len(<<p.level>>) = 1 /\ Len(<<FlagByte(p)>>) = 1
  BY <1>2
<1>4. PutU16(p.ka) \in Seq(Byte) /\ Len(PutU16(p.ka)) = 2
  BY <1>2, U16Bytes
<1>5. ConnectFirst(p) \in Seq(Byte) /\ Len(ConnectFirst(p)) = 6 + 1 + 1 + 2
  <2>1. PICK s \in Seq(Byte), t \in Seq(Byte), u \in Seq(Byte), v \in Seq(Byte) :
          s = PutStr(MQTT) /\ t = <<p.level>> /\ u = <<FlagByte(p)>> /\ v = PutU16(p.ka)
    BY <1>1, <1>3, <1>4, Zenon
  <2>2. s \o t \o u \o v \in Seq(Byte) /\ Len(s \o t \o u \o v) = Len(s) + Len(t) + Len(u) + Len(v)
    <3>1. s \o t \o u \in Seq(Byte) /\ Len(s \o t \o u) = Len(s) + Len(t) + Len(u)
      BY Joined3, Zenon
    <3>2. PICK x \in Seq(Byte) : x = s \o t \o u /\ Len(x) = Len(s) + Len(t) + Len(u)
      BY <3>1, Zenon
    <3>3. x \o v \in Seq(Byte) /\ Len(x \o v) = Len(x) + Len(v)
      BY Joined, Zenon
    <3> QED
      BY <3>2, <3>3, Zenon
  <2>3. ConnectFirst(p) = s \o t \o u \o v
    BY <2>1, Zenon DEF ConnectFirst
  <2> QED
    BY <1>1, <1>3, <1>4, <2>1, <2>2, <2>3, Zenon
<1>6. PutStr(p.clid) \in Seq(Byte) /\ Len(PutStr(p.clid)) = 2 + Len(p.clid)
  BY Max16Is, TextIs DEF ConnectFits
<1>7. ConnectBody(p) = ConnectFirst(p) \o ClientProps(Standard(ConnectKinds), p.props) \o PutStr(p.clid)
                       \o WillPart(p) \o UserPart(p)
  BY Zenon DEF ConnectBody, ConnectFirst, FlagByte, WillPart, UserPart
<1>8. FitProps(Standard(ConnectKinds), p.props, Max16) /\ TableOK(Standard(ConnectKinds))
      /\ DOMAIN Standard(ConnectKinds) \subseteq Behind(ClientOrder, 0)
  BY StandardTables, Zenon DEF ConnectFits
<1>9. PICK a \in Seq(Byte), c \in Seq(Byte), w \in Seq(Byte), u \in Seq(Byte) :
         a = ConnectFirst(p) /\ c = PutStr(p.clid) /\ w = WillPart(p) /\ u = UserPart(p)
  BY <1>5, <1>6, LastParts, Zenon
<1>10. a \in Seq(Nat) /\ c \in Seq(Nat) /\ w \in Seq(Nat) /\ u \in Seq(Nat)
  BY NatSeq, Zenon
<1>11. PICK q \in Seq(Nat) : q = ClientProps(Standard(ConnectKinds), p.props)
  BY <1>8, ClientPropsIs, Zenon
<1>12. PICK x \in Seq(Nat) : x = a \o q /\ Len(q) <= Len(x)
  BY <1>10, NatJoin, Zenon
<1>13. PICK y \in Seq(Nat) : y = x \o c /\ Len(x) <= Len(y)
  BY <1>10, NatJoin, Zenon
<1>14. PICK z \in Seq(Nat) : z = y \o w /\ Len(y) <= Len(z)
  BY <1>10, NatJoin, Zenon
<1>15. Len(z) <= Len(z \o u) /\ Len(z \o u) \in Nat
  BY <1>10, NatJoin, Zenon
<1>16. ConnectBody(p) = z \o u
  BY <1>7, <1>9, <1>11, <1>12, <1>13, <1>14, Zenon
<1>17. Short(Len(z \o u))
  BY <1>16, Zenon DEF ConnectFits
<1>18. Len(PropBytes(Standard(ConnectKinds), p.props)) <= Len(q) /\ Len(PropBytes(Standard(ConnectKinds), p.props)) \in Nat
  BY <1>8, <1>11, ClientPropsIs, Zenon
<1>19. Short(Len(PropBytes(Standard(ConnectKinds), p.props)))
  <2>1. PICK n1 \in Nat, n2 \in Nat, n3 \in Nat, n4 \in Nat, n5 \in Nat, n6 \in Nat :
          /\ n1 = Len(PropBytes(Standard(ConnectKinds), p.props)) /\ n2 = Len(q) /\ n3 = Len(x) /\ n4 = Len(y)
          /\ n5 = Len(z) /\ n6 = Len(z \o u)
    BY <1>15, <1>18, LenProperties, Zenon
  <2>2. n1 <= n2 /\ n2 <= n3 /\ n3 <= n4 /\ n4 <= n5 /\ n5 <= n6 /\ Short(n6)
    BY <1>12, <1>13, <1>14, <1>15, <1>17, <1>18, <2>1, Zenon
  <2>3. Short(n1)
    BY <2>2, SMT DEF Short
  <2> QED
    BY <2>1, <2>3, Zenon
<1>20. ClientProps(Standard(ConnectKinds), p.props) \in Seq(Byte)
  BY <1>8, <1>19, ClientPropsRead, Zenon
<1>21. ConnectBody(p) \in Seq(Byte)
  <2>1. PICK s \in Seq(Byte) : s = ClientProps(Standard(ConnectKinds), p.props)
    BY <1>20, Zenon
  <2>2. a \o s \o c \o w \o u \in Seq(Byte)
    BY Joined5, Zenon
  <2> QED
    BY <1>7, <1>9, <2>1, <2>2, Zenon
<1>22. 6 + 1 + 1 + 2 = 10
  OBVIOUS
<1> QED
  BY <1>1, <1>3, <1>4, <1>5, <1>6, <1>7, <1>19, <1>20, <1>21, <1>22, Zenon


\* Properties in a body that is not too long.
LEMMA ShortProps ==
    ASSUME NEW kinds, TableOK(kinds), DOMAIN kinds \subseteq Behind(ClientOrder, 0),
           NEW p, FitProps(kinds, p, Max16), NEW a \in Seq(Byte), NEW z \in Seq(Byte),
           Short(Len(a \o ClientProps(kinds, p) \o z))
    PROVE  /\ Short(Len(PropBytes(kinds, p))) /\ ClientProps(kinds, p) \in Seq(Byte)
           /\ a \o ClientProps(kinds, p) \o z \in Seq(Byte)
<1>1. a \in Seq(Nat) /\ z \in Seq(Nat)
  BY NatSeq, Zenon
<1>2. PICK q \in Seq(Nat) : q = ClientProps(kinds, p)
  BY ClientPropsIs, Zenon
<1>3. PICK x \in Seq(Nat) : x = a \o q /\ Len(q) <= Len(x)
  BY <1>1, NatJoin, Zenon
<1>4. Len(x) <= Len(x \o z) /\ Len(x \o z) \in Nat
  BY <1>1, NatJoin, Zenon
<1>5. Len(PropBytes(kinds, p)) <= Len(q) /\ Len(PropBytes(kinds, p)) \in Nat
  BY <1>2, ClientPropsIs, Zenon
<1>6. Short(Len(PropBytes(kinds, p)))
  <2>1. PICK n1 \in Nat, n2 \in Nat, n3 \in Nat, n4 \in Nat :
          n1 = Len(PropBytes(kinds, p)) /\ n2 = Len(q) /\ n3 = Len(x) /\ n4 = Len(x \o z)
    BY <1>4, <1>5, LenProperties, Zenon
  <2>2. n1 <= n2 /\ n2 <= n3 /\ n3 <= n4 /\ Short(n4)
    BY <1>2, <1>3, <1>4, <1>5, <2>1, Zenon
  <2>3. Short(n1)
    BY <2>2, SMT DEF Short
  <2> QED
    BY <2>1, <2>3, Zenon
<1>7. ClientProps(kinds, p) \in Seq(Byte)
  BY <1>6, ClientPropsRead, Zenon
<1>8. PICK s \in Seq(Byte) : s = ClientProps(kinds, p)
  BY <1>7, Zenon
<1>9. a \o s \o z \in Seq(Byte)
  BY Joined3, Zenon
<1> QED
  BY <1>6, <1>8, <1>9, Zenon

\* A PUBLISH whose fields have their types, with the numbers hidden.
PublishFits(p) ==
    /\ p.type = "publish"
    /\ p = [type |-> "publish", dup |-> p.dup, qos |-> p.qos, retain |-> p.retain, topic |-> p.topic,
            id |-> p.id, props |-> p.props, payload |-> p.payload]
    /\ p.dup \in BOOLEAN /\ p.retain \in BOOLEAN /\ p.topic \in Texts(Max16)
    /\ \/ p.qos = 0 /\ p.id = None
       \/ p.qos \in {1, 2} /\ p.id = <<p.id[1]>> /\ U16(p.id[1])
    /\ FitProps(PublishKinds, p.props, Max16) /\ Whole(p.props)
    /\ p.payload \in Seq(Byte) /\ Short(Len(PublishBody(p)))

\* The parts of a PUBLISH.
LEMMA PublishParts ==
    ASSUME NEW p, PublishFits(p)
    PROVE  /\ PutStr(p.topic) \in Seq(Byte) /\ IdPart(p) \in Seq(Byte) /\ p.payload \in Seq(Byte)
           /\ Len(PutStr(p.topic)) = 2 + Len(p.topic)
           /\ PublishBody(p) = PutStr(p.topic) \o IdPart(p) \o ClientProps(PublishKinds, p.props) \o p.payload
           /\ Short(Len(PropBytes(PublishKinds, p.props)))
           /\ ClientProps(PublishKinds, p.props) \in Seq(Byte)
           /\ PublishBody(p) \in Seq(Byte)
<1>1. p.topic \in Texts(Max16) /\ p.payload \in Seq(Byte) /\ FitProps(PublishKinds, p.props, Max16)
      /\ Short(Len(PublishBody(p)))
  BY Zenon DEF PublishFits
<1>2. PutStr(p.topic) \in Seq(Byte) /\ Len(PutStr(p.topic)) = 2 + Len(p.topic)
  BY <1>1, Max16Is, TextIs
<1>3. IdPart(p) \in Seq(Byte)
  <2>1. CASE p.id = None
    BY <2>1, EmptySeq, Zenon DEF IdPart
  <2>2. CASE p.id # None
    <3>1. U16(p.id[1])
      BY <2>2, Zenon DEF PublishFits
    <3>2. PutU16(p.id[1]) \in Seq(Byte)
      BY <3>1, U16Bytes
    <3> QED
      BY <2>2, <3>2, Zenon DEF IdPart
  <2> QED
    BY <2>1, <2>2, Zenon
<1>4. PublishBody(p) = PutStr(p.topic) \o IdPart(p) \o ClientProps(PublishKinds, p.props) \o p.payload
  BY Zenon DEF PublishBody, IdPart
<1>5. PICK a \in Seq(Byte) : a = PutStr(p.topic) \o IdPart(p)
  BY <1>2, <1>3, Joined, Zenon
<1>6. PICK z \in Seq(Byte) : z = p.payload
  BY <1>1, Zenon
<1>7. TableOK(PublishKinds) /\ DOMAIN PublishKinds \subseteq Behind(ClientOrder, 0)
  BY ByteTables, OrdersDistinct, Zenon
<1>8. PublishBody(p) = a \o ClientProps(PublishKinds, p.props) \o z
  BY <1>4, <1>5, <1>6, Zenon
<1>9. Short(Len(a \o ClientProps(PublishKinds, p.props) \o z))
  BY <1>1, <1>8, Zenon
<1>10. /\ Short(Len(PropBytes(PublishKinds, p.props))) /\ ClientProps(PublishKinds, p.props) \in Seq(Byte)
       /\ a \o ClientProps(PublishKinds, p.props) \o z \in Seq(Byte)
  BY <1>1, <1>7, <1>9, ShortProps, Zenon
<1> QED
  BY <1>1, <1>2, <1>3, <1>4, <1>8, <1>10, Zenon

\* The options of a subscription, and what is written for topic filters.
Options == {o \in Byte : o % 4 # 3}
FilterParts(l) == [n \in DOMAIN l |-> PutStr(l[n][1]) \o <<l[n][2]>>]

\* A SUBSCRIBE whose fields have their types, with the numbers hidden.
SubscribeFits(p) ==
    /\ p.type = "subscribe" /\ U16(p.id) /\ FitProps(PublishKinds, p.props, Max16)
    /\ p.list \in Seq(Texts(Max16) \X Options) /\ Short(Len(SubscribeBody(p)))

\* Topic filters are bytes.
LEMMA FilterBytes ==
    ASSUME NEW l \in Seq(Texts(Max16) \X Options)
    PROVE  /\ FilterParts(l) \in Seq(Seq(Byte)) /\ Len(FilterParts(l)) = Len(l)
           /\ \A k \in 1 .. Len(l) : /\ l[k][1] \in Texts(Max16) /\ l[k][2] \in Options
                                     /\ FilterParts(l)[k] = PutStr(l[k][1]) \o <<l[k][2]>>
           /\ FlattenSeq(FilterParts(l)) \in Seq(Byte)
<1>1. PICK n \in Nat : n = Len(l)
  BY LenProperties, Zenon
<1>2. DOMAIN l = 1 .. n
  BY <1>1, LenProperties, Zenon
<1>3. ASSUME NEW k \in 1 .. n
      PROVE  l[k][1] \in Texts(Max16) /\ l[k][2] \in Options
  <2>1. l[k] \in Texts(Max16) \X Options
    BY <1>1, ElementOfSeq, Zenon
  <2>2. PICK T, O : T = Texts(Max16) /\ O = Options
    OBVIOUS
  <2>3. l[k] \in T \X O
    BY <2>1, <2>2, Zenon
  <2>4. l[k][1] \in T /\ l[k][2] \in O
    BY <2>3
  <2> QED
    BY <2>2, <2>4, Zenon
<1>4. PICK s : s = FilterParts(l)
  OBVIOUS
<1>5. IsFcn(s) /\ DOMAIN s = 1 .. n /\ \A k \in 1 .. n : s[k] = PutStr(l[k][1]) \o <<l[k][2]>>
  BY <1>2, <1>4, Zenon DEF FilterParts, IsFcn
<1>6. ASSUME NEW k \in 1 .. n PROVE s[k] \in Seq(Byte)
  <2>1. PutStr(l[k][1]) \in Seq(Byte)
    BY <1>3, Max16Is, TextIs
  <2>2. l[k][2] \in Byte
    BY <1>3, Zenon DEF Options
  <2>3. <<l[k][2]>> \in Seq(Byte)
    BY <2>2
  <2> QED
    BY <1>5, <2>1, <2>3, Joined, Zenon
<1>7. s \in Seq(Seq(Byte)) /\ Len(s) = n
  BY <1>5, <1>6, FcnSeq, Zenon
<1>8. FlattenSeq(s) \in Seq(Byte)
  <2>1. n \in 0 .. n
    OBVIOUS
  <2> QED
    BY <1>7, <2>1, FlatIs, Zenon
<1> QED
  BY <1>1, <1>3, <1>4, <1>5, <1>7, <1>8, Zenon

\* The parts of a SUBSCRIBE.
LEMMA SubscribeParts ==
    ASSUME NEW p, SubscribeFits(p)
    PROVE  /\ PutU16(p.id) \in Seq(Byte) /\ Len(PutU16(p.id)) = 2
           /\ FlattenSeq(FilterParts(p.list)) \in Seq(Byte)
           /\ SubscribeBody(p) = PutU16(p.id) \o ClientProps(PublishKinds, p.props)
                                 \o FlattenSeq(FilterParts(p.list))
           /\ Short(Len(PropBytes(PublishKinds, p.props)))
           /\ ClientProps(PublishKinds, p.props) \in Seq(Byte)
           /\ SubscribeBody(p) \in Seq(Byte)
<1>1. p.list \in Seq(Texts(Max16) \X Options) /\ U16(p.id) /\ FitProps(PublishKinds, p.props, Max16)
      /\ Short(Len(SubscribeBody(p)))
  BY Zenon DEF SubscribeFits
<1>2. PutU16(p.id) \in Seq(Byte) /\ Len(PutU16(p.id)) = 2
  BY <1>1, U16Bytes
<1>3. FlattenSeq(FilterParts(p.list)) \in Seq(Byte)
  BY <1>1, FilterBytes, Zenon
<1>4. SubscribeBody(p) = PutU16(p.id) \o ClientProps(PublishKinds, p.props) \o FlattenSeq(FilterParts(p.list))
  BY Zenon DEF SubscribeBody, FilterParts
<1>5. PICK a \in Seq(Byte), z \in Seq(Byte) : a = PutU16(p.id) /\ z = FlattenSeq(FilterParts(p.list))
  BY <1>2, <1>3, Zenon
<1>7. TableOK(PublishKinds) /\ DOMAIN PublishKinds \subseteq Behind(ClientOrder, 0)
  BY ByteTables, OrdersDistinct, Zenon
<1>8. SubscribeBody(p) = a \o ClientProps(PublishKinds, p.props) \o z
  BY <1>4, <1>5, Zenon
<1>9. Short(Len(a \o ClientProps(PublishKinds, p.props) \o z))
  BY <1>1, <1>8, Zenon
<1>10. /\ Short(Len(PropBytes(PublishKinds, p.props))) /\ ClientProps(PublishKinds, p.props) \in Seq(Byte)
       /\ a \o ClientProps(PublishKinds, p.props) \o z \in Seq(Byte)
  BY <1>1, <1>7, <1>9, ShortProps, Zenon
<1> QED
  BY <1>2, <1>3, <1>4, <1>8, <1>10, Zenon


-----------------------------------------------------------------------------
(* A packet of a client, whole or cut *)

\* The buffer b begins with a packet of the header byte h, whose body begins at i.
InFrame(b, h, body, i) ==
    /\ b[1] = h /\ i \in Nat /\ i >= 2 /\ DecodeLength(b, 1) = Ok(Len(body), i) /\ At(b, i, body)
    /\ i + Len(body) = Len(Framed(h, body)) /\ Len(Framed(h, body)) <= Len(b)

\* One byte.
LEMMA ByteSeq ==
    ASSUME NEW h \in Byte
    PROVE  <<h>> \in Seq(Byte) /\ Len(<<h>>) = 1 /\ <<h>>[1] = h
OBVIOUS

\* Such a packet has n bytes behind the m bytes c of its length.
FrameParts(h, body, c, n, m) ==
    /\ n = Len(body) /\ c = ClientLength(n) /\ m = Len(c) /\ m \in 1 .. 2
    /\ Framed(h, body) = <<h>> \o c \o body
    /\ Framed(h, body) \in Seq(Byte) /\ Len(Framed(h, body)) = (1 + m) + n
    /\ (m = 2 => c[1] >= 128) /\ Short(n)

\* The three parts of a packet.
LEMMA FramedIs ==
    ASSUME NEW h \in Byte, NEW body \in Seq(Byte), Short(Len(body))
    PROVE  \E c \in Seq(Byte), n \in Nat, m \in Nat : FrameParts(h, body, c, n, m)
<1>1. PICK n \in Nat : n = Len(body)
  BY LenProperties, Zenon
<1>2. Short(n)
  BY <1>1, Zenon
<1>3. PICK c \in Seq(Byte) : c = ClientLength(n) /\ Len(c) \in 1 .. 2
  BY <1>2, ShortLength, Zenon
<1>4. PICK m \in Nat : m = Len(c)
  BY LenProperties, Zenon
<1>5. m = 2 => c[1] >= 128
  <2>1. CASE n < 128
    <3>1. c = <<n>>
      BY <1>3, <2>1, Zenon DEF ClientLength
    <3>2. Len(<<n>>) = 1
      OBVIOUS
    <3> QED
      BY <1>4, <3>1, <3>2
  <2>2. CASE ~(n < 128)
    <3>1. c = <<128 + (n % 128), n \div 128>>
      BY <1>3, <2>2, Zenon DEF ClientLength
    <3>2. 128 + (n % 128) >= 128
      OBVIOUS
    <3> QED
      BY <3>1, <3>2
  <2> QED
    BY <2>1, <2>2, Zenon
<1>6. PICK x \in Seq(Byte) : x = <<h>> /\ Len(x) = 1
  BY ByteSeq, Zenon
<1>7. x \o c \o body \in Seq(Byte) /\ Len(x \o c \o body) = Len(x) + Len(c) + Len(body)
  BY Joined3, Zenon
<1>8. Framed(h, body) = x \o c \o body
  BY <1>1, <1>3, <1>6, Zenon DEF Framed
<1>9. Framed(h, body) \in Seq(Byte) /\ Len(Framed(h, body)) = (1 + m) + n
  BY <1>1, <1>4, <1>6, <1>7, <1>8, Zenon
<1>10. Framed(h, body) = <<h>> \o c \o body
  BY <1>6, <1>8, Zenon
<1> QED
  BY <1>1, <1>2, <1>3, <1>4, <1>5, <1>9, <1>10, Zenon DEF FrameParts

\* A packet is made of bytes, two at least.
LEMMA FramedBytes ==
    ASSUME NEW h \in Byte, NEW body \in Seq(Byte), Short(Len(body))
    PROVE  Framed(h, body) \in Seq(Byte) /\ Len(Framed(h, body)) \in Nat /\ Len(Framed(h, body)) >= 2
<1>1. PICK c \in Seq(Byte), n \in Nat, m \in Nat : FrameParts(h, body, c, n, m)
  BY FramedIs, Zenon
<1>2. \A x \in Nat, y \in 1 .. 2 : (1 + y) + x \in Nat /\ (1 + y) + x >= 2
  OBVIOUS
<1> QED
  BY <1>1, <1>2, Zenon DEF FrameParts

\* A whole packet: its length is read, and its body begins behind it.
LEMMA FrameRead ==
    ASSUME NEW h \in Byte, NEW body \in Seq(Byte), Short(Len(body)),
           NEW b \in Seq(Byte), At(b, 0, Framed(h, body))
    PROVE  \E i \in Nat : InFrame(b, h, body, i)
<1>0. PICK c \in Seq(Byte), n \in Nat, m \in Nat : FrameParts(h, body, c, n, m)
  BY FramedIs, Zenon
<1>1. /\ n = Len(body) /\ c = ClientLength(n) /\ m = Len(c) /\ m \in 1 .. 2
      /\ Framed(h, body) = <<h>> \o c \o body /\ Len(Framed(h, body)) = (1 + m) + n /\ Short(n)
  BY <1>0, Zenon DEF FrameParts
<1>2. PICK x \in Seq(Byte) : x = <<h>> /\ Len(x) = 1 /\ x[1] = h
  BY ByteSeq, Zenon
<1>3. PICK l \in Nat : l = Len(b)
  BY LenProperties, Zenon
<1>4. At(b, 0, x \o c \o body)
  BY <1>1, <1>2, Zenon
<1>5. 0 \in Nat /\ 0 + 1 = 1 /\ 1 \in Nat /\ 1 \in 1 .. 1
  OBVIOUS
<1>6. At(b, 0, x) /\ At(b, 0 + Len(x), c) /\ At(b, 0 + Len(x) + Len(c), body)
  BY <1>4, <1>5, AtThree, Zenon
<1>7. At(b, 1, c) /\ At(b, 1 + m, body)
  BY <1>1, <1>2, <1>5, <1>6, Zenon
<1>8. b[1] = h
  BY <1>2, <1>5, <1>6, Zenon DEF At
<1>9. DecodeLength(b, 1) = Ok(n, 1 + m)
  BY <1>1, <1>5, <1>7, ShortLength, ZenonT(60)
<1>10. 1 + m \in Nat /\ 1 + m >= 2
  <2>1. \A y \in 1 .. 2 : 1 + y \in Nat /\ 1 + y >= 2
    OBVIOUS
  <2> QED
    BY <1>1, <2>1, Zenon
<1>11. Len(Framed(h, body)) <= Len(b)
  <2>1. 0 + ((1 + m) + n) <= Len(b)
    BY <1>1, Zenon DEF At
  <2>2. 0 + ((1 + m) + n) = (1 + m) + n
    OBVIOUS
  <2> QED
    BY <1>1, <2>1, <2>2, Zenon
<1> QED
  BY <1>1, <1>7, <1>8, <1>9, <1>10, <1>11, Zenon DEF InFrame

\* The buffer b holds some of the bytes s, but not all.
IsCut(b, s) == b \in Seq(Byte) /\ Len(b) >= 1 /\ Len(b) < Len(s) /\ \A k \in 1 .. Len(b) : b[k] = s[k]

\* What the decoders notice of a packet that is cut.
TooShort(b, r) == r.st # "ok" \/ Len(b) - r.at < r.v

\* A packet that is cut has no length, or one that is too large.
LEMMA FrameCut ==
    ASSUME NEW h \in Byte, NEW body \in Seq(Byte), Short(Len(body)), NEW b, IsCut(b, Framed(h, body))
    PROVE  b[1] = h /\ TooShort(b, DecodeLength(b, 1))
<1>0. PICK c \in Seq(Byte), n \in Nat, m \in Nat : FrameParts(h, body, c, n, m)
  BY FramedIs, Zenon
<1>1. /\ n = Len(body) /\ c = ClientLength(n) /\ m = Len(c) /\ m \in 1 .. 2
      /\ Framed(h, body) = <<h>> \o c \o body /\ Framed(h, body) \in Seq(Byte)
      /\ Len(Framed(h, body)) = (1 + m) + n /\ (m = 2 => c[1] >= 128) /\ Short(n)
  BY <1>0, Zenon DEF FrameParts
<1>2. PICK x \in Seq(Byte) : x = <<h>> /\ Len(x) = 1 /\ x[1] = h
  BY ByteSeq, Zenon
<1>3. PICK f \in Seq(Byte) : f = Framed(h, body)
  BY <1>1, Zenon
<1>4. PICK l \in Nat : l = Len(b)
  BY LenProperties, Zenon DEF IsCut
<1>5. b \in Seq(Byte) /\ l >= 1 /\ l < (1 + m) + n /\ \A k \in 1 .. l : b[k] = f[k]
  BY <1>1, <1>3, <1>4, Zenon DEF IsCut
<1>6. 0 \in Nat /\ 0 + 1 = 1 /\ 1 \in Nat /\ 1 \in 1 .. 1 /\ 1 \in 1 .. l
  BY <1>5
<1>7. At(f, 0, x \o c \o body)
  BY <1>1, <1>2, <1>3, AtSelf, Zenon
<1>8. At(f, 0, x) /\ At(f, 0 + Len(x), c)
  BY <1>6, <1>7, AtThree, Zenon
<1>9. f[1] = h /\ \A k \in 1 .. m : f[1 + k] = c[k]
  BY <1>1, <1>2, <1>6, <1>8, Zenon DEF At
<1>10. b[1] = h
  BY <1>5, <1>6, <1>9, Zenon
<1>11. CASE 1 + m <= l
  <2>1. \A k \in 1 .. m : 1 + k \in 1 .. l
    BY <1>11
  <2>2. At(b, 1, c)
    BY <1>1, <1>4, <1>5, <1>9, <1>11, <2>1, Zenon DEF At
  <2>3. DecodeLength(b, 1) = Ok(n, 1 + m)
    BY <1>1, <1>5, <1>6, <2>2, ShortLength, ZenonT(60)
  <2>4. PICK r, j : r = DecodeLength(b, 1) /\ j = 1 + m
    OBVIOUS
  <2>5. r.v = n /\ r.at = j
    BY <2>3, <2>4 DEF Ok
  <2>6. l - (1 + m) < n
    BY <1>5, <1>11
  <2> QED
    BY <1>4, <1>10, <2>4, <2>5, <2>6, Zenon DEF TooShort
<1>12. CASE ~(1 + m <= l)
  <2>1. ASSUME NEW k \in 1 .. l - 1 PROVE b[1 + k] \in Nat /\ b[1 + k] >= 128
    <3>1. k = 1 /\ m = 2 /\ 1 + k \in 1 .. l /\ k \in 1 .. m
      <4>1. \A y \in 1 .. 2, z \in Nat : ~(1 + y <= z) => \A j \in 1 .. z - 1 :
                j = 1 /\ y = 2 /\ 1 + j \in 1 .. z /\ j \in 1 .. y
        OBVIOUS
      <4> QED
        BY <1>1, <1>12, <4>1, Zenon
    <3>2. b[1 + k] = c[1] /\ c[1] >= 128
      BY <1>1, <1>5, <1>9, <3>1, Zenon
    <3>3. c[1] \in Nat
      <4>1. c[1] \in Byte
        BY <1>1, <3>1, ElementOfSeq, Zenon
      <4> QED
        BY <4>1, ByteIs
    <3> QED
      BY <3>2, <3>3, Zenon
  <2>2. DecodeLength(b, 1).st # "ok"
    BY <1>4, <1>6, <2>1, DecodeLengthCut, Zenon
  <2> QED
    BY <1>10, <2>2, Zenon DEF TooShort
<1> QED
  BY <1>11, <1>12, Zenon


\* A buffer holds five sequences that follow one another.
LEMMA AtFive ==
    ASSUME NEW b \in Seq(Byte), NEW i \in Nat, NEW s \in Seq(Byte), NEW t \in Seq(Byte),
           NEW u \in Seq(Byte), NEW v \in Seq(Byte), NEW w \in Seq(Byte), At(b, i, s \o t \o u \o v \o w)
    PROVE  /\ At(b, i, s) /\ At(b, i + Len(s), t) /\ At(b, i + Len(s) + Len(t), u)
           /\ At(b, i + Len(s) + Len(t) + Len(u), v)
           /\ At(b, i + Len(s) + Len(t) + Len(u) + Len(v), w)
<1>1. s \o t \in Seq(Byte) /\ Len(s \o t) = Len(s) + Len(t)
  BY Joined, Zenon
<1>2. PICK c \in Seq(Byte) : c = s \o t /\ Len(c) = Len(s) + Len(t)
  BY <1>1, Zenon
<1>3. At(b, i, c \o u \o v \o w)
  BY <1>2, Zenon
<1>4. /\ At(b, i, c) /\ At(b, i + Len(c), u)
      /\ At(b, i + Len(c) + Len(u), v) /\ At(b, i + Len(c) + Len(u) + Len(v), w)
  <2>1. PICK d \in Seq(Byte) : d = c \o u \o v
    BY Joined3, Zenon
  <2>2. At(b, i, d \o w)
    BY <1>3, <2>1, Zenon
  <2> QED
    BY <1>3, AtFour, Zenon
<1>5. Len(b) \in Nat
  BY LenProperties, Zenon
<1>6. At(b, i, s \o t)
  BY <1>2, <1>4, Zenon
<1>7. At(b, i, s) /\ At(b, i + Len(s), t)
  BY <1>5, <1>6, AtConcat, Zenon
<1>8. i + Len(c) = i + Len(s) + Len(t)
  <2>1. PICK k \in Nat, l \in Nat : k = Len(s) /\ l = Len(t)
    BY LenProperties, Zenon
  <2>2. i + (k + l) = i + k + l
    OBVIOUS
  <2> QED
    BY <1>2, <2>1, <2>2, Zenon
<1> QED
  BY <1>4, <1>7, <1>8, Zenon

\* Two fields are read.
LEMMA BothRead ==
    ASSUME NEW k \in FieldKinds, NEW l \in FieldKinds, NEW b, NEW i, NEW j, NEW e, NEW x, NEW y,
           GetField(k, b, i) = Ok(x, j), GetField(l, b, j) = Ok(y, e)
    PROVE  GetFields(<<k, l>>, b, i) = Ok(<<x, y>>, e)
<1>1. PICK r : r = GetField(k, b, i)
  OBVIOUS
<1>2. r.st = "ok" /\ r.v = x /\ r.at = j
  BY <1>1 DEF Ok
<1>3. PICK q : q = GetField(l, b, r.at)
  OBVIOUS
<1>4. q.st = "ok" /\ q.v = y /\ q.at = e
  BY <1>2, <1>3 DEF Ok
<1>5. GetFields(<<k, l>>, b, i) = IF r.st = "ok" THEN IF q.st = "ok" THEN Ok(<<r.v, q.v>>, q.at) ELSE q ELSE r
  BY <1>1, <1>3, Fields2
<1> QED
  BY <1>2, <1>4, <1>5, Zenon

\* A byte and a u16 are read.
LEMMA TwoNumbers ==
    ASSUME NEW b \in Seq(Byte), NEW i \in Nat, NEW x \in Byte, NEW v, U16(v),
           At(b, i, <<x>>), At(b, i + 1, PutU16(v))
    PROVE  GetFields(<<"u8", "u16">>, b, i) = Ok(<<x, v>>, i + 3)
<1>1. i + 1 \in Nat /\ (i + 1) + 2 = i + 3
  OBVIOUS
<1>2. GetField("u8", b, i) = Ok(x, i + 1)
  BY FieldU8, Zenon
<1>3. GetField("u16", b, i + 1) = Ok(v, i + 3)
  BY <1>1, FieldU16, Zenon
<1>4. "u8" \in FieldKinds /\ "u16" \in FieldKinds
  BY Zenon DEF FieldKinds, Kinds
<1> QED
  BY <1>2, <1>3, <1>4, BothRead

\* A string and bytes are read.
LEMMA TwoStrings ==
    ASSUME NEW b \in Seq(Byte), NEW i \in Nat, NEW s \in Seq(Ascii), U16(Len(s)), s \in Seq(Byte),
           NEW t \in Seq(Byte), U16(Len(t)), At(b, i, PutStr(s) \o PutStr(t))
    PROVE  GetFields(<<"str", "bin">>, b, i) = Ok(<<s, t>>, i + Len(PutStr(s) \o PutStr(t)))
<1>1. PICK x \in Seq(Byte), y \in Seq(Byte) :
         x = PutStr(s) /\ y = PutStr(t) /\ Len(x) = 2 + Len(s) /\ Len(y) = 2 + Len(t)
  BY StrBytes, Zenon
<1>2. PICK k \in Nat, l \in Nat : k = Len(s) /\ l = Len(t)
  BY LenProperties, Zenon
<1>3. Len(x \o y) = Len(x) + Len(y)
  BY Joined, Zenon
<1>4. Len(b) \in Nat
  BY LenProperties, Zenon
<1>5. At(b, i, x \o y)
  BY <1>1, Zenon
<1>6. At(b, i, x) /\ At(b, i + Len(x), y)
  BY <1>4, <1>5, AtConcat, Zenon
<1>7. PICK j \in Nat, e \in Nat : j = i + 2 + k /\ e = j + 2 + l
  OBVIOUS
<1>8. i + (2 + k) = j /\ i + ((2 + k) + (2 + l)) = e
  BY <1>7
<1>9. GetStr("str", b, i) = Ok(s, j)
  <2>1. At(b, i, PutStr(s))
    BY <1>1, <1>6, Zenon
  <2>2. GetStr("str", b, i) = Ok(s, i + 2 + Len(s))
    BY <2>1, TextAt
  <2> QED
    BY <1>2, <1>7, <2>2, Zenon
<1>10. GetStr("bin", b, j) = Ok(t, e)
  <2>1. At(b, j, PutStr(t))
    BY <1>1, <1>2, <1>6, <1>8, Zenon
  <2> QED
    <3>1. GetStr("bin", b, j) = Ok(t, j + 2 + Len(t))
      BY <2>1, StrAt
    <3> QED
      BY <1>2, <1>7, <3>1, Zenon
<1>11. "str" \in FieldKinds /\ "bin" \in FieldKinds
  BY Zenon DEF FieldKinds, Kinds
<1>12. GetField("str", b, i) = Ok(s, j) /\ GetField("bin", b, j) = Ok(t, e)
  BY <1>9, <1>10, GetFieldIs, Zenon
<1>16. GetFields(<<"str", "bin">>, b, i) = Ok(<<s, t>>, e)
  BY <1>11, <1>12, BothRead
<1>17. i + Len(PutStr(s) \o PutStr(t)) = e
  BY <1>1, <1>2, <1>3, <1>8, Zenon
<1> QED
  BY <1>16, <1>17, Zenon

\* No properties.
LEMMA NoConnectProps ==
    ASSUME NEW b \in Seq(Byte), NEW i \in Nat, At(b, i, << 0 >>)
    PROVE  ConnectProperties(b, i) = Ok(<<>>, i + 1)
<1>1. PICK l \in Nat : l = Len(b)
  BY LenProperties, Zenon
<1>2. 0 \in Nat /\ 0 < 128 /\ i + 1 \in Nat /\ (i + 1) + 0 = i + 1
  OBVIOUS
<1>3. DecodeLength(b, i) = Ok(0, i + 1)
  BY <1>1, <1>2, OneByte, Zenon
<1>4a. PICK r : r = DecodeLength(b, i)
  OBVIOUS
<1>4. PICK j \in Nat : r = DecodeLength(b, i) /\ j = i + 1
  BY <1>4a, <1>2, Zenon
<1>5. r.st = "ok" /\ r.v = 0 /\ r.at = j
  BY <1>3, <1>4 DEF Ok
<1>6. i + 1 <= l
  <2>1. Len(<< 0 >>) = 1
    OBVIOUS
  <2> QED
    BY <1>1, <2>1, Zenon DEF At
<1>7. ~(l - j < 0) /\ j <= l /\ j + 0 = j
  BY <1>4, <1>6
<1>8. PICK c : c = SubSeq(b, 1, j)
  OBVIOUS
<1>9. c \in Seq(Byte) /\ Len(c) = j
  BY <1>1, <1>7, <1>8, PrefixIs, Zenon
<1>10. GetProperties(ConnectKinds, c, j) = Ok(<<>>, j)
  BY <1>9, PropsGoodEnd, TablesOK, Zenon
<1>11. PropertiesCase(ConnectKinds, b, r, Panic) = GetProperties(ConnectKinds, c, j)
  BY <1>1, <1>5, <1>7, <1>8, Zenon DEF PropertiesCase
<1> QED
  BY <1>4, <1>10, <1>11, ConnectPropertiesIs, Zenon

\* The strings of the will, the user name and the password.
LEMMA ShortStrings ==
    /\ << 116 >> \in Seq(Ascii) /\ << 116 >> \in Seq(Byte) /\ U16(Len(<< 116 >>))
    /\ << 117 >> \in Seq(Ascii) /\ << 117 >> \in Seq(Byte) /\ U16(Len(<< 117 >>))
    /\ << 200 >> \in Seq(Byte) /\ U16(Len(<< 200 >>)) /\ << 201 >> \in Seq(Byte) /\ U16(Len(<< 201 >>))
<1>1. \A x : Len(<<x>>) = 1
  OBVIOUS
<1> QED
  BY <1>1, StringsOK

\* The topic and payload of the will.
LEMMA WillText ==
    ASSUME NEW b \in Seq(Byte), NEW j \in Nat, At(b, j, PutStr(<< 116 >>) \o PutStr(<< 200 >>))
    PROVE  GetFields(<<"str", "bin">>, b, j)
           = Ok(<<<< 116 >>, << 200 >>>>, j + Len(PutStr(<< 116 >>) \o PutStr(<< 200 >>)))
<1>1. PICK d, e : d = << 116 >> /\ e = << 200 >>
  OBVIOUS
<1>2. d \in Seq(Ascii) /\ d \in Seq(Byte) /\ U16(Len(d)) /\ e \in Seq(Byte) /\ U16(Len(e))
  BY <1>1, ShortStrings, Zenon
<1>3. At(b, j, PutStr(d) \o PutStr(e))
  BY <1>1, Zenon
<1>4. GetFields(<<"str", "bin">>, b, j) = Ok(<<d, e>>, j + Len(PutStr(d) \o PutStr(e)))
  BY <1>2, <1>3, TwoStrings
<1> QED
  BY <1>1, <1>4, Zenon

\* The will is read, if there is one.
LEMMA WillRead ==
    ASSUME NEW p, p.will \in BOOLEAN, NEW f, Bit(f[1], 2) = p.will,
           NEW b \in Seq(Byte), NEW i \in Nat, At(b, i, WillPart(p))
    PROVE  \E v : WillOf(f, b, i) = Ok(v, i + Len(WillPart(p)))
<1>1. CASE p.will = FALSE
  <2>1. WillPart(p) = <<>>
    BY <1>1, Zenon DEF WillPart
  <2>2. i + Len(<<>>) = i
    OBVIOUS
  <2>3. WillOf(f, b, i) = Ok(<<>>, i)
    BY <1>1, Zenon DEF WillOf
  <2> QED
    BY <2>1, <2>2, <2>3, Zenon
<1>2. CASE p.will = TRUE
  <2>1. PICK x \in Seq(Byte), s \in Seq(Byte), t \in Seq(Byte) :
           x = << 0 >> /\ s = PutStr(<< 116 >>) /\ t = PutStr(<< 200 >>)
    <3>1. 0 \in Byte /\ 116 \in Byte /\ 200 \in Byte
      BY ByteIs
    <3> QED
      BY <3>1, ByteSeq, OneChar, Zenon
  <2>2. WillPart(p) = x \o s \o t
    BY <1>2, <2>1, Zenon DEF WillPart
  <2>3. x \o s \o t = x \o (s \o t)
    BY Regroup2, ZenonT(60) DEF Group2
  <2>4. PICK y \in Seq(Byte) : y = s \o t
    BY Joined, Zenon
  <2>5. WillPart(p) = x \o y
    BY <2>2, <2>3, <2>4, Zenon
  <2>6. Len(x) = 1
    BY <2>1
  <2>7. Len(x \o y) = 1 + Len(y) /\ Len(y) \in Nat
    BY <2>6, Joined, Zenon
  <2>8. At(b, i, x) /\ At(b, i + 1, y)
    <3>1. Len(b) \in Nat
      BY LenProperties, Zenon
    <3> QED
      BY <2>5, <2>6, <3>1, AtConcat, Zenon
  <2>9. ConnectProperties(b, i) = Ok(<<>>, i + 1)
    BY <2>1, <2>8, NoConnectProps, Zenon
  <2>10a. PICK r : r = ConnectProperties(b, i)
    OBVIOUS
  <2>10. PICK j \in Nat : r = ConnectProperties(b, i) /\ j = i + 1
    <3>1. i + 1 \in Nat
      OBVIOUS
    <3> QED
      BY <2>10a, <3>1, Zenon
  <2>11. r.st = "ok" /\ r.at = j
    BY <2>9, <2>10 DEF Ok
  <2>12. GetFields(<<"str", "bin">>, b, j) = Ok(<<<< 116 >>, << 200 >>>>, j + Len(y))
    <3>1. At(b, j, PutStr(<< 116 >>) \o PutStr(<< 200 >>))
      BY <2>1, <2>4, <2>8, <2>10, Zenon
    <3>2. GetFields(<<"str", "bin">>, b, j)
          = Ok(<<<< 116 >>, << 200 >>>>, j + Len(PutStr(<< 116 >>) \o PutStr(<< 200 >>)))
      BY <3>1, WillText
    <3>3. PutStr(<< 116 >>) \o PutStr(<< 200 >>) = y
      BY <2>1, <2>4, Zenon
    <3> QED
      BY <3>2, <3>3, Zenon
  <2>13. SkipWill(b, i) = GetFields(<<"str", "bin">>, b, j)
    BY <2>10, <2>11, SkipWillIs, Zenon
  <2>14. \A k \in Nat : (i + 1) + k = i + (1 + k)
    OBVIOUS
  <2>15. j + Len(y) = i + Len(WillPart(p))
    BY <2>5, <2>7, <2>10, <2>14, Zenon
  <2>16. WillOf(f, b, i) = SkipWill(b, i)
    BY <1>2, Zenon DEF WillOf
  <2> QED
    BY <2>12, <2>13, <2>15, <2>16, Zenon
<1> QED
  BY <1>1, <1>2, Zenon

\* The user name and password are read, if there are any.
LEMMA UserRead ==
    ASSUME NEW p, p.user \in BOOLEAN, NEW f, Bit(f[1], 7) = p.user, Bit(f[1], 6) = p.user,
           NEW b \in Seq(Byte), NEW i \in Nat, At(b, i, UserPart(p))
    PROVE  \E v : GetFields(UserKinds(f), b, i) = Ok(v, i + Len(UserPart(p)))
<1>1. CASE p.user = FALSE
  <2>1. UserPart(p) = <<>>
    BY <1>1, Zenon DEF UserPart
  <2>2. i + Len(<<>>) = i
    OBVIOUS
  <2>3. UserKinds(f) = <<>> \o <<>>
    BY <1>1, Zenon DEF UserKinds
  <2>4. <<>> \o <<>> = <<>>
    BY EmptySeq, ConcatEmptySeq, Zenon
  <2> QED
    BY <2>1, <2>2, <2>3, <2>4, Fields0, Zenon
<1>2. CASE p.user = TRUE
  <2>1. UserKinds(f) = <<"str">> \o <<"bin">>
    BY <1>2, Zenon DEF UserKinds
  <2>2. <<"str">> \o <<"bin">> = <<"str", "bin">>
    <3>1. Append(<<"str">>, "bin") = <<"str">> \o <<"bin">>
      OBVIOUS
    <3> QED
      BY <3>1, AppendTuple, Zenon
  <2>3. UserPart(p) = PutStr(<< 117 >>) \o PutStr(<< 201 >>)
    BY <1>2, Zenon DEF UserPart
  <2>4a. PICK d, e : d = << 117 >> /\ e = << 201 >>
    OBVIOUS
  <2>4. /\ d \in Seq(Ascii) /\ d \in Seq(Byte) /\ U16(Len(d))
       /\ e \in Seq(Byte) /\ U16(Len(e))
    BY <2>4a, ShortStrings, Zenon
  <2>5. At(b, i, PutStr(d) \o PutStr(e)) /\ UserPart(p) = PutStr(d) \o PutStr(e)
    BY <2>3, <2>4a, Zenon
  <2>6. GetFields(<<"str", "bin">>, b, i) = Ok(<<d, e>>, i + Len(PutStr(d) \o PutStr(e)))
    BY <2>4, <2>5, TwoStrings
  <2> QED
    BY <2>1, <2>2, <2>5, <2>6, Zenon
<1> QED
  BY <1>1, <1>2, Zenon


\* What is made of a CONNECT.
ConnectOf(p) == [type |-> "connect", clean |-> p.clean, ka |-> p.ka, props |-> p.props, clid |-> p.clid]

\* The payload of a CONNECT is read.
LEMMA PayloadRead ==
    ASSUME NEW p, ConnectFits(p), NEW b \in Seq(Byte), NEW i \in Nat, NEW j \in Nat, NEW k \in Nat,
           At(b, i, PutStr(p.clid)), j = i + Len(PutStr(p.clid)), At(b, j, WillPart(p)),
           k = j + Len(WillPart(p)), At(b, k, UserPart(p))
    PROVE  \E e : ConnectPayload(<<FlagByte(p), p.ka>>, p.props, b, i) = Ok(ConnectOf(p), e)
<1>1. PICK f : f = <<FlagByte(p), p.ka>>
  OBVIOUS
<1>2. f[1] = FlagByte(p) /\ f[2] = p.ka
  BY <1>1
<1>3. p.clean \in BOOLEAN /\ p.will \in BOOLEAN /\ p.user \in BOOLEAN /\ p.clid \in Texts(Max16)
  BY Zenon DEF ConnectFits
<1>4. /\ Bit(f[1], 5) = p.clean /\ Bit(f[1], 2) = p.will
      /\ Bit(f[1], 7) = p.user /\ Bit(f[1], 6) = p.user
  <2>1. /\ Bit(FlagByte(p), 5) = p.clean /\ Bit(FlagByte(p), 2) = p.will
        /\ Bit(FlagByte(p), 7) = p.user /\ Bit(FlagByte(p), 6) = p.user
    BY <1>3, FlagsRead
  <2> QED
    BY <1>2, <2>1, Zenon
<1>5. p.clid \in Seq(Ascii) /\ U16(Len(p.clid)) /\ Len(PutStr(p.clid)) = 2 + Len(p.clid) /\ Len(p.clid) \in Nat
  BY <1>3, Max16Is, TextIs
<1>6. GetStr("str", b, i) = Ok(p.clid, j)
  <2>1. PICK s \in Seq(Ascii), n \in Nat : s = p.clid /\ U16(Len(s)) /\ n = Len(s)
    BY <1>5, Zenon
  <2>2. At(b, i, PutStr(s))
    BY <2>1, Zenon
  <2>0. U16(Len(s))
    BY <2>1, Zenon
  <2>3. GetStr("str", b, i) = Ok(s, i + 2 + Len(s))
    BY <2>0, <2>2, TextAt
  <2>4. i + 2 + n = i + (2 + n)
    OBVIOUS
  <2> QED
    BY <1>5, <2>1, <2>3, <2>4, Zenon
<1>7. \E v : WillOf(f, b, j) = Ok(v, k)
  <2>1. p.will \in BOOLEAN /\ Bit(f[1], 2) = p.will
    BY <1>3, <1>4, Zenon
  <2>2. \E v : WillOf(f, b, j) = Ok(v, j + Len(WillPart(p)))
    BY <2>1, WillRead
  <2> QED
    BY <2>2, Zenon
<1>8. PICK v : WillOf(f, b, j) = Ok(v, k)
  BY <1>7, Zenon
<1>9. \E x : GetFields(UserKinds(f), b, k) = Ok(x, k + Len(UserPart(p)))
  <2>1. p.user \in BOOLEAN /\ Bit(f[1], 7) = p.user /\ Bit(f[1], 6) = p.user
    BY <1>3, <1>4, Zenon
  <2> QED
    BY <2>1, UserRead
<1>10. PICK x, e : GetFields(UserKinds(f), b, k) = Ok(x, e)
  BY <1>9, Zenon
<1>11. PICK r : r = GetStr("str", b, i)
  OBVIOUS
<1>12. r.st = "ok" /\ r.v = p.clid /\ r.at = j
  BY <1>6, <1>11 DEF Ok
<1>13. PICK w : w = WillOf(f, b, r.at)
  OBVIOUS
<1>14. w.st = "ok" /\ w.at = k
  BY <1>8, <1>12, <1>13 DEF Ok
<1>15. PICK u : u = GetFields(UserKinds(f), b, w.at)
  OBVIOUS
<1>16. u.st = "ok" /\ u.at = e
  BY <1>10, <1>14, <1>15 DEF Ok
<1>17. ConnectPayload(f, p.props, b, i) = PayloadCase(f, p.props, r, w, u)
  BY <1>11, <1>13, <1>15, ConnectPayloadIs, Zenon
<1>18. PayloadCase(f, p.props, r, w, u) = Ok(ConnectOf(p), e)
  BY <1>2, <1>4, <1>12, <1>14, <1>16, Zenon DEF PayloadCase, ConnectOf
<1> QED
  BY <1>1, <1>17, <1>18, Zenon

\* The number of a table with few entries.
LEMMA ConnectWhole ==
    ASSUME NEW p, FitProps(Standard(ConnectKinds), p, Max16)
    PROVE  Whole(p)
<1>1. DOMAIN p \subseteq DOMAIN ConnectKinds
  BY StandardIs, Zenon DEF FitProps
<1>2. 11 \notin DOMAIN ConnectKinds
  BY DEF ConnectKinds
<1> QED
  BY <1>1, <1>2, Zenon DEF Whole

\* A CONNECT is read unless it is of another version, and is refused then.  (One with
\* a maximum packet size may be misread.)
LEMMA ConnectRead ==
    ASSUME NEW p, ConnectFits(p), 39 \notin DOMAIN p.props, NEW b \in Seq(Byte), At(b, 0, Framed(16, ConnectBody(p)))
    PROVE  /\ p.level = 5 => \E e : DecodeConnect(b) = Ok(ConnectOf(p), e)
           /\ p.level # 5 => DecodeConnect(b) = Err
<1>1. PICK a \in Seq(Byte), q \in Seq(Byte), c \in Seq(Byte), w \in Seq(Byte), u \in Seq(Byte) :
         /\ a = ConnectFirst(p) /\ q = ClientProps(Standard(ConnectKinds), p.props) /\ c = PutStr(p.clid)
         /\ w = WillPart(p) /\ u = UserPart(p)
  BY ConnectParts, LastParts, Zenon
<1>2. ConnectBody(p) \in Seq(Byte) /\ Short(Len(ConnectBody(p))) /\ ConnectBody(p) = a \o q \o c \o w \o u
      /\ Len(a) = 10
  BY <1>1, ConnectParts, Zenon DEF ConnectFits
<1>3. \E i \in Nat : InFrame(b, 16, ConnectBody(p), i)
  <2>1. PICK h, t : h = 16 /\ t = ConnectBody(p)
    OBVIOUS
  <2>2. h \in Byte /\ t \in Seq(Byte) /\ Short(Len(t)) /\ At(b, 0, Framed(h, t))
    BY <1>2, <2>1, SomeBytes, Zenon
  <2>3. \E i \in Nat : InFrame(b, h, t, i)
    BY <2>2, FrameRead
  <2> QED
    BY <2>1, <2>3, Zenon
<1>4. PICK i \in Nat : InFrame(b, 16, ConnectBody(p), i)
  BY <1>3, Zenon
<1>5. /\ b[1] = 16 /\ DecodeLength(b, 1) = Ok(Len(ConnectBody(p)), i) /\ At(b, i, a \o q \o c \o w \o u)
      /\ i + Len(ConnectBody(p)) <= Len(b)
  BY <1>2, <1>4, Zenon DEF InFrame
<1>6. /\ At(b, i, a) /\ At(b, i + Len(a), q) /\ At(b, i + Len(a) + Len(q), c)
      /\ At(b, i + Len(a) + Len(q) + Len(c), w) /\ At(b, i + Len(a) + Len(q) + Len(c) + Len(w), u)
  BY <1>5, AtFive, Zenon
<1>7. PICK lq \in Nat, lc \in Nat, lw \in Nat : lq = Len(q) /\ lc = Len(c) /\ lw = Len(w)
  BY LenProperties, Zenon
<1>8. PICK j1 \in Nat, j2 \in Nat, j3 \in Nat, j4 \in Nat :
         j1 = i + 10 /\ j2 = j1 + lq /\ j3 = j2 + lc /\ j4 = j3 + lw
  OBVIOUS
<1>9. At(b, j1, q) /\ At(b, j2, c) /\ At(b, j3, w) /\ At(b, j4, u)
  BY <1>2, <1>6, <1>7, <1>8, Zenon
<1>10. PICK n \in Nat, l \in Nat : n = Len(ConnectBody(p)) /\ l = Len(b)
  BY <1>2, LenProperties, Zenon
<1>11. ~(l - i < n)
  <2>1. i + n <= l
    BY <1>5, <1>10, Zenon
  <2> QED
    BY <2>1
<1>12. b # <<>>
  <2>1. l # 0
    <3>1. i + n <= l /\ i >= 2
      BY <1>4, <1>5, <1>10, Zenon DEF InFrame
    <3> QED
      BY <3>1
  <2>2. Len(<<>>) = 0
    OBVIOUS
  <2> QED
    BY <1>10, <2>1, <2>2, Zenon
<1>13. DecodeConnect(b) = ConnectProtocol(b, i)
  <2>1. PICK r : r = DecodeLength(b, 1)
    OBVIOUS
  <2>2. r = Ok(n, i)
    BY <1>5, <1>10, <2>1, Zenon
  <2>3. r.st = "ok" /\ r.v = n /\ r.at = i
    BY <2>2 DEF Ok
  <2>4. b[1] \div 16 = 1
    <3>1. 16 \div 16 = 1
      OBVIOUS
    <3> QED
      BY <1>5, <3>1, Zenon
  <2>5. DecodeConnect(b) = IF b[1] \div 16 # 1 THEN Err
                           ELSE IF r.st # "ok" THEN r
                           ELSE IF Len(b) - r.at < r.v THEN Err ELSE ConnectProtocol(b, r.at)
    BY <1>12, <2>1, DecodeConnectIs, Zenon
  <2> QED
    BY <1>10, <1>11, <2>3, <2>4, <2>5, Zenon
<1>14. /\ At(b, i, PutStr(MQTT)) /\ At(b, i + 6, <<p.level>>)
       /\ At(b, i + 7, <<FlagByte(p)>>) /\ At(b, i + 8, PutU16(p.ka))
  <2>1. PICK s \in Seq(Byte), t \in Seq(Byte), y \in Seq(Byte), z \in Seq(Byte) :
           s = PutStr(MQTT) /\ t = <<p.level>> /\ y = <<FlagByte(p)>> /\ z = PutU16(p.ka) /\ Len(s) = 6
    BY ConnectParts, Zenon
  <2>2. Len(t) = 1 /\ Len(y) = 1
    <3>1. \A x : Len(<<x>>) = 1
      OBVIOUS
    <3> QED
      BY <2>1, <3>1, Zenon
  <2>3. a = s \o t \o y \o z
    BY <1>1, <2>1, Zenon DEF ConnectFirst
  <2>4. At(b, i, s \o t \o y \o z)
    BY <1>6, <2>3, Zenon
  <2>5. At(b, i, s) /\ At(b, i + Len(s), t) /\ At(b, i + Len(s) + Len(t), y)
        /\ At(b, i + Len(s) + Len(t) + Len(y), z)
    BY <2>4, AtFour, Zenon
  <2>6. i + 6 + 1 = i + 7 /\ i + 7 + 1 = i + 8
    BY SMTT(30)
  <2> QED
    BY <2>1, <2>2, <2>5, <2>6, Zenon
<1>15. GetStr("str", b, i) = Ok(MQTT, i + 6)
  <2>1. PICK s \in Seq(Ascii) : s = MQTT /\ Len(s) = 4 /\ U16(Len(s))
    BY StringsOK, Zenon
  <2>a. U16(Len(s)) /\ At(b, i, PutStr(s))
    BY <1>14, <2>1, Zenon
  <2>2. GetStr("str", b, i) = Ok(s, i + 2 + Len(s))
    BY <2>a, TextAt
  <2>3. i + 2 + 4 = i + 6
    OBVIOUS
  <2> QED
    BY <2>1, <2>2, <2>3, Zenon
<1>16. i + 6 \in Nat /\ (i + 6) + 1 = i + 7 /\ i + 7 \in Nat /\ (i + 7) + 1 = i + 8 /\ (i + 7) + 3 = i + 10
  OBVIOUS
<1>17. GetFixed(1, b, i + 6) = Ok(p.level, i + 7)
  <2>1. p.level \in Byte
    BY Zenon DEF ConnectFits
  <2> QED
    <3>1. PICK o \in Nat : o = i + 6
      BY <1>16, Zenon
    <3>2. GetField("u8", b, o) = Ok(p.level, o + 1)
      BY <1>14, <2>1, <3>1, FieldU8, Zenon
    <3> QED
      BY <1>16, <3>1, <3>2, GetFieldIs, Zenon
<1>18. PICK r, g : r = GetStr("str", b, i) /\ g = GetFixed(1, b, i + 6)
  OBVIOUS
<1>19. r.st = "ok" /\ r.v = MQTT /\ r.at = i + 6
  BY <1>15, <1>18 DEF Ok
<1>20. g.st = "ok" /\ g.v = p.level /\ g.at = i + 7
  BY <1>17, <1>18, SMTT(30) DEF Ok
<1>21. ConnectProtocol(b, i) = IF p.level # 5 THEN Err ELSE ConnectHeader(b, i + 7)
  BY <1>18, <1>19, <1>20, ConnectProtocolIs, Zenon
<1>22. GetFields(<<"u8", "u16">>, b, i + 7) = Ok(<<FlagByte(p), p.ka>>, j1)
  <2>1. FlagByte(p) \in Byte /\ U16(p.ka)
    <3>1. p.clean \in BOOLEAN /\ p.will \in BOOLEAN /\ p.user \in BOOLEAN /\ U16(p.ka)
      BY Zenon DEF ConnectFits
    <3> QED
      BY <3>1, FlagsRead
  <2> QED
    <3>1a. PICK v : v = p.ka
      OBVIOUS
    <3>1. PICK o \in Nat, x \in Byte : o = i + 7 /\ x = FlagByte(p) /\ v = p.ka /\ U16(v)
      BY <3>1a, <1>16, <2>1, Zenon
    <3>2. At(b, o, <<x>>) /\ At(b, o + 1, PutU16(v))
      BY <1>14, <1>16, <3>1, Zenon
    <3>3. U16(v)
      BY <3>1, Zenon
    <3>4. GetFields(<<"u8", "u16">>, b, o) = Ok(<<x, v>>, o + 3)
      BY <3>2, <3>3, TwoNumbers
    <3> QED
      BY <1>8, <1>16, <3>1, <3>4, Zenon
<1>23. ConnectProperties(b, j1) = Ok(p.props, j2)
  <2>1. FitProps(Standard(ConnectKinds), p.props, Max16) /\ Short(Len(PropBytes(Standard(ConnectKinds), p.props)))
    BY ConnectParts, Zenon DEF ConnectFits
  <2>2. Whole(p.props)
    BY <2>1, ConnectWhole, Zenon
  <2> QED
    BY <1>1, <1>7, <1>8, <1>9, <2>1, <2>2, ConnectPropsRead, ZenonT(60)
<1>24. \E e : ConnectPayload(<<FlagByte(p), p.ka>>, p.props, b, j2) = Ok(ConnectOf(p), e)
  <2>1. /\ At(b, j2, PutStr(p.clid)) /\ j3 = j2 + Len(PutStr(p.clid)) /\ At(b, j3, WillPart(p))
        /\ j4 = j3 + Len(WillPart(p)) /\ At(b, j4, UserPart(p))
    BY <1>1, <1>7, <1>8, <1>9, Zenon
  <2> QED
    BY <2>1, PayloadRead, SMTT(30)
<1>25. ConnectHeader(b, i + 7) = ConnectPayload(<<FlagByte(p), p.ka>>, p.props, b, j2)
  <2>1. PICK f, y : f = GetFields(<<"u8", "u16">>, b, i + 7) /\ y = <<FlagByte(p), p.ka>>
    OBVIOUS
  <2>2. f.st = "ok" /\ f.v = y /\ f.at = j1
    BY <1>22, <2>1, SMTT(30) DEF Ok
  <2>3. PICK z : z = ConnectProperties(b, f.at)
    OBVIOUS
  <2>4. z.st = "ok" /\ z.v = p.props /\ z.at = j2
    BY <1>23, <2>2, <2>3 DEF Ok
  <2> QED
    BY <2>1, <2>2, <2>3, <2>4, ConnectHeaderIs, Zenon
<1> QED
  BY <1>13, <1>21, <1>24, <1>25, Zenon


\* A CONNECT that is cut is refused.
LEMMA ConnectCut ==
    ASSUME NEW p, ConnectFits(p), NEW b, IsCut(b, Framed(16, ConnectBody(p)))
    PROVE  DecodeConnect(b).st # "ok"
<1>1. PICK h, t : h = 16 /\ t = ConnectBody(p)
  OBVIOUS
<1>2. h \in Byte /\ t \in Seq(Byte) /\ Short(Len(t)) /\ IsCut(b, Framed(h, t))
  BY <1>1, SomeBytes, ConnectParts, Zenon DEF ConnectFits
<1>3. TooShort(b, DecodeLength(b, 1))
  BY <1>2, FrameCut
<1>4. PICK r : r = DecodeLength(b, 1)
  OBVIOUS
<1>5. b # <<>>
  <2>1. Len(b) >= 1
    BY Zenon DEF IsCut
  <2> QED
    BY <2>1
<1>6. DecodeConnect(b) = IF b[1] \div 16 # 1 THEN Err
                         ELSE IF r.st # "ok" THEN r
                         ELSE IF Len(b) - r.at < r.v THEN Err ELSE ConnectProtocol(b, r.at)
  BY <1>4, <1>5, DecodeConnectIs, Zenon
<1> QED
  BY <1>3, <1>4, <1>6, NotOk, Zenon DEF TooShort

\* The text s is a topic.
IsTopic(s) == s \in Seq(Ascii) /\ s \in Seq(Byte) /\ U16(Len(s))

\* The packet identifier belongs to the service level.
IdOK(p) ==
    \/ p.qos = 0 /\ p.id = None
    \/ p.qos \in {1, 2} /\ p.id = <<p.id[1]>> /\ U16(p.id[1])

\* The topic and packet identifier of a PUBLISH are read.
LEMMA PubFieldsRead ==
    ASSUME NEW p, IsTopic(p.topic), IdOK(p), NEW b \in Seq(Byte), NEW i \in Nat, DecodeLength(b, 1).at = i,
           QosOf(b) = p.qos, At(b, i, PutStr(p.topic)), NEW j \in Nat, j = i + Len(PutStr(p.topic)),
           At(b, j, IdPart(p)), NEW k \in Nat, k = j + Len(IdPart(p))
    PROVE  \E v : PubFields(b) = Ok(v, k) /\ v[1] = p.topic /\ Tail(v) = p.id
<1>1. PICK s \in Seq(Ascii) : s = p.topic
  BY Zenon DEF IsTopic
<1>2. U16(Len(s)) /\ s \in Seq(Byte) /\ At(b, i, PutStr(s))
  BY <1>1, Zenon DEF IsTopic
<1>3. GetStr("str", b, i) = Ok(s, i + 2 + Len(s))
  BY <1>2, TextAt
<1>4. GetStr("str", b, i) = Ok(s, j)
  <2>1. Len(PutStr(s)) = 2 + Len(s) /\ Len(s) \in Nat
    BY <1>2, StrBytes, LenProperties, Zenon
  <2>2. \A n \in Nat : i + 2 + n = i + (2 + n)
    OBVIOUS
  <2> QED
    BY <1>1, <1>3, <2>1, <2>2, Zenon
<1>5. PICK r : r = GetField("str", b, i) /\ r = Ok(s, j)
  BY <1>4, GetFieldIs, Zenon
<1>6. "str" \in FieldKinds /\ "u16" \in FieldKinds
  BY Zenon DEF FieldKinds, Kinds
<1>7. CASE p.qos = 0 /\ p.id = None
  <2>1. PubFields(b) = GetFields(<<"str">>, b, i)
    <3>1. ~(0 > 0)
      OBVIOUS
    <3> QED
      BY <1>7, <3>1, Zenon DEF PubFields
  <2>2. r.st = "ok" /\ r.v = s /\ r.at = j
    BY <1>5 DEF Ok
  <2>3. GetFields(<<"str">>, b, i) = IF r.st = "ok" THEN Ok(<<r.v>>, r.at) ELSE r
    BY <1>5, <1>6, Fields1
  <2>4. IdPart(p) = <<>>
    BY <1>7, Zenon DEF IdPart
  <2>5. j + Len(<<>>) = j
    OBVIOUS
  <2>6. PubFields(b) = Ok(<<s>>, k)
    BY <2>1, <2>2, <2>3, <2>4, <2>5, Zenon
  <2>7. <<s>>[1] = s
    OBVIOUS
  <2> QED
    BY <1>1, <1>7, <2>6, <2>7, TailIs, Zenon DEF None
<1>8. CASE p.qos \in {1, 2} /\ p.id = <<p.id[1]>> /\ U16(p.id[1])
  <2>1. PubFields(b) = GetFields(<<"str", "u16">>, b, i)
    <3>1. 1 > 0 /\ 2 > 0
      OBVIOUS
    <3>2. p.qos > 0
      BY <1>8, <3>1, Zenon
    <3> QED
      BY <3>2, Zenon DEF PubFields
  <2>2. PICK x : x = p.id[1]
    OBVIOUS
  <2>3. U16(x) /\ p.id = <<x>>
    BY <1>8, <2>2, Zenon
  <2>4. p.id # None
    <3>1. <<x>> # <<>>
      OBVIOUS
    <3> QED
      BY <2>3, <3>1, Zenon DEF None
  <2>5. IdPart(p) = PutU16(x)
    BY <2>2, <2>4, Zenon DEF IdPart
  <2>6. Len(PutU16(x)) = 2
    BY <2>3, U16Bytes
  <2>7. k = j + 2 /\ At(b, j, PutU16(x))
    BY <2>5, <2>6, Zenon
  <2>8. GetField("u16", b, j) = Ok(x, j + 2)
    BY <2>3, <2>7, FieldU16
  <2>9. GetField("str", b, i) = Ok(s, j) /\ GetField("u16", b, j) = Ok(x, k)
    BY <1>5, <2>7, <2>8, Zenon
  <2>10. GetFields(<<"str", "u16">>, b, i) = Ok(<<s, x>>, k)
    BY <1>6, <2>9, BothRead
  <2>11. <<s, x>>[1] = s
    OBVIOUS
  <2> QED
    BY <1>1, <2>1, <2>3, <2>10, <2>11, TailIs, ZenonT(60)
<1> QED
  BY <1>7, <1>8, Zenon DEF IdOK

\* A message with the header byte h.
MessageWith(h, p, q, payload) ==
    [type |-> "publish", dup |-> Bit(h, 3), qos |-> p.qos, retain |-> Bit(h, 0),
     topic |-> p.topic, id |-> p.id, props |-> q, payload |-> payload]

\* A PUBLISH whose parts are read.
LEMMA PublishGives ==
    ASSUME NEW p, IsTopic(p.topic), IdOK(p), NEW b \in Seq(Byte), Len(b) >= 2,
           NEW n \in Nat, NEW i \in Nat, DecodeLength(b, 1) = Ok(n, i), i + n <= Len(b),
           QosOf(b) = p.qos, At(b, i, PutStr(p.topic)), NEW j \in Nat, j = i + Len(PutStr(p.topic)),
           At(b, j, IdPart(p)), NEW k \in Nat, k = j + Len(IdPart(p)),
           NEW q, NEW e, PublishProperties(b, k) = Ok(q, e)
    PROVE  DecodePublish(b) = Ok(MessageWith(b[1], p, q, SubSeq(b, e + 1, Len(b))), Len(b))
<1>1. PICK r : r = DecodeLength(b, 1)
  OBVIOUS
<1>2. r.st = "ok" /\ r.v = n /\ r.at = i
  BY <1>1 DEF Ok
<1>3. DecodeLength(b, 1).at = i
  BY <1>1, <1>2, Zenon
<1>4. \E v : PubFields(b) = Ok(v, k) /\ v[1] = p.topic /\ Tail(v) = p.id
  BY <1>3, PubFieldsRead
<1>5. PICK v : PubFields(b) = Ok(v, k) /\ v[1] = p.topic /\ Tail(v) = p.id
  BY <1>4, Zenon
<1>6. PICK f : f = PubFields(b)
  OBVIOUS
<1>7. f.st = "ok" /\ f.v = v /\ f.at = k
  BY <1>5, <1>6 DEF Ok
<1>8. PICK g : g = PubProps(b)
  OBVIOUS
<1>9. g = Ok(q, e)
  BY <1>6, <1>7, <1>8, Zenon DEF PubProps
<1>10. g.st = "ok" /\ g.v = q /\ g.at = e
  BY <1>9 DEF Ok
<1>11. PICK l \in Nat : l = Len(b)
  BY LenProperties, Zenon
<1>12. ~(l < 2) /\ ~(l - i < n)
  BY <1>11
<1>13. QosOf(b) # 3
  <2>1. 0 # 3 /\ 1 # 3 /\ 2 # 3
    OBVIOUS
  <2> QED
    BY <2>1, Zenon DEF IdOK
<1>14. DecodePublish(b) = PublishCase(b, r, f, g)
  BY <1>1, <1>6, <1>8, DecodePublishIs, Zenon
<1>15. PublishCase(b, r, f, g) = Ok(MessageOf(b, f, g), l)
  BY <1>2, <1>7, <1>10, <1>11, <1>12, <1>13, Zenon DEF PublishCase
<1>16. MessageOf(b, f, g) = MessageWith(b[1], p, q, SubSeq(b, e + 1, Len(b)))
  BY <1>5, <1>7, <1>10, Zenon DEF MessageOf, MessageWith
<1> QED
  BY <1>11, <1>14, <1>15, <1>16, Zenon

\* The header byte of a PUBLISH.
HeaderOf(dup, qos, retain) == 48 + Flag(dup, 3) + 2 * qos + Flag(retain, 0)

\* The flags and service level in it are read.
LEMMA HeaderRead ==
    ASSUME NEW dup \in BOOLEAN, NEW retain \in BOOLEAN, NEW qos \in {0, 1, 2},
           NEW h, h = HeaderOf(dup, qos, retain)
    PROVE  /\ h \in Byte /\ h \div 16 = 3 /\ (h \div 2) % 4 = qos
           /\ Bit(h, 3) = dup /\ Bit(h, 0) = retain
<1>1. PICK d, r : d = Flag(dup, 3) /\ r = Flag(retain, 0)
  OBVIOUS
<1>2. /\ (dup = TRUE /\ d = 8) \/ (dup = FALSE /\ d = 0)
      /\ (retain = TRUE /\ r = 1) \/ (retain = FALSE /\ r = 0)
  BY <1>1, SMT DEF Flag
<1>3. h = 48 + d + 2 * qos + r
  BY <1>1, Zenon DEF HeaderOf
<1>4. h \in Nat /\ h < 256 /\ h \div 16 = 3 /\ (h \div 2) % 4 = qos
  BY <1>2, <1>3, SMT
<1>5. (Bit(h, 3) <=> (h \div 8) % 2 = 1) /\ (Bit(h, 0) <=> (h \div 1) % 2 = 1)
  BY SMT DEF Bit
<1>6. (Bit(h, 3) <=> dup = TRUE) /\ (Bit(h, 0) <=> retain = TRUE)
  <2>1. \A x \in {0, 8}, q \in {0, 1, 2}, y \in {0, 1} : \A z :
           z = 48 + x + 2 * q + y
           => ((z \div 8) % 2 = 1 <=> x = 8) /\ ((z \div 1) % 2 = 1 <=> y = 1)
    BY SMT
  <2>2. d \in {0, 8} /\ r \in {0, 1}
    BY <1>2
  <2>3. ((h \div 8) % 2 = 1 <=> d = 8) /\ ((h \div 1) % 2 = 1 <=> r = 1)
    BY <1>3, <2>1, <2>2
  <2> QED
    BY <1>2, <1>5, <2>3, SMT
<1>7. \A n : Bit(h, n) \in BOOLEAN
  BY Zenon DEF Bit
<1>8. h \in Byte
  BY <1>4, ByteIs
<1> QED
  BY <1>4, <1>6, <1>7, <1>8, Zenon


\* The decoder is chosen by the upper half of the first byte.
LEMMA DecodeIs ==
    ASSUME NEW b
    PROVE  /\ b[1] \div 16 = 8 => Decode(b) = DecodeSubscribe(b)
           /\ b[1] \div 16 = 3 => Decode(b) = DecodePublish(b)
           /\ b[1] \div 16 = 12 => Decode(b) = Ok([type |-> "pingreq"], Len(b))
           /\ b[1] \div 16 \notin {3, 8, 12} => Decode(b) = Err
<1>1. PICK r, q, p : r = DecodeSubscribe(b) /\ q = DecodePublish(b) /\ p = Ok([type |-> "pingreq"], Len(b))
  OBVIOUS
<1>2. PICK t : t = b[1] \div 16
  OBVIOUS
<1>3. Decode(b) = CASE t = 8 -> r [] t = 3 -> q [] t = 12 -> p [] OTHER -> Err
  BY <1>1, <1>2, Zenon DEF Decode
<1>4. (t = 8 => Decode(b) = r) /\ (t = 3 => Decode(b) = q) /\ (t = 12 => Decode(b) = p)
      /\ (t \notin {3, 8, 12} => Decode(b) = Err)
  BY <1>3
<1> QED
  BY <1>1, <1>2, <1>4, Zenon

\* The bytes of b behind e are s and then those behind m.
IsRest(b, e, s, m) == SubSeq(b, e + 1, Len(b)) = s \o SubSeq(b, m + 1, Len(b))

\* The bytes behind e are a payload and the rest.
LEMMA PayloadAt ==
    ASSUME NEW b \in Seq(Byte), NEW e \in Nat, NEW s \in Seq(Byte), At(b, e, s),
           NEW m \in Nat, e + Len(s) = m
    PROVE  IsRest(b, e, s, m)
<1>1. PICK l \in Nat, k \in Nat : l = Len(b) /\ k = Len(s)
  BY LenProperties, Zenon
<1>2. e + k <= l /\ m = e + k
  BY <1>1, Zenon DEF At
<1>3. SubSeq(b, e + 1, m) = s
  BY AtSubSeq, Zenon
<1>4. e + 1 \in 1 .. l + 1 /\ m \in (e + 1) - 1 .. l /\ l \in m .. l
  BY <1>2
<1>5. SubSeq(b, e + 1, m) \o SubSeq(b, m + 1, l) = SubSeq(b, e + 1, l)
  BY <1>1, <1>4, ConcatAdjacentSubSeq, Zenon
<1> QED
  BY <1>1, <1>3, <1>5, Zenon DEF IsRest

\* A message with these fields, and with another payload or without two of them.
Record(d, q, r, t, i, pr, pl) ==
    [type |-> "publish", dup |-> d, qos |-> q, retain |-> r, topic |-> t, id |-> i, props |-> pr, payload |-> pl]

\* The names of the fields.
Names == {"type", "dup", "qos", "retain", "topic", "id", "props", "payload"}

\* A message is a function of them.
LEMMA RecordIs ==
    ASSUME NEW d, NEW q, NEW r, NEW t, NEW i, NEW pr, NEW pl, NEW p, p = Record(d, q, r, t, i, pr, pl)
    PROVE  /\ p = [z \in Names |-> p[z]] /\ DOMAIN p = Names
           /\ p["type"] = "publish" /\ p["dup"] = d /\ p["qos"] = q /\ p["retain"] = r
           /\ p["topic"] = t /\ p["id"] = i /\ p["props"] = pr /\ p["payload"] = pl
<1>1. DOMAIN p = Names
  BY DEF Record, Names
<1>2. IsFcn(p)
  BY DEF Record, IsFcn
<1>3. /\ p["type"] = "publish" /\ p["dup"] = d /\ p["qos"] = q /\ p["retain"] = r
      /\ p["topic"] = t /\ p["id"] = i /\ p["props"] = pr /\ p["payload"] = pl
  BY DEF Record
<1> QED
  BY <1>1, <1>2, <1>3, Zenon DEF IsFcn

\* Two functions with one domain and the same values.
LEMMA SameFcn ==
    ASSUME NEW f, NEW g, NEW S, f = [z \in S |-> f[z]], g = [z \in S |-> g[z]], \A z \in S : f[z] = g[z]
    PROVE  f = g
BY Zenon

\* The message p gets the payload x, or the flag x and the properties y.
NewPayload(p, x, d, q, r, t, i, pr) == [p EXCEPT !.payload = x] = Record(d, q, r, t, i, pr, x)
NewProps(p, x, y, q, r, t, i, pl) == [p EXCEPT !.dup = x, !.props = y] = Record(x, q, r, t, i, y, pl)

\* Fields of a message are replaced.
LEMMA RecordWith ==
    ASSUME NEW d, NEW q, NEW r, NEW t, NEW i, NEW pr, NEW pl, NEW x, NEW p,
           p = Record(d, q, r, t, i, pr, pl)
    PROVE  /\ NewPayload(p, x, d, q, r, t, i, pr)
           /\ \A y : NewProps(p, x, y, q, r, t, i, pl)
<1>1. /\ DOMAIN p = Names
      /\ p["type"] = "publish" /\ p["dup"] = d /\ p["qos"] = q /\ p["retain"] = r
      /\ p["topic"] = t /\ p["id"] = i /\ p["props"] = pr /\ p["payload"] = pl
  BY RecordIs
<1>2. [p EXCEPT !.payload = x] = Record(d, q, r, t, i, pr, x)
  <2>1. PICK f, g : f = [p EXCEPT !.payload = x] /\ g = Record(d, q, r, t, i, pr, x)
    OBVIOUS
  <2>2. f = [z \in Names |-> IF z = "payload" THEN x ELSE p[z]]
    <3>1. f = [z \in DOMAIN p |-> IF z = "payload" THEN x ELSE p[z]]
      BY <2>1
    <3> QED
      BY <1>1, <3>1, Zenon
  <2>3. f = [z \in Names |-> f[z]]
    BY <2>2, Zenon
  <2>4. /\ g = [z \in Names |-> g[z]]
        /\ g["type"] = "publish" /\ g["dup"] = d /\ g["qos"] = q /\ g["retain"] = r
        /\ g["topic"] = t /\ g["id"] = i /\ g["props"] = pr /\ g["payload"] = x
    BY <2>1, RecordIs
  <2>5. ASSUME NEW z \in Names PROVE f[z] = g[z]
    <3>1. f[z] = IF z = "payload" THEN x ELSE p[z]
      BY <2>2, Zenon
    <3> QED
      BY <1>1, <2>4, <3>1 DEF Names
  <2> QED
    BY <2>1, <2>3, <2>4, <2>5, SameFcn
<1>3. ASSUME NEW y PROVE [p EXCEPT !.dup = x, !.props = y] = Record(x, q, r, t, i, y, pl)
  <2>1. PICK f, g : f = [p EXCEPT !.dup = x, !.props = y] /\ g = Record(x, q, r, t, i, y, pl)
    OBVIOUS
  <2>2. f = [z \in Names |-> IF z = "props" THEN y ELSE IF z = "dup" THEN x ELSE p[z]]
    <3>1. PICK h : h = [p EXCEPT !.dup = x]
      OBVIOUS
    <3>2. h = [z \in DOMAIN p |-> IF z = "dup" THEN x ELSE p[z]]
      BY <3>1
    <3>3. DOMAIN h = Names /\ \A z \in Names : h[z] = IF z = "dup" THEN x ELSE p[z]
      BY <1>1, <3>2, Zenon
    <3>4. f = [h EXCEPT !.props = y]
      BY <2>1, <3>1
    <3>5. [h EXCEPT !.props = y] = [z \in DOMAIN h |-> IF z = "props" THEN y ELSE h[z]]
      OBVIOUS
    <3>6. f = [z \in Names |-> IF z = "props" THEN y ELSE h[z]]
      BY <3>3, <3>4, <3>5, Zenon
    <3> QED
      BY <3>3, <3>6, Zenon
  <2>3. f = [z \in Names |-> f[z]]
    BY <2>2, Zenon
  <2>4. /\ g = [z \in Names |-> g[z]]
        /\ g["type"] = "publish" /\ g["dup"] = x /\ g["qos"] = q /\ g["retain"] = r
        /\ g["topic"] = t /\ g["id"] = i /\ g["props"] = y /\ g["payload"] = pl
    BY <2>1, RecordIs
  <2>5. ASSUME NEW z \in Names PROVE f[z] = g[z]
    <3>1. f[z] = IF z = "props" THEN y ELSE IF z = "dup" THEN x ELSE p[z]
      BY <2>2, Zenon
    <3> QED
      BY <1>1, <2>4, <3>1 DEF Names
  <2> QED
    BY <2>1, <2>3, <2>4, <2>5, SameFcn
<1> QED
  BY <1>2, <1>3, Zenon DEF NewPayload, NewProps

\* A PUBLISH with the rest of a read behind its payload.
PublishOf(p, rest) == [p EXCEPT !.payload = @ \o rest]
PubByte(p) == HeaderOf(p.dup, p.qos, p.retain)

\* The facts about the fields of a PUBLISH that the decoder needs.
LEMMA PublishFields ==
    ASSUME NEW p, PublishFits(p)
    PROVE  /\ IsTopic(p.topic) /\ IdOK(p) /\ PubByte(p) \in Byte /\ PubByte(p) \div 16 = 3
           /\ (PubByte(p) \div 2) % 4 = p.qos /\ Bit(PubByte(p), 3) = p.dup /\ Bit(PubByte(p), 0) = p.retain
           /\ PublishBody(p) \in Seq(Byte) /\ Short(Len(PublishBody(p)))
<1>1. p.topic \in Texts(Max16) /\ p.dup \in BOOLEAN /\ p.retain \in BOOLEAN /\ Short(Len(PublishBody(p)))
  BY Zenon DEF PublishFits
<1>2. IdOK(p)
  BY Zenon DEF PublishFits, IdOK
<1>3. p.qos \in {0, 1, 2}
  BY <1>2, Zenon DEF IdOK
<1>4. IsTopic(p.topic)
  BY <1>1, Max16Is, TextIs DEF IsTopic
<1>5. PICK h : h = HeaderOf(p.dup, p.qos, p.retain)
  OBVIOUS
<1>6. /\ h \in Byte /\ h \div 16 = 3 /\ (h \div 2) % 4 = p.qos
      /\ Bit(h, 3) = p.dup /\ Bit(h, 0) = p.retain
  BY <1>1, <1>3, <1>5, HeaderRead
<1> QED
  BY <1>1, <1>2, <1>4, <1>5, <1>6, PublishParts, Zenon DEF PubByte

\* A PUBLISH is read, with what follows it in its payload.
LEMMA PublishRead ==
    ASSUME NEW p, PublishFits(p), NEW b \in Seq(Byte), At(b, 0, Framed(PubByte(p), PublishBody(p))),
           NEW m \in Nat, m = Len(Framed(PubByte(p), PublishBody(p)))
    PROVE  Decode(b) = Ok(PublishOf(p, SubSeq(b, m + 1, Len(b))), Len(b))
<1>1. PICK a \in Seq(Byte), c \in Seq(Byte), q \in Seq(Byte), z \in Seq(Byte) :
         /\ a = PutStr(p.topic) /\ c = IdPart(p) /\ q = ClientProps(PublishKinds, p.props) /\ z = p.payload
  BY PublishParts, Zenon
<1>2. PICK t \in Seq(Byte), h \in Byte : t = PublishBody(p) /\ h = PubByte(p) /\ Short(Len(t))
  BY PublishFields, Zenon
<1>3. t = a \o c \o q \o z
  BY <1>1, <1>2, PublishParts, Zenon
<1>4. \E i \in Nat : InFrame(b, h, t, i)
  <2>1. At(b, 0, Framed(h, t)) /\ Short(Len(t))
    BY <1>2, Zenon
  <2> QED
    BY <2>1, FrameRead
<1>5. PICK i \in Nat : InFrame(b, h, t, i)
  BY <1>4, Zenon
<1>6. PICK n \in Nat, l \in Nat : n = Len(t) /\ l = Len(b)
  BY LenProperties, Zenon
<1>7. /\ b[1] = h /\ DecodeLength(b, 1) = Ok(n, i) /\ At(b, i, a \o c \o q \o z) /\ i >= 2
      /\ i + n = m /\ i + n <= l
  BY <1>2, <1>3, <1>5, <1>6, Zenon DEF InFrame
<1>8. /\ At(b, i, a) /\ At(b, i + Len(a), c) /\ At(b, i + Len(a) + Len(c), q)
      /\ At(b, i + Len(a) + Len(c) + Len(q), z)
  BY <1>7, AtFour, Zenon
<1>9. PICK la \in Nat, lc \in Nat, lq \in Nat, lz \in Nat :
         la = Len(a) /\ lc = Len(c) /\ lq = Len(q) /\ lz = Len(z)
  BY LenProperties, Zenon
<1>10. n = la + lc + lq + lz
  BY <1>3, <1>6, <1>9, Joined4
<1>11. PICK j \in Nat, k \in Nat, e \in Nat : j = i + la /\ k = j + lc /\ e = k + lq
  OBVIOUS
<1>12. At(b, j, c) /\ At(b, k, q) /\ At(b, e, z)
  BY <1>8, <1>9, <1>11, Zenon
<1>13. m = e + lz
  BY <1>7, <1>10, <1>11
<1>14. PublishProperties(b, k) = Ok(p.props, e)
  <2>1. FitProps(PublishKinds, p.props, Max16) /\ Whole(p.props) /\ Short(Len(PropBytes(PublishKinds, p.props)))
    BY PublishParts, Zenon DEF PublishFits
  <2> QED
    BY <1>1, <1>9, <1>11, <1>12, <2>1, PublishPropsRead, ZenonT(60)
<1>15. QosOf(b) = p.qos
  BY <1>2, <1>7, PublishFields, Zenon DEF QosOf
<1>16. l >= 2
  BY <1>7
<1>17. DecodePublish(b) = Ok(MessageWith(b[1], p, p.props, SubSeq(b, e + 1, Len(b))), Len(b))
  <2>1. /\ IsTopic(p.topic) /\ IdOK(p) /\ Len(b) >= 2 /\ DecodeLength(b, 1) = Ok(n, i) /\ i + n <= Len(b)
        /\ QosOf(b) = p.qos /\ At(b, i, PutStr(p.topic)) /\ j = i + Len(PutStr(p.topic))
        /\ At(b, j, IdPart(p)) /\ k = j + Len(IdPart(p)) /\ PublishProperties(b, k) = Ok(p.props, e)
    BY <1>1, <1>6, <1>7, <1>8, <1>9, <1>11, <1>12, <1>14, <1>15, <1>16, PublishFields, Zenon
  <2>2. PICK pr : pr = p.props
    OBVIOUS
  <2>3. PublishProperties(b, k) = Ok(pr, e)
    BY <2>1, <2>2, Zenon
  <2>4. DecodePublish(b) = Ok(MessageWith(b[1], p, pr, SubSeq(b, e + 1, Len(b))), Len(b))
    BY <2>1, <2>3, PublishGives, SMTT(30)
  <2> QED
    BY <2>2, <2>4, Zenon
<1>18. SubSeq(b, e + 1, Len(b)) = p.payload \o SubSeq(b, m + 1, Len(b))
  <2>1. At(b, e, z) /\ e + Len(z) = m
    BY <1>9, <1>12, <1>13, Zenon
  <2>2. SubSeq(b, e + 1, Len(b)) = z \o SubSeq(b, m + 1, Len(b))
    <3>1. IsRest(b, e, z, m)
      BY <2>1, PayloadAt, Zenon
    <3> QED
      BY <3>1, Zenon DEF IsRest
  <2> QED
    BY <1>1, <2>2, Zenon
<1>19. PICK r : r = SubSeq(b, m + 1, Len(b))
  OBVIOUS
<1>20. MessageWith(b[1], p, p.props, p.payload \o r) = PublishOf(p, r)
  <2>1. PICK d, o, y, x, v, g, w : /\ d = p.dup /\ o = p.qos /\ y = p.retain /\ x = p.topic
                                   /\ v = p.id /\ g = p.props /\ w = p.payload
    OBVIOUS
  <2>2. p = Record(d, o, y, x, v, g, w)
    BY <2>1, Zenon DEF PublishFits, Record
  <2>3. PICK u : u = p.payload \o r
    OBVIOUS
  <2>4. NewPayload(p, u, d, o, y, x, v, g)
    BY <2>2, RecordWith, Zenon
  <2>5. MessageWith(b[1], p, p.props, u) = Record(d, o, y, x, v, g, u)
    BY <1>2, <1>7, <2>1, PublishFields, Zenon DEF MessageWith, Record
  <2> QED
    BY <2>3, <2>4, <2>5, Zenon DEF PublishOf, NewPayload
<1>21. b[1] \div 16 = 3
  BY <1>2, <1>7, PublishFields, Zenon
<1> QED
  BY <1>17, <1>18, <1>19, <1>20, <1>21, DecodeIs, Zenon

\* A PUBLISH that is cut is refused.
LEMMA PublishCut ==
    ASSUME NEW p, PublishFits(p), NEW b, IsCut(b, Framed(PubByte(p), PublishBody(p)))
    PROVE  Decode(b).st # "ok"
<1>1. PICK h, t : h = PubByte(p) /\ t = PublishBody(p)
  OBVIOUS
<1>2. h \in Byte /\ t \in Seq(Byte) /\ Short(Len(t)) /\ IsCut(b, Framed(h, t))
  BY <1>1, PublishFields, Zenon
<1>3. b[1] = h /\ TooShort(b, DecodeLength(b, 1))
  BY <1>2, FrameCut
<1>4. PICK r, f, g : r = DecodeLength(b, 1) /\ f = PubFields(b) /\ g = PubProps(b)
  OBVIOUS
<1>5. DecodePublish(b) = PublishCase(b, r, f, g)
  BY <1>4, DecodePublishIs, Zenon
<1>6. PublishCase(b, r, f, g).st # "ok"
  BY <1>3, <1>4, NotOk, Zenon DEF TooShort, PublishCase
<1>7. b[1] \div 16 = 3
  BY <1>1, <1>3, PublishFields, Zenon
<1> QED
  BY <1>5, <1>6, <1>7, DecodeIs, Zenon


-----------------------------------------------------------------------------
(* A SUBSCRIBE is read back *)

\* The loop over c, from byte o on, gives the filters q.
FiltersFrom(c, o, q) == Filters(c, o) = Ok(q, Len(c))

\* One topic filter and its options.
LEMMA ReadFilter ==
    ASSUME NEW c \in Seq(Byte), NEW o \in Nat, NEW s \in Seq(Ascii), s \in Seq(Byte), U16(Len(s)),
           NEW x \in Byte, x % 4 # 3, At(c, o, PutStr(s) \o <<x>>),
           NEW q, FiltersFrom(c, o + Len(PutStr(s) \o <<x>>), q)
    PROVE  FiltersFrom(c, o, <<<<s, x % 4>>>> \o q)
<1>1. PutStr(s) \in Seq(Byte) /\ Len(PutStr(s)) = 2 + Len(s)
  BY StrBytes
<1>2. <<x>> \in Seq(Byte) /\ Len(<<x>>) = 1
  BY ByteSeq, Zenon
<1>3. PICK y \in Seq(Byte), z \in Seq(Byte) : y = PutStr(s) /\ z = <<x>>
  BY <1>1, <1>2, Zenon
<1>4. PICK ls \in Nat, lc \in Nat : ls = Len(s) /\ lc = Len(c)
  BY LenProperties, Zenon
<1>5. At(c, o, y) /\ At(c, o + Len(y), z) /\ Len(y \o z) = Len(y) + Len(z)
  BY <1>3, <1>4, AtConcat, Joined, Zenon
<1>6. PICK j \in Nat, e \in Nat : j = o + 2 + ls /\ e = j + 1
  OBVIOUS
<1>7. o + Len(y) = j /\ o + Len(y \o z) = e
  <2>1. Len(y) = 2 + ls /\ Len(z) = 1
    BY <1>1, <1>2, <1>3, <1>4, Zenon
  <2>2. o + (2 + ls) = j /\ o + ((2 + ls) + 1) = e
    BY <1>6
  <2> QED
    BY <1>5, <2>1, <2>2, Zenon
<1>8. At(c, o, PutStr(s)) /\ At(c, j, <<x>>)
  BY <1>3, <1>5, <1>7, Zenon
<1>9. GetField("filter", c, o) = Ok(s, j)
  <2>1. PICK k : k = "filter"
    OBVIOUS
  <2>2. GetStr(k, c, o) = Ok(s, o + 2 + Len(s))
    BY <1>8, TextAt
  <2> QED
    BY <1>4, <1>6, <2>1, <2>2, GetFieldIs, Zenon
<1>10. GetField("u8", c, j) = Ok(x, j + 1)
  BY <1>8, FieldU8, Zenon
<1>11. FilterAt(c, o) = Ok(<<s, x>>, e)
  <2>1. PICK k \in FieldKinds, l \in FieldKinds : k = "filter" /\ l = "u8"
    BY Zenon DEF FieldKinds, Kinds
  <2>2. GetField(k, c, o) = Ok(s, j) /\ GetField(l, c, j) = Ok(x, e)
    BY <1>6, <1>9, <1>10, <2>1, Zenon
  <2>3. GetFields(<<k, l>>, c, o) = Ok(<<s, x>>, e)
    BY <2>2, BothRead
  <2> QED
    BY <2>1, <2>3, Zenon DEF FilterAt
<1>12. e <= lc
  <2>1. j + Len(<<x>>) <= lc
    BY <1>4, <1>8, Zenon DEF At
  <2> QED
    BY <1>2, <1>6, <2>1, Zenon
<1>13. o \in 0 .. lc /\ o # lc
  BY <1>6, <1>12
<1>14. PICK r : r = FilterAt(c, o)
  OBVIOUS
<1>15. PICK w : w = <<s, x>>
  OBVIOUS
<1>16. w[1] = s /\ w[2] = x
  BY <1>15
<1>17. r.st = "ok" /\ r.v = w /\ r.at = e
  BY <1>11, <1>14, <1>15 DEF Ok
<1>18. PICK g : g = Filters(c, e)
  OBVIOUS
<1>19. g = Ok(q, Len(c))
  BY <1>3, <1>7, <1>18, Zenon DEF FiltersFrom
<1>20. g.st = "ok" /\ g.v = q /\ g.at = Len(c)
  BY <1>19 DEF Ok
<1>21. Filters(c, o) = FiltersCase(c, o, r, g)
  BY <1>4, <1>13, <1>14, <1>17, <1>18, FiltersLoop, Zenon
<1>22. FiltersCase(c, o, r, g) = Ok(<<<<s, x % 4>>>> \o q, Len(c))
  BY <1>4, <1>13, <1>16, <1>17, <1>20, Zenon DEF FiltersCase
<1> QED
  BY <1>21, <1>22, Zenon DEF FiltersFrom

\* What is read of the topic filters l: the service level, without the other options.
ChosenOf(l) == [n \in DOMAIN l |-> <<l[n][1], l[n][2] % 4>>]

\* It is a list of the same length.
LEMMA ChosenIs ==
    ASSUME NEW l \in Seq(Texts(Max16) \X Options)
    PROVE  /\ ChosenOf(l) \in Seq(Texts(Max16) \X Nat) /\ Len(ChosenOf(l)) = Len(l)
           /\ \A k \in 1 .. Len(l) : ChosenOf(l)[k] = <<l[k][1], l[k][2] % 4>>
<1>1a. PICK w : w = ChosenOf(l)
  OBVIOUS
<1>1. PICK n \in Nat : n = Len(l) /\ w = ChosenOf(l)
  BY <1>1a, LenProperties, Zenon
<1>2. DOMAIN l = 1 .. n
  BY <1>1, LenProperties, Zenon
<1>3. IsFcn(w) /\ DOMAIN w = 1 .. n /\ \A k \in 1 .. n : w[k] = <<l[k][1], l[k][2] % 4>>
  BY <1>1, <1>2, Zenon DEF ChosenOf, IsFcn
<1>4. ASSUME NEW k \in 1 .. n PROVE w[k] \in Texts(Max16) \X Nat
  <2>1. PICK s, x, T : s = l[k][1] /\ x = l[k][2] /\ T = Texts(Max16)
    OBVIOUS
  <2>2. s \in T /\ x \in Options
    BY <1>1, <2>1, FilterBytes, Zenon
  <2>3. x \in Nat
    BY <2>2, ByteIs DEF Options
  <2>4. <<s, x % 4>> \in T \X Nat
    BY <2>2, <2>3
  <2> QED
    BY <1>3, <2>1, <2>4, Zenon
<1>5. w \in Seq(Texts(Max16) \X Nat) /\ Len(w) = n
  BY <1>3, <1>4, FcnSeq, Zenon
<1> QED
  BY <1>1, <1>3, <1>5, Zenon


\* The filters of a SUBSCRIBE are read, if nothing is behind them.
LEMMA FiltersRead ==
    ASSUME NEW l \in Seq(Texts(Max16) \X Options), NEW c \in Seq(Byte), NEW o \in Nat,
           At(c, o, FlattenSeq(FilterParts(l)))
    PROVE  o + Len(FlattenSeq(FilterParts(l))) = Len(c) => FiltersFrom(c, o, ChosenOf(l))
<1>1. PICK t, w : t = FilterParts(l) /\ w = ChosenOf(l)
  OBVIOUS
<1>2. PICK n \in Nat : n = Len(l)
  BY LenProperties, Zenon
<1>3. t \in Seq(Seq(Byte)) /\ Len(t) = n
      /\ \A k \in 1 .. n : /\ l[k][1] \in Texts(Max16) /\ l[k][2] \in Options
                           /\ t[k] = PutStr(l[k][1]) \o <<l[k][2]>>
  BY <1>1, <1>2, FilterBytes, Zenon
<1>4. PICK W : w \in Seq(W) /\ Len(w) = n /\ \A k \in 1 .. n : w[k] = <<l[k][1], l[k][2] % 4>>
  BY <1>1, <1>2, ChosenIs, Zenon
<1>5. SUFFICES ASSUME o + Len(FlattenSeq(t)) = Len(c) PROVE FiltersFrom(c, o, w)
  BY <1>1, Zenon
<1> DEFINE T == {m \in Nat : FiltersFrom(c, o + Len(Flat(t, m)), SubSeq(w, m + 1, n))}
<1>6. n \in T
  <2>1. FlattenSeq(t) = Flat(t, n)
    BY <1>3, FlatIs, Zenon
  <2>2. SubSeq(w, n + 1, n) = <<>>
    <3>1. n + 1 \in Int /\ n \in Int /\ n < n + 1
      OBVIOUS
    <3> QED
      BY <1>4, <3>1, SubSeqEmpty
  <2>3. FiltersFrom(c, Len(c), <<>>)
    BY FiltersGoodEnd, Zenon DEF FiltersFrom
  <2> QED
    BY <1>5, <2>1, <2>2, <2>3, Zenon
<1>7. ASSUME NEW m \in Nat, m < n, m + 1 \in T PROVE m \in T
  <2>1. PICK e : e = o + Len(Flat(t, m))
    OBVIOUS
  <2>2. /\ e \in Nat /\ At(c, e, t[m + 1]) /\ o + Len(Flat(t, m + 1)) = e + Len(t[m + 1])
    <3>1. At(c, o, FlattenSeq(t)) /\ m < Len(t)
      BY <1>1, <1>3, <1>7, Zenon
    <3>2. /\ o + Len(Flat(t, m)) \in Nat /\ At(c, o + Len(Flat(t, m)), t[m + 1])
          /\ o + Len(Flat(t, m + 1)) = (o + Len(Flat(t, m))) + Len(t[m + 1])
      BY <1>3, <3>1, PartAt, Zenon
    <3> QED
      BY <2>1, <3>2, Zenon
  <2>3. m + 1 \in 1 .. n /\ n \in m + 1 .. n
    BY <1>7
  <2>4. PICK s, x, q : s = l[m + 1][1] /\ x = l[m + 1][2] /\ q = SubSeq(w, (m + 1) + 1, n)
    OBVIOUS
  <2>5. s \in Texts(Max16) /\ x \in Options /\ t[m + 1] = PutStr(s) \o <<x>> /\ w[m + 1] = <<s, x % 4>>
    BY <1>3, <1>4, <2>3, <2>4, Zenon
  <2>6. s \in Seq(Ascii) /\ s \in Seq(Byte) /\ U16(Len(s))
    BY <2>5, Max16Is, TextIs
  <2>7. x \in Byte /\ x % 4 # 3
    BY <2>5, Zenon DEF Options
  <2>8. At(c, e, PutStr(s) \o <<x>>) /\ FiltersFrom(c, e + Len(PutStr(s) \o <<x>>), q)
    BY <1>7, <2>2, <2>4, <2>5, Zenon
  <2>9. FiltersFrom(c, e, <<<<s, x % 4>>>> \o q)
    BY <2>2, <2>6, <2>7, <2>8, ReadFilter, Zenon
  <2>10. SubSeq(w, m + 1, n) = <<w[m + 1]>> \o SubSeq(w, (m + 1) + 1, n)
    BY <1>4, <2>3, SubSeqRecursiveFirst, Zenon
  <2>11. FiltersFrom(c, o + Len(Flat(t, m)), SubSeq(w, m + 1, n))
    BY <2>1, <2>4, <2>5, <2>9, <2>10, Zenon
  <2> QED
    BY <2>11, Zenon
<1> HIDE DEF T
<1>8. 0 \in T
  BY <1>6, <1>7, Downward, Zenon
<1>9. o + Len(Flat(t, 0)) = o
  <2>1. Len(Flat(t, 0)) = 0
    BY <1>3, FlatIs, EmptySeq, Zenon
  <2>2. o + 0 = o
    OBVIOUS
  <2> QED
    BY <2>1, <2>2, Zenon
<1>10. SubSeq(w, 0 + 1, n) = w
  <2>1. 0 + 1 = 1
    OBVIOUS
  <2> QED
    BY <1>4, <2>1, SubSeqFull, Zenon
<1> QED
  BY <1>8, <1>9, <1>10, Zenon DEF T

\* Without properties, the section of a client is one byte.
LEMMA NoProps ==
    ASSUME NEW kinds, TableOK(kinds)
    PROVE  ClientProps(kinds, None) = << 0 >>
<1>1. PICK t : t = Parts(ClientOrder, kinds, <<>>)
  OBVIOUS
<1>2. FitProps(kinds, <<>>, Max16)
  BY PropsFitNone, FitPropsIs, Zenon
<1>3. U16(Max16) /\ Max16 \in Nat
  BY Max16Is
<1>4. /\ t \in Seq(Seq(Byte)) /\ Len(t) = Len(ClientOrder)
      /\ \A k \in 1 .. Len(ClientOrder) : IsPut(kinds, t[k], <<>>, ClientOrder[k])
      /\ PutProperties(ClientOrder, kinds, <<>>) = FlattenSeq(t)
  <2>1. PICK e, o : e = <<>> /\ o = ClientOrder
    OBVIOUS
  <2>2. o \in Seq(Byte) /\ FitProps(kinds, e, Max16)
    BY <1>2, <2>1, OrdersOK, Zenon
  <2>3. /\ Parts(o, kinds, e) \in Seq(Seq(Byte)) /\ Len(Parts(o, kinds, e)) = Len(o)
        /\ \A k \in 1 .. Len(o) : IsPut(kinds, Parts(o, kinds, e)[k], e, o[k])
        /\ PutProperties(o, kinds, e) = FlattenSeq(Parts(o, kinds, e))
    BY <1>3, <2>2, PartsIs
  <2> QED
    BY <1>1, <2>1, <2>3, Zenon
<1>5. DOMAIN <<>> = {}
  OBVIOUS
<1>6. Len(<<>>) = 0 /\ 0 <= 0 /\ 0 \in Nat
  OBVIOUS
<1>7. ASSUME NEW k \in 1 .. Len(t) PROVE Len(t[k]) <= 0
  <2>1. t[k] = <<>>
    BY <1>4, <1>5, <1>7, Zenon DEF IsPut
  <2> QED
    BY <1>6, <2>1, Zenon
<1>8. FlattenSeq(t) \in Seq(Byte) /\ Len(FlattenSeq(t)) <= Len(t) * 0
  BY <1>4, <1>6, <1>7, FlatLen, Zenon
<1>9. FlattenSeq(t) = <<>>
  <2>1. PICK x \in Seq(Byte), n \in Nat, l \in Nat : x = FlattenSeq(t) /\ n = Len(t) /\ l = Len(x)
    BY <1>4, <1>8, LenProperties, Zenon
  <2>2. l <= n * 0
    BY <1>8, <2>1, Zenon
  <2>3. l = 0
    BY <2>2
  <2> QED
    BY <2>1, <2>3, EmptySeq, Zenon
<1>10. ClientLength(0) = << 0 >>
  BY DEF ClientLength
<1>11. << 0 >> \o <<>> = << 0 >>
  BY SomeBytes, ByteSeq, ConcatEmptySeq, Zenon
<1> QED
  BY <1>4, <1>6, <1>9, <1>10, <1>11, Zenon DEF ClientProps, None


\* The identifier of a SUBSCRIBE and its property length.
LEMMA SubFieldsRead ==
    ASSUME NEW c \in Seq(Byte), NEW i \in Nat, NEW v, U16(v), At(c, i, PutU16(v)), At(c, i + 2, << 0 >>)
    PROVE  SubFields(c, i) = Ok(<<v, 0>>, i + 3)
<1>1. PICK k \in FieldKinds, l \in FieldKinds : k = "u16" /\ l = "u8"
  BY Zenon DEF FieldKinds, Kinds
<1>2. PICK j \in Nat, e \in Nat, z \in Byte : j = i + 2 /\ e = i + 3 /\ z = 0 /\ e = j + 1
  BY SomeBytes
<1>3. GetField(k, c, i) = Ok(v, j)
  BY <1>1, <1>2, FieldU16, Zenon
<1>4. GetField(l, c, j) = Ok(z, e)
  <2>1. At(c, j, <<z>>)
    BY <1>2, Zenon
  <2> QED
    BY <1>1, <1>2, <2>1, FieldU8, Zenon
<1>5. GetFields(<<k, l>>, c, i) = Ok(<<v, z>>, e)
  BY <1>3, <1>4, BothRead
<1> QED
  BY <1>1, <1>2, <1>5, Zenon DEF SubFields

\* What the decoder makes of a SUBSCRIBE.
SubscribeOf(p) == [type |-> "subscribe", id |-> p.id, list |-> ChosenOf(p.list)]

\* A SUBSCRIBE without properties is read; what follows it is dropped.
LEMMA SubscribeRead ==
    ASSUME NEW p, SubscribeFits(p), p.props = None, NEW b \in Seq(Byte),
           At(b, 0, Framed(130, SubscribeBody(p)))
    PROVE  \E e : Decode(b) = Ok(SubscribeOf(p), e)
<1>1. PICK a \in Seq(Byte), q \in Seq(Byte), z \in Seq(Byte) :
         a = PutU16(p.id) /\ q = << 0 >> /\ z = FlattenSeq(FilterParts(p.list))
  BY SubscribeParts, SomeBytes, ByteSeq, Zenon
<1>2. PICK t \in Seq(Byte), h \in Byte : t = SubscribeBody(p) /\ h = 130
  BY SubscribeParts, SomeBytes, Zenon
<1>3. t = a \o q \o z
  BY <1>1, <1>2, SubscribeParts, NoProps, ByteTables, Zenon
<1>4. Short(Len(t))
  BY <1>2, Zenon DEF SubscribeFits
<1>5. PICK i \in Nat : InFrame(b, h, t, i)
  <2>1. At(b, 0, Framed(h, t))
    BY <1>2, Zenon
  <2>2. \E i \in Nat : InFrame(b, h, t, i)
    BY <1>4, <2>1, FrameRead
  <2> QED
    BY <2>2, Zenon
<1>6. PICK n \in Nat, l \in Nat, lz \in Nat : n = Len(t) /\ l = Len(b) /\ lz = Len(z)
  BY LenProperties, Zenon
<1>7. b[1] = h /\ DecodeLength(b, 1) = Ok(n, i) /\ At(b, i, t)
  BY <1>5, <1>6, Zenon DEF InFrame
<1>8. i + n <= l
  BY <1>6, <1>7, Zenon DEF At
<1>9a. PICK c : c = SubSeq(b, 1, i + n)
  OBVIOUS
<1>9. PICK m \in Nat : m = i + n /\ c = SubSeq(b, 1, m)
  <2>1. i + n \in Nat
    OBVIOUS
  <2> QED
    BY <1>9a, <2>1, Zenon
<1>10. c \in Seq(Byte) /\ Len(c) = m /\ At(c, i, t)
  <2>1. m <= Len(b) /\ i + Len(t) <= m
    BY <1>6, <1>8, <1>9
  <2>2. c \in Seq(Byte) /\ Len(c) = m
    BY <1>9, <2>1, PrefixIs, Zenon
  <2>3. At(SubSeq(b, 1, m), i, t)
    BY <1>7, <2>1, AtPrefix, Zenon
  <2> QED
    BY <1>9, <2>2, <2>3, Zenon
<1>11. Len(a) = 2 /\ Len(q) = 1
  BY <1>1, SubscribeParts, SomeBytes, ByteSeq, Zenon
<1>12. PICK j \in Nat, k \in Nat : j = i + 2 /\ k = j + 1 /\ k = i + 3
  OBVIOUS
<1>13. At(c, i, a) /\ At(c, j, q) /\ At(c, k, z)
  <2>1. At(c, i, a \o q \o z)
    BY <1>3, <1>10, Zenon
  <2>2. At(c, i, a) /\ At(c, i + Len(a), q) /\ At(c, i + Len(a) + Len(q), z)
    BY <1>10, <2>1, AtThree, Zenon
  <2>3. i + Len(a) = j /\ i + Len(a) + Len(q) = k
    BY <1>11, <1>12, Zenon
  <2> QED
    BY <2>2, <2>3, Zenon
<1>14. k + lz = m
  <2>1. n = 2 + 1 + lz
    <3>1. Len(a \o q \o z) = Len(a) + Len(q) + Len(z)
      BY Joined3, Zenon
    <3> QED
      BY <1>3, <1>6, <1>11, <3>1, Zenon
  <2> QED
    BY <1>9, <1>12, <2>1
<1>15. SubFields(c, i) = Ok(<<p.id, 0>>, k)
  <2>1. PICK v : v = p.id
    OBVIOUS
  <2>2. U16(v) /\ At(c, i, PutU16(v)) /\ At(c, i + 2, << 0 >>)
    BY <1>1, <1>12, <1>13, <2>1, Zenon DEF SubscribeFits
  <2>3. SubFields(c, i) = Ok(<<v, 0>>, i + 3)
    BY <1>10, <2>2, SubFieldsRead
  <2> QED
    BY <1>12, <2>1, <2>3, Zenon
<1>16. FiltersFrom(c, k, ChosenOf(p.list))
  <2>1. PICK y : y = p.list
    OBVIOUS
  <2>2. y \in Seq(Texts(Max16) \X Options)
    BY <2>1, Zenon DEF SubscribeFits
  <2>3. At(c, k, FlattenSeq(FilterParts(y))) /\ k + Len(FlattenSeq(FilterParts(y))) = Len(c)
    BY <1>1, <1>6, <1>10, <1>13, <1>14, <2>1, Zenon
  <2>4. FiltersFrom(c, k, ChosenOf(y))
    BY <1>10, <2>2, <2>3, FiltersRead, Zenon
  <2> QED
    BY <2>1, <2>4, Zenon
<1>17. PICK r, f, fs : r = DecodeLength(b, 1) /\ f = SubFields(c, i) /\ fs = Filters(c, k)
  OBVIOUS
<1>18. r.st = "ok" /\ r.v = n /\ r.at = i
  BY <1>7, <1>17 DEF Ok
<1>19. PICK w : w = <<p.id, 0>>
  OBVIOUS
<1>20. f.st = "ok" /\ f.v = w /\ f.at = k
  BY <1>15, <1>17, <1>19 DEF Ok
<1>21. w[1] = p.id
  BY <1>19
<1>22. PICK y : y = ChosenOf(p.list)
  OBVIOUS
<1>23. fs = Ok(y, m)
  BY <1>10, <1>16, <1>17, <1>22, Zenon DEF FiltersFrom
<1>24. fs.st = "ok" /\ fs.v = y /\ fs.at = m
  BY <1>23 DEF Ok
<1>25. DecodeSubscribe(b) = SubscribeCase(b, r, f, fs)
  <2>1. c = SubSeq(b, 1, r.at + r.v) /\ f = SubFields(c, r.at) /\ fs = Filters(c, f.at)
    BY <1>9, <1>17, <1>18, <1>20, Zenon
  <2> QED
    BY <1>17, <2>1, DecodeSubscribeIs, Zenon
<1>26. ~(Len(b) - r.at < r.v)
  <2>1. ~(l - i < n)
    BY <1>8
  <2> QED
    BY <1>6, <1>18, <2>1, Zenon
<1>27. SubscribeCase(b, r, f, fs) = Ok(SubscribeOf(p), m)
  BY <1>18, <1>20, <1>21, <1>22, <1>24, <1>26, Zenon DEF SubscribeCase, SubscribeOf
<1>28. b[1] \div 16 = 8
  BY <1>2, <1>7
<1> QED
  BY <1>25, <1>27, <1>28, DecodeIs, Zenon

\* A SUBSCRIBE that is cut is refused.
LEMMA SubscribeCut ==
    ASSUME NEW p, SubscribeFits(p), NEW b, IsCut(b, Framed(130, SubscribeBody(p)))
    PROVE  Decode(b).st # "ok"
<1>1. PICK h, t : h = 130 /\ t = SubscribeBody(p)
  OBVIOUS
<1>2. h \in Byte /\ t \in Seq(Byte) /\ Short(Len(t)) /\ IsCut(b, Framed(h, t))
  BY <1>1, SubscribeParts, SomeBytes, Zenon DEF SubscribeFits
<1>3. b[1] = h /\ TooShort(b, DecodeLength(b, 1))
  BY <1>2, FrameCut
<1>4. PICK r, c : r = DecodeLength(b, 1) /\ c = SubSeq(b, 1, r.at + r.v)
  OBVIOUS
<1>5. PICK f : f = SubFields(c, r.at)
  OBVIOUS
<1>6. DecodeSubscribe(b) = SubscribeCase(b, r, f, Filters(c, f.at))
  BY <1>4, <1>5, DecodeSubscribeIs, Zenon
<1>7. SubscribeCase(b, r, f, Filters(c, f.at)).st # "ok"
  BY <1>3, <1>4, NotOk, Zenon DEF TooShort, SubscribeCase
<1>8. b[1] \div 16 = 8
  BY <1>1, <1>3
<1> QED
  BY <1>6, <1>7, <1>8, DecodeIs, Zenon


-----------------------------------------------------------------------------
(* The packets of the client *)

\* A body is numbers, before it is known to be short.
LEMMA BodyNumbers ==
    ASSUME NEW kinds, TableOK(kinds), NEW p, FitProps(kinds, p, Max16), NEW a \in Seq(Byte), NEW z \in Seq(Byte)
    PROVE  a \o ClientProps(kinds, p) \o z \in Seq(Nat)
<1>1. a \in Seq(Nat) /\ z \in Seq(Nat)
  BY NatSeq, Zenon
<1>2. PICK q \in Seq(Nat) : q = ClientProps(kinds, p)
  BY ClientPropsIs, Zenon
<1>3. PICK x \in Seq(Nat) : x = a \o q
  BY <1>1, NatJoin, Zenon
<1>4. x \o z \in Seq(Nat)
  BY <1>1, NatJoin, Zenon
<1> QED
  BY <1>2, <1>3, <1>4, Zenon

\* The CONNECT packets that a client may send have fields of their types.
LEMMA ConnectSent ==
    ASSUME NEW p, IsConnect(p)
    PROVE  ConnectFits(p) /\ p.type = "connect" /\ Bytes(p) = Framed(16, ConnectBody(p))
<1>1. /\ p.type = "connect" /\ p.level \in Byte /\ p.clean \in BOOLEAN /\ p.will \in BOOLEAN
      /\ p.user \in BOOLEAN /\ U16(p.ka) /\ FitProps(Standard(ConnectKinds), p.props, Max16)
      /\ p.clid \in Texts(Max16)
  BY Max16Is, SMT DEF IsConnect
<1>2. ASSUME Len(ConnectBody(p)) \in Nat PROVE Short(Len(ConnectBody(p)))
  <2>1. PICK n \in Nat : n = Len(ConnectBody(p))
    BY <1>2, Zenon
  <2>2. n < 16384
    BY <2>1, SMT DEF IsConnect
  <2>3. Short(n)
    BY <2>2, SMT DEF Short
  <2> QED
    BY <2>1, <2>3, Zenon
<1>3. PICK s \in Seq(Byte), t \in Seq(Byte), u \in Seq(Byte), v \in Seq(Byte) :
         s = PutStr(MQTT) /\ t = <<p.level>> /\ u = <<FlagByte(p)>> /\ v = PutU16(p.ka)
  <2>1. PutStr(MQTT) \in Seq(Byte)
    BY StringsOK, StrBytes, Zenon
  <2>2. FlagByte(p) \in Byte
    BY <1>1, FlagsRead
  <2>3. <<p.level>> \in Seq(Byte) /\ <<FlagByte(p)>> \in Seq(Byte)
    BY <1>1, <2>2, ByteSeq, Zenon
  <2>4. PutU16(p.ka) \in Seq(Byte)
    BY <1>1, U16Bytes
  <2> QED
    BY <2>1, <2>3, <2>4, Zenon
<1>4. PICK a \in Seq(Byte) : a = s \o t \o u \o v
  BY Joined4, Zenon
<1>5. PICK c \in Seq(Byte) : c = PutStr(p.clid)
  <2>1. PutStr(p.clid) \in Seq(Byte)
    BY <1>1, Max16Is, TextIs
  <2> QED
    BY <2>1, Zenon
<1>6. PICK w \in Seq(Nat), g \in Seq(Nat) : w = WillPart(p) /\ g = UserPart(p)
  BY LastParts, NatSeq, Zenon
<1>7. PICK x \in Seq(Nat) : x = a \o ClientProps(Standard(ConnectKinds), p.props) \o c
  BY <1>1, StandardTables, BodyNumbers, Zenon
<1>8. PICK y \in Seq(Nat) : y = x \o w
  BY NatJoin, Zenon
<1>9. Len(y \o g) \in Nat
  BY NatJoin, Zenon
<1>10. ConnectBody(p) = y \o g
  <2>1. ConnectBody(p) = ConnectFirst(p) \o ClientProps(Standard(ConnectKinds), p.props) \o PutStr(p.clid)
                         \o WillPart(p) \o UserPart(p)
    BY Zenon DEF ConnectBody, ConnectFirst, FlagByte, WillPart, UserPart
  <2>2. ConnectFirst(p) = a
    BY <1>3, <1>4, Zenon DEF ConnectFirst
  <2> QED
    BY <1>5, <1>6, <1>7, <1>8, <2>1, <2>2, Zenon
<1>11. Short(Len(ConnectBody(p)))
  BY <1>2, <1>9, <1>10, Zenon
<1>12. ConnectFits(p)
  BY <1>1, <1>11, Zenon DEF ConnectFits
<1>13. Bytes(p) = Framed(16, ConnectBody(p))
  BY <1>1 DEF Bytes
<1> QED
  BY <1>1, <1>12, <1>13, Zenon

\* So have the PUBLISH packets.
LEMMA PublishSent ==
    ASSUME NEW p, IsPublish(p)
    PROVE  PublishFits(p) /\ p.type = "publish" /\ Bytes(p) = Framed(PubByte(p), PublishBody(p))
<1>1. /\ p.type = "publish"
      /\ p = [type |-> "publish", dup |-> p.dup, qos |-> p.qos, retain |-> p.retain, topic |-> p.topic,
              id |-> p.id, props |-> p.props, payload |-> p.payload]
      /\ p.dup \in BOOLEAN /\ p.retain \in BOOLEAN
      /\ \/ p.qos = 0 /\ p.id = None
         \/ p.qos \in {1, 2} /\ p.id = <<p.id[1]>> /\ U16(p.id[1])
      /\ Whole(p.props) /\ p.payload \in Seq(Byte)
  BY SMT DEF IsPublish, Whole
<1>2. p.topic \in Texts(Max16) /\ FitProps(PublishKinds, p.props, Max16)
  BY Max16Is, SMT DEF IsPublish
<1>3. PICK a \in Seq(Byte), z \in Seq(Byte) : a = PutStr(p.topic) \o IdPart(p) /\ z = p.payload
  <2>1. PutStr(p.topic) \in Seq(Byte)
    BY <1>2, Max16Is, TextIs
  <2>2. IdPart(p) \in Seq(Byte)
    <3>1. CASE p.id = None
      BY <3>1, EmptySeq, Zenon DEF IdPart
    <3>2. CASE p.id # None
      <4>1. U16(p.id[1])
        BY <1>1, <3>2, Zenon
      <4>2. PutU16(p.id[1]) \in Seq(Byte)
        BY <4>1, U16Bytes
      <4> QED
        BY <3>2, <4>2, Zenon DEF IdPart
    <3> QED
      BY <3>1, <3>2, Zenon
  <2> QED
    BY <1>1, <2>1, <2>2, Joined, Zenon
<1>4. PublishBody(p) = a \o ClientProps(PublishKinds, p.props) \o z
  BY <1>3, Zenon DEF PublishBody, IdPart
<1>5. PICK n \in Nat : n = Len(PublishBody(p))
  <2>1. a \o ClientProps(PublishKinds, p.props) \o z \in Seq(Nat)
    BY <1>2, ByteTables, BodyNumbers, Zenon
  <2> QED
    BY <1>4, <2>1, LenProperties, Zenon
<1>6. Short(n)
  <2>1. n < 16384
    BY <1>5, SMT DEF IsPublish
  <2> QED
    BY <2>1, SMT DEF Short
<1>7. PublishFits(p)
  BY <1>1, <1>2, <1>5, <1>6, Zenon DEF PublishFits
<1>8. Bytes(p) = Framed(PubByte(p), PublishBody(p))
  BY <1>1 DEF Bytes, PubByte, HeaderOf
<1> QED
  BY <1>1, <1>7, <1>8, Zenon

\* So have the SUBSCRIBE packets.
LEMMA SubscribeSent ==
    ASSUME NEW p, IsSubscribe(p)
    PROVE  SubscribeFits(p) /\ p.type = "subscribe" /\ Bytes(p) = Framed(130, SubscribeBody(p))
<1>1. p.type = "subscribe" /\ U16(p.id)
  BY SMT DEF IsSubscribe
<1>2. p.list \in Seq(Texts(Max16) \X Options) /\ FitProps(PublishKinds, p.props, Max16)
  BY Max16Is, SMT DEF IsSubscribe, Options
<1>3. PICK a \in Seq(Byte), z \in Seq(Byte) : a = PutU16(p.id) /\ z = FlattenSeq(FilterParts(p.list))
  <2>1. PutU16(p.id) \in Seq(Byte)
    BY <1>1, U16Bytes
  <2>2. FlattenSeq(FilterParts(p.list)) \in Seq(Byte)
    BY <1>2, FilterBytes, Zenon
  <2> QED
    BY <2>1, <2>2, Zenon
<1>4. SubscribeBody(p) = a \o ClientProps(PublishKinds, p.props) \o z
  BY <1>3, Zenon DEF SubscribeBody, FilterParts
<1>5. PICK n \in Nat : n = Len(SubscribeBody(p))
  <2>1. a \o ClientProps(PublishKinds, p.props) \o z \in Seq(Nat)
    BY <1>2, ByteTables, BodyNumbers, Zenon
  <2> QED
    BY <1>4, <2>1, LenProperties, Zenon
<1>6. Short(n)
  <2>1. n < 16384
    BY <1>5, SMT DEF IsSubscribe
  <2> QED
    BY <2>1, SMT DEF Short
<1>7. SubscribeFits(p)
  BY <1>1, <1>2, <1>5, <1>6, Zenon DEF SubscribeFits
<1>8. Bytes(p) = Framed(130, SubscribeBody(p))
  BY <1>1 DEF Bytes
<1> QED
  BY <1>1, <1>7, <1>8, Zenon

\* A PINGREQ is two bytes.
LEMMA PingSent ==
    ASSUME NEW p, p = [type |-> "pingreq"]
    PROVE  p.type = "pingreq" /\ Bytes(p) = Framed(192, <<>>)
<1>1. p.type = "pingreq"
  OBVIOUS
<1> QED
  BY <1>1 DEF Bytes


\* A packet that the broker has no decoder for.
LEMMA OtherSent ==
    ASSUME NEW p, IsOther(p)
    PROVE  /\ p.type = "other" /\ p.header \in Byte /\ p.header \div 16 \notin {3, 8, 12}
           /\ p.body \in Seq(Byte) /\ Short(Len(p.body)) /\ Bytes(p) = Framed(p.header, p.body)
<1>1. p.type = "other" /\ p.header \in {64, 80, 98, 112, 162, 224, 240} /\ p.body \in Seq(Byte)
  BY SMT DEF IsOther
<1>2. PICK h : h = p.header
  OBVIOUS
<1>3. h \in {64, 80, 98, 112, 162, 224, 240}
  BY <1>1, <1>2, Zenon
<1>4. h \in Byte
  BY <1>3, ByteIs
<1>5. h \div 16 \notin {3, 8, 12}
  BY <1>3, SMT
<1>6. PICK n \in Nat : n = Len(p.body)
  BY <1>1, LenProperties, SMTT(30)
<1>7. n < 16384
  BY <1>6, SMT DEF IsOther
<1>8. Short(n)
  BY <1>7, SMT DEF Short
<1>9. Bytes(p) = Framed(p.header, p.body)
  BY <1>1 DEF Bytes
<1> QED
  BY <1>1, <1>2, <1>4, <1>5, <1>6, <1>8, <1>9, Zenon

\* The packets that may be sent behind a CONNECT.
IsPacket(p) == IsPublish(p) \/ IsSubscribe(p) \/ IsOther(p) \/ p = [type |-> "pingreq"]

\* A packet is at least two bytes.
LEMMA PacketBytes ==
    ASSUME NEW p, IsConnect(p) \/ IsPacket(p)
    PROVE  Bytes(p) \in Seq(Byte) /\ Len(Bytes(p)) \in Nat /\ Len(Bytes(p)) >= 2
<1>1. \E h \in Byte, t \in Seq(Byte) : Short(Len(t)) /\ Bytes(p) = Framed(h, t)
  <2>1. CASE IsConnect(p)
    <3>1. ConnectFits(p) /\ Bytes(p) = Framed(16, ConnectBody(p))
      BY <2>1, ConnectSent, Zenon
    <3>2. ConnectBody(p) \in Seq(Byte) /\ Short(Len(ConnectBody(p)))
      BY <3>1, ConnectParts, Zenon DEF ConnectFits
    <3> QED
      BY <3>1, <3>2, SomeBytes, Zenon
  <2>2. CASE IsPublish(p)
    <3>1. PublishFits(p) /\ Bytes(p) = Framed(PubByte(p), PublishBody(p))
      BY <2>2, PublishSent, Zenon
    <3> QED
      BY <3>1, PublishFields, Zenon
  <2>3. CASE IsSubscribe(p)
    <3>1. SubscribeFits(p) /\ Bytes(p) = Framed(130, SubscribeBody(p))
      BY <2>3, SubscribeSent, Zenon
    <3>2. SubscribeBody(p) \in Seq(Byte) /\ Short(Len(SubscribeBody(p)))
      BY <3>1, SubscribeParts, Zenon DEF SubscribeFits
    <3> QED
      BY <3>1, <3>2, SomeBytes, Zenon
  <2>4. CASE p = [type |-> "pingreq"]
    <3>1. Short(0)
      BY SMT DEF Short
    <3>2. <<>> \in Seq(Byte) /\ Short(Len(<<>>))
      BY <3>1, EmptySeq, Zenon
    <3> QED
      BY <2>4, <3>2, PingSent, SomeBytes, Zenon
  <2>5. CASE IsOther(p)
    BY <2>5, OtherSent, Zenon
  <2> QED
    BY <2>1, <2>2, <2>3, <2>4, <2>5, Zenon DEF IsPacket
<1>2. PICK h \in Byte, t \in Seq(Byte) : Short(Len(t)) /\ Bytes(p) = Framed(h, t)
  BY <1>1, Zenon
<1>3. Framed(h, t) \in Seq(Byte) /\ Len(Framed(h, t)) \in Nat /\ Len(Framed(h, t)) >= 2
  BY <1>2, FramedBytes
<1> QED
  BY <1>2, <1>3, Zenon

\* What DecodeConnect makes of a CONNECT, cut or whole: it never panics on a whole one
\* that is not misread.
LEMMA ConnectReads ==
    ASSUME NEW p, IsConnect(p), NEW b \in Seq(Byte)
    PROVE  /\ IsCut(b, Bytes(p)) => DecodeConnect(b).st # "ok"
           /\ At(b, 0, Bytes(p)) /\ ~Misread(p) =>
                /\ DecodeConnect(b).st \in {"ok", "err"}
                /\ DecodeConnect(b).st = "ok" => \A rest : DecodeConnect(b).v = Decoded(p, rest)
<1>1. ConnectFits(p) /\ p.type = "connect" /\ Bytes(p) = Framed(16, ConnectBody(p))
  BY ConnectSent, Zenon
<1>2. ASSUME IsCut(b, Bytes(p)) PROVE DecodeConnect(b).st # "ok"
  <2>1. IsCut(b, Framed(16, ConnectBody(p)))
    BY <1>1, <1>2, Zenon
  <2> QED
    BY <1>1, <2>1, ConnectCut, Zenon
<1>3. ASSUME At(b, 0, Bytes(p)), ~Misread(p)
      PROVE  /\ DecodeConnect(b).st \in {"ok", "err"}
             /\ DecodeConnect(b).st = "ok" => DecodeConnect(b).v = ConnectOf(p)
  <2>1. At(b, 0, Framed(16, ConnectBody(p))) /\ 39 \notin DOMAIN p.props
    BY <1>1, <1>3, Zenon DEF Misread
  <2>2. CASE p.level = 5
    <3>1. PICK e : DecodeConnect(b) = Ok(ConnectOf(p), e)
      BY <1>1, <2>1, <2>2, ConnectRead, Zenon
    <3>2. PICK r, c : r = DecodeConnect(b) /\ c = ConnectOf(p)
      OBVIOUS
    <3>3. r = Ok(c, e)
      BY <3>1, <3>2, Zenon
    <3>4. r.st = "ok" /\ r.v = c
      BY <3>3 DEF Ok
    <3> QED
      BY <3>2, <3>4, Zenon
  <2>3. CASE p.level # 5
    <3>1. DecodeConnect(b) = Err
      BY <1>1, <2>1, <2>3, ConnectRead, Zenon
    <3> QED
      BY <3>1, NotOk, Zenon
  <2> QED
    BY <2>2, <2>3, Zenon
<1>4. \A rest : Decoded(p, rest) = ConnectOf(p)
  BY <1>1 DEF Decoded, ConnectOf
<1> QED
  BY <1>2, <1>3, <1>4, Zenon

\* The decoder gives packet p, and what is behind it.
Given(b, p) ==
    /\ Decode(b).st = "ok"
    /\ \A m \in Nat : m = Len(Bytes(p)) => Decode(b).v = Decoded(p, SubSeq(b, m + 1, Len(b)))

\* What Decode makes of any other packet.
LEMMA PacketReads ==
    ASSUME NEW p, IsPacket(p), NEW b \in Seq(Byte)
    PROVE  /\ IsCut(b, Bytes(p)) /\ p.type # "pingreq" => Decode(b).st # "ok"
           /\ At(b, 0, Bytes(p)) /\ ~Misread(p) /\ p.type # "other" => Given(b, p)
           /\ At(b, 0, Bytes(p)) /\ p.type = "other" => Decode(b).st # "ok"
<1>1. CASE IsPublish(p)
  <2>1. PublishFits(p) /\ p.type = "publish" /\ Bytes(p) = Framed(PubByte(p), PublishBody(p))
    BY <1>1, PublishSent, Zenon
  <2>2. ASSUME IsCut(b, Bytes(p)) PROVE Decode(b).st # "ok"
    <3>1. IsCut(b, Framed(PubByte(p), PublishBody(p)))
      BY <2>1, <2>2, Zenon
    <3> QED
      BY <2>1, <3>1, PublishCut, Zenon
  <2>3. ASSUME At(b, 0, Bytes(p)) PROVE Given(b, p)
    <3>1. PICK m \in Nat : m = Len(Bytes(p))
      BY <1>1, PacketBytes, Zenon DEF IsPacket
    <3>2. At(b, 0, Framed(PubByte(p), PublishBody(p))) /\ m = Len(Framed(PubByte(p), PublishBody(p)))
      BY <2>1, <2>3, <3>1, Zenon
    <3>3. PICK q : q = PublishOf(p, SubSeq(b, m + 1, Len(b)))
      OBVIOUS
    <3>4. PICK r : r = Decode(b)
      OBVIOUS
    <3>5. r = Ok(q, Len(b))
      BY <2>1, <3>2, <3>3, <3>4, PublishRead, Zenon
    <3>6. r.st = "ok" /\ r.v = q
      BY <3>5 DEF Ok
    <3>7. \A rest : Decoded(p, rest) = PublishOf(p, rest)
      BY <2>1 DEF Decoded, PublishOf
    <3> QED
      BY <3>1, <3>3, <3>4, <3>6, <3>7, Zenon DEF Given
  <2> QED
    BY <2>1, <2>2, <2>3, Zenon
<1>2. CASE IsSubscribe(p)
  <2>1. SubscribeFits(p) /\ p.type = "subscribe" /\ Bytes(p) = Framed(130, SubscribeBody(p))
    BY <1>2, SubscribeSent, Zenon
  <2>2. ASSUME IsCut(b, Bytes(p)) PROVE Decode(b).st # "ok"
    <3>1. IsCut(b, Framed(130, SubscribeBody(p)))
      BY <2>1, <2>2, Zenon
    <3> QED
      BY <2>1, <3>1, SubscribeCut, Zenon
  <2>3. ASSUME At(b, 0, Bytes(p)), ~Misread(p) PROVE Given(b, p)
    <3>1. p.props = None
      BY <2>1, <2>3, Zenon DEF Misread
    <3>2. At(b, 0, Framed(130, SubscribeBody(p)))
      BY <2>1, <2>3, Zenon
    <3>3. PICK e : Decode(b) = Ok(SubscribeOf(p), e)
      BY <2>1, <3>1, <3>2, SubscribeRead, Zenon
    <3>4. PICK r, q : r = Decode(b) /\ q = SubscribeOf(p)
      OBVIOUS
    <3>5. r = Ok(q, e)
      BY <3>3, <3>4, Zenon
    <3>6. r.st = "ok" /\ r.v = q
      BY <3>5 DEF Ok
    <3>7. \A rest : Decoded(p, rest) = SubscribeOf(p)
      BY <2>1 DEF Decoded, SubscribeOf, ChosenOf
    <3> QED
      BY <3>4, <3>6, <3>7, Zenon DEF Given
  <2> QED
    BY <2>1, <2>2, <2>3, Zenon
<1>3. CASE p = [type |-> "pingreq"]
  <2>1. p.type = "pingreq" /\ Bytes(p) = Framed(192, <<>>)
    BY <1>3, PingSent, Zenon
  <2>2. ASSUME At(b, 0, Bytes(p)) PROVE Given(b, p)
    <3>1. PICK h \in Byte, t \in Seq(Byte) : h = 192 /\ t = <<>>
      BY SomeBytes, EmptySeq, Zenon
    <3>2. Short(0)
      BY SMT DEF Short
    <3>3. Short(Len(t)) /\ At(b, 0, Framed(h, t))
      BY <2>1, <2>2, <3>1, <3>2, EmptySeq, Zenon
    <3>4. \E i \in Nat : InFrame(b, h, t, i)
      BY <3>3, FrameRead
    <3>5. b[1] = h
      BY <3>4, Zenon DEF InFrame
    <3>6. b[1] \div 16 = 12
      BY <3>1, <3>5
    <3>7. PICK r : r = Decode(b)
      OBVIOUS
    <3>8. r = Ok(p, Len(b))
      BY <1>3, <3>6, <3>7, DecodeIs, Zenon
    <3>9. r.st = "ok" /\ r.v = p
      BY <3>8 DEF Ok
    <3>10. \A rest : Decoded(p, rest) = p
      BY <2>1 DEF Decoded
    <3> QED
      BY <3>7, <3>9, <3>10, Zenon DEF Given
  <2> QED
    BY <2>1, <2>2, Zenon
<1>4. CASE IsOther(p)
  <2>1. PICK h \in Byte, t \in Seq(Byte) : Short(Len(t)) /\ Bytes(p) = Framed(h, t) /\ h \div 16 \notin {3, 8, 12}
    BY <1>4, OtherSent, Zenon
  <2>2. ASSUME b[1] = h PROVE Decode(b).st # "ok"
    BY <2>1, <2>2, DecodeIs, NotOk, Zenon
  <2>3. ASSUME IsCut(b, Bytes(p)) PROVE Decode(b).st # "ok"
    <3>1. IsCut(b, Framed(h, t))
      BY <2>1, <2>3, Zenon
    <3>2. b[1] = h
      BY <2>1, <3>1, FrameCut
    <3> QED
      BY <2>2, <3>2, Zenon
  <2>4. ASSUME At(b, 0, Bytes(p)) PROVE Decode(b).st # "ok"
    <3>1. At(b, 0, Framed(h, t))
      BY <2>1, <2>4, Zenon
    <3>2. \E i \in Nat : InFrame(b, h, t, i)
      BY <2>1, <3>1, FrameRead
    <3>3. b[1] = h
      BY <3>2, Zenon DEF InFrame
    <3> QED
      BY <2>2, <3>3, Zenon
  <2> QED
    BY <1>4, <2>3, <2>4, OtherSent, Zenon
<1> QED
  BY <1>1, <1>2, <1>3, <1>4, Zenon DEF IsPacket


-----------------------------------------------------------------------------
(* A message is read back from what EncodePublish writes *)

\* The properties that are encoded.
Kept(p) == Only(p, {1, 2, 3, 38})

\* Only those are written.
LEMMA KeptIs ==
    ASSUME NEW p, FitProps(PublishKinds, p, MaxCap)
    PROVE  /\ FitProps(PublishKinds, Kept(p), MaxCap) /\ Whole(Kept(p))
           /\ Only(Kept(p), Behind(PublishOrder, 0)) = Kept(p)
           /\ PutProperties(PublishOrder, PublishKinds, Kept(p)) = PutProperties(PublishOrder, PublishKinds, p)
<1>1. PICK S, q : S = {1, 2, 3, 38} /\ q = Kept(p)
  OBVIOUS
<1>2. DOMAIN q = DOMAIN p \cap S /\ IsFcn(q) /\ \A x \in DOMAIN p \cap S : q[x] = p[x]
  BY <1>1, Zenon DEF Kept, Only, IsFcn
<1>3. S \subseteq DOMAIN PublishKinds
  BY <1>1 DEF PublishKinds
<1>4. FitProps(PublishKinds, Kept(p), MaxCap)
  BY <1>1, <1>3, TablesOK, FitsOnly, Zenon DEF Kept
<1>5. 11 \notin S
  BY <1>1
<1>6. Whole(q)
  BY <1>2, <1>5, Zenon DEF Whole
<1>7. Behind(PublishOrder, 0) = S
  BY <1>1, OrdersDistinct, Zenon
<1>8. Only(q, S) = q
  <2>1. DOMAIN q \subseteq S
    BY <1>2, Zenon
  <2> QED
    BY <1>2, <2>1, OnlyAll, Zenon
<1>9. ASSUME NEW n \in DOMAIN PublishOrder
      PROVE  PutOf(PublishKinds, q, PublishOrder[n]) = PutOf(PublishKinds, p, PublishOrder[n])
  <2>1. PICK x : x = PublishOrder[n]
    OBVIOUS
  <2>2. x \in S
    <3>1. n \in 1 .. 4
      BY <1>9, OrdersOK, LenProperties, Zenon
    <3>2. n \in 0 + 1 .. 4
      BY <3>1
    <3>3. x \in Behind(PublishOrder, 0)
      BY <2>1, <3>2, OrdersOK, Zenon DEF Behind
    <3> QED
      BY <1>7, <3>3, Zenon
  <2>3. CASE x \in DOMAIN p
    <3>1. x \in DOMAIN q /\ q[x] = p[x]
      BY <1>2, <2>2, <2>3, Zenon
    <3> QED
      BY <2>1, <2>3, <3>1, Zenon DEF PutOf
  <2>4. CASE x \notin DOMAIN p
    <3>1. x \notin DOMAIN q
      BY <1>2, <2>4, Zenon
    <3> QED
      BY <2>1, <2>4, <3>1, Zenon DEF PutOf
  <2> QED
    BY <2>3, <2>4, Zenon
<1>10. PutProperties(PublishOrder, PublishKinds, q) = PutProperties(PublishOrder, PublishKinds, p)
  <2>1. Parts(PublishOrder, PublishKinds, q) = Parts(PublishOrder, PublishKinds, p)
    BY <1>9, Zenon DEF Parts
  <2> QED
    BY <2>1, Zenon DEF PutProperties, Parts
<1> QED
  BY <1>1, <1>4, <1>6, <1>7, <1>8, <1>10, Zenon

\* Properties that are read back are written.
LEMMA SomeWritten ==
    ASSUME NEW kinds, TableOK(kinds), NEW p, FitProps(kinds, p, MaxCap), Whole(p),
           NEW order \in Seq(Byte), Distinct(order), Only(p, Behind(order, 0)) # <<>>
    PROVE  PutProperties(order, kinds, p) # <<>>
<1>1. SUFFICES ASSUME PutProperties(order, kinds, p) = <<>> PROVE FALSE
  OBVIOUS
<1>2. PICK b \in Seq(Byte) : b = <<>> /\ Len(b) = 0
  BY EmptySeq, Zenon
<1>3. At(b, 0, b)
  BY AtSelf, Zenon
<1>4. At(b, 0, PutProperties(order, kinds, p)) /\ 0 + Len(PutProperties(order, kinds, p)) = Len(b)
  <2>1. 0 + 0 = 0
    OBVIOUS
  <2> QED
    BY <1>1, <1>2, <1>3, <2>1, Zenon
<1>5. PropsFrom(kinds, b, 0, Only(p, Behind(order, 0)))
  <2>1. 0 \in Nat /\ MaxCap \in Nat /\ U16(MaxCap)
    BY CapIs
  <2> QED
    BY <1>4, <2>1, ReadProps
<1>6. GetProperties(kinds, b, 0) = Ok(Only(p, Behind(order, 0)), 0)
  BY <1>2, <1>5, Zenon DEF PropsFrom
<1>7. GetProperties(kinds, b, 0) = Ok(<<>>, 0)
  BY <1>2, PropsGoodEnd, Zenon DEF TableOK
<1> QED
  BY <1>6, <1>7, OkEqual, Zenon

\* If one of them is there, something is written.
LEMMA KeptWritten ==
    ASSUME NEW p, FitProps(PublishKinds, p, MaxCap), Kept(p) # <<>>
    PROVE  PutProperties(PublishOrder, PublishKinds, p) # <<>>
<1>1. PICK q : q = Kept(p)
  OBVIOUS
<1>2. /\ FitProps(PublishKinds, q, MaxCap) /\ Whole(q) /\ Only(q, Behind(PublishOrder, 0)) # <<>>
      /\ PutProperties(PublishOrder, PublishKinds, q) = PutProperties(PublishOrder, PublishKinds, p)
  BY <1>1, KeptIs, Zenon
<1>3. TableOK(PublishKinds) /\ PublishOrder \in Seq(Byte) /\ Distinct(PublishOrder)
  BY ByteTables, OrdersOK, OrdersDistinct, Zenon
<1> QED
  BY <1>2, <1>3, SomeWritten, Zenon

\* The section of the properties is read back.
LEMMA PropPartRead ==
    ASSUME NEW m, GotPublish(m, MaxCap), m.props = None \/ Kept(m.props) # <<>>,
           NEW b \in Seq(Byte), NEW k \in Nat, At(b, k, PropPart(m))
    PROVE  PublishProperties(b, k) = Ok(Kept(m.props), k + Len(PropPart(m)))
<1>1. PICK p : p = m.props
  OBVIOUS
<1>2. FitProps(PublishKinds, p, MaxCap)
  BY <1>1, Zenon DEF GotPublish
<1>3. PICK lb \in Nat : lb = Len(b)
  BY LenProperties, Zenon
<1>4. PICK r : r = DecodeLength(b, k)
  OBVIOUS
<1>5. PublishProperties(b, k) =
         IF r.st = "ok" /\ r.v = 0 THEN Ok(None, r.at) ELSE PropertiesCase(PublishKinds, b, r, Err)
  BY <1>4, PublishPropertiesIs, Zenon
<1>6. CASE p = None
  <2>1. PropPart(m) = << 0 >>
    BY <1>1, <1>6, Zenon DEF PropPart
  <2>2. At(b, k, << 0 >>) /\ Len(<< 0 >>) = 1
    BY <2>1, SomeBytes, ByteSeq, Zenon
  <2>3. r = Ok(0, k + 1)
    <3>1. 0 < 128 /\ 0 \in Nat /\ Len(b) \in Nat
      BY <1>3
    <3>2. DecodeLength(b, k) = Ok(0, k + 1)
      BY <2>2, <3>1, OneByte, Zenon
    <3> QED
      BY <1>4, <3>2, Zenon
  <2>4. r.st = "ok" /\ r.v = 0 /\ r.at = k + 1
    BY <2>3 DEF Ok
  <2>5. Kept(None) = None
    <3>1. DOMAIN None = {}
      BY DEF None
    <3>2. DOMAIN None \subseteq {1, 2, 3, 38} /\ IsFcn(None)
      BY <3>1 DEF IsFcn, None
    <3> QED
      BY <3>2, OnlyAll, Zenon DEF Kept
  <2> QED
    BY <1>1, <1>5, <1>6, <2>1, <2>2, <2>4, <2>5, Zenon
<1>7. CASE p # None
  <2>1. PICK s : s = PutProperties(PublishOrder, PublishKinds, p)
    OBVIOUS
  <2>2. s \in Seq(Byte) /\ Len(s) <= PropsMax
    <3>1. PICK o : o = PublishOrder
      OBVIOUS
    <3>2. o \in Seq(Byte) /\ Len(o) = 4
      BY <3>1, OrdersOK, Zenon
    <3>3. Len(o) <= 17
      BY <3>2
    <3>4. MaxCap \in Nat /\ U16(MaxCap) /\ MaxCap <= MaxCap /\ TableOK(PublishKinds)
      BY CapIs, ByteTables, Zenon
    <3>5. PutProperties(o, PublishKinds, p) \in Seq(Byte) /\ Len(PutProperties(o, PublishKinds, p)) <= PropsMax
      BY <1>2, <3>2, <3>3, <3>4, PutPropertiesBytes
    <3> QED
      BY <2>1, <3>1, <3>5, Zenon
  <2>3. s # <<>>
    BY <1>1, <1>2, <1>7, <2>1, KeptWritten, Zenon
  <2>4. PICK n \in Nat : n = Len(s)
    BY <2>2, LenProperties, Zenon
  <2>5. n # 0
    BY <2>2, <2>3, <2>4, EmptySeq, Zenon
  <2>6. n \in 1 .. MaxEncodable /\ n \in 0 .. MaxEncodable
    <3>1. n <= PropsMax
      BY <2>2, <2>4, Zenon
    <3> QED
      BY <2>5, <3>1, CapIs, MaxIs, SMT
  <2>7. EstLen(p) = n
    <3>1. MaxCap \in Nat /\ U16(MaxCap)
      BY CapIs, Zenon
    <3>2. EstLen(p) = Len(PutProperties(PublishOrder, PublishKinds, p))
      BY <1>2, <3>1, EstLenIs, Zenon
    <3> QED
      BY <2>1, <2>4, <3>2, Zenon
  <2>8. PICK e \in Seq(Byte) : e = EncodeLength(n)
    <3>1. EncodeLength(n) \in Seq(Byte)
      BY <2>6, EncodeLengthBytes, SMT
    <3> QED
      BY <3>1, Zenon
  <2>9. PropPart(m) = e \o s
    BY <1>1, <1>7, <2>1, <2>7, <2>8, Zenon DEF PropPart
  <2>10. At(b, k, e) /\ At(b, k + Len(e), s) /\ Len(e \o s) = Len(e) + Len(s) /\ Len(e) \in Nat
    BY <1>3, <2>2, <2>9, AtConcat, Joined, Zenon
  <2>11. PICK le \in Nat, j \in Nat : le = Len(e) /\ j = k + le
    <3>1. PICK le \in Nat : le = Len(e)
      BY <2>10, Zenon
    <3>2. k + le \in Nat
      OBVIOUS
    <3> QED
      BY <3>1, <3>2, Zenon
  <2>12. r = Ok(n, j)
    <3>1. At(b, k, EncodeLength(n)) /\ Len(b) \in Nat
      BY <1>3, <2>8, <2>10, Zenon
    <3>2. DecodeLength(b, k) = Ok(n, k + Len(EncodeLength(n)))
      BY <2>6, <3>1, LengthRoundTrip, Zenon
    <3> QED
      BY <1>4, <2>8, <2>11, <3>2, Zenon
  <2>13. r.st = "ok" /\ r.v = n
    BY <2>12 DEF Ok
  <2>14. PICK q, o : q = Kept(p) /\ o = PublishOrder
    OBVIOUS
  <2>15. /\ FitProps(PublishKinds, q, MaxCap) /\ Whole(q) /\ Only(q, Behind(o, 0)) = q
         /\ PutProperties(o, PublishKinds, q) = s
    BY <1>2, <2>1, <2>14, KeptIs, Zenon
  <2>16. /\ o \in Seq(Byte) /\ Distinct(o) /\ TableOK(PublishKinds) /\ MaxCap \in Nat /\ U16(MaxCap)
         /\ At(b, j, PutProperties(o, PublishKinds, q)) /\ r = Ok(Len(PutProperties(o, PublishKinds, q)), j)
    BY <2>4, <2>10, <2>11, <2>12, <2>14, <2>15, OrdersOK, OrdersDistinct, ByteTables, CapIs, Zenon
  <2>17. PICK short : short = Err
    OBVIOUS
  <2>18. PropertiesCase(PublishKinds, b, r, short)
         = Ok(Only(q, Behind(o, 0)), j + Len(PutProperties(o, PublishKinds, q)))
    BY <2>15, <2>16, ReadSection
  <2>19. j + n = k + (le + n)
    BY <2>11
  <2>20. Len(PropPart(m)) = le + n
    BY <2>4, <2>9, <2>10, <2>11, Zenon
  <2> QED
    BY <1>1, <1>5, <2>4, <2>5, <2>13, <2>14, <2>15, <2>17, <2>18, <2>19, <2>20, Zenon
<1> QED
  BY <1>6, <1>7, Zenon


\* The header byte of EncodePublish is that of a message without the dup flag.
LEMMA PubHeaderIs ==
    ASSUME NEW m, GotPublish(m, MaxCap)
    PROVE  /\ PubHeader(m) = HeaderOf(FALSE, m.qos, m.retain) /\ IdOK(m) /\ IsTopic(m.topic)
           /\ m.retain \in BOOLEAN /\ m.qos \in {0, 1, 2} /\ PubHeader(m) \in Byte
<1>1. m.retain \in BOOLEAN /\ IdOK(m) /\ m.topic \in Texts(MaxCap)
  BY Zenon DEF GotPublish, IdOK
<1>2. m.qos \in {0, 1, 2}
  BY <1>1, Zenon DEF IdOK
<1>3. IsTopic(m.topic)
  BY <1>1, CapIs, TextIs DEF IsTopic
<1>4. PubHeader(m) = HeaderOf(FALSE, m.qos, m.retain)
  <2>1. PICK q \in Nat, r \in BOOLEAN : q = m.qos /\ r = m.retain
    BY <1>1, <1>2
  <2>2. 48 + 2 * q + (IF r THEN 1 ELSE 0) = 48 + (IF FALSE THEN 2 ^ 3 ELSE 0) + 2 * q + (IF r THEN 2 ^ 0 ELSE 0)
    <3>1. 2 ^ 0 = 1
      OBVIOUS
    <3>2. CASE r = TRUE
      BY <3>1, <3>2
    <3>3. CASE r = FALSE
      BY <3>3
    <3> QED
      BY <3>2, <3>3
  <2> QED
    BY <2>1, <2>2, Zenon DEF PubHeader, HeaderOf, Flag
<1> QED
  BY <1>1, <1>2, <1>3, <1>4, PubParts, Zenon

\* A message that is encoded is read back, without the dup flag and the
\* properties that are not written.
LEMMA PublishBack ==
    ASSUME NEW m, GotPublish(m, MaxCap), m.props = None \/ Kept(m.props) # <<>>
    PROVE  Decode(EncodePublish(m)).v = [m EXCEPT !.dup = FALSE, !.props = Kept(m.props)]
<1>1a. PICK b : b = EncodePublish(m)
  OBVIOUS
<1>1. PICK h \in Byte, n \in 1 .. MaxEncodable, t \in Seq(Byte) :
         h = PubHeader(m) /\ n = PubLen(m) /\ t = PubRest(m) /\ b = EncodePublish(m) /\ Len(t) = n
  BY <1>1a, PubParts, Zenon
<1>2. PICK g \in Seq(Byte) : g = EncodeLength(n)
  <2>1. n \in 0 .. MaxEncodable
    BY MaxIs
  <2>2. EncodeLength(n) \in Seq(Byte)
    BY <2>1, EncodeLengthBytes, SMT
  <2> QED
    BY <2>2, Zenon
<1>3. b = <<h>> \o g \o t /\ b \in Seq(Byte)
  BY <1>1, <1>2, PublishFrame, Zenon DEF IsFrame
<1>4. PICK x \in Seq(Byte) : x = <<h>> /\ Len(x) = 1 /\ x[1] = h
  BY ByteSeq, Zenon
<1>5. At(b, 0, x \o g \o t)
  BY <1>3, <1>4, AtSelf, Zenon
<1>6. At(b, 0, x) /\ At(b, 0 + Len(x), g) /\ At(b, 0 + Len(x) + Len(g), t)
  BY <1>3, <1>5, AtThree, Zenon
<1>7. PICK lg \in Nat, l \in Nat : lg = Len(g) /\ l = Len(b)
  BY <1>3, LenProperties, Zenon
<1>8. PICK i \in Nat : i = 1 + lg
  OBVIOUS
<1>9. 0 + Len(x) = 1 /\ 0 + Len(x) + Len(g) = i
  BY <1>4, <1>7, <1>8
<1>10. At(b, 1, g) /\ At(b, i, t)
  BY <1>6, <1>9, Zenon
<1>11. DecodeLength(b, 1) = Ok(n, i)
  <2>1. At(b, 1, EncodeLength(n)) /\ Len(b) \in Nat /\ 1 \in Nat
    BY <1>2, <1>7, <1>10
  <2>2. DecodeLength(b, 1) = Ok(n, 1 + Len(EncodeLength(n)))
    BY <2>1, LengthRoundTrip, Zenon
  <2> QED
    BY <1>2, <1>7, <1>8, <2>2, Zenon
<1>12. n \in Nat /\ n >= 1
  BY MaxIs
<1>13. l = i + n
  <2>1. Len(x \o g \o t) = Len(x) + Len(g) + Len(t)
    BY Joined3, Zenon
  <2>2. l = 1 + lg + n
    BY <1>1, <1>3, <1>4, <1>7, <2>1, Zenon
  <2> QED
    BY <1>8, <2>2
<1>14. b[1] = h
  <2>1. 1 \in 1 .. Len(x) /\ 0 + 1 = 1
    BY <1>4
  <2> QED
    BY <1>4, <1>6, <2>1, Zenon DEF At
<1>15. PICK a \in Seq(Byte), c \in Seq(Byte), q \in Seq(Byte), z \in Seq(Byte) :
          a = PutStr(m.topic) /\ c = IdPart(m) /\ q = PropPart(m) /\ z = m.payload
  BY PubParts, Zenon
<1>16. t = a \o c \o q \o z
  BY <1>1, <1>15, Zenon DEF PubRest
<1>17. /\ At(b, i, a) /\ At(b, i + Len(a), c) /\ At(b, i + Len(a) + Len(c), q)
       /\ At(b, i + Len(a) + Len(c) + Len(q), z)
  BY <1>3, <1>10, <1>16, AtFour, Zenon
<1>18. PICK la \in Nat, lc \in Nat, lq \in Nat, lz \in Nat :
          la = Len(a) /\ lc = Len(c) /\ lq = Len(q) /\ lz = Len(z)
  BY LenProperties, Zenon
<1>19. PICK j \in Nat, k \in Nat, e \in Nat : j = i + la /\ k = j + lc /\ e = k + lq
  OBVIOUS
<1>20. At(b, j, c) /\ At(b, k, q) /\ At(b, e, z)
  BY <1>17, <1>18, <1>19, Zenon
<1>21. n = la + lc + lq + lz
  BY <1>1, <1>16, <1>18, Joined4
<1>22. l = e + lz /\ l >= 2
  BY <1>8, <1>12, <1>13, <1>19, <1>21
<1>23. SubSeq(b, e + 1, Len(b)) = z
  <2>1. SubSeq(b, e + 1, e + Len(z)) = z
    BY <1>3, <1>20, AtSubSeq, Zenon
  <2> QED
    BY <1>7, <1>18, <1>22, <2>1, Zenon
<1>24. PublishProperties(b, k) = Ok(Kept(m.props), e)
  <2>1. b \in Seq(Byte) /\ At(b, k, PropPart(m)) /\ k + Len(PropPart(m)) = e
    BY <1>3, <1>15, <1>18, <1>19, <1>20, Zenon
  <2>2. PublishProperties(b, k) = Ok(Kept(m.props), k + Len(PropPart(m)))
    BY <2>1, PropPartRead, Zenon
  <2> QED
    BY <2>1, <2>2, Zenon
<1>25. PICK pr : pr = Kept(m.props)
  OBVIOUS
<1>26. h \div 16 = 3 /\ (h \div 2) % 4 = m.qos /\ Bit(h, 3) = FALSE /\ Bit(h, 0) = m.retain
  <2>1. PICK d \in BOOLEAN, qos \in {0, 1, 2}, re \in BOOLEAN : d = FALSE /\ qos = m.qos /\ re = m.retain
    BY PubHeaderIs, Zenon
  <2>2. h = HeaderOf(d, qos, re)
    BY <1>1, <2>1, PubHeaderIs, Zenon
  <2>3. h \div 16 = 3 /\ (h \div 2) % 4 = qos /\ Bit(h, 3) = d /\ Bit(h, 0) = re
    BY <2>2, HeaderRead
  <2> QED
    BY <2>1, <2>3, Zenon
<1>27. DecodePublish(b) = Ok(MessageWith(b[1], m, pr, SubSeq(b, e + 1, Len(b))), Len(b))
  <2>1. /\ IsTopic(m.topic) /\ IdOK(m) /\ Len(b) >= 2 /\ DecodeLength(b, 1) = Ok(n, i)
        /\ QosOf(b) = m.qos /\ At(b, i, PutStr(m.topic)) /\ j = i + Len(PutStr(m.topic))
        /\ At(b, j, IdPart(m)) /\ k = j + Len(IdPart(m)) /\ PublishProperties(b, k) = Ok(pr, e)
    BY <1>7, <1>11, <1>14, <1>15, <1>17, <1>18, <1>19, <1>20, <1>22, <1>24, <1>25, <1>26, PubHeaderIs, Zenon
       DEF QosOf
  <2>2. i + n <= Len(b)
    BY <1>7, <1>12, <1>13
  <2> QED
    <3>1. b \in Seq(Byte) /\ n \in Nat
      BY <1>3, <1>12, Zenon
    <3> QED
      BY <3>1, <2>1, <2>2, PublishGives, SMTT(30)
<1>28. PICK r, w : r = Decode(b) /\ w = MessageWith(b[1], m, pr, SubSeq(b, e + 1, Len(b)))
  OBVIOUS
<1>29. r = Ok(w, Len(b))
  BY <1>14, <1>26, <1>27, <1>28, DecodeIs, Zenon
<1>30. r.v = w
  BY <1>29 DEF Ok
<1>31. w = [m EXCEPT !.dup = FALSE, !.props = pr]
  <2>1. PICK d, o, y, s, v, u, p : /\ d = m.dup /\ o = m.qos /\ y = m.retain /\ s = m.topic
                                   /\ v = m.id /\ u = m.props /\ p = m.payload
    OBVIOUS
  <2>2. m = Record(d, o, y, s, v, u, p)
    BY <2>1, Zenon DEF GotPublish, Record
  <2>3. NewProps(m, FALSE, pr, o, y, s, v, p)
    BY <2>2, RecordWith, Zenon
  <2>4. w = Record(FALSE, o, y, s, v, pr, p)
    BY <1>14, <1>15, <1>23, <1>26, <1>28, <2>1, Zenon DEF MessageWith, Record
  <2> QED
    BY <2>3, <2>4, Zenon DEF NewProps
<1> QED
  BY <1>1, <1>25, <1>28, <1>30, <1>31, Zenon


-----------------------------------------------------------------------------
(* The CONNACK is read back *)

\* The limits that the client asked for.
Asked(p) == Only(p, {33, 34, 38, 39})

\* What the properties of a CONNACK have to say.
Tells(q, req) ==
    /\ {17, 19} \subseteq DOMAIN q /\ (18 \in DOMAIN q <=> req.clid = <<>>)
    /\ q[17] = Expiry(req) /\ q[19] = req.ka /\ (req.clid = <<>> => q[18] = RawClid)
    /\ Asked(q) = Asked(req.props)

\* They say it, and every one of them is written.
LEMMA CollectTells ==
    ASSUME NEW req
    PROVE  /\ Tells(Collect(req), req) /\ Whole(Collect(req))
           /\ Only(Collect(req), Behind(ConnackOrder, 0)) = Collect(req)
<1>1. PICK a, x, k, p, p1, p2, p3, p4 :
         /\ a = Asked(req.props) /\ x = Expiry(req) /\ k = req.ka /\ p = Collect(req)
         /\ p1 = With(a, 17, x) /\ p2 = With(p1, 36, 2) /\ p3 = With(p2, 19, k) /\ p4 = With(p3, 18, RawClid)
  OBVIOUS
<1>2. p = IF req.clid = <<>> THEN p4 ELSE p3
  BY <1>1, Zenon DEF Collect, Asked
<1>3. IsWith(p1, a, 17, x) /\ IsWith(p2, p1, 36, 2) /\ IsWith(p3, p2, 19, k) /\ IsWith(p4, p3, 18, RawClid)
  BY <1>1, WithIs, Zenon
<1>4. PICK S : S = {33, 34, 38, 39}
  OBVIOUS
<1>5. DOMAIN a \subseteq S /\ IsFcn(a) /\ DOMAIN a = DOMAIN req.props \cap S
  BY <1>1, <1>4, Zenon DEF Asked, Only, IsFcn
<1>6. 17 \notin S /\ 36 \notin S /\ 19 \notin S /\ 18 \notin S /\ 11 \notin S
  BY <1>4
<1>7. 17 # 36 /\ 17 # 19 /\ 17 # 18 /\ 19 # 36 /\ 19 # 18 /\ 18 # 36 /\ 11 # 17 /\ 11 # 36 /\ 11 # 19 /\ 11 # 18
  OBVIOUS
<1>8. DOMAIN p1 = DOMAIN a \cup {17} /\ DOMAIN p2 = DOMAIN p1 \cup {36} /\ DOMAIN p3 = DOMAIN p2 \cup {19}
      /\ DOMAIN p4 = DOMAIN p3 \cup {18}
  BY <1>3, Zenon DEF IsWith
<1>9. DOMAIN p3 = DOMAIN a \cup {17, 36, 19} /\ DOMAIN p4 = DOMAIN a \cup {17, 36, 19, 18}
  BY <1>8, Zenon
<1>10. p1[17] = x /\ p2[17] = x /\ p3[17] = x /\ p4[17] = x
  <2>1. p1[17] = x /\ 17 \in DOMAIN p1 /\ 17 \in DOMAIN p2 /\ 17 \in DOMAIN p3
    BY <1>3, <1>8, Zenon DEF IsWith
  <2>2. p2[17] = p1[17]
    BY <1>3, <1>7, <2>1, Zenon DEF IsWith
  <2>3. p3[17] = p2[17]
    BY <1>3, <1>7, <2>1, Zenon DEF IsWith
  <2>4. p4[17] = p3[17]
    BY <1>3, <1>7, <2>1, Zenon DEF IsWith
  <2> QED
    BY <2>1, <2>2, <2>3, <2>4, Zenon
<1>11. p3[19] = k /\ p4[19] = k /\ p4[18] = RawClid
  BY <1>3, <1>7, <1>8, Zenon DEF IsWith
<1>12. ASSUME NEW z \in DOMAIN a PROVE p3[z] = a[z] /\ p4[z] = a[z]
  <2>1. z # 17 /\ z # 36 /\ z # 19 /\ z # 18
    BY <1>5, <1>6, <1>12, Zenon
  <2> QED
    <3>1. z \in DOMAIN p1 /\ z \in DOMAIN p2 /\ z \in DOMAIN p3
      BY <1>8, <1>12, Zenon
    <3>2. p1[z] = a[z]
      BY <1>3, <1>12, <2>1, Zenon DEF IsWith
    <3>3. p2[z] = p1[z]
      BY <1>3, <2>1, <3>1, Zenon DEF IsWith
    <3>4. p3[z] = p2[z]
      BY <1>3, <2>1, <3>1, Zenon DEF IsWith
    <3>5. p4[z] = p3[z]
      BY <1>3, <2>1, <3>1, Zenon DEF IsWith
    <3> QED
      BY <3>2, <3>3, <3>4, <3>5, Zenon
<1>13. IsFcn(p3) /\ IsFcn(p4)
  BY <1>3, Zenon DEF IsWith
<1>14. IsFcn(p) /\ DOMAIN a \subseteq DOMAIN p /\ DOMAIN p \subseteq DOMAIN a \cup {17, 36, 19, 18}
       /\ \A z \in DOMAIN a : p[z] = a[z]
  BY <1>2, <1>9, <1>12, <1>13, Zenon
<1>15. {17, 19} \subseteq DOMAIN p /\ p[17] = x /\ p[19] = k
  BY <1>2, <1>9, <1>10, <1>11, Zenon
<1>16. 18 \in DOMAIN p <=> req.clid = <<>>
  BY <1>2, <1>5, <1>6, <1>7, <1>9, Zenon
<1>17. req.clid = <<>> => p[18] = RawClid
  BY <1>2, <1>11, Zenon
<1>18. Only(p, S) = a
  <2>1. DOMAIN p \cap S = DOMAIN a
    BY <1>5, <1>6, <1>14, ZenonT(60)
  <2>2. [z \in DOMAIN a |-> p[z]] = [z \in DOMAIN a |-> a[z]]
    BY <1>14, Zenon
  <2> QED
    BY <1>5, <2>1, <2>2, Zenon DEF Only, IsFcn
<1>19. Asked(p) = a
  BY <1>4, <1>18, Zenon DEF Asked
<1>20. Tells(p, req)
  BY <1>1, <1>15, <1>16, <1>17, <1>19, Zenon DEF Tells
<1>21. Whole(p)
  BY <1>5, <1>6, <1>7, <1>14, Zenon DEF Whole
<1>22. DOMAIN p \subseteq {17, 18, 19, 33, 34, 36, 38, 39}
  BY <1>4, <1>5, <1>14, Zenon
<1>23. Only(p, Behind(ConnackOrder, 0)) = p
  <2>1. DOMAIN p \subseteq Behind(ConnackOrder, 0)
    BY <1>22, OrdersDistinct, Zenon
  <2> QED
    BY <1>14, <2>1, OnlyAll, Zenon
<1> QED
  BY <1>1, <1>20, <1>21, <1>23, Zenon

\* No maximum packet size is collected for a client that has set none.
LEMMA CollectSize ==
    ASSUME NEW req, 39 \notin DOMAIN req.props
    PROVE  39 \notin DOMAIN Collect(req)
<1>1. \A q, id, v : id # 39 /\ 39 \notin DOMAIN q => 39 \notin DOMAIN With(q, id, v)
  <2>1. SUFFICES ASSUME NEW q, NEW id, NEW v, id # 39, 39 \notin DOMAIN q PROVE 39 \notin DOMAIN With(q, id, v)
    OBVIOUS
  <2>2. DOMAIN With(q, id, v) = DOMAIN q \cup {id}
    BY Zenon DEF With
  <2> QED
    BY <2>1, <2>2, Zenon
<1>2. PICK q : q = Only(req.props, {33, 34, 38, 39})
  OBVIOUS
<1>3. DOMAIN q = DOMAIN req.props \cap {33, 34, 38, 39}
  BY <1>2, Zenon DEF Only
<1>4. 39 \notin DOMAIN q
  BY <1>3, Zenon
<1>5. 17 # 39 /\ 36 # 39 /\ 19 # 39 /\ 18 # 39
  OBVIOUS
<1>6. PICK r : r = With(With(With(q, 17, Expiry(req)), 36, 2), 19, req.ka)
  OBVIOUS
<1>7. 39 \notin DOMAIN r /\ 39 \notin DOMAIN With(r, 18, RawClid)
  BY <1>1, <1>4, <1>5, <1>6, Zenon
<1>8. Collect(req) = IF req.clid = <<>> THEN With(r, 18, RawClid) ELSE r
  BY <1>2, <1>6, Zenon DEF Collect
<1> QED
  BY <1>7, <1>8, Zenon

\* A client that has set no maximum packet size reads the properties that the
\* broker collected.
LEMMA ConnackBack ==
    ASSUME NEW req, GotConnect(req, MaxCap), 39 \notin DOMAIN req.props, NEW present \in BOOLEAN
    PROVE  LET f == EncodeConnack(present, Collect(req)) IN AckRead(f) = Ok(Collect(req), Len(f))
<1>1. PICK p, f : p = Collect(req) /\ f = EncodeConnack(present, p)
  OBVIOUS
<1>2. FitProps(ConnackKinds, p, MaxCap)
  BY <1>1, CollectFits, Zenon
<1>3. Tells(p, req) /\ Whole(p) /\ Only(p, Behind(ConnackOrder, 0)) = p
  BY <1>1, CollectTells, Zenon
<1>4. PICK s \in Seq(Byte), fl \in Seq(Byte), n \in 1 .. MaxEncodable, t \in Seq(Byte) :
         /\ s = AckProps(p) /\ fl = AckFlags(present) /\ n = AckLen(p) /\ t = AckRest(present, p)
         /\ Len(fl) = 2 /\ Len(t) = n /\ Len(s) \in 0 .. MaxEncodable
  BY <1>2, AckParts, Zenon
<1>5. s # <<>>
  <2>1. p # <<>>
    <3>1. 17 \in DOMAIN p
      BY <1>3, Zenon DEF Tells
    <3>2. DOMAIN <<>> = {}
      OBVIOUS
    <3> QED
      BY <3>1, <3>2, Zenon
  <2>2. Only(p, Behind(ConnackOrder, 0)) # <<>>
    BY <1>3, <2>1, Zenon
  <2>3. TableOK(ConnackKinds) /\ ConnackOrder \in Seq(Byte) /\ Distinct(ConnackOrder)
    BY ByteTables, OrdersOK, OrdersDistinct, Zenon
  <2>4. PutProperties(ConnackOrder, ConnackKinds, p) # <<>>
    BY <1>2, <1>3, <2>2, <2>3, SomeWritten, Zenon
  <2> QED
    BY <1>4, <2>4, Zenon DEF AckProps
<1>6. PICK k \in 1 .. MaxEncodable : k = Len(s) /\ k \in Nat
  <2>1. PICK k \in Nat : k = Len(s)
    BY LenProperties, Zenon
  <2>2. k # 0
    BY <1>5, <2>1, EmptySeq, Zenon
  <2>3. k \in 0 .. MaxEncodable
    BY <1>4, <2>1, Zenon
  <2>4. k \in 1 .. MaxEncodable
    BY <2>2, <2>3, MaxIs, SMT
  <2> QED
    BY <2>1, <2>4, Zenon
<1>7. PICK g \in Seq(Byte), e \in Seq(Byte) : g = EncodeLength(n) /\ e = EncodeLength(k)
  <2>1. n \in 0 .. MaxEncodable /\ k \in 0 .. MaxEncodable
    BY MaxIs, SMT
  <2>2. EncodeLength(n) \in Seq(Byte) /\ EncodeLength(k) \in Seq(Byte)
    BY <2>1, EncodeLengthBytes, SMT
  <2> QED
    BY <2>2, Zenon
<1>8. PICK h \in Byte, x \in Seq(Byte) : h = 32 /\ x = <<h>> /\ Len(x) = 1
  BY SomeBytes, ByteSeq, ZenonT(60)
<1>9. f = x \o g \o t /\ f \in Seq(Byte)
  BY <1>1, <1>2, <1>4, <1>7, <1>8, ConnackFrame, Zenon DEF IsFrame
<1>10. t = fl \o e \o s
  BY <1>4, <1>6, <1>7, Zenon DEF AckRest
<1>11. At(f, 0, x \o g \o t)
  BY <1>9, AtSelf, Zenon
<1>12. At(f, 0 + Len(x), g) /\ At(f, 0 + Len(x) + Len(g), t)
  BY <1>9, <1>11, AtThree, Zenon
<1>13. PICK lg \in Nat, le \in Nat, l \in Nat, i \in Nat, j \in Nat :
          lg = Len(g) /\ le = Len(e) /\ l = Len(f) /\ i = 1 + lg /\ j = i + 2 + le
  <2>1. PICK lg \in Nat, le \in Nat, l \in Nat : lg = Len(g) /\ le = Len(e) /\ l = Len(f)
    BY <1>9, LenProperties, Zenon
  <2>2. 1 + lg \in Nat /\ 1 + lg + 2 + le \in Nat
    OBVIOUS
  <2> QED
    BY <2>1, <2>2, Zenon
<1>14. 0 + Len(x) = 1 /\ 0 + Len(x) + Len(g) = i
  BY <1>8, <1>13
<1>15. At(f, 1, g) /\ At(f, i, fl \o e \o s)
  BY <1>10, <1>12, <1>14, Zenon
<1>16. At(f, i + Len(fl), e) /\ At(f, i + Len(fl) + Len(e), s)
  BY <1>9, <1>15, AtThree, Zenon
<1>17. At(f, i + 2, e) /\ At(f, j, s)
  BY <1>4, <1>13, <1>16, Zenon
<1>18. DecodeLength(f, 1) = Ok(n, i)
  <2>1. At(f, 1, EncodeLength(n)) /\ Len(f) \in Nat /\ 1 \in Nat
    BY <1>7, <1>13, <1>15
  <2>2. DecodeLength(f, 1) = Ok(n, 1 + Len(EncodeLength(n)))
    BY <2>1, LengthRoundTrip, Zenon
  <2> QED
    BY <1>7, <1>13, <2>2, Zenon
<1>19. DecodeLength(f, i + 2) = Ok(k, j)
  <2>1. At(f, i + 2, EncodeLength(k)) /\ Len(f) \in Nat /\ i + 2 \in Nat
    BY <1>7, <1>13, <1>17
  <2>2. DecodeLength(f, i + 2) = Ok(k, i + 2 + Len(EncodeLength(k)))
    BY <2>1, LengthRoundTrip, Zenon
  <2> QED
    BY <1>7, <1>13, <2>2, Zenon
<1>20. j + k = l
  <2>1. Len(x \o g \o t) = Len(x) + Len(g) + Len(t)
    BY Joined3, Zenon
  <2>2. Len(fl \o e \o s) = Len(fl) + Len(e) + Len(s)
    BY Joined3, ZenonT(60)
  <2>3. l = 1 + lg + n
    BY <1>4, <1>8, <1>9, <1>13, <2>1, Zenon
  <2>4. n = 2 + le + k
    BY <1>4, <1>6, <1>10, <1>13, <2>2, Zenon
  <2>5. k \in Nat
    BY <1>6, Zenon
  <2> QED
    BY <1>13, <2>3, <2>4, <2>5
<1>21. PropsFrom(Standard(ConnackKinds), f, j, p)
  <2>a. PICK t0 : t0 = Standard(ConnackKinds)
    OBVIOUS
  <2>b. 39 \notin DOMAIN p
    BY <1>1, CollectSize, Zenon
  <2>c. TableOK(t0) /\ FitProps(t0, p, MaxCap)
    BY <1>2, <2>a, <2>b, StandardTables, StandardFits, Zenon
  <2>d. \A o : PutProperties(o, t0, p) = PutProperties(o, ConnackKinds, p)
    BY <1>2, <2>a, <2>b, StandardPut, Zenon DEF FitProps
  <2>1. PICK o : o = ConnackOrder
    OBVIOUS
  <2>2. o \in Seq(Byte) /\ Distinct(o) /\ Only(p, Behind(o, 0)) = p /\ s = PutProperties(o, t0, p)
    BY <1>3, <1>4, <2>1, <2>d, OrdersOK, OrdersDistinct, Zenon DEF AckProps
  <2>3. At(f, j, PutProperties(o, t0, p)) /\ j + Len(PutProperties(o, t0, p)) = Len(f)
    BY <1>6, <1>13, <1>17, <1>20, <2>2, Zenon
  <2>4. MaxCap \in Nat /\ U16(MaxCap) /\ Whole(p) /\ f \in Seq(Byte) /\ Distinct(o)
        /\ o \in Seq(Byte)
    BY <1>3, <1>9, <2>2, CapIs, Zenon
  <2>5. PropsFrom(t0, f, j, Only(p, Behind(o, 0)))
    BY <2>c, <2>3, <2>4, ReadProps
  <2> QED
    BY <2>a, <2>2, <2>5, Zenon
<1>22. PICK r, q : r = DecodeLength(f, 1) /\ q = DecodeLength(f, i + 2)
  OBVIOUS
<1>23. r.st = "ok" /\ r.at = i /\ q.st = "ok" /\ q.at = j
  <2>1. r = Ok(n, i) /\ q = Ok(k, j)
    BY <1>18, <1>19, <1>22, Zenon
  <2>2. r.st = "ok" /\ r.at = i
    BY <2>1 DEF Ok
  <2>3. q.st = "ok" /\ q.at = j
    BY <2>1 DEF Ok
  <2> QED
    BY <2>2, <2>3, Zenon
<1>24. AckRead(f) = GetProperties(Standard(ConnackKinds), f, j)
  BY <1>22, <1>23, Zenon DEF AckRead, Then
<1> QED
  BY <1>1, <1>21, <1>24, Zenon DEF PropsFrom


-----------------------------------------------------------------------------
(* The inductive invariant *)

\* The bytes of the first k packets of s, and where packet k ends.
UptoOf(s, k) == FlattenSeq([n \in 1 .. k |-> Bytes(s[n])])
EndOf(s, k) == Len(UptoOf(s, k))
StreamOf(s) == UptoOf(s, Len(s))

\* A connection begins with a CONNECT.
SentOK(s) == \A k \in 1 .. Len(s) : IF k = 1 THEN s[k] \in Connects ELSE s[k] \in Packets

\* What has been read, and what is on the wire, is what has been sent.
WireOK(s, w, p) ==
    p <= Len(StreamOf(s)) /\ w = SubSeq(StreamOf(s), p + 1, Len(StreamOf(s)))

\* A packet has ended there.
AtEnd(s, p) == \E j \in 0 .. Len(s) : p = EndOf(s, j)

\* The last read.
GotOK(g, p) == g # None => g.from \in Nat /\ g.to \in Nat /\ g.from < g.to /\ g.to <= p

\* What has been written because of it.
OutOK(g, o) ==
    /\ g = None => o = {}
    /\ g # None =>
          \/ /\ GotConnect(g.packet, MaxCap)
             /\ \E present \in BOOLEAN : o = {EncodeConnack(present, Collect(g.packet))}
          \/ GotPacket(g.packet, MaxCap) /\ o = Answers(g.packet)

\* The metadata files are those of the boxes that were made.
BoxesOK(m, f) == DOMAIN m = DOMAIN f /\ \A id \in DOMAIN m : IsBox(m[id]) /\ f[id] = Serialize(m[id])
ClientOK(c, m) == c # None /\ c.restored => c.id \in DOMAIN m /\ c.val = Deserialize(Serialize(m[c.id])).v

Connected(t) == t \in {"accept", "open"}

\* Where the connection stands.
PlaceOK(s, w, p, t, h) ==
    /\ SentOK(s)
    /\ Connected(t) => WireOK(s, w, p)
    /\ Connected(t) /\ ~h => AtEnd(s, p)
    /\ t = "accept" => p = 0
    /\ t = "open" => p >= 1

\* TruncatedIsRefused, SentIsRead and PanicsAreKnown, of any state.
TruncatedOf(s, g) ==
    \A k \in DOMAIN s : g # None /\ g.from = EndOf(s, k - 1) /\ s[k].type # "pingreq" => g.to >= EndOf(s, k)

GivenOf(s, g, k) ==
    s[k].type # "other" /\ g.packet = Decoded(s[k], SubSeq(StreamOf(s), EndOf(s, k) + 1, g.to))
ReadOf(s, g) ==
    \A k \in DOMAIN s :
        g # None /\ g.from = EndOf(s, k - 1) /\ g.to >= EndOf(s, k) /\ ~Misread(s[k]) => GivenOf(s, g, k)

\* A packet that the broker has no decoder for, or that it misreads.
Strange(p) == Misread(p) \/ p.type = "other"
PanicOf(s, t, h) == t \in {"lost", "panicked"} => h \/ s = <<>> \/ \E k \in DOMAIN s : Strange(s[k])

\* The packet of the last read.
ReadingOK(s, p, t, g) ==
    (g # None => t = "open") /\ GotOK(g, p) /\ TruncatedOf(s, g) /\ ReadOf(s, g)

StreamInv ==
    /\ TypeOK
    /\ PlaceOK(sent, wire, pos, task, cut)
    /\ ReadingOK(sent, pos, task, got)
    /\ PanicOf(sent, task, cut)
    /\ OutOK(got, out)
    /\ BoxesOK(made, meta) /\ ClientOK(client, made)

\* What may be sent is bytes.
LEMMA SentBytes ==
    ASSUME NEW p \in Connects \cup Packets
    PROVE  /\ p \in Connects => IsConnect(p)
           /\ p \in Packets => IsPacket(p)
           /\ Bytes(p) \in Seq(Byte) /\ Len(Bytes(p)) \in Nat /\ Len(Bytes(p)) >= 2
<1>1. (p \in Connects => IsConnect(p)) /\ (p \in Packets => IsPacket(p))
  BY PacketAssumption, Zenon DEF IsPacket
<1> QED
  BY <1>1, PacketBytes, Zenon

\* The parts of the stream.
PacketParts(s, k) == [n \in 1 .. k |-> Bytes(s[n])]

\* They are sequences of bytes.
LEMMA PartsOf ==
    ASSUME NEW s \in Seq(Connects \cup Packets), NEW k \in 0 .. Len(s)
    PROVE  /\ PacketParts(s, k) \in Seq(Seq(Byte)) /\ Len(PacketParts(s, k)) = k
           /\ \A n \in 1 .. k : PacketParts(s, k)[n] = Bytes(s[n])
<1>1. PICK l \in Nat : l = Len(s)
  BY LenProperties, Zenon
<1>2. k \in Nat /\ \A n \in 1 .. k : n \in 1 .. l
  BY <1>1
<1>3. PICK t : t = PacketParts(s, k)
  OBVIOUS
<1>4. IsFcn(t) /\ DOMAIN t = 1 .. k /\ \A n \in 1 .. k : t[n] = Bytes(s[n])
  BY <1>3, Zenon DEF PacketParts, IsFcn
<1>5. ASSUME NEW n \in 1 .. k PROVE t[n] \in Seq(Byte)
  <2>1. s[n] \in Connects \cup Packets
    BY <1>1, <1>2, <1>5, ElementOfSeq, Zenon
  <2> QED
    BY <1>4, <1>5, <2>1, SentBytes, Zenon
<1>6. t \in Seq(Seq(Byte)) /\ Len(t) = k
  BY <1>2, <1>4, <1>5, FcnSeq, Zenon
<1> QED
  BY <1>3, <1>4, <1>6, Zenon

\* The stream grows by a packet at a time, and has each packet at its place.
LEMMA UptoIs ==
    ASSUME NEW s \in Seq(Connects \cup Packets)
    PROVE  /\ UptoOf(s, 0) = <<>>
           /\ \A k \in 0 .. Len(s) : UptoOf(s, k) \in Seq(Byte)
           /\ \A k \in 0 .. Len(s) - 1 : UptoOf(s, k + 1) = UptoOf(s, k) \o Bytes(s[k + 1])
           /\ \A k \in 0 .. Len(s) - 1 : At(StreamOf(s), EndOf(s, k), Bytes(s[k + 1]))
<1>1. PICK l \in Nat : l = Len(s)
  BY LenProperties, Zenon
<1>2. l \in 0 .. l /\ 0 \in 0 .. l
  OBVIOUS
<1>3. PICK t : t = PacketParts(s, l)
  OBVIOUS
<1>4. t \in Seq(Seq(Byte)) /\ Len(t) = l /\ \A n \in 1 .. l : t[n] = Bytes(s[n])
  BY <1>1, <1>2, <1>3, PartsOf, Zenon
<1>5. ASSUME NEW k \in 0 .. l PROVE UptoOf(s, k) = Flat(t, k)
  <2>1. PICK u : u = PacketParts(s, k)
    OBVIOUS
  <2>2. u \in Seq(Seq(Byte)) /\ Len(u) = k /\ \A n \in 1 .. k : u[n] = Bytes(s[n])
    BY <1>1, <1>5, <2>1, PartsOf, Zenon
  <2>3. UptoOf(s, k) = Flat(u, k)
    BY <2>1, <2>2, FlatIs, Zenon DEF UptoOf, PacketParts
  <2>4. k \in Nat /\ k <= Len(u) /\ k <= Len(t) /\ \A n \in 1 .. k : n \in 1 .. l
    BY <1>4, <1>5, <2>2
  <2>5. \A n \in 1 .. k : u[n] = t[n]
    BY <1>4, <2>2, <2>4, Zenon
  <2>6. Flat(u, k) = Flat(t, k)
    BY <1>4, <2>2, <2>4, <2>5, FlatPrefix, Zenon
  <2> QED
    BY <2>3, <2>6, Zenon
<1>6. UptoOf(s, 0) = <<>> /\ \A k \in 0 .. l : UptoOf(s, k) \in Seq(Byte)
  BY <1>2, <1>4, <1>5, FlatIs, Zenon
<1>7. ASSUME NEW k \in 0 .. l - 1
      PROVE  /\ UptoOf(s, k + 1) = UptoOf(s, k) \o Bytes(s[k + 1])
             /\ At(StreamOf(s), EndOf(s, k), Bytes(s[k + 1]))
  <2>1. k \in 0 .. l /\ k + 1 \in 0 .. l /\ k + 1 \in 1 .. l /\ k \in Nat /\ k < l
    BY <1>7
  <2>2. t[k + 1] = Bytes(s[k + 1])
    BY <1>4, <2>1, Zenon
  <2>3. UptoOf(s, k + 1) = UptoOf(s, k) \o Bytes(s[k + 1])
    <3>1. Flat(t, k + 1) = Flat(t, k) \o t[k + 1]
      BY <1>4, <1>7, FlatIs, Zenon
    <3> QED
      BY <1>5, <2>1, <2>2, <3>1, Zenon
  <2>4. PICK b \in Seq(Byte) : b = StreamOf(s)
    BY <1>1, <1>2, <1>6, Zenon DEF StreamOf
  <2>5. b = FlattenSeq(t)
    BY <1>1, <1>3, <2>4, Zenon DEF StreamOf, UptoOf, PacketParts
  <2>6. At(b, 0, FlattenSeq(t)) /\ 0 \in Nat
    BY <2>5, AtSelf, Zenon
  <2>7. 0 + Len(Flat(t, k)) \in Nat /\ At(b, 0 + Len(Flat(t, k)), t[k + 1])
    BY <1>4, <2>1, <2>6, PartAt, Zenon
  <2>8. PICK e : e = Len(Flat(t, k))
    OBVIOUS
  <2>9. e \in Nat
    <3>1. UptoOf(s, k) \in Seq(Byte) /\ UptoOf(s, k) = Flat(t, k)
      BY <1>5, <1>6, <2>1, Zenon
    <3> QED
      BY <2>8, <3>1, LenProperties, Zenon
  <2>10. 0 + e = e
    BY <2>9
  <2>11. EndOf(s, k) = e
    BY <1>5, <2>1, <2>8, Zenon DEF EndOf
  <2> QED
    BY <2>2, <2>3, <2>4, <2>7, <2>8, <2>10, <2>11, Zenon
<1> QED
  BY <1>1, <1>6, <1>7, Zenon

\* Where the packets end.
LEMMA EndIs ==
    ASSUME NEW s \in Seq(Connects \cup Packets)
    PROVE  /\ EndOf(s, 0) = 0
           /\ \A k \in 0 .. Len(s) : EndOf(s, k) \in Nat
           /\ \A k \in 0 .. Len(s) - 1 : EndOf(s, k + 1) = EndOf(s, k) + Len(Bytes(s[k + 1]))
           /\ \A k \in 0 .. Len(s) : \A j \in 0 .. Len(s) : j < k => EndOf(s, j) + 2 <= EndOf(s, k)
<1>1. PICK l \in Nat : l = Len(s)
  BY LenProperties, Zenon
<1>2. EndOf(s, 0) = 0
  BY UptoIs, EmptySeq, Zenon DEF EndOf
<1>3. ASSUME NEW k \in 0 .. l PROVE EndOf(s, k) \in Nat
  <2>1. UptoOf(s, k) \in Seq(Byte)
    BY <1>1, <1>3, UptoIs, Zenon
  <2> QED
    BY <2>1, LenProperties, Zenon DEF EndOf
<1>4. ASSUME NEW k \in 0 .. l - 1
      PROVE  /\ EndOf(s, k + 1) = EndOf(s, k) + Len(Bytes(s[k + 1]))
             /\ EndOf(s, k) + 2 <= EndOf(s, k + 1)
  <2>1. k \in 0 .. l /\ k + 1 \in 1 .. l
    BY <1>4
  <2>2. s[k + 1] \in Connects \cup Packets
    BY <1>1, <2>1, ElementOfSeq, Zenon
  <2>3. PICK x \in Seq(Byte), y \in Seq(Byte) : x = UptoOf(s, k) /\ y = Bytes(s[k + 1])
    BY <1>1, <2>1, <2>2, UptoIs, SentBytes, Zenon
  <2>4. PICK lx \in Nat, ly \in Nat : lx = Len(x) /\ ly = Len(y)
    BY LenProperties, Zenon
  <2>5. ly >= 2
    BY <2>2, <2>3, <2>4, SentBytes, Zenon
  <2>6. UptoOf(s, k + 1) = x \o y
    BY <1>1, <1>4, <2>3, UptoIs, Zenon
  <2>7. Len(x \o y) = lx + ly
    BY <2>4, Joined, Zenon
  <2>8. lx + 2 <= lx + ly
    BY <2>5
  <2> QED
    BY <2>3, <2>4, <2>6, <2>7, <2>8, Zenon DEF EndOf
<1> DEFINE S == {k \in Nat : k <= l => \A j \in 0 .. l : j < k => EndOf(s, j) + 2 <= EndOf(s, k)}
<1>5. 0 \in S
  OBVIOUS
<1>6. ASSUME NEW k \in Nat, k \in S PROVE k + 1 \in S
  <2>1. SUFFICES ASSUME k + 1 <= l, NEW j \in 0 .. l, j < k + 1 PROVE EndOf(s, j) + 2 <= EndOf(s, k + 1)
    OBVIOUS
  <2>2. k \in 0 .. l - 1 /\ k \in 0 .. l /\ k + 1 \in 0 .. l /\ k <= l
    BY <2>1
  <2>3. PICK a \in Nat, b \in Nat, c \in Nat : a = EndOf(s, j) /\ b = EndOf(s, k) /\ c = EndOf(s, k + 1)
    BY <1>3, <2>1, <2>2, Zenon
  <2>4. b + 2 <= c
    BY <1>4, <2>2, <2>3, Zenon
  <2>5. CASE j = k
    BY <2>3, <2>4, <2>5, Zenon
  <2>6. CASE j # k
    <3>1. j < k
      BY <2>1, <2>6
    <3>2. a + 2 <= b
      BY <1>6, <2>1, <2>2, <2>3, <3>1, Zenon
    <3>3. a + 2 <= c
      BY <2>4, <3>2
    <3> QED
      BY <2>3, <3>3, Zenon
  <2> QED
    BY <2>5, <2>6, Zenon
<1>7. Nat \subseteq S
  BY <1>5, <1>6, NatSetInduction, Zenon
<1>8. ASSUME NEW k \in 0 .. l, NEW j \in 0 .. l, j < k PROVE EndOf(s, j) + 2 <= EndOf(s, k)
  <2>1. k \in Nat /\ k <= l
    OBVIOUS
  <2> QED
    BY <1>7, <1>8, <2>1, Zenon
<1> QED
  BY <1>1, <1>2, <1>3, <1>4, <1>8, Zenon

\* One more packet.
LEMMA Appended ==
    ASSUME NEW s \in Seq(Connects \cup Packets), NEW p \in Connects \cup Packets
    PROVE  /\ Append(s, p) \in Seq(Connects \cup Packets) /\ Len(Append(s, p)) = Len(s) + 1
           /\ Append(s, p)[Len(s) + 1] = p /\ \A n \in 1 .. Len(s) : Append(s, p)[n] = s[n]
<1>1. PICK S : S = Connects \cup Packets
  OBVIOUS
<1>2. s \in Seq(S) /\ p \in S
  BY <1>1
<1>3. /\ Append(s, p) \in Seq(S) /\ Len(Append(s, p)) = Len(s) + 1
      /\ \A n \in 1 .. Len(s) : Append(s, p)[n] = s[n]
      /\ Append(s, p)[Len(s) + 1] = p
  BY <1>2, AppendProperties
<1> QED
  BY <1>1, <1>3, Zenon

\* One more packet leaves those before it where they are.
LEMMA UptoAppend ==
    ASSUME NEW s \in Seq(Connects \cup Packets), NEW p \in Connects \cup Packets
    PROVE  /\ \A k \in 0 .. Len(s) : UptoOf(Append(s, p), k) = UptoOf(s, k) /\ EndOf(Append(s, p), k) = EndOf(s, k)
           /\ StreamOf(Append(s, p)) = StreamOf(s) \o Bytes(p)
<1>1. PICK l \in Nat : l = Len(s)
  BY LenProperties, Zenon
<1>2. PICK u : u = Append(s, p)
  OBVIOUS
<1>3. u \in Seq(Connects \cup Packets) /\ Len(u) = l + 1 /\ u[l + 1] = p /\ \A n \in 1 .. l : u[n] = s[n]
  BY <1>1, <1>2, Appended, Zenon
<1>4. ASSUME NEW k \in 0 .. l PROVE UptoOf(u, k) = UptoOf(s, k)
  <2>1. \A n \in 1 .. k : n \in 1 .. l
    BY <1>4
  <2>2. \A n \in 1 .. k : Bytes(u[n]) = Bytes(s[n])
    BY <1>3, <2>1, Zenon
  <2> QED
    BY <2>2, Zenon DEF UptoOf
<1>5. StreamOf(u) = StreamOf(s) \o Bytes(p)
  <2>1. l \in 0 .. (l + 1) - 1 /\ l \in 0 .. l
    OBVIOUS
  <2>2. UptoOf(u, l + 1) = UptoOf(u, l) \o Bytes(u[l + 1])
    BY <1>3, <2>1, UptoIs, Zenon
  <2> QED
    BY <1>1, <1>3, <1>4, <2>1, <2>2, Zenon DEF StreamOf
<1> QED
  BY <1>1, <1>2, <1>4, <1>5, Zenon DEF EndOf

\* A piece of a sequence of bytes.
LEMMA PieceIs ==
    ASSUME NEW b \in Seq(Byte), NEW m \in Nat, NEW n \in Nat, m <= n, n <= Len(b)
    PROVE  /\ SubSeq(b, m + 1, n) \in Seq(Byte) /\ Len(SubSeq(b, m + 1, n)) = n - m
           /\ \A i \in 1 .. n - m : SubSeq(b, m + 1, n)[i] = b[m + i]
<1>1. PICK l \in Nat : l = Len(b)
  BY LenProperties, Zenon
<1>2. \A i \in m + 1 .. n : i \in 1 .. l
  BY <1>1
<1>3. \A i \in m + 1 .. n : b[i] \in Byte
  BY <1>1, <1>2, ElementOfSeq, Zenon
<1>4. m + 1 \in Int /\ n \in Int /\ n - (m + 1) + 1 = n - m /\ \A i \in 1 .. n - m : m + 1 + i - 1 = m + i
  OBVIOUS
<1>5. PICK c : c = SubSeq(b, m + 1, n)
  OBVIOUS
<1>6. /\ c \in Seq(Byte) /\ Len(c) = (IF m + 1 <= n THEN n - (m + 1) + 1 ELSE 0)
      /\ \A i \in 1 .. n - (m + 1) + 1 : c[i] = b[m + 1 + i - 1]
  BY <1>3, <1>4, <1>5, SubSeqProperties
<1>7. Len(c) = n - m
  BY <1>6
<1>8. ASSUME NEW i \in 1 .. n - m PROVE c[i] = b[m + i]
  BY <1>4, <1>6, <1>8, Zenon
<1> QED
  BY <1>5, <1>6, <1>7, <1>8, Zenon

\* A piece of a piece.
LEMMA PieceOfPiece ==
    ASSUME NEW b \in Seq(Byte), NEW m \in Nat, NEW n \in Nat, m <= n, n <= Len(b),
           NEW i \in Nat, NEW j \in Nat, i <= j, j <= n - m
    PROVE  SubSeq(SubSeq(b, m + 1, n), i + 1, j) = SubSeq(b, m + i + 1, m + j)
<1>1. PICK l \in Nat : l = Len(b)
  BY LenProperties, Zenon
<1>2. PICK c : c = SubSeq(b, m + 1, n)
  OBVIOUS
<1>3. c \in Seq(Byte) /\ Len(c) = n - m /\ \A k \in 1 .. n - m : c[k] = b[m + k]
  BY <1>2, PieceIs, Zenon
<1>4. m + i \in Nat /\ m + j \in Nat /\ m + i <= m + j /\ m + j <= l
  BY <1>1
<1>5. PICK x, y : x = SubSeq(c, i + 1, j) /\ y = SubSeq(b, m + i + 1, m + j)
  OBVIOUS
<1>6. x \in Seq(Byte) /\ Len(x) = j - i /\ \A k \in 1 .. j - i : x[k] = c[i + k]
  BY <1>3, <1>5, PieceIs, ZenonT(60)
<1>7. y \in Seq(Byte) /\ Len(y) = (m + j) - (m + i) /\ \A k \in 1 .. (m + j) - (m + i) : y[k] = b[m + i + k]
  BY <1>1, <1>4, <1>5, PieceIs, ZenonT(60)
<1>8. (m + j) - (m + i) = j - i /\ \A k \in 1 .. j - i : i + k \in 1 .. n - m /\ m + (i + k) = m + i + k
  OBVIOUS
<1>9. \A k \in 1 .. j - i : x[k] = y[k]
  BY <1>3, <1>6, <1>7, <1>8, Zenon
<1>10. Len(x) = Len(y)
  BY <1>6, <1>7, <1>8, Zenon
<1>11. x = y
  BY <1>6, <1>7, <1>9, <1>10, SeqEqual, Zenon
<1> QED
  BY <1>2, <1>5, <1>11, Zenon

\* Of the bytes w that begin at place p of b, a read gives c.
Gives(b, p, w, n, c) == p + n <= Len(b) /\ w = SubSeq(b, p + 1, Len(b)) /\ c = SubSeq(w, 1, n)

RestOf(b, p, n, c) == \A m \in 0 .. n : SubSeq(c, m + 1, n) = SubSeq(b, p + m + 1, p + n)
Left(b, p, w, n) == SubSeq(w, n + 1, Len(w)) = SubSeq(b, p + n + 1, Len(b))
Whether(b, p, n, c) ==
    \A x \in Seq(Byte) : At(b, p, x) => (Len(x) <= n => At(c, 0, x)) /\ (~(Len(x) <= n) /\ n >= 1 => IsCut(c, x))

\* A read of n bytes.
LEMMA ReadIs ==
    ASSUME NEW b \in Seq(Byte), NEW p \in Nat, NEW n \in Nat, NEW w, NEW c, Gives(b, p, w, n, c)
    PROVE      /\ w \in Seq(Byte) /\ Len(w) = Len(b) - p
               /\ c \in Seq(Byte) /\ Len(c) = n /\ c = SubSeq(b, p + 1, p + n)
               /\ Left(b, p, w, n) /\ Whether(b, p, n, c) /\ RestOf(b, p, n, c)
<1>1. PICK l \in Nat : l = Len(b)
  BY LenProperties, Zenon
<1>20. p + n <= l /\ w = SubSeq(b, p + 1, l) /\ c = SubSeq(w, 1, n)
  BY <1>1, Zenon DEF Gives
<1>2. p <= l /\ p + n <= l /\ p + n \in Nat /\ p <= p + n /\ n <= l - p /\ l - p \in Nat /\ p + (l - p) = l
      /\ 0 \in Nat /\ 0 <= n /\ 0 + 1 = 1 /\ p + 0 + 1 = p + 1 /\ n - 0 = n /\ (p + n) - p = n
      /\ l <= Len(b) /\ p + n <= Len(b) /\ l - p <= l - p /\ n <= (p + n) - p
  BY <1>1, <1>20
<1>3. w = SubSeq(b, p + 1, l)
  BY <1>20
<1>4. w \in Seq(Byte) /\ Len(w) = l - p
  BY <1>1, <1>2, <1>3, PieceIs, Zenon
<1>5. c = SubSeq(w, 1, n)
  BY <1>20
<1>6. c = SubSeq(b, p + 1, p + n)
  <2>1. SubSeq(SubSeq(b, p + 1, l), 0 + 1, n) = SubSeq(b, p + 0 + 1, p + n)
    BY <1>2, PieceOfPiece
  <2> QED
    BY <1>2, <1>3, <1>5, <2>1, Zenon
<1>7. SubSeq(w, n + 1, l - p) = SubSeq(b, p + n + 1, l)
  <2>1. SubSeq(SubSeq(b, p + 1, l), n + 1, l - p) = SubSeq(b, p + n + 1, p + (l - p))
    BY <1>2, PieceOfPiece
  <2> QED
    BY <1>2, <1>3, <2>1, Zenon
<1>8. c \in Seq(Byte) /\ Len(c) = n /\ \A i \in 1 .. n : c[i] = b[p + i]
  <2>1. LET d == SubSeq(b, p + 1, p + n)
        IN  d \in Seq(Byte) /\ Len(d) = (p + n) - p /\ \A i \in 1 .. (p + n) - p : d[i] = b[p + i]
    BY <1>2, PieceIs, Zenon
  <2> QED
    BY <1>2, <1>6, <2>1, Zenon
<1>9. ASSUME NEW m \in 0 .. n PROVE SubSeq(c, m + 1, n) = SubSeq(b, p + m + 1, p + n)
  <2>1. m \in Nat /\ m <= n /\ n <= (p + n) - p
    BY <1>9
  <2>2. SubSeq(SubSeq(b, p + 1, p + n), m + 1, n) = SubSeq(b, p + m + 1, p + n)
    BY <1>2, <2>1, PieceOfPiece
  <2> QED
    BY <1>6, <2>2, Zenon
<1>10. ASSUME NEW x \in Seq(Byte), At(b, p, x)
       PROVE  (Len(x) <= n => At(c, 0, x)) /\ (~(Len(x) <= n) /\ n >= 1 => IsCut(c, x))
  <2>1. PICK k \in Nat : k = Len(x)
    BY LenProperties, Zenon
  <2>2. \A i \in 1 .. k : b[p + i] = x[i]
    BY <1>10, <2>1, Zenon DEF At
  <2>3. CASE k <= n
    <3>1. 0 + k <= n /\ \A i \in 1 .. k : i \in 1 .. n /\ 0 + i = i
      BY <2>3
    <3>2. \A i \in 1 .. k : c[0 + i] = x[i]
      BY <1>8, <2>2, <3>1, Zenon
    <3>3. At(c, 0, x)
      BY <1>8, <2>1, <3>1, <3>2, Zenon DEF At
    <3> QED
      BY <2>1, <2>3, <3>3, Zenon
  <2>4. CASE ~(k <= n)
    <3>1. n < k /\ \A i \in 1 .. n : i \in 1 .. k
      BY <2>4
    <3>2. \A i \in 1 .. n : c[i] = x[i]
      BY <1>8, <2>2, <3>1, Zenon
    <3>3. n >= 1 => IsCut(c, x)
      BY <1>8, <2>1, <3>1, <3>2, Zenon DEF IsCut
    <3> QED
      BY <2>1, <2>4, <3>3, Zenon
  <2> QED
    BY <2>3, <2>4, Zenon
<1> QED
  BY <1>1, <1>3, <1>4, <1>5, <1>6, <1>7, <1>8, <1>9, <1>10, Zenon DEF Left, Whether, RestOf

\* The read ends before the end of what it begins with, or not.
LEMMA CutNumbers ==
    ASSUME NEW p \in Nat, NEW n \in Nat, NEW m \in Nat
    PROVE  /\ p + m \in Nat
           /\ p + n < p + m => ~(m <= n) /\ ~(p + n >= p + m)
           /\ ~(p + n < p + m) => m <= n /\ m \in 0 .. n /\ p + m + 1 = (p + m) + 1
  OBVIOUS

\* What read b has behind packet k.
SameRest(s, k, b, to) ==
    \A m \in Nat : m = Len(Bytes(s[k])) => SubSeq(b, m + 1, Len(b)) = SubSeq(StreamOf(s), EndOf(s, k) + 1, to)

\* A read that begins with a packet has it whole or cut.
LEMMA SentReads ==
    ASSUME NEW s \in Seq(Connects \cup Packets), NEW j \in 0 .. Len(s) - 1, NEW p \in Nat, p = EndOf(s, j),
           NEW n \in Nat, n >= 1, NEW w, NEW b, Gives(StreamOf(s), p, w, n, b)
    PROVE  /\ p + n < EndOf(s, j + 1) => IsCut(b, Bytes(s[j + 1]))
           /\ p + n >= EndOf(s, j + 1) =>
                At(b, 0, Bytes(s[j + 1])) /\ SameRest(s, j + 1, b, p + n)
<1>1. PICK l \in Nat : l = Len(s)
  BY LenProperties, Zenon
<1>2. j \in 0 .. l - 1 /\ l \in 0 .. l /\ j + 1 \in 1 .. l
  BY <1>1
<1>3. PICK S \in Seq(Byte) : S = StreamOf(s)
  BY <1>1, <1>2, UptoIs, Zenon DEF StreamOf
<1>4. s[j + 1] \in Connects \cup Packets
  BY <1>1, <1>2, ElementOfSeq, Zenon
<1>5. PICK x \in Seq(Byte) : x = Bytes(s[j + 1])
  BY <1>4, SentBytes, Zenon
<1>6. PICK m \in Nat : m = Len(x)
  BY LenProperties, Zenon
<1>7. PICK e : e = EndOf(s, j + 1)
  OBVIOUS
<1>8. e = p + m
  BY <1>1, <1>2, <1>5, <1>6, <1>7, EndIs, Zenon
<1>9. At(S, p, x)
  BY <1>1, <1>2, <1>3, <1>5, UptoIs, Zenon
<1>10. Gives(S, p, w, n, b)
  BY <1>3, Zenon
<1>11. /\ Len(b) = n /\ (Len(x) <= n => At(b, 0, x)) /\ (~(Len(x) <= n) /\ n >= 1 => IsCut(b, x))
       /\ \A i \in 0 .. n : SubSeq(b, i + 1, n) = SubSeq(S, p + i + 1, p + n)
  <2>1. Len(b) = n /\ Whether(S, p, n, b) /\ RestOf(S, p, n, b)
    BY <1>3, <1>10, ReadIs
  <2>2. \A i \in 0 .. n : SubSeq(b, i + 1, n) = SubSeq(S, p + i + 1, p + n)
    BY <2>1 DEF RestOf
  <2>3. (Len(x) <= n => At(b, 0, x)) /\ (~(Len(x) <= n) /\ n >= 1 => IsCut(b, x))
    BY <1>9, <2>1, Zenon DEF Whether
  <2> QED
    BY <2>1, <2>2, <2>3, Zenon
<1>12. CASE p + n < e
  <2>1. ~(m <= n) /\ ~(p + n >= e)
    BY <1>8, <1>12, CutNumbers, Zenon
  <2>2. IsCut(b, x)
    BY <1>6, <1>11, <2>1, Zenon
  <2> QED
    BY <1>5, <1>7, <2>1, <2>2, Zenon
<1>13. CASE ~(p + n < e)
  <2>1. m <= n /\ m \in 0 .. n /\ p + m + 1 = e + 1
    BY <1>8, <1>13, CutNumbers, Zenon
  <2>2. At(b, 0, x)
    BY <1>6, <1>11, <2>1, Zenon
  <2>3. SubSeq(b, m + 1, n) = SubSeq(S, e + 1, p + n)
    BY <1>11, <2>1, Zenon
  <2> QED
    BY <1>3, <1>5, <1>6, <1>7, <1>11, <1>13, <2>2, <2>3, Zenon DEF SameRest
<1> QED
  BY <1>12, <1>13, Zenon

\* The stream of what has been sent.
LEMMA StreamIs ==
    ASSUME NEW s \in Seq(Connects \cup Packets)
    PROVE  StreamOf(s) \in Seq(Byte) /\ Len(StreamOf(s)) \in Nat /\ Len(StreamOf(s)) = EndOf(s, Len(s))
<1>1. PICK l \in Nat : l = Len(s)
  BY LenProperties, Zenon
<1>2. l \in 0 .. l
  OBVIOUS
<1>3. StreamOf(s) \in Seq(Byte)
  BY <1>1, <1>2, UptoIs, Zenon DEF StreamOf
<1> QED
  BY <1>3, LenProperties, Zenon DEF StreamOf, EndOf

\* Of a connection that is open, a read gives some of the stream, ...
LEMMA PlaceGives ==
    ASSUME NEW s \in Seq(Connects \cup Packets), NEW w, NEW p \in Nat, NEW t, NEW h,
           PlaceOK(s, w, p, t, h), Connected(t), NEW n \in Nat, n <= Len(w)
    PROVE  Gives(StreamOf(s), p, w, n, SubSeq(w, 1, n))
<1>1. PICK S \in Seq(Byte) : S = StreamOf(s)
  BY StreamIs, Zenon
<1>2. WireOK(s, w, p)
  BY Zenon DEF PlaceOK
<1>3. PICK l \in Nat : l = Len(S)
  BY LenProperties, Zenon
<1>4. p <= l /\ w = SubSeq(S, p + 1, l)
  BY <1>1, <1>2, <1>3, Zenon DEF WireOK
<1>5. l <= Len(S)
  BY <1>3
<1>6. Len(w) = l - p
  BY <1>4, <1>5, PieceIs, Zenon
<1>7. p + n <= l
  <2>1. n <= l - p
    BY <1>6, Zenon
  <2> QED
    BY <2>1
<1> QED
  BY <1>1, <1>3, <1>4, <1>7, Zenon DEF Gives

\* ... and leaves the rest.
LEMMA MovePlace ==
    ASSUME NEW s \in Seq(Connects \cup Packets), NEW w, NEW p \in Nat, NEW t, NEW h,
           PlaceOK(s, w, p, t, h), Connected(t), NEW n \in Nat, n >= 1, n <= Len(w)
    PROVE  /\ SubSeq(w, 1, n) \in Seq(Byte) /\ Len(SubSeq(w, 1, n)) = n
           /\ SubSeq(w, n + 1, Len(w)) \in Seq(Byte)
           /\ \A g : (g <=> h \/ \A k \in 0 .. Len(s) : p + n # EndOf(s, k)) =>
                 PlaceOK(s, SubSeq(w, n + 1, Len(w)), p + n, "open", g)
<1>1. PICK S \in Seq(Byte) : S = StreamOf(s)
  BY StreamIs, Zenon
<1>2. PICK b : b = SubSeq(w, 1, n)
  OBVIOUS
<1>3. Gives(S, p, w, n, b)
  BY <1>1, <1>2, PlaceGives, Zenon
<1>4. b \in Seq(Byte) /\ Len(b) = n /\ Left(S, p, w, n)
  BY <1>1, <1>3, ReadIs
<1>5. PICK l \in Nat : l = Len(S)
  BY LenProperties, Zenon
<1>6. p + n <= l /\ l <= Len(S)
  <2>1. p + n <= l
    BY <1>3, <1>5, Zenon DEF Gives
  <2> QED
    BY <1>5, <2>1
<1>7. PICK v : v = SubSeq(w, n + 1, Len(w))
  OBVIOUS
<1>8. v = SubSeq(S, p + n + 1, l)
  BY <1>4, <1>5, <1>7, Zenon DEF Left
<1>9. PICK q \in Nat : q = p + n
  <2>1. p + n \in Nat
    OBVIOUS
  <2> QED
    BY <2>1, Zenon
<1>10. v \in Seq(Byte)
  <2>1. q <= l /\ v = SubSeq(S, q + 1, l)
    BY <1>6, <1>8, <1>9, Zenon
  <2> QED
    BY <1>6, <2>1, PieceIs, Zenon
<1>11. WireOK(s, v, p + n)
  BY <1>1, <1>5, <1>6, <1>8, Zenon DEF WireOK
<1>12. SentOK(s)
  BY Zenon DEF PlaceOK
<1>13. p + n >= 1
  OBVIOUS
<1>14. ASSUME NEW g, g <=> h \/ \A k \in 0 .. Len(s) : p + n # EndOf(s, k)
       PROVE  PlaceOK(s, v, p + n, "open", g)
  <2>1. ~g => AtEnd(s, p + n)
    BY <1>14, Zenon DEF AtEnd
  <2>2. "open" # "accept"
    OBVIOUS
  <2> QED
    BY <1>11, <1>12, <1>13, <2>1, <2>2, Zenon DEF PlaceOK
<1> QED
  BY <1>2, <1>4, <1>7, <1>10, <1>14, Zenon

\* More bytes behind them leave a piece of b as it is.
SamePiece(b, c, m, n) == SubSeq(b \o c, m + 1, n) = SubSeq(b, m + 1, n)

\* Bytes behind a piece leave it as it is, and lengthen what reaches the end.
LEMMA PieceOfLonger ==
    ASSUME NEW b \in Seq(Byte), NEW c \in Seq(Byte), NEW m \in Nat, NEW n \in Nat, n <= Len(b)
    PROVE  /\ SamePiece(b, c, m, n)
           /\ m <= Len(b) => SubSeq(b \o c, m + 1, Len(b \o c)) = SubSeq(b, m + 1, Len(b)) \o c
<1>1. PICK l \in Nat, k \in Nat : l = Len(b) /\ k = Len(c)
  BY LenProperties, Zenon
<1>2. PICK d \in Seq(Byte) : d = b \o c
  BY Joined, Zenon
<1>3. Len(d) = l + k /\ \A i \in 1 .. l + k : d[i] = IF i <= l THEN b[i] ELSE c[i - l]
  BY <1>1, <1>2, ConcatProperties, Zenon
<1>4. SubSeq(d, m + 1, n) = SubSeq(b, m + 1, n)
  <2>1. CASE m <= n
    <3>1. m <= n /\ n <= Len(d) /\ n <= Len(b) /\ n <= l /\ l \in Nat
      <4>1. n <= l
        BY <1>1, Zenon
      <4>2. n <= l + k
        BY <4>1
      <4> QED
        BY <1>1, <1>3, <2>1, <4>1, <4>2, Zenon
    <3>2. PICK x, y : x = SubSeq(d, m + 1, n) /\ y = SubSeq(b, m + 1, n)
      OBVIOUS
    <3>3. x \in Seq(Byte) /\ Len(x) = n - m /\ \A i \in 1 .. n - m : x[i] = d[m + i]
      BY <3>1, <3>2, PieceIs, Zenon
    <3>4. y \in Seq(Byte) /\ Len(y) = n - m /\ \A i \in 1 .. n - m : y[i] = b[m + i]
      BY <3>1, <3>2, PieceIs, Zenon
    <3>5. \A i \in 1 .. n - m : m + i \in 1 .. l + k /\ m + i <= l
      BY <3>1
    <3>6. \A i \in 1 .. n - m : x[i] = y[i]
      BY <1>3, <3>3, <3>4, <3>5, Zenon
    <3>7. x = y
      BY <3>3, <3>4, <3>6, SeqEqual, Zenon
    <3> QED
      BY <3>2, <3>7, Zenon
  <2>2. CASE ~(m <= n)
    <3>1. m + 1 \in Int /\ n \in Int /\ n < m + 1
      BY <2>2
    <3>2. SubSeq(d, m + 1, n) = <<>> /\ SubSeq(b, m + 1, n) = <<>>
      BY <3>1, SubSeqEmpty, Zenon
    <3> QED
      BY <3>2, Zenon
  <2> QED
    BY <2>1, <2>2, Zenon
<1>5. ASSUME m <= l PROVE SubSeq(d, m + 1, l + k) = SubSeq(b, m + 1, l) \o c
  <2>1. m <= l /\ l <= Len(b) /\ m <= l + k /\ l + k <= Len(d) /\ l + k \in Nat
    <3>1. l <= l /\ m <= l + k /\ l + k <= l + k /\ l + k \in Nat
      BY <1>5
    <3> QED
      BY <1>1, <1>3, <1>5, <3>1, Zenon
  <2>2. PICK x, y : x = SubSeq(d, m + 1, l + k) /\ y = SubSeq(b, m + 1, l)
    OBVIOUS
  <2>3. x \in Seq(Byte) /\ Len(x) = (l + k) - m /\ \A i \in 1 .. (l + k) - m : x[i] = d[m + i]
    BY <2>1, <2>2, PieceIs, Zenon
  <2>4. y \in Seq(Byte) /\ Len(y) = l - m /\ \A i \in 1 .. l - m : y[i] = b[m + i]
    BY <2>1, <2>2, PieceIs, ZenonT(60)
  <2>5. PICK z : z = y \o c
    OBVIOUS
  <2>6. /\ z \in Seq(Byte) /\ Len(z) = (l - m) + k
        /\ \A i \in 1 .. (l - m) + k : z[i] = IF i <= l - m THEN y[i] ELSE c[i - (l - m)]
    <3>1. /\ z \in Seq(Byte) /\ Len(z) = Len(y) + Len(c)
          /\ \A i \in 1 .. Len(y) + Len(c) : z[i] = IF i <= Len(y) THEN y[i] ELSE c[i - Len(y)]
      BY <2>4, <2>5, ConcatProperties, Zenon
    <3> QED
      BY <1>1, <2>4, <3>1, Zenon
  <2>7. ASSUME NEW i \in 1 .. (l + k) - m PROVE x[i] = z[i]
    <3>1. i \in 1 .. (l - m) + k /\ m + i \in 1 .. l + k
      BY <1>5, <2>7
    <3>2. x[i] = (IF m + i <= l THEN b[m + i] ELSE c[m + i - l])
      <4>1. PICK o \in 1 .. l + k : o = m + i
        BY <3>1, Zenon
      <4>2. x[i] = d[o]
        BY <2>3, <2>7, <4>1, Zenon
      <4>3. d[o] = (IF o <= l THEN b[o] ELSE c[o - l])
        BY <1>3, <4>1, Zenon
      <4> QED
        BY <4>1, <4>2, <4>3, SMTT(30)
    <3>3. z[i] = (IF i <= l - m THEN y[i] ELSE c[i - (l - m)])
      BY <2>6, <3>1, Zenon
    <3>4. CASE i <= l - m
      <4>1. m + i <= l /\ i \in 1 .. l - m
        BY <1>5, <2>7, <3>4
      <4> QED
        BY <2>4, <3>2, <3>3, <3>4, <4>1, Zenon
    <3>5. CASE ~(i <= l - m)
      <4>1. ~(m + i <= l) /\ m + i - l = i - (l - m)
        BY <1>5, <2>7, <3>5
      <4> QED
        BY <3>2, <3>3, <3>5, <4>1, Zenon
    <3> QED
      BY <3>4, <3>5, Zenon
  <2>8. (l - m) + k = (l + k) - m
    OBVIOUS
  <2>9. x = z
    BY <2>3, <2>6, <2>7, <2>8, SeqEqual, Zenon
  <2> QED
    BY <2>2, <2>5, <2>9, Zenon
<1> QED
  BY <1>1, <1>2, <1>3, <1>4, <1>5, Zenon DEF SamePiece

\* What may be sent next.
Sendable(s, x) == x \in (IF s = <<>> THEN Connects ELSE Packets)

\* Sending keeps the connection in order.
LEMMA SendPlace ==
    ASSUME NEW s \in Seq(Connects \cup Packets), NEW x \in Connects \cup Packets, Sendable(s, x),
           NEW w, NEW p \in Nat, NEW t, NEW h, PlaceOK(s, w, p, t, h), Connected(t)
    PROVE  PlaceOK(Append(s, x), w \o Bytes(x), p, t, h)
<1>1. PICK l \in Nat : l = Len(s)
  BY LenProperties, Zenon
<1>2. PICK u : u = Append(s, x)
  OBVIOUS
<1>3. u \in Seq(Connects \cup Packets) /\ Len(u) = l + 1 /\ u[l + 1] = x /\ \A n \in 1 .. l : u[n] = s[n]
  BY <1>1, <1>2, Appended, Zenon
<1>4. /\ \A k \in 0 .. l : EndOf(u, k) = EndOf(s, k)
      /\ StreamOf(u) = StreamOf(s) \o Bytes(x)
  BY <1>1, <1>2, UptoAppend, Zenon
<1>5. PICK S \in Seq(Byte) : S = StreamOf(s)
  BY StreamIs, Zenon
<1>6. PICK y \in Seq(Byte) : y = Bytes(x)
  BY SentBytes, Zenon
<1>7. p <= Len(S) /\ w = SubSeq(S, p + 1, Len(S))
  BY <1>5, Zenon DEF PlaceOK, WireOK
<1>8. SubSeq(S \o y, p + 1, Len(S \o y)) = SubSeq(S, p + 1, Len(S)) \o y
  BY <1>7, PieceOfLonger, Zenon
<1>9. Len(S \o y) = Len(S) + Len(y) /\ Len(S) \in Nat /\ Len(y) \in Nat
  BY Joined, Zenon
<1>10. p <= Len(S \o y)
  <2>1. PICK i \in Nat, j \in Nat : i = Len(S) /\ j = Len(y)
    BY <1>9, Zenon
  <2>2. p <= i => p <= i + j
    OBVIOUS
  <2> QED
    BY <1>7, <1>9, <2>1, <2>2, Zenon
<1>11. WireOK(u, w \o y, p)
  BY <1>4, <1>5, <1>6, <1>7, <1>8, <1>10, Zenon DEF WireOK
<1>12. SentOK(u)
  <2>1. SUFFICES ASSUME NEW k \in 1 .. l + 1 PROVE IF k = 1 THEN u[k] \in Connects ELSE u[k] \in Packets
    BY <1>3, Zenon DEF SentOK
  <2>2. CASE k = l + 1
    <3>1. k = 1 => l = 0
      BY <2>2
    <3>2. l = 0 <=> s = <<>>
      BY <1>1, EmptySeq, Zenon
    <3>3. k # 1 => l # 0
      BY <2>2
    <3> QED
      BY <1>3, <2>2, <3>1, <3>2, <3>3, Zenon DEF Sendable
  <2>3. CASE k # l + 1
    <3>1. k \in 1 .. l
      BY <2>1, <2>3
    <3>2. IF k = 1 THEN s[k] \in Connects ELSE s[k] \in Packets
      BY <1>1, <3>1, Zenon DEF PlaceOK, SentOK
    <3> QED
      BY <1>3, <3>1, <3>2, Zenon
  <2> QED
    BY <2>2, <2>3, Zenon
<1>13. ~h => AtEnd(u, p)
  <2>1. SUFFICES ASSUME ~h PROVE AtEnd(u, p)
    OBVIOUS
  <2>2. PICK j \in 0 .. l : p = EndOf(s, j)
    BY <1>1, <2>1, Zenon DEF PlaceOK, AtEnd
  <2>3. j \in 0 .. l + 1
    BY <2>2
  <2> QED
    BY <1>3, <1>4, <2>2, <2>3, Zenon DEF AtEnd
<1> QED
  BY <1>2, <1>6, <1>11, <1>12, <1>13, Zenon DEF PlaceOK

\* Sending does not change what has been read.
LEMMA SendReading ==
    ASSUME NEW s \in Seq(Connects \cup Packets), NEW x \in Connects \cup Packets,
           NEW w, NEW p \in Nat, NEW t, NEW h, PlaceOK(s, w, p, t, h), Connected(t),
           NEW g, ReadingOK(s, p, t, g)
    PROVE  ReadingOK(Append(s, x), p, t, g)
<1>1. PICK l \in Nat : l = Len(s)
  BY LenProperties, Zenon
<1>2. PICK u : u = Append(s, x)
  OBVIOUS
<1>3. u \in Seq(Connects \cup Packets) /\ Len(u) = l + 1 /\ \A n \in 1 .. l : u[n] = s[n]
  BY <1>1, <1>2, Appended, Zenon
<1>4. DOMAIN s = 1 .. l /\ DOMAIN u = 1 .. l + 1
  BY <1>1, <1>3, LenProperties, Zenon
<1>5. /\ \A k \in 0 .. l : EndOf(u, k) = EndOf(s, k)
      /\ StreamOf(u) = StreamOf(s) \o Bytes(x)
  BY <1>1, <1>2, UptoAppend, Zenon
<1>6. PICK S \in Seq(Byte) : S = StreamOf(s)
  BY StreamIs, Zenon
<1>7. PICK y \in Seq(Byte) : y = Bytes(x)
  BY SentBytes, Zenon
<1>8. PICK e \in Nat : e = Len(S) /\ e = EndOf(s, l)
  BY <1>1, <1>6, StreamIs, Zenon
<1>9. p <= e
  BY <1>6, <1>8, Zenon DEF PlaceOK, WireOK
<1>10. /\ g # None => t = "open"
       /\ GotOK(g, p) /\ TruncatedOf(s, g) /\ ReadOf(s, g)
  BY Zenon DEF ReadingOK
<1>11. ASSUME g # None, NEW k \in 1 .. l + 1, g.from = EndOf(u, k - 1)
       PROVE  /\ k \in 1 .. l /\ k \in DOMAIN s /\ u[k] = s[k] /\ EndOf(u, k) = EndOf(s, k)
              /\ g.from = EndOf(s, k - 1)
  <2>1. k - 1 \in 0 .. l /\ (k # l + 1 => k \in 1 .. l) /\ (k = l + 1 => k - 1 = l)
    OBVIOUS
  <2>2. g.from = EndOf(s, k - 1)
    BY <1>5, <1>11, <2>1, Zenon
  <2>3. PICK a, b : a = g.from /\ b = g.to
    OBVIOUS
  <2>4. a \in Nat /\ b \in Nat /\ a < b /\ b <= p
    BY <1>10, <1>11, <2>3, Zenon DEF GotOK
  <2>5. a # e
    BY <1>9, <2>4
  <2>6. k # l + 1
    BY <1>8, <2>1, <2>2, <2>3, <2>5, Zenon
  <2>7. k \in 1 .. l
    BY <2>1, <2>6, Zenon
  <2>8. k \in 0 .. l
    BY <2>7
  <2> QED
    BY <1>3, <1>4, <1>5, <2>2, <2>7, <2>8, Zenon
<1>12. TruncatedOf(u, g)
  <2>1. SUFFICES ASSUME NEW k \in 1 .. l + 1, g # None, g.from = EndOf(u, k - 1), u[k].type # "pingreq"
                 PROVE  g.to >= EndOf(u, k)
    BY <1>4, Zenon DEF TruncatedOf
  <2>2. k \in DOMAIN s /\ u[k] = s[k] /\ EndOf(u, k) = EndOf(s, k) /\ g.from = EndOf(s, k - 1)
    BY <1>11, <2>1, Zenon
  <2>3. g.to >= EndOf(s, k)
    BY <1>10, <2>1, <2>2, Zenon DEF TruncatedOf
  <2> QED
    BY <2>2, <2>3, Zenon
<1>13. ReadOf(u, g)
  <2>1. SUFFICES ASSUME NEW k \in 1 .. l + 1, g # None, g.from = EndOf(u, k - 1), g.to >= EndOf(u, k),
                        ~Misread(u[k])
                 PROVE  GivenOf(u, g, k)
    BY <1>4, Zenon DEF ReadOf
  <2>2. k \in DOMAIN s /\ k \in 1 .. l /\ u[k] = s[k] /\ EndOf(u, k) = EndOf(s, k) /\ g.from = EndOf(s, k - 1)
    BY <1>11, <2>1, Zenon
  <2>3. GivenOf(s, g, k)
    BY <1>10, <2>1, <2>2, Zenon DEF ReadOf
  <2>4. k \in 0 .. l
    BY <2>2
  <2>5. PICK m \in Nat : m = EndOf(s, k)
    BY <1>1, <2>4, EndIs, Zenon
  <2>6. PICK n : n = g.to
    OBVIOUS
  <2>7. n \in Nat /\ n <= p
    BY <1>10, <2>1, <2>6, Zenon DEF GotOK
  <2>8. n <= e
    BY <1>9, <2>7
  <2>9. SubSeq(S \o y, m + 1, n) = SubSeq(S, m + 1, n)
    <3>1. n <= Len(S)
      BY <1>8, <2>8, Zenon
    <3>2. SamePiece(S, y, m, n)
      BY <1>6, <1>7, <2>5, <2>7, <3>1, PieceOfLonger, Zenon
    <3> QED
      BY <3>2, Zenon DEF SamePiece
  <2>10. s[k].type # "other" /\ g.packet = Decoded(s[k], SubSeq(S, m + 1, n))
    BY <1>6, <2>3, <2>5, <2>6, Zenon DEF GivenOf
  <2>11. u[k].type # "other" /\ g.packet = Decoded(u[k], SubSeq(S \o y, m + 1, n))
    BY <2>2, <2>9, <2>10, Zenon
  <2> QED
    BY <1>5, <1>6, <1>7, <2>2, <2>5, <2>6, <2>11, Zenon DEF GivenOf
<1> QED
  BY <1>2, <1>10, <1>12, <1>13, Zenon DEF ReadingOK

\* What a read has given.
Reading(p, n, v) == [from |-> p, to |-> p + n, packet |-> v]

IsReading(g, p, n, v) == g # None /\ g.from = p /\ g.to = p + n /\ g.packet = v /\ GotOK(g, p + n)

\* Its fields.
LEMMA ReadingIs ==
    ASSUME NEW p \in Nat, NEW n \in Nat, n >= 1, NEW v
    PROVE  IsReading(Reading(p, n, v), p, n, v)
<1>1. PICK g : g = Reading(p, n, v)
  OBVIOUS
<1>2. g.from = p /\ g.to = p + n /\ g.packet = v
  BY <1>1, Zenon DEF Reading
<1>3. g # None
  BY <1>1 DEF Reading, None
<1>4. p + n \in Nat /\ p < p + n /\ p + n <= p + n
  OBVIOUS
<1> QED
  BY <1>1, <1>2, <1>3, <1>4, Zenon DEF GotOK, IsReading

\* The bytes of a read.
IsRead(b, w, n) == b = SubSeq(w, 1, n)

\* A CONNECT that is read is whole, and the one that was sent.
LEMMA ConnectTaken ==
    ASSUME NEW s \in Seq(Connects \cup Packets), NEW w, NEW h, PlaceOK(s, w, 0, "accept", h),
           NEW n \in Nat, n >= 1, n <= Len(w),
           NEW b, IsRead(b, w, n), DecodeConnect(b).st = "ok"
    PROVE  ReadingOK(s, 0 + n, "open", Reading(0, n, DecodeConnect(b).v))
<1>1. PICK l \in Nat : l = Len(s)
  BY LenProperties, Zenon
<1>2. Connected("accept") /\ 0 \in Nat
  BY Zenon DEF Connected
<1>3. Gives(StreamOf(s), 0, w, n, b) /\ b \in Seq(Byte)
  BY <1>2, PlaceGives, MovePlace, Zenon DEF IsRead
<1>4. PICK g : g = Reading(0, n, DecodeConnect(b).v)
  OBVIOUS
<1>5. g # None /\ g.from = 0 /\ g.to = 0 + n /\ g.packet = DecodeConnect(b).v /\ GotOK(g, 0 + n)
  <2>1. IsReading(g, 0, n, DecodeConnect(b).v)
    BY <1>2, <1>4, ReadingIs, Zenon
  <2> QED
    BY <2>1, Zenon DEF IsReading
<1>6. DOMAIN s = 1 .. l
  BY <1>1, LenProperties, Zenon
<1>7. ASSUME NEW k \in 1 .. l, 0 = EndOf(s, k - 1)
      PROVE  g.to >= EndOf(s, k) /\ (~Misread(s[k]) => GivenOf(s, g, k))
  <2>1. k = 1
    <3>1. k - 1 \in 0 .. l /\ 0 \in 0 .. l /\ (k # 1 => 0 < k - 1)
      OBVIOUS
    <3>2. EndOf(s, 0) = 0
      BY EndIs, Zenon
    <3>3. k # 1 => 0 + 2 <= 0
      BY <1>1, <1>7, <3>1, <3>2, EndIs, Zenon
    <3>4. ~(0 + 2 <= 0)
      OBVIOUS
    <3> QED
      BY <3>3, <3>4, Zenon
  <2>2. 0 \in 0 .. l - 1 /\ 0 + 1 = 1 /\ 1 \in 1 .. l /\ 1 \in 0 .. l
    BY <1>7, <2>1
  <2>3. EndOf(s, 0) = 0
    BY EndIs, Zenon
  <2>4. PICK x : x = s[1]
    OBVIOUS
  <2>5. x \in Connects
    BY <1>1, <2>2, <2>4, Zenon DEF PlaceOK, SentOK
  <2>6. IsConnect(x) /\ Bytes(x) \in Seq(Byte)
    BY <2>5, SentBytes, Zenon
  <2>8. PICK e \in Nat : e = EndOf(s, 1)
    BY <1>1, <2>2, EndIs, Zenon
  <2>9. /\ 0 + n < e => IsCut(b, Bytes(x))
        /\ 0 + n >= e => At(b, 0, Bytes(x))
    BY <1>1, <1>2, <1>3, <2>2, <2>3, <2>4, <2>8, SentReads, Zenon
  <2>10. ~IsCut(b, Bytes(x))
    BY <1>3, <2>6, ConnectReads, Zenon
  <2>11. 0 + n < e \/ 0 + n >= e
    OBVIOUS
  <2>12. 0 + n >= e /\ At(b, 0, Bytes(x))
    BY <2>9, <2>10, <2>11, Zenon
  <2>13. ~Misread(x) => \A rest : DecodeConnect(b).v = Decoded(x, rest)
    BY <1>3, <2>6, <2>12, ConnectReads, Zenon
  <2>13a. x.type # "other"
    BY <2>6, ConnectSent
  <2>14. ~Misread(x) => GivenOf(s, g, 1)
    BY <1>5, <2>4, <2>13, <2>13a, Zenon DEF GivenOf
  <2> QED
    BY <1>5, <2>1, <2>4, <2>8, <2>12, <2>14, Zenon
<1>8. TruncatedOf(s, g) /\ ReadOf(s, g)
  BY <1>5, <1>6, <1>7, Zenon DEF TruncatedOf, ReadOf
<1> QED
  BY <1>4, <1>5, <1>8, Zenon DEF ReadingOK

\* A packet that is read is whole, unless it is a PINGREQ, and the one that was
\* sent, unless it is misread.
LEMMA PacketTaken ==
    ASSUME NEW s \in Seq(Connects \cup Packets), NEW w, NEW p \in Nat, NEW h, PlaceOK(s, w, p, "open", h),
           NEW n \in Nat, n >= 1, n <= Len(w),
           NEW b, IsRead(b, w, n), Decode(b).st = "ok"
    PROVE  ReadingOK(s, p + n, "open", Reading(p, n, Decode(b).v))
<1>1. PICK l \in Nat : l = Len(s)
  BY LenProperties, Zenon
<1>2. Connected("open") /\ p >= 1
  BY Zenon DEF Connected, PlaceOK
<1>3. Gives(StreamOf(s), p, w, n, b) /\ b \in Seq(Byte)
  BY <1>2, PlaceGives, MovePlace, Zenon DEF IsRead
<1>4. PICK g : g = Reading(p, n, Decode(b).v)
  OBVIOUS
<1>5. g # None /\ g.from = p /\ g.to = p + n /\ g.packet = Decode(b).v /\ GotOK(g, p + n)
  <2>1. IsReading(g, p, n, Decode(b).v)
    BY <1>4, ReadingIs, Zenon
  <2> QED
    BY <2>1, Zenon DEF IsReading
<1>6. DOMAIN s = 1 .. l
  BY <1>1, LenProperties, Zenon
<1>7. ASSUME NEW k \in 1 .. l, p = EndOf(s, k - 1)
      PROVE  /\ s[k].type # "pingreq" => g.to >= EndOf(s, k)
             /\ g.to >= EndOf(s, k) /\ ~Misread(s[k]) => GivenOf(s, g, k)
  <2>1. k # 1
    <3>0. 1 - 1 = 0
      OBVIOUS
    <3>1. EndOf(s, 0) = 0 /\ 1 - 1 = 0
      BY <3>0, EndIs, Zenon
    <3>2. p # 0
      BY <1>2
    <3> QED
      BY <1>7, <3>1, <3>2, Zenon
  <2>2. PICK j \in 0 .. l - 1 : j = k - 1 /\ j + 1 = k
    BY <1>7
  <2>4. PICK x : x = s[k]
    OBVIOUS
  <2>5. x \in Packets
    BY <1>1, <1>7, <2>1, <2>4, Zenon DEF PlaceOK, SentOK
  <2>6. IsPacket(x) /\ Bytes(x) \in Seq(Byte)
    BY <2>5, SentBytes, Zenon
  <2>7. PICK m \in Nat : m = Len(Bytes(x))
    BY <2>6, LenProperties, Zenon
  <2>20. k \in 0 .. l
    BY <1>7
  <2>8. PICK e \in Nat : e = EndOf(s, k)
    BY <1>1, <2>20, EndIs, Zenon
  <2>9. /\ p + n < e => IsCut(b, Bytes(x))
        /\ p + n >= e => /\ At(b, 0, Bytes(x))
                         /\ SameRest(s, k, b, p + n)
    BY <1>1, <1>3, <1>7, <2>2, <2>4, <2>8, SentReads, Zenon
  <2>10. ~IsCut(b, Bytes(x)) \/ x.type = "pingreq"
    BY <1>3, <2>6, PacketReads, Zenon
  <2>11. p + n < e \/ p + n >= e
    OBVIOUS
  <2>12. x.type # "pingreq" => p + n >= e
    BY <2>9, <2>10, <2>11, Zenon
  <2>13. ASSUME p + n >= e, ~Misread(x) PROVE GivenOf(s, g, k)
    <3>0. x.type # "other"
      BY <1>3, <2>6, <2>9, <2>13, PacketReads, Zenon
    <3>1. Given(b, x)
      BY <1>3, <2>6, <2>9, <2>13, <3>0, PacketReads, Zenon
    <3>2. Decode(b).v = Decoded(x, SubSeq(b, m + 1, Len(b)))
      BY <2>7, <3>1, Zenon DEF Given
    <3>3. Decode(b).v = Decoded(x, SubSeq(StreamOf(s), e + 1, p + n))
      BY <2>4, <2>7, <2>8, <2>9, <2>13, <3>2, Zenon DEF SameRest
    <3> QED
      BY <1>5, <2>4, <2>8, <3>0, <3>3, Zenon DEF GivenOf
  <2> QED
    BY <1>5, <2>4, <2>8, <2>12, <2>13, Zenon
<1>8. TruncatedOf(s, g) /\ ReadOf(s, g)
  BY <1>5, <1>6, <1>7, Zenon DEF TruncatedOf, ReadOf
<1> QED
  BY <1>4, <1>5, <1>8, Zenon DEF ReadingOK

\* As long as every read ends where a packet does, it begins with a whole packet.
LEMMA WholeRead ==
    ASSUME NEW s \in Seq(Connects \cup Packets), NEW w, NEW p \in Nat, NEW t, NEW h,
           PlaceOK(s, w, p, t, h), Connected(t), ~h, NEW n \in Nat, n >= 1, n <= Len(w),
           NEW k \in 0 .. Len(s), p + n = EndOf(s, k), NEW b, IsRead(b, w, n)
    PROVE  \E j \in 0 .. Len(s) - 1 : p = EndOf(s, j) /\ At(b, 0, Bytes(s[j + 1]))
<1>1. PICK l \in Nat : l = Len(s)
  BY LenProperties, Zenon
<1>2. PICK j \in 0 .. l : p = EndOf(s, j)
  BY <1>1, Zenon DEF PlaceOK, AtEnd
<1>3. k \in 0 .. l /\ (~(j < k) => k = j \/ k < j)
  BY <1>1
<1>4. PICK e \in Nat : e = EndOf(s, k)
  BY <1>1, <1>3, EndIs, Zenon
<1>5. e = p + n
  BY <1>4, Zenon
<1>6. e # p /\ ~(e + 2 <= p)
  BY <1>5
<1>7. j < k
  <2>1. k # j
    BY <1>2, <1>4, <1>6, Zenon
  <2>2. k < j => e + 2 <= p
    BY <1>1, <1>2, <1>3, <1>4, EndIs, Zenon
  <2> QED
    BY <1>3, <1>6, <2>1, <2>2, Zenon
<1>8. j \in 0 .. l - 1 /\ j + 1 \in 0 .. l /\ (j + 1 = k \/ j + 1 < k)
  BY <1>3, <1>7
<1>9. PICK f \in Nat : f = EndOf(s, j + 1)
  BY <1>1, <1>8, EndIs, Zenon
<1>10. f = e \/ f + 2 <= e
  BY <1>1, <1>3, <1>4, <1>8, <1>9, EndIs, Zenon
<1>11. p + n >= f
  BY <1>5, <1>10
<1>12. Gives(StreamOf(s), p, w, n, b)
  BY PlaceGives, Zenon DEF IsRead
<1>13. At(b, 0, Bytes(s[j + 1]))
  BY <1>1, <1>2, <1>8, <1>9, <1>11, <1>12, SentReads, Zenon
<1> QED
  BY <1>1, <1>2, <1>8, <1>13, Zenon

\* Whether a read has ended inside a packet.
CutOf(s, p, n, h, g) == g <=> h \/ \A k \in 0 .. Len(s) : p + n # EndOf(s, k)

\* The accept task.
LEMMA ConnectSafe ==
    ASSUME NEW s \in Seq(Connects \cup Packets), NEW w, NEW h, PlaceOK(s, w, 0, "accept", h),
           NEW n \in Nat, n >= 1, n <= Len(w), NEW b, IsRead(b, w, n), NEW g, CutOf(s, 0, n, h, g),
           DecodeConnect(b).st \notin {"ok", "err"}
    PROVE  g \/ \E k \in DOMAIN s : Strange(s[k])
<1>1. SUFFICES ASSUME ~g PROVE \E k \in DOMAIN s : Strange(s[k])
  OBVIOUS
<1>2. PICK k \in 0 .. Len(s) : ~h /\ 0 + n = EndOf(s, k)
  BY <1>1, Zenon DEF CutOf
<1>3. Connected("accept") /\ 0 \in Nat
  BY Zenon DEF Connected
<1>4. PICK j \in 0 .. Len(s) - 1 : 0 = EndOf(s, j) /\ At(b, 0, Bytes(s[j + 1]))
  BY <1>2, <1>3, WholeRead
<1>5. PICK l \in Nat : l = Len(s)
  BY LenProperties, Zenon
<1>6. j = 0
  <2>1. j \in 0 .. l /\ 0 \in 0 .. l /\ (j # 0 => 0 < j) /\ ~(0 + 2 <= 0)
    BY <1>4, <1>5
  <2> QED
    BY <1>4, <1>5, <2>1, EndIs, Zenon
<1>7. 1 \in 1 .. l /\ 0 + 1 = 1
  BY <1>4, <1>5, <1>6
<1>8. s[1] \in Connects
  BY <1>5, <1>7, Zenon DEF PlaceOK, SentOK
<1>9. IsConnect(s[1]) /\ At(b, 0, Bytes(s[1]))
  BY <1>4, <1>6, <1>7, <1>8, SentBytes, Zenon
<1>10. b \in Seq(Byte)
  BY <1>3, MovePlace, Zenon DEF IsRead
<1>11. Strange(s[1])
  BY <1>9, <1>10, ConnectReads, Zenon DEF Strange
<1>12. DOMAIN s = 1 .. l
  BY <1>5, LenProperties, Zenon
<1> QED
  BY <1>7, <1>11, <1>12, Zenon

\* The client task.
LEMMA PacketSafe ==
    ASSUME NEW s \in Seq(Connects \cup Packets), NEW w, NEW p \in Nat, NEW h, PlaceOK(s, w, p, "open", h),
           NEW n \in Nat, n >= 1, n <= Len(w), NEW b, IsRead(b, w, n), NEW g, CutOf(s, p, n, h, g),
           Decode(b).st # "ok"
    PROVE  g \/ \E k \in DOMAIN s : Strange(s[k])
<1>1. SUFFICES ASSUME ~g PROVE \E k \in DOMAIN s : Strange(s[k])
  OBVIOUS
<1>2. PICK k \in 0 .. Len(s) : ~h /\ p + n = EndOf(s, k)
  BY <1>1, Zenon DEF CutOf
<1>3. Connected("open") /\ p >= 1
  BY Zenon DEF Connected, PlaceOK
<1>4. PICK j \in 0 .. Len(s) - 1 : p = EndOf(s, j) /\ At(b, 0, Bytes(s[j + 1]))
  BY <1>2, <1>3, WholeRead
<1>5. PICK l \in Nat : l = Len(s)
  BY LenProperties, Zenon
<1>6. j # 0
  <2>1. p # 0
    BY <1>3
  <2> QED
    BY <1>4, <2>1, EndIs, Zenon
<1>7. j + 1 \in 1 .. l /\ j + 1 # 1
  BY <1>4, <1>5, <1>6
<1>8. s[j + 1] \in Packets
  BY <1>5, <1>7, Zenon DEF PlaceOK, SentOK
<1>9. IsPacket(s[j + 1])
  BY <1>8, SentBytes, Zenon
<1>10. b \in Seq(Byte)
  BY <1>3, MovePlace, Zenon DEF IsRead
<1>11. Strange(s[j + 1])
  BY <1>4, <1>9, <1>10, PacketReads, Zenon DEF Given, Strange
<1>12. DOMAIN s = 1 .. l
  BY <1>5, LenProperties, Zenon
<1> QED
  BY <1>7, <1>11, <1>12, Zenon

\* A longer buffer holds what a shorter one does.
LEMMA GotWider ==
    ASSUME NEW n \in Nat, n <= MaxCap, NEW p
    PROVE  /\ GotConnect(p, n) => GotConnect(p, MaxCap)
           /\ GotPacket(p, n) => GotPacket(p, MaxCap)
<1>1. MaxCap \in Nat
  BY CapIs, Zenon
<1>2. \A kinds, q : FitProps(kinds, q, n) => FitProps(kinds, q, MaxCap)
  BY <1>1, PropsWider, FitPropsIs, Zenon
<1>3. Texts(n) \subseteq Texts(MaxCap) /\ Blobs(n) \subseteq Blobs(MaxCap)
  BY <1>1, FitsWider, Zenon
<1>4. \A x : (x \in Texts(n) => x \in Texts(MaxCap)) /\ (x \in Blobs(n) => x \in Blobs(MaxCap))
  BY <1>3, Zenon
<1>5. GotConnect(p, n) => GotConnect(p, MaxCap)
  BY <1>2, <1>4, Zenon DEF GotConnect
<1>6. GotPublish(p, n) => GotPublish(p, MaxCap)
  BY <1>2, <1>4, Zenon DEF GotPublish
<1>7. GotSubscribe(p, n) => GotSubscribe(p, MaxCap)
  <2>1. Chosen(n) \subseteq Chosen(MaxCap)
    BY <1>4, Zenon DEF Chosen
  <2>2. SUFFICES ASSUME GotSubscribe(p, n) PROVE GotSubscribe(p, MaxCap)
    OBVIOUS
  <2>3. PICK q : q = p.list
    OBVIOUS
  <2>4. q \in Seq(Chosen(n)) /\ Len(q) <= n
    BY <2>2, <2>3, Zenon DEF GotSubscribe
  <2>5. q \in Seq(Chosen(MaxCap))
    BY <2>1, <2>4, SeqMonotonic, Zenon
  <2>6. PICK l \in Nat : l = Len(q)
    BY <2>4, LenProperties, Zenon
  <2>7. l <= MaxCap
    <3>1. PICK m \in Nat : m = MaxCap
      BY <1>1, Zenon
    <3>2. l <= n /\ n <= m
      BY <2>4, <2>6, <3>1, Zenon
    <3>3. l <= m
      BY <3>2
    <3> QED
      BY <3>1, <3>3, Zenon
  <2> QED
    BY <2>2, <2>3, <2>5, <2>6, <2>7, Zenon DEF GotSubscribe
<1> QED
  BY <1>5, <1>6, <1>7, Zenon DEF GotPacket

\* A new connection.
LEMMA FreshPlace ==
    PlaceOK(<<>>, <<>>, 0, "accept", FALSE)
<1>1. <<>> \in Seq(Connects \cup Packets) /\ Len(<<>>) = 0
  BY EmptySeq, Zenon
<1>2. UptoOf(<<>>, 0) = <<>> /\ EndOf(<<>>, 0) = 0
  BY <1>1, UptoIs, EndIs, Zenon
<1>3. StreamOf(<<>>) = <<>>
  BY <1>1, <1>2, Zenon DEF StreamOf
<1>4. 0 + 1 \in Int /\ 0 \in Int /\ 0 < 0 + 1 /\ 0 <= 0 /\ 0 \in 0 .. 0 /\ 1 .. 0 = {}
  OBVIOUS
<1>5. SubSeq(<<>>, 0 + 1, 0) = <<>>
  BY <1>4, SubSeqEmpty, Zenon
<1>6. WireOK(<<>>, <<>>, 0)
  BY <1>1, <1>3, <1>4, <1>5, Zenon DEF WireOK
<1>7. AtEnd(<<>>, 0)
  BY <1>1, <1>2, <1>4, Zenon DEF AtEnd
<1>8. SentOK(<<>>)
  BY <1>1, <1>4, Zenon DEF SentOK
<1> QED
  BY <1>6, <1>7, <1>8, Zenon DEF PlaceOK

\* Nothing has been read.
LEMMA NothingRead ==
    ASSUME NEW s, NEW p, NEW t
    PROVE  ReadingOK(s, p, t, None)
  BY Zenon DEF ReadingOK, GotOK, TruncatedOf, ReadOf

\* A connection that is over is as good as any.
LEMMA ClosedPlace ==
    ASSUME NEW s, SentOK(s), NEW t, ~Connected(t), NEW h
    PROVE  PlaceOK(s, <<>>, 0, t, h)
  BY Zenon DEF PlaceOK, Connected

\* The invariant, part by part.
LEMMA InvParts ==
    ASSUME StreamInv
    PROVE  /\ TypeOK /\ PlaceOK(sent, wire, pos, task, cut) /\ ReadingOK(sent, pos, task, got)
           /\ PanicOf(sent, task, cut) /\ OutOK(got, out) /\ BoxesOK(made, meta) /\ ClientOK(client, made)
           /\ sent \in Seq(Connects \cup Packets) /\ sends \in 0 .. MaxSends
           /\ wire \in Seq(Byte) /\ pos \in Nat /\ cap \in 0 .. ReadCap
           /\ late \in BOOLEAN /\ cut \in BOOLEAN
           /\ \A f \in out : f \in Seq(Byte)
           /\ \A id \in DOMAIN meta : meta[id] \in Seq(Byte)
           /\ DOMAIN made = DOMAIN meta
  BY Zenon DEF StreamInv, TypeOK

\* The invariant holds at first.
LEMMA StreamInit ==
    ASSUME Init
    PROVE  StreamInv
<1>1. /\ sent = <<>> /\ sends = 0 /\ wire = <<>> /\ pos = 0
      /\ task = "accept" /\ cap = ReadCap /\ late = FALSE
      /\ got = None /\ out = {} /\ cut = FALSE
      /\ client = None /\ made = <<>> /\ meta = <<>>
  BY Zenon DEF Init
<1>2. <<>> \in Seq(Connects \cup Packets) /\ <<>> \in Seq(Byte)
  BY EmptySeq, Zenon
<1>3. 0 \in 0 .. MaxSends /\ ReadCap \in 0 .. ReadCap /\ 0 \in Nat
  BY StreamAssumption
<1>4. DOMAIN <<>> = {}
  OBVIOUS
<1>5. TypeOK
  BY <1>1, <1>2, <1>3, <1>4, Zenon DEF TypeOK
<1>6. PlaceOK(sent, wire, pos, task, cut)
  BY <1>1, FreshPlace, Zenon
<1>7. ReadingOK(sent, pos, task, got)
  BY <1>1, NothingRead, Zenon
<1>8. PanicOf(sent, task, cut) /\ OutOK(got, out)
  BY <1>1 DEF PanicOf, OutOK
<1>9. BoxesOK(made, meta) /\ ClientOK(client, made)
  BY <1>1, <1>4, Zenon DEF BoxesOK, ClientOK
<1> QED
  BY <1>5, <1>6, <1>7, <1>8, <1>9, Zenon DEF StreamInv

\* The client sends a packet.
LEMMA SendStep ==
    ASSUME StreamInv, NEW p \in Connects \cup Packets, Send(p)
    PROVE  StreamInv'
<1>1. /\ sends < MaxSends /\ Connected(task) /\ Sendable(sent, p)
      /\ sent' = Append(sent, p) /\ sends' = sends + 1 /\ wire' = wire \o Bytes(p)
      /\ pos' = pos /\ task' = task /\ cap' = cap /\ late' = late /\ got' = got /\ out' = out /\ cut' = cut
      /\ client' = client /\ made' = made /\ meta' = meta
  BY Zenon DEF Send, Connected, Sendable
<1>2a. PICK t, h, g : t = task /\ h = cut /\ g = got
  OBVIOUS
<1>2. PICK s \in Seq(Connects \cup Packets), w \in Seq(Byte), i \in Nat :
          s = sent /\ w = wire /\ i = pos /\ t = task /\ h = cut /\ g = got
  BY <1>2a, InvParts, Zenon
<1>3. PlaceOK(s, w, i, t, h) /\ ReadingOK(s, i, t, g) /\ Connected(t) /\ Sendable(s, p)
  BY <1>1, <1>2, InvParts, Zenon
<1>4. PlaceOK(Append(s, p), w \o Bytes(p), i, t, h) /\ ReadingOK(Append(s, p), i, t, g)
  BY <1>3, SendPlace, SendReading, Zenon
<1>5. PlaceOK(sent', wire', pos', task', cut') /\ ReadingOK(sent', pos', task', got')
  BY <1>1, <1>2, <1>4, Zenon
<1>6. PanicOf(sent', task', cut')
  BY <1>1 DEF PanicOf, Connected
<1>7. TypeOK'
  <2>1. Append(s, p) \in Seq(Connects \cup Packets)
    BY Appended, Zenon
  <2>2. w \o Bytes(p) \in Seq(Byte)
    BY SentBytes, Joined, Zenon
  <2>3. sends + 1 \in 0 .. MaxSends
    <3>1. sends \in 0 .. MaxSends /\ MaxSends \in Nat
      BY InvParts, StreamAssumption, Zenon
    <3> QED
      BY <1>1, <3>1
  <2> QED
    BY <1>1, <1>2, <2>1, <2>2, <2>3, InvParts, Zenon DEF TypeOK
<1>8. OutOK(got', out') /\ BoxesOK(made', meta') /\ ClientOK(client', made')
  BY <1>1, InvParts, Zenon
<1> QED
  BY <1>5, <1>6, <1>7, <1>8, Zenon DEF StreamInv

\* A connection is dropped.
LEMMA HangupStep ==
    ASSUME StreamInv, NEW to \in {"accept", "refused", "lost", "panicked", "done"}, Hangup(to),
           sent' \in Seq(Connects \cup Packets), sends' \in 0 .. MaxSends, cut' \in BOOLEAN,
           PlaceOK(sent', <<>>, 0, to, cut'), PanicOf(sent', to, cut')
    PROVE  StreamInv'
<1>1. /\ task' = to /\ wire' = <<>> /\ pos' = 0 /\ cap' = ReadCap /\ late' = FALSE
      /\ got' = None /\ out' = {} /\ client' = None /\ made' = made /\ meta' = meta
  BY Zenon DEF Hangup
<1>2. ReadCap \in 0 .. ReadCap /\ 0 \in Nat
  BY StreamAssumption
<1>3. <<>> \in Seq(Byte)
  BY EmptySeq, Zenon
<1>4. TypeOK'
  BY <1>1, <1>2, <1>3, InvParts, Zenon DEF TypeOK
<1>5. PlaceOK(sent', wire', pos', task', cut') /\ PanicOf(sent', task', cut')
  BY <1>1, Zenon
<1>6. ReadingOK(sent', pos', task', got')
  BY <1>1, Zenon DEF ReadingOK, GotOK, TruncatedOf, ReadOf
<1>7. OutOK(got', out') /\ BoxesOK(made', meta') /\ ClientOK(client', made')
  BY <1>1, InvParts, Zenon DEF OutOK, ClientOK
<1> QED
  BY <1>4, <1>5, <1>6, <1>7, Zenon DEF StreamInv

\* A read, in rigid names.
LEMMA ReturnsIs ==
    ASSUME StreamInv, NEW n \in Nat, NEW limit, Returns(n, limit)
    PROVE  /\ n <= Len(wire) /\ n <= limit /\ CutOf(sent, pos, n, cut, cut') /\ cut' \in BOOLEAN
           /\ sent' = sent /\ sends' = sends
<1>1. n <= Len(wire) /\ n <= limit /\ sent' = sent /\ sends' = sends
  BY Zenon DEF Returns
<1>2. cut' = (cut \/ \A k \in 0 .. Len(sent) : pos + n # End(k))
  BY Zenon DEF Returns
<1>3. \A k : End(k) = EndOf(sent, k)
  BY Zenon DEF End, EndOf, Upto, UptoOf
<1>4. CutOf(sent, pos, n, cut, cut') /\ cut' \in BOOLEAN
  BY <1>2, <1>3, Zenon DEF CutOf
<1> QED
  BY <1>1, <1>4, Zenon

\* A buffer is shorter than MaxCap.
LEMMA BufferIs ==
    ASSUME NEW n
    PROVE  /\ n \in 1 .. ConnCap => n \in Nat /\ n >= 1 /\ n <= MaxCap
           /\ n \in 1 .. ReadCap => n \in Nat /\ n >= 1 /\ n <= MaxCap
<1>1. PICK c \in Nat, r \in Nat, m \in Nat : c = ConnCap /\ r = ReadCap /\ m = MaxCap /\ c <= m /\ r <= m
  BY StreamAssumption, CapIs, Zenon
<1>2. (n \in 1 .. c => n \in Nat /\ n >= 1 /\ n <= m) /\ (n \in 1 .. r => n \in Nat /\ n >= 1 /\ n <= m)
  BY <1>1
<1> QED
  BY <1>1, <1>2, Zenon

\* Nothing is on the wire of a connection of which nothing has been read.
LEMMA NothingSent ==
    ASSUME NEW s \in Seq(Connects \cup Packets), NEW h, PlaceOK(s, <<>>, 0, "accept", h)
    PROVE  s = <<>>
<1>1. PICK l \in Nat : l = Len(s)
  BY LenProperties, Zenon
<1>2. l \in 0 .. l /\ 0 \in 0 .. l
  OBVIOUS
<1>3. PICK S \in Seq(Byte) : S = StreamOf(s) /\ S = UptoOf(s, l)
  BY <1>1, <1>2, UptoIs, Zenon DEF StreamOf
<1>4. PICK m \in Nat : m = Len(S)
  BY LenProperties, Zenon
<1>5. <<>> = SubSeq(S, 0 + 1, m)
  BY <1>3, <1>4, Zenon DEF PlaceOK, WireOK, Connected
<1>6. SubSeq(S, 1, m) = S /\ 0 + 1 = 1
  BY <1>4, SubSeqFull
<1>7. S = <<>>
  BY <1>5, <1>6, Zenon
<1>8. EndOf(s, l) = 0
  BY <1>3, <1>7, EmptySeq, Zenon DEF EndOf
<1>9. l = 0
  <2>1. SUFFICES ASSUME l # 0 PROVE FALSE
    OBVIOUS
  <2>2. 0 < l /\ ~(0 + 2 <= 0)
    BY <2>1
  <2>3. EndOf(s, 0) = 0
    BY EndIs, Zenon
  <2> QED
    BY <1>1, <1>2, <1>8, <2>2, <2>3, EndIs, Zenon
<1> QED
  BY <1>1, <1>9, EmptySeq, Zenon

\* A CONNECT is refused.
LEMMA RefuseStep ==
    ASSUME StreamInv, NEW n \in 0 .. ConnCap, RefuseConnect(n)
    PROVE  StreamInv'
<1>1. n \in Nat /\ (n = 0 \/ n >= 1)
  BY StreamAssumption
<1>2. task = "accept" /\ Returns(n, ConnCap) /\ (n = 0 => wire = <<>>) /\ DecodeConnect(SubSeq(wire, 1, n)).st # "ok"
      /\ Hangup(IF DecodeConnect(SubSeq(wire, 1, n)).st = "err" THEN "refused" ELSE "lost")
  BY Zenon DEF RefuseConnect
<1>3a. PICK h, g, b : h = cut /\ g = cut' /\ b = SubSeq(wire, 1, n)
  OBVIOUS
<1>3. PICK s \in Seq(Connects \cup Packets), w \in Seq(Byte) :
          s = sent /\ w = wire /\ h = cut /\ g = cut' /\ b = SubSeq(wire, 1, n)
  BY <1>3a, InvParts, Zenon
<1>4. pos = 0 /\ PlaceOK(s, w, 0, "accept", h) /\ SentOK(s)
  BY <1>2, <1>3, InvParts, Zenon DEF PlaceOK
<1>5. n <= Len(w) /\ CutOf(s, 0, n, h, g) /\ g \in BOOLEAN /\ sent' = s /\ sends' = sends
  BY <1>1, <1>2, <1>3, <1>4, ReturnsIs, Zenon
<1>6. IsRead(b, w, n)
  BY <1>3, Zenon DEF IsRead
<1>7. PICK to : to = IF DecodeConnect(b).st = "err" THEN "refused" ELSE "lost"
  OBVIOUS
<1>8. Hangup(to) /\ to \in {"accept", "refused", "lost", "panicked", "done"} /\ ~Connected(to) /\ to # "panicked"
  BY <1>2, <1>3, <1>7 DEF Connected
<1>9. to = "lost" => g \/ s = <<>> \/ \E k \in DOMAIN s : Strange(s[k])
  <2>1. SUFFICES ASSUME to = "lost" PROVE g \/ s = <<>> \/ \E k \in DOMAIN s : Strange(s[k])
    OBVIOUS
  <2>2. DecodeConnect(b).st \notin {"ok", "err"}
    BY <1>2, <1>3, <1>7, <2>1
  <2>3. CASE n = 0
    BY <1>2, <1>3, <1>4, <2>3, NothingSent, Zenon
  <2>4. CASE n >= 1
    BY <1>1, <1>4, <1>5, <1>6, <2>2, <2>4, ConnectSafe, Zenon
  <2> QED
    BY <1>1, <2>3, <2>4, Zenon
<1>10. PanicOf(s, to, g)
  BY <1>8, <1>9, Zenon DEF PanicOf
<1>11. PlaceOK(s, <<>>, 0, to, g)
  BY <1>4, <1>8, ClosedPlace, Zenon
<1>12. sends \in 0 .. MaxSends
  BY InvParts, Zenon
<1> QED
  BY <1>3, <1>5, <1>8, <1>10, <1>11, <1>12, HangupStep, Zenon

\* A box that is made is in the file.
LEMMA BoxesWith ==
    ASSUME NEW m, NEW f, BoxesOK(m, f), NEW id, NEW c, IsBox(c)
    PROVE  /\ BoxesOK(With(m, id, c), With(f, id, Serialize(c)))
           /\ (\A x \in DOMAIN f : f[x] \in Seq(Byte)) =>
                 \A x \in DOMAIN With(f, id, Serialize(c)) : With(f, id, Serialize(c))[x] \in Seq(Byte)
<1>1. PICK n, g, d : n = With(m, id, c) /\ g = With(f, id, d) /\ d = Serialize(c)
  OBVIOUS
<1>2. IsWith(n, m, id, c) /\ IsWith(g, f, id, d)
  BY <1>1, WithIs, Zenon
<1>3. d \in Seq(Byte)
  BY <1>1, MetaRoundTrip, Zenon
<1>4. DOMAIN m = DOMAIN f /\ \A x \in DOMAIN m : IsBox(m[x]) /\ f[x] = Serialize(m[x])
  BY Zenon DEF BoxesOK
<1>5. DOMAIN n = DOMAIN g
  BY <1>2, <1>4, Zenon DEF IsWith
<1>6. ASSUME NEW x \in DOMAIN n PROVE IsBox(n[x]) /\ g[x] = Serialize(n[x])
  <2>1. CASE x = id
    BY <1>1, <1>2, <2>1, Zenon DEF IsWith
  <2>2. CASE x # id
    <3>1. x \in DOMAIN m /\ x \in DOMAIN f
      BY <1>2, <1>4, <1>6, <2>2, Zenon DEF IsWith
    <3>2. n[x] = m[x] /\ g[x] = f[x]
      BY <1>2, <2>2, <3>1, Zenon DEF IsWith
    <3> QED
      BY <1>4, <3>1, <3>2, Zenon
  <2> QED
    BY <2>1, <2>2, Zenon
<1>7. ASSUME \A x \in DOMAIN f : f[x] \in Seq(Byte), NEW x \in DOMAIN g PROVE g[x] \in Seq(Byte)
  <2>1. CASE x = id
    BY <1>2, <1>3, <2>1, Zenon DEF IsWith
  <2>2. CASE x # id
    <3>1. x \in DOMAIN f
      BY <1>2, <1>7, <2>2, Zenon DEF IsWith
    <3>2. g[x] = f[x]
      BY <1>2, <2>2, <3>1, Zenon DEF IsWith
    <3> QED
      BY <1>7, <3>1, <3>2, Zenon
  <2> QED
    BY <2>1, <2>2, Zenon
<1> QED
  BY <1>1, <1>5, <1>6, <1>7, Zenon DEF BoxesOK

\* The files are kept, or one is written.
LEMMA BoxesStep ==
    ASSUME NEW m, NEW f, BoxesOK(m, f), \A x \in DOMAIN f : f[x] \in Seq(Byte), NEW id, NEW v, IsBox(v), NEW restore,
           NEW c, NEW n, NEW g,
           IF restore THEN /\ id \in DOMAIN f /\ c = [id |-> id, restored |-> TRUE, val |-> Deserialize(f[id]).v]
                           /\ n = m /\ g = f
                      ELSE /\ c = [id |-> id, restored |-> FALSE, val |-> v]
                           /\ n = With(m, id, v) /\ g = With(f, id, Serialize(v))
    PROVE  BoxesOK(n, g) /\ ClientOK(c, n) /\ \A x \in DOMAIN g : g[x] \in Seq(Byte)
<1>1. CASE restore
  <2>1. id \in DOMAIN f /\ c = [id |-> id, restored |-> TRUE, val |-> Deserialize(f[id]).v] /\ n = m /\ g = f
    BY <1>1, Zenon
  <2>2. c.id = id /\ c.val = Deserialize(f[id]).v
    BY <2>1, Zenon
  <2>3. id \in DOMAIN m /\ f[id] = Serialize(m[id])
    BY <2>1, Zenon DEF BoxesOK
  <2> QED
    BY <2>1, <2>2, <2>3, Zenon DEF ClientOK
<1>2. CASE ~restore
  <2>1. c = [id |-> id, restored |-> FALSE, val |-> v] /\ n = With(m, id, v) /\ g = With(f, id, Serialize(v))
    BY <1>2, Zenon
  <2>2. ~c.restored
    BY <2>1, Zenon
  <2>3. /\ BoxesOK(With(m, id, v), With(f, id, Serialize(v)))
        /\ \A x \in DOMAIN With(f, id, Serialize(v)) : With(f, id, Serialize(v))[x] \in Seq(Byte)
    BY BoxesWith, Zenon
  <2> QED
    BY <2>1, <2>2, <2>3, Zenon DEF ClientOK
<1> QED
  BY <1>1, <1>2, Zenon

\* A session begins.
LEMMA AcceptStep ==
    ASSUME StreamInv, NEW n \in 1 .. ConnCap, NEW restore \in BOOLEAN, AcceptConnect(n, restore)
    PROVE  StreamInv'
<1>1. n \in Nat /\ n >= 1 /\ n <= MaxCap
  BY BufferIs, Zenon
<1>2a. PICK h, g, b, r, id, m, f :
          /\ h = cut /\ g = cut' /\ b = SubSeq(wire, 1, n) /\ r = DecodeConnect(b)
          /\ id = (IF r.v.clid = <<>> THEN RawClid ELSE r.v.clid) /\ m = made /\ f = meta
  OBVIOUS
<1>2. PICK s \in Seq(Connects \cup Packets), w \in Seq(Byte) :
          /\ s = sent /\ w = wire /\ h = cut /\ g = cut' /\ b = SubSeq(wire, 1, n) /\ r = DecodeConnect(b)
          /\ id = (IF r.v.clid = <<>> THEN RawClid ELSE r.v.clid) /\ m = made /\ f = meta
  BY <1>2a, InvParts, Zenon
<1>3. /\ task = "accept" /\ Returns(n, ConnCap) /\ r.st = "ok"
      /\ wire' = SubSeq(w, n + 1, Len(w)) /\ pos' = pos + n
      /\ got' = [from |-> pos, to |-> pos + n, packet |-> r.v]
      /\ out' = {EncodeConnack(restore, Collect(r.v))} /\ task' = "open" /\ cap' = cap /\ late' = late
  BY <1>2, Zenon DEF AcceptConnect, Consume
<1>4. IF restore THEN /\ id \in DOMAIN f /\ client' = [id |-> id, restored |-> TRUE, val |-> Deserialize(f[id]).v]
                      /\ made' = m /\ meta' = f
                 ELSE /\ client' = [id |-> id, restored |-> FALSE, val |-> NewClient(r.v)]
                      /\ made' = With(m, id, NewClient(r.v)) /\ meta' = With(f, id, Serialize(NewClient(r.v)))
  BY <1>2, Zenon DEF AcceptConnect
<1>5. pos = 0 /\ PlaceOK(s, w, 0, "accept", h) /\ Connected("accept") /\ 0 \in Nat
  BY <1>2, <1>3, InvParts, Zenon DEF PlaceOK, Connected
<1>6. n <= Len(w) /\ CutOf(s, 0, n, h, g) /\ g \in BOOLEAN /\ sent' = s /\ sends' = sends
  BY <1>1, <1>2, <1>3, <1>5, ReturnsIs, Zenon
<1>7. IsRead(b, w, n)
  BY <1>2, Zenon DEF IsRead
<1>8. b \in Seq(Byte) /\ Len(b) = n /\ SubSeq(w, n + 1, Len(w)) \in Seq(Byte)
  BY <1>1, <1>5, <1>6, <1>7, MovePlace, Zenon DEF IsRead
<1>9. PlaceOK(s, SubSeq(w, n + 1, Len(w)), 0 + n, "open", g)
  BY <1>1, <1>5, <1>6, MovePlace, Zenon DEF CutOf
<1>10. ReadingOK(s, 0 + n, "open", Reading(0, n, r.v))
  BY <1>1, <1>2, <1>3, <1>5, <1>6, <1>7, ConnectTaken, Zenon
<1>11. got' = Reading(0, n, r.v) /\ pos' = 0 + n
  BY <1>3, <1>5, Zenon DEF Reading
<1>12. PlaceOK(sent', wire', pos', task', cut') /\ ReadingOK(sent', pos', task', got')
  BY <1>2, <1>3, <1>6, <1>9, <1>10, <1>11, Zenon
<1>13. GotConnect(r.v, MaxCap)
  <2>1. GotConnect(r.v, n)
    BY <1>2, <1>3, <1>8, ConnectOk, Zenon
  <2> QED
    BY <1>1, <2>1, GotWider, Zenon
<1>14. IsBox(NewClient(r.v))
  BY <1>13, NewClientIs, Zenon
<1>15. PICK c, m1, f1 : c = client' /\ m1 = made' /\ f1 = meta'
  OBVIOUS
<1>16. BoxesOK(m1, f1) /\ ClientOK(c, m1) /\ \A x \in DOMAIN f1 : f1[x] \in Seq(Byte)
  <2>1. BoxesOK(m, f) /\ \A x \in DOMAIN f : f[x] \in Seq(Byte)
    BY <1>2, InvParts, Zenon
  <2>2. PICK v : v = NewClient(r.v)
    OBVIOUS
  <2>3. IF restore THEN /\ id \in DOMAIN f /\ c = [id |-> id, restored |-> TRUE, val |-> Deserialize(f[id]).v]
                        /\ m1 = m /\ f1 = f
                   ELSE /\ c = [id |-> id, restored |-> FALSE, val |-> v]
                        /\ m1 = With(m, id, v) /\ f1 = With(f, id, Serialize(v))
    BY <1>4, <1>15, <2>2, Zenon
  <2>4. IsBox(v)
    BY <1>14, <2>2, Zenon
  <2> QED
    BY <2>1, <2>3, <2>4, BoxesStep, Zenon
<1>17. EncodeConnack(restore, Collect(r.v)) \in Seq(Byte)
  <2>1. FitProps(ConnackKinds, Collect(r.v), MaxCap)
    BY <1>13, CollectFits, Zenon
  <2>2. IsFrame(EncodeConnack(restore, Collect(r.v)))
    BY <2>1, ConnackFrame, Zenon
  <2> QED
    BY <2>2, Zenon DEF IsFrame
<1>18. OutOK(got', out')
  <2>1. PICK q : q = Reading(0, n, r.v)
    OBVIOUS
  <2>2. q # None /\ q.packet = r.v
    <3>1. IsReading(q, 0, n, r.v)
      BY <1>1, <1>5, <2>1, ReadingIs, Zenon
    <3> QED
      BY <3>1, Zenon DEF IsReading
  <2>3. OutOK(q, {EncodeConnack(restore, Collect(r.v))})
    BY <1>13, <2>2, Zenon DEF OutOK
  <2> QED
    BY <1>3, <1>11, <2>1, <2>3, Zenon
<1>19. TypeOK'
  <2>1. 0 + n \in Nat
    BY <1>1
  <2>2. DOMAIN m1 = DOMAIN f1
    BY <1>16, Zenon DEF BoxesOK
  <2> QED
    BY <1>2, <1>3, <1>6, <1>8, <1>11, <1>15, <1>16, <1>17, <2>1, <2>2, InvParts, Zenon DEF TypeOK
<1>20. PanicOf(sent', task', cut')
  BY <1>3 DEF PanicOf
<1> QED
  BY <1>12, <1>15, <1>16, <1>18, <1>19, <1>20, Zenon DEF StreamInv

\* A read that is no packet.
LEMMA MalformedStep ==
    ASSUME StreamInv, NEW n \in 1 .. ReadCap, ReadMalformed(n)
    PROVE  StreamInv'
<1>1. n \in Nat /\ n >= 1
  BY BufferIs, Zenon
<1>2. task = "open" /\ Returns(n, cap) /\ Decode(SubSeq(wire, 1, n)).st # "ok" /\ Hangup("panicked")
  BY Zenon DEF ReadMalformed
<1>3a. PICK h, g, b : h = cut /\ g = cut' /\ b = SubSeq(wire, 1, n)
  OBVIOUS
<1>3. PICK s \in Seq(Connects \cup Packets), w \in Seq(Byte), p \in Nat :
          s = sent /\ w = wire /\ p = pos /\ h = cut /\ g = cut' /\ b = SubSeq(wire, 1, n)
  BY <1>3a, InvParts, Zenon
<1>4. PlaceOK(s, w, p, "open", h) /\ SentOK(s)
  BY <1>2, <1>3, InvParts, Zenon DEF PlaceOK
<1>5. n <= Len(w) /\ CutOf(s, p, n, h, g) /\ g \in BOOLEAN /\ sent' = s /\ sends' = sends
  BY <1>1, <1>2, <1>3, ReturnsIs, Zenon
<1>6. IsRead(b, w, n)
  BY <1>3, Zenon DEF IsRead
<1>7. Decode(b).st # "ok"
  BY <1>2, <1>3, Zenon
<1>8. PanicOf(s, "panicked", g)
  BY <1>1, <1>4, <1>5, <1>6, <1>7, PacketSafe, Zenon DEF PanicOf
<1>9. "panicked" \in {"accept", "refused", "lost", "panicked", "done"} /\ ~Connected("panicked")
  BY DEF Connected
<1>10. PlaceOK(s, <<>>, 0, "panicked", g)
  BY <1>4, <1>9, ClosedPlace, Zenon
<1>11. sends \in 0 .. MaxSends
  BY InvParts, Zenon
<1> QED
  BY <1>2, <1>3, <1>5, <1>8, <1>9, <1>10, <1>11, HangupStep, Zenon

\* PING_RES is one byte.
LEMMA PingResIs ==
    PingRes \in Seq(Byte) /\ Len(PingRes) = 1
<1>1. 13 \in Byte
  BY ByteIs
<1>2. PingRes = << 13 >>
  BY Zenon DEF PingRes
<1> QED
  BY <1>1, <1>2

\* A packet is read, and answered or dropped.
LEMMA PacketStep ==
    ASSUME StreamInv, NEW n \in 1 .. ReadCap, ReadPacket(n) \/ DropPacket(n)
    PROVE  StreamInv'
<1>1. n \in Nat /\ n >= 1 /\ n <= MaxCap
  BY BufferIs, Zenon
<1>2a. PICK h, g, b, r, o : h = cut /\ g = cut' /\ b = SubSeq(wire, 1, n) /\ r = Decode(b) /\ o = got
  OBVIOUS
<1>2. PICK s \in Seq(Connects \cup Packets), w \in Seq(Byte), p \in Nat :
          /\ s = sent /\ w = wire /\ p = pos /\ h = cut /\ g = cut' /\ b = SubSeq(wire, 1, n) /\ r = Decode(b)
          /\ o = got
  BY <1>2a, InvParts, Zenon
<1>3. /\ task = "open" /\ Returns(n, cap) /\ r.st = "ok"
      /\ wire' = SubSeq(w, n + 1, Len(w)) /\ pos' = p + n
      /\ task' = task /\ late' = late /\ client' = client /\ made' = made /\ meta' = meta
  BY <1>2, Zenon DEF ReadPacket, DropPacket, Consume
<1>4. \/ /\ got' = [from |-> p, to |-> p + n, packet |-> r.v] /\ out' = Answers(r.v)
         /\ cap' = cap - n + n
      \/ got' = got /\ out' = out /\ cap' = cap - n
  BY <1>2, Zenon DEF ReadPacket, DropPacket, Refill
<1>5. PlaceOK(s, w, p, "open", h) /\ Connected("open")
  BY <1>2, <1>3, InvParts, Zenon DEF Connected
<1>6. n <= Len(w) /\ n <= cap /\ CutOf(s, p, n, h, g) /\ g \in BOOLEAN /\ sent' = s /\ sends' = sends
  BY <1>1, <1>2, <1>3, ReturnsIs, Zenon
<1>7. IsRead(b, w, n)
  BY <1>2, Zenon DEF IsRead
<1>8. b \in Seq(Byte) /\ Len(b) = n /\ SubSeq(w, n + 1, Len(w)) \in Seq(Byte)
  BY <1>1, <1>5, <1>6, <1>7, MovePlace, Zenon DEF IsRead
<1>9. PlaceOK(s, SubSeq(w, n + 1, Len(w)), p + n, "open", g)
  BY <1>1, <1>5, <1>6, MovePlace, Zenon DEF CutOf
<1>10. PlaceOK(sent', wire', pos', task', cut')
  BY <1>2, <1>3, <1>6, <1>9, Zenon
<1>11. PanicOf(sent', task', cut')
  BY <1>3 DEF PanicOf
<1>12. BoxesOK(made', meta') /\ ClientOK(client', made')
  BY <1>3, InvParts, Zenon
<1>13. cap' \in 0 .. ReadCap
  <2>1. cap \in 0 .. ReadCap /\ ReadCap \in Nat
    BY InvParts, StreamAssumption, Zenon
  <2>2. cap' = cap - n + n \/ cap' = cap - n
    BY <1>4, Zenon
  <2> QED
    BY <1>1, <1>6, <2>1, <2>2
<1>14. ReadingOK(sent', pos', task', got') /\ OutOK(got', out') /\ \A f \in out' : f \in Seq(Byte)
  <2>1. CASE got' = [from |-> p, to |-> p + n, packet |-> r.v] /\ out' = Answers(r.v)
    <3>1. GotPacket(r.v, MaxCap)
      <4>1. GotPacket(r.v, n)
        BY <1>2, <1>3, <1>8, DecodeOk, Zenon
      <4> QED
        BY <1>1, <4>1, GotWider, Zenon
    <3>2. PICK q : q = Reading(p, n, r.v)
      OBVIOUS
    <3>3. q # None /\ q.packet = r.v
      <4>1. IsReading(q, p, n, r.v)
        BY <1>1, <3>2, ReadingIs, Zenon
      <4> QED
        BY <4>1, Zenon DEF IsReading
    <3>4. ReadingOK(s, p + n, "open", q)
      BY <1>1, <1>2, <1>3, <1>5, <1>6, <1>7, <3>2, PacketTaken, Zenon
    <3>5. OutOK(q, Answers(r.v))
      BY <3>1, <3>3, Zenon DEF OutOK
    <3>6. got' = q
      BY <2>1, <3>2, Zenon DEF Reading
    <3>7. PingRes \in Seq(Byte)
      BY PingResIs, Zenon
    <3>8. \A f \in Answers(r.v) : f \in Seq(Byte)
      BY <3>1, <3>7, AnswersOK, Zenon DEF IsFrame
    <3> QED
      BY <1>3, <1>6, <2>1, <3>4, <3>5, <3>6, <3>8, Zenon
  <2>2. CASE got' = got /\ out' = out
    <3>1. ReadingOK(s, p, "open", o)
      BY <1>2, <1>3, InvParts, Zenon
    <3>2. GotOK(o, p + n)
      <4>1. SUFFICES ASSUME o # None PROVE o.from \in Nat /\ o.to \in Nat /\ o.from < o.to /\ o.to <= p + n
        BY Zenon DEF GotOK
      <4>2. PICK i, j : i = o.from /\ j = o.to
        OBVIOUS
      <4>3. i \in Nat /\ j \in Nat /\ i < j /\ j <= p
        BY <3>1, <4>1, <4>2, Zenon DEF ReadingOK, GotOK
      <4>4. j <= p + n
        BY <1>1, <4>3
      <4> QED
        BY <4>2, <4>3, <4>4, Zenon
    <3>3. ReadingOK(s, p + n, "open", o)
      BY <3>1, <3>2, Zenon DEF ReadingOK
    <3> QED
      BY <1>2, <1>3, <1>6, <2>2, <3>3, InvParts, Zenon
  <2> QED
    BY <1>4, <2>1, <2>2, Zenon
<1>15. TypeOK'
  <2>1. p + n \in Nat
    BY <1>1
  <2> QED
    BY <1>2, <1>3, <1>6, <1>8, <1>13, <1>14, <2>1, InvParts, Zenon DEF TypeOK
<1> QED
  BY <1>10, <1>11, <1>12, <1>14, <1>15, Zenon DEF StreamInv

\* The session runs out.
LEMMA RunOutStep ==
    ASSUME StreamInv, RunOut
    PROVE  StreamInv'
<1>1. /\ sent' = sent /\ sends' = sends /\ wire' = wire /\ pos' = pos /\ task' = task /\ cap' = cap
      /\ got' = got /\ out' = out /\ cut' = cut /\ client' = client /\ made' = made /\ meta' = meta
      /\ late' \in BOOLEAN
  BY Zenon DEF RunOut
<1>2. TypeOK'
  BY <1>1, InvParts, Zenon DEF TypeOK
<1> QED
  BY <1>1, <1>2, InvParts, Zenon DEF StreamInv

\* The session ends.
LEMMA EndStep ==
    ASSUME StreamInv, EndTask
    PROVE  StreamInv'
<1>1. Hangup("done") /\ sent' = sent /\ sends' = sends /\ cut' = cut
  BY Zenon DEF EndTask
<1>2. PICK s \in Seq(Connects \cup Packets), h \in BOOLEAN : s = sent /\ h = cut
  BY InvParts, Zenon
<1>3. SentOK(s) /\ sends \in 0 .. MaxSends
  BY <1>2, InvParts, Zenon DEF PlaceOK
<1>4. "done" \in {"accept", "refused", "lost", "panicked", "done"} /\ ~Connected("done")
  BY DEF Connected
<1>5. PlaceOK(s, <<>>, 0, "done", h)
  BY <1>3, <1>4, ClosedPlace, Zenon
<1>6. PanicOf(s, "done", h)
  BY DEF PanicOf
<1> QED
  BY <1>1, <1>2, <1>3, <1>4, <1>5, <1>6, HangupStep, Zenon

\* The client connects again.
LEMMA ReconnectStep ==
    ASSUME StreamInv, Reconnect
    PROVE  StreamInv'
<1>1. Hangup("accept") /\ sent' = <<>> /\ sends' = sends /\ cut' = FALSE
  BY Zenon DEF Reconnect
<1>2. sends \in 0 .. MaxSends /\ <<>> \in Seq(Connects \cup Packets)
  BY InvParts, EmptySeq, Zenon
<1>3. "accept" \in {"accept", "refused", "lost", "panicked", "done"} /\ PanicOf(<<>>, "accept", FALSE)
  BY DEF PanicOf
<1> QED
  BY <1>1, <1>2, <1>3, FreshPlace, HangupStep, Zenon

\* The invariant is inductive.
LEMMA StreamStep ==
    ASSUME StreamInv, [Next]_wvars
    PROVE  StreamInv'
<1>1. CASE \E p \in Connects \cup Packets : Send(p)
  BY <1>1, SendStep, Zenon
<1>2. CASE \E n \in 0 .. ConnCap : RefuseConnect(n)
  BY <1>2, RefuseStep, Zenon
<1>2a. CASE \E n \in 1 .. ConnCap, restore \in BOOLEAN : AcceptConnect(n, restore)
  BY <1>2a, AcceptStep, Zenon
<1>3. CASE \E n \in 1 .. ReadCap : ReadMalformed(n) \/ ReadPacket(n) \/ DropPacket(n)
  BY <1>3, MalformedStep, PacketStep, Zenon
<1>4. CASE RunOut \/ EndTask \/ Reconnect
  BY <1>4, RunOutStep, EndStep, ReconnectStep, Zenon
<1>5. CASE UNCHANGED wvars
  <2>1. /\ sent' = sent /\ sends' = sends /\ wire' = wire /\ pos' = pos /\ task' = task /\ cap' = cap
        /\ late' = late /\ got' = got /\ out' = out /\ cut' = cut /\ client' = client /\ made' = made /\ meta' = meta
    BY <1>5, Zenon DEF wvars
  <2>2. TypeOK'
    BY <2>1, InvParts, Zenon DEF TypeOK
  <2> QED
    BY <2>1, <2>2, InvParts, Zenon DEF StreamInv
<1> QED
  BY <1>1, <1>2, <1>2a, <1>3, <1>4, <1>5, Zenon DEF Next

\* Every packet that is written is a frame, or PING_RES.
LEMMA OutFrames ==
    ASSUME NEW g, NEW o, OutOK(g, o), NEW f \in o
    PROVE  IsFrame(f) \/ f = PingRes
<1>1. g # None
  BY Zenon DEF OutOK
<1>2. CASE GotConnect(g.packet, MaxCap) /\ \E present \in BOOLEAN : o = {EncodeConnack(present, Collect(g.packet))}
  <2>1. PICK present \in BOOLEAN : f = EncodeConnack(present, Collect(g.packet))
    BY <1>2, Zenon
  <2>2. FitProps(ConnackKinds, Collect(g.packet), MaxCap)
    BY <1>2, CollectFits, Zenon
  <2> QED
    BY <2>1, <2>2, ConnackFrame, Zenon
<1>3. CASE GotPacket(g.packet, MaxCap) /\ o = Answers(g.packet)
  BY <1>3, AnswersOK, Zenon
<1> QED
  BY <1>1, <1>2, <1>3, Zenon DEF OutOK

\* Its length is read back.
LEMMA InvFrames ==
    ASSUME StreamInv
    PROVE  FramesOK
<1>1. OutOK(got, out)
  BY InvParts, Zenon
<1>2. ASSUME NEW f \in out, f # PingRes
      PROVE  DecodeLength(f, 1).st = "ok" /\ DecodeLength(f, 1).at + DecodeLength(f, 1).v = Len(f)
  <2>1. IsFrame(f)
    BY <1>1, <1>2, OutFrames, Zenon
  <2> QED
    BY <2>1, Zenon DEF IsFrame
<1> QED
  BY <1>2, Zenon DEF FramesOK

\* What the type of a packet says.
LEMMA TypeOfGot ==
    ASSUME NEW p
    PROVE  /\ GotConnect(p, MaxCap) => p.type = "connect"
           /\ GotPublish(p, MaxCap) => p.type = "publish"
           /\ GotSubscribe(p, MaxCap) => p.type = "subscribe"
           /\ p = [type |-> "pingreq"] => p.type = "pingreq"
<1>1. GotConnect(p, MaxCap) => p.type = "connect"
  <2>1. SUFFICES ASSUME GotConnect(p, MaxCap) PROVE p.type = "connect"
    OBVIOUS
  <2>2. PICK c, k, q, i : p = [type |-> "connect", clean |-> c, ka |-> k, props |-> q, clid |-> i]
    BY <2>1, Zenon DEF GotConnect
  <2> QED
    BY <2>2
<1>2. GotPublish(p, MaxCap) => p.type = "publish"
  <2>1. SUFFICES ASSUME GotPublish(p, MaxCap) PROVE p.type = "publish"
    OBVIOUS
  <2>2. PICK a, b, c, d, e, f, g : p = [type |-> "publish", dup |-> a, qos |-> b, retain |-> c, topic |-> d,
                                       id |-> e, props |-> f, payload |-> g]
    BY <2>1, Zenon DEF GotPublish
  <2> QED
    BY <2>2
<1>3. GotSubscribe(p, MaxCap) => p.type = "subscribe"
  <2>1. SUFFICES ASSUME GotSubscribe(p, MaxCap) PROVE p.type = "subscribe"
    OBVIOUS
  <2>2. PICK i, l : p = [type |-> "subscribe", id |-> i, list |-> l]
    BY <2>1, Zenon DEF GotSubscribe
  <2> QED
    BY <2>2
<1>4. p = [type |-> "pingreq"] => p.type = "pingreq"
  OBVIOUS
<1> QED
  BY <1>1, <1>2, <1>3, <1>4, Zenon

\* A message that is read is forwarded, and read back by the subscriber.
LEMMA PublishOut ==
    ASSUME NEW g, NEW o, OutOK(g, o), g # None, NEW p, p = g.packet, p.type = "publish",
           p.props = None \/ Kept(p.props) # <<>>
    PROVE  /\ EncodePublish(p) \in o
           /\ Decode(EncodePublish(p)).v = [p EXCEPT !.dup = FALSE, !.props = Kept(p.props)]
<1>1. "publish" # "connect" /\ "publish" # "subscribe" /\ "publish" # "pingreq"
  OBVIOUS
<1>2. GotPublish(p, MaxCap) /\ o = Answers(p)
  BY <1>1, TypeOfGot, Zenon DEF OutOK, GotPacket
<1>3. EncodePublish(p) \in Answers(p)
  <2>1. PICK A : Answers(p) = {EncodePublish(p)} \cup A
    BY <1>1, Zenon DEF Answers
  <2> QED
    BY <2>1, Zenon
<1>4. Decode(EncodePublish(p)).v = [p EXCEPT !.dup = FALSE, !.props = Kept(p.props)]
  BY <1>2, PublishBack, Zenon
<1> QED
  BY <1>2, <1>3, <1>4, Zenon

\* A subscriber reads what was published.
LEMMA InvPublished ==
    ASSUME StreamInv
    PROVE  ReadsAsPublished
<1>1. PICK g, o : g = got /\ o = out
  OBVIOUS
<1>2. OutOK(g, o)
  BY <1>1, InvParts, Zenon
<1>3. ASSUME g # None, g.packet.type = "publish", g.packet.props = None \/ Kept(g.packet.props) # <<>>
      PROVE  /\ EncodePublish(g.packet) \in o
             /\ Decode(EncodePublish(g.packet)).v = [g.packet EXCEPT !.dup = FALSE, !.props = Kept(g.packet.props)]
  BY <1>2, <1>3, PublishOut, Zenon
<1> QED
  BY <1>1, <1>3, Zenon DEF ReadsAsPublished, Kept

\* A CONNACK is read back.
LEMMA ConnackOut ==
    ASSUME NEW g, NEW o, OutOK(g, o), g # None, NEW p, p = g.packet, p.type = "connect",
           39 \notin DOMAIN p.props, NEW f \in o
    PROVE  AckRead(f).st = "ok" /\ Tells(AckRead(f).v, p)
<1>1. "connect" # "publish" /\ "connect" # "subscribe" /\ "connect" # "pingreq"
  OBVIOUS
<1>2. GotConnect(p, MaxCap) /\ \E present \in BOOLEAN : o = {EncodeConnack(present, Collect(p))}
  BY <1>1, TypeOfGot, Zenon DEF OutOK, GotPacket
<1>3. PICK present \in BOOLEAN : f = EncodeConnack(present, Collect(p))
  BY <1>2, Zenon
<1>4. PICK r, q, e : r = AckRead(f) /\ q = Collect(p) /\ e = Len(f)
  OBVIOUS
<1>5. r = Ok(q, e)
  BY <1>2, <1>3, <1>4, ConnackBack, Zenon
<1>6. r.st = "ok" /\ r.v = q
  BY <1>5 DEF Ok
<1>7. Tells(q, p)
  BY <1>4, CollectTells, Zenon
<1> QED
  BY <1>4, <1>6, <1>7, Zenon

\* The client is told what it asked for.
LEMMA InvConnack ==
    ASSUME StreamInv
    PROVE  ConnackAnswers
<1>1. PICK g, o : g = got /\ o = out
  OBVIOUS
<1>2. OutOK(g, o)
  BY <1>1, InvParts, Zenon
<1>3. SUFFICES ASSUME g # None, g.packet.type = "connect", 39 \notin DOMAIN g.packet.props, NEW f \in o
               PROVE  LET req == g.packet
                          r == AckRead(f)
                      IN  /\ r.st = "ok"
                          /\ {17, 19} \subseteq DOMAIN r.v /\ (18 \in DOMAIN r.v <=> req.clid = <<>>)
                          /\ r.v[17] = Expiry(req) /\ r.v[19] = req.ka /\ (req.clid = <<>> => r.v[18] = RawClid)
                          /\ Only(r.v, {33, 34, 38, 39}) = Only(req.props, {33, 34, 38, 39})
  BY <1>1, Zenon DEF ConnackAnswers
<1>4. AckRead(f).st = "ok" /\ Tells(AckRead(f).v, g.packet)
  BY <1>2, <1>3, ConnackOut, Zenon
<1> QED
  BY <1>4, Zenon DEF Tells, Asked

\* A session that is restored is the one that was made.
LEMMA InvRestored ==
    ASSUME StreamInv
    PROVE  RestoredIsMade
<1>1. PICK c, m : c = client /\ m = made
  OBVIOUS
<1>2. ClientOK(c, m) /\ BoxesOK(m, meta)
  BY <1>1, InvParts, Zenon
<1>3. SUFFICES ASSUME c # None, c.restored, NEW f \in {"level", "ka", "expr", "rm", "mps"}
               PROVE  c.val[f] = m[c.id][f]
  BY <1>1, Zenon DEF RestoredIsMade
<1>4. PICK b, v : b = m[c.id] /\ v = c.val
  OBVIOUS
<1>5. IsBox(b) /\ v = Deserialize(Serialize(b)).v
  BY <1>2, <1>3, <1>4, Zenon DEF ClientOK, BoxesOK
<1>6. v = [level |-> b.level, ka |-> b.ka, expr |-> b.expr, rm |-> b.rm, mps |-> b.mps, tam |-> b.rm]
  BY <1>5, MetaRoundTrip, Zenon
<1>7. v.level = b.level /\ v.ka = b.ka /\ v.expr = b.expr /\ v.rm = b.rm /\ v.mps = b.mps
  BY <1>6
<1>8. v[f] = b[f]
  BY <1>3, <1>7
<1> QED
  BY <1>4, <1>8, Zenon

\* Powers of 128.
LEMMA Powers ==
    128 ^ 1 = 128 /\ 128 ^ 2 = 16384 /\ 128 ^ 3 = 2097152
  BY SMT

\* Zero is encoded as nothing.
LEMMA ZeroLength ==
    EncodeLength(0) = <<>> /\ DecodeLength(<<>>, 0) = Panic
<1>1. 0 \in 0 .. MaxEncodable
  BY MaxIs, SMT
<1>2. EncodeLength(0) = <<>>
  BY <1>1, EncodeLengthBytes, SMT
<1>3. PICK b : b = <<>>
  OBVIOUS
<1>4. \A n \in 1 .. 4 : 0 + n > Len(b)
  BY <1>3
<1>5. PICK last : last = {n \in 1 .. 4 : 0 + n > Len(b) \/ b[0 + n] < 128}
  OBVIOUS
<1>6. last = 1 .. 4
  BY <1>4, <1>5
<1>7. PICK n : n = CHOOSE x \in last : \A y \in last : x <= y
  OBVIOUS
<1>8. n \in last
  <2>1. 1 \in last /\ \A y \in last : 1 <= y
    BY <1>6
  <2> QED
    BY <1>7, <2>1, Zenon
<1>9. last # {} /\ 0 + n > Len(b)
  BY <1>4, <1>6, <1>8
<1>10. DecodeLength(b, 0) = Panic
  BY <1>5, <1>7, <1>9, Zenon DEF DecodeLength
<1> QED
  BY <1>2, <1>3, <1>10, Zenon

\* One length in LengthsAgree.
AgreesAt(n) ==
    LET e == EncodeLength(n)
        r == DecodeLength(e, 0)
    IN  /\ r.st # "ok" <=> n = 0
        /\ n # 0 => r.v = n /\ r.at = Len(e)
        /\ \A k \in 1 .. 3 : Len(e) <= k <=> n < 128 ^ k

\* Zero has its place in LengthsAgree.
LEMMA ZeroAgrees == AgreesAt(0)
<1>1. PICK e, r : e = EncodeLength(0) /\ r = DecodeLength(e, 0)
  OBVIOUS
<1>2. e = <<>> /\ r = Panic
  BY <1>1, ZeroLength, Zenon
<1>3. r.st # "ok"
  BY <1>2, NotOk, Zenon
<1>4. ASSUME NEW k \in 1 .. 3 PROVE Len(e) <= k <=> 0 < 128 ^ k
  <2>1. k = 1 \/ k = 2 \/ k = 3
    OBVIOUS
  <2>2. 0 < 128 ^ 1 /\ 0 < 128 ^ 2 /\ 0 < 128 ^ 3
    BY Powers, SMT
  <2>3. 0 < 128 ^ k
    BY <2>1, <2>2, Zenon
  <2>4. Len(e) <= k
    BY <1>2, <2>1
  <2> QED
    BY <2>3, <2>4, Zenon
<1> QED
  BY <1>1, <1>3, <1>4, Zenon DEF AgreesAt

\* A length and its encoding.
LEMMA LengthAgrees ==
    ASSUME NEW n \in 1 .. MaxEncodable
    PROVE  LET e == EncodeLength(n)
               r == DecodeLength(e, 0)
           IN  /\ r.st = "ok" /\ r.v = n /\ r.at = Len(e)
               /\ \A k \in 1 .. 3 : Len(e) <= k <=> n < 128 ^ k
<1>1. PICK m \in Nat : m = MaxEncodable
  BY MaxIs, SMT
<1>2. n \in 0 .. m /\ n > 0 /\ n \in Nat
  BY <1>1
<1>3. n \in 0 .. MaxEncodable
  BY <1>1, <1>2, Zenon
<1>4. PICK e : e = EncodeLength(n)
  OBVIOUS
<1>5. e \in Seq(Byte)
  BY <1>3, <1>4, EncodeLengthBytes, SMT
<1>6. PICK l \in Nat : l = Len(e)
  BY <1>5, LenProperties, Zenon
<1>7. (l <= 1 <=> n < 128) /\ (l <= 2 <=> n < 16384) /\ (l <= 3 <=> n < 2097152)
  BY <1>2, <1>3, <1>4, <1>6, EncodeLengthBytes, SMT
<1>8. ASSUME NEW k \in 1 .. 3 PROVE l <= k <=> n < 128 ^ k
  <2>1. k = 1 \/ k = 2 \/ k = 3
    OBVIOUS
  <2>2. (l <= 1 <=> n < 128 ^ 1) /\ (l <= 2 <=> n < 128 ^ 2) /\ (l <= 3 <=> n < 128 ^ 3)
    BY <1>7, Powers, SMT
  <2> QED
    BY <2>1, <2>2, Zenon
<1>9. PICK r, a : r = DecodeLength(e, 0) /\ a = 0 + l
  OBVIOUS
<1>10. r = Ok(n, a)
  <2>1. At(e, 0, EncodeLength(n)) /\ 0 \in Nat /\ Len(e) \in Nat
    BY <1>4, <1>5, <1>6, AtSelf, Zenon
  <2>2. DecodeLength(e, 0) = Ok(n, 0 + Len(EncodeLength(n)))
    BY <2>1, LengthRoundTrip, Zenon
  <2> QED
    BY <1>4, <1>6, <1>9, <2>2, Zenon
<1>11. r.st = "ok" /\ r.v = n /\ r.at = a
  BY <1>10 DEF Ok
<1>12. a = l
  BY <1>9
<1> QED
  BY <1>4, <1>6, <1>8, <1>9, <1>11, <1>12, Zenon

\* A fifth byte is an error.
LEMMA FifthByte ==
    DecodeLength(<<128, 128, 128, 128, 1>>, 0).st = "err"
<1>1. PICK b : b = <<128, 128, 128, 128, 1>>
  OBVIOUS
<1>2. \A n \in 1 .. 4 : ~(0 + n > Len(b) \/ b[0 + n] < 128)
  BY <1>1
<1>3. {n \in 1 .. 4 : 0 + n > Len(b) \/ b[0 + n] < 128} = {}
  BY <1>2, Zenon
<1>4. PICK r : r = DecodeLength(b, 0)
  OBVIOUS
<1>5. r = Err
  BY <1>3, <1>4, Zenon DEF DecodeLength
<1>6. r.st = "err"
  BY <1>5 DEF Err
<1> QED
  BY <1>1, <1>4, <1>6, Zenon

\* Every length that is written is encoded as it should be.
LEMMA InvLengths ==
    ASSUME StreamInv
    PROVE  LengthsAgree
<1>1. PICK g, o : g = got /\ o = out
  OBVIOUS
<1>2. OutOK(g, o)
  BY <1>1, InvParts, Zenon
<1>3. ASSUME NEW n \in 0 .. MaxEncodable PROVE AgreesAt(n)
  <2>1. CASE n = 0
    BY <2>1, ZeroAgrees, Zenon
  <2>2. CASE n # 0
    <3>1. n \in 1 .. MaxEncodable
      <4>1. PICK m \in Nat : m = MaxEncodable
        BY MaxIs, SMT
      <4>2. n \in 1 .. m
        BY <2>2, <4>1
      <4> QED
        BY <4>1, <4>2, Zenon
    <3> QED
      BY <2>2, <3>1, LengthAgrees, Zenon DEF AgreesAt
  <2> QED
    BY <2>1, <2>2, Zenon
<1>4. ASSUME NEW f \in o PROVE Len(f) \in 0 .. MaxEncodable
  <2>1. IsFrame(f) \/ f = PingRes
    BY <1>2, <1>4, OutFrames, Zenon
  <2>2. 1 \in 0 .. MaxEncodable /\ \A l \in 1 .. MaxEncodable : l \in 0 .. MaxEncodable
    BY MaxIs, SMT
  <2> QED
    BY <2>1, <2>2, PingResIs, Zenon DEF IsFrame
<1>5. \A n \in Lengths \cup {Len(f) : f \in o} : n \in 0 .. MaxEncodable
  BY <1>4, StreamAssumption, Zenon
<1>6. \A n \in Lengths \cup {Len(f) : f \in out} : AgreesAt(n)
  BY <1>1, <1>3, <1>5, Zenon
<1> QED
  BY <1>6, FifthByte, Zenon DEF LengthsAgree, AgreesAt

-----------------------------------------------------------------------------

\* The inductive invariant of the connection: what is on the wire is what has
\* been sent and not been read, a read has given the packet it began with, what
\* is written is made of what was read, and the metadata files are those of the
\* boxes that Client::new made.
THEOREM StreamInvariant == Spec => []StreamInv
<1>1. Init => StreamInv
  BY StreamInit
<1>2. StreamInv /\ [Next]_wvars => StreamInv'
  BY StreamStep
<1> QED
  BY <1>1, <1>2, PTL DEF Spec

\* Every variable of the connection holds a value of its type: whatever
\* spawn_client and start_session write is bytes, and the buffer of spawn_client
\* never gets longer than it was.
THEOREM StreamTypes == Spec => []TypeOK
<1>1. StreamInv => TypeOK
  BY Zenon DEF StreamInv
<1> QED
  BY <1>1, StreamInvariant, PTL

\* No decoder takes a read that ends inside a packet for the packet, however
\* the stream is cut into reads.
THEOREM StreamTruncated == Spec => []TruncatedIsRefused
<1>1. StreamInv => TruncatedIsRefused
  <2>1. SUFFICES ASSUME StreamInv PROVE TruncatedIsRefused
    OBVIOUS
  <2>2. TruncatedOf(sent, got)
    BY <2>1, InvParts, Zenon DEF ReadingOK
  <2> QED
    BY <2>2, Zenon DEF TruncatedIsRefused, TruncatedOf, IsAt, Start, End, Upto, EndOf, UptoOf
<1> QED
  BY <1>1, StreamInvariant, PTL

\* A read that begins with a whole packet of MQTT 5 gives the packet that was sent,
\* with what is behind it in the payload of a PUBLISH; a packet that ClientPacketV5
\* does not have gives none, and the two that are misread are excepted.
THEOREM StreamSentIsRead == Spec => []SentIsRead
<1>1. StreamInv => SentIsRead
  <2>1. SUFFICES ASSUME StreamInv PROVE SentIsRead
    OBVIOUS
  <2>2. ReadOf(sent, got)
    BY <2>1, InvParts, Zenon DEF ReadingOK
  <2> QED
    BY <2>2, Zenon DEF SentIsRead, ReadOf, GivenOf, IsAt, Start, End, Upto, EndOf, UptoOf, StreamOf
<1> QED
  BY <1>1, StreamInvariant, PTL

\* Reads of whole packets do not panic read_request and spawn_client, unless the
\* client closes before its CONNECT or has sent a packet that is misread or that
\* ClientPacketV5 does not have: the only unwraps that can fail are those.
THEOREM StreamPanicsKnown == Spec => []PanicsAreKnown
<1>1. StreamInv => PanicsAreKnown
  BY InvParts, Zenon DEF PanicsAreKnown, PanicOf, Strange
<1> QED
  BY <1>1, StreamInvariant, PTL

\* The encoders write frames: the remaining length of every packet but PING_RES
\* is the number of bytes behind it.
THEOREM StreamFrames == Spec => []FramesOK
<1>1. StreamInv => FramesOK
  BY InvFrames
<1> QED
  BY <1>1, StreamInvariant, PTL

\* What a subscriber decodes is what the publisher sent, without dup and the
\* properties that encode leaves out.
THEOREM StreamPublished == Spec => []ReadsAsPublished
<1>1. StreamInv => ReadsAsPublished
  BY InvPublished
<1> QED
  BY <1>1, StreamInvariant, PTL

\* The CONNACK tells a client that has set no maximum packet size the limits that
\* are kept for it, in the properties of MQTT 5.
THEOREM StreamConnack == Spec => []ConnackAnswers
<1>1. StreamInv => ConnackAnswers
  BY InvConnack
<1> QED
  BY <1>1, StreamInvariant, PTL

\* A session that is restored from its metadata file is the one that was made.
THEOREM StreamRestored == Spec => []RestoredIsMade
<1>1. StreamInv => RestoredIsMade
  BY InvRestored
<1> QED
  BY <1>1, StreamInvariant, PTL

\* Every remaining length but zero is encoded in as few bytes as it needs and decoded
\* to what it was; zero is encoded as nothing, which is not decoded; a fifth byte is
\* an error.
THEOREM StreamLengths == Spec => []LengthsAgree
<1>1. StreamInv => LengthsAgree
  BY InvLengths
<1> QED
  BY <1>1, StreamInvariant, PTL
=============================================================================
