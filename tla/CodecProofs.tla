---------------------------- MODULE CodecProofs -----------------------------
(***************************************************************************)
(* What the encoders write and what the readers make of any bytes, for     *)
(* every packet, every buffer and every limit.                             *)
(***************************************************************************)
EXTENDS Stream, Integers, WellFoundedInduction, SequenceTheorems, TLAPS

-----------------------------------------------------------------------------
(* Induction over the naturals *)

\* A set of naturals that is not empty has a least element.
LEMMA LeastNatural ==
    ASSUME NEW T \in SUBSET Nat, T # {}
    PROVE  \E x \in T : \A y \in T : x <= y
<1>1. PICK x \in T : \A y \in T : ~ (<<y, x>> \in OpToRel(<, Nat))
  BY NatLessThanWellFounded, WFMin, Zenon
<1>2. \A y \in T : ~(y < x)
  BY <1>1 DEF OpToRel
<1>3. \A y \in T : x <= y
  BY <1>2
<1> QED
  BY <1>3

\* A set that has 0, and with each number the next one, has every natural. It
\* is stated with a set, since the provers do not instantiate a predicate.
LEMMA NatSetInduction ==
    ASSUME NEW S, 0 \in S, \A n \in Nat : n \in S => n + 1 \in S
    PROVE  Nat \subseteq S
<1>1. SUFFICES ASSUME Nat \ S # {} PROVE FALSE
  OBVIOUS
<1>2. PICK x \in Nat \ S : \A y \in Nat \ S : x <= y
  BY <1>1, LeastNatural
<1>3. x - 1 \in Nat /\ ~(x <= x - 1)
  BY <1>2
<1>4. x - 1 \in S
  BY <1>2, <1>3
<1>5. (x - 1) + 1 \in S
  BY <1>3, <1>4
<1> QED
  BY <1>2, <1>5

-----------------------------------------------------------------------------
(* Where a sequence occurs in a buffer *)

\* The buffer b holds s behind its first i bytes.
At(b, i, s) == i + Len(s) <= Len(b) /\ \A k \in 1 .. Len(s) : b[i + k] = s[k]

\* A buffer holds the parts of what it holds, one behind the other.
LEMMA AtConcat ==
    ASSUME NEW b, NEW i \in Nat, NEW s \in Seq(Byte), NEW t \in Seq(Byte), Len(b) \in Nat,
           At(b, i, s \o t)
    PROVE  At(b, i, s) /\ At(b, i + Len(s), t)
<1>1. PICK m \in Nat, n \in Nat, l \in Nat : m = Len(s) /\ n = Len(t) /\ l = Len(b)
  OBVIOUS
<1>2. Len(s \o t) = m + n
  BY <1>1
<1>3. i + (m + n) <= l /\ \A k \in 1 .. m + n : b[i + k] = (s \o t)[k]
  BY <1>1, <1>2 DEF At
<1>4. \A k \in 1 .. m + n : (s \o t)[k] = IF k <= m THEN s[k] ELSE t[k - m]
  BY <1>1, ConcatProperties
<1>5. At(b, i, s)
  <2>1. ASSUME NEW k \in 1 .. m PROVE b[i + k] = s[k]
    <3>1. k \in 1 .. m + n /\ k <= m
      OBVIOUS
    <3> QED
      BY <1>3, <1>4, <3>1
  <2>2. i + m <= l
    BY <1>3
  <2> QED
    BY <1>1, <2>1, <2>2 DEF At
<1>6. At(b, i + m, t)
  <2>1. ASSUME NEW k \in 1 .. n PROVE b[(i + m) + k] = t[k]
    <3>1. m + k \in 1 .. m + n /\ ~(m + k <= m) /\ (m + k) - m = k /\ i + (m + k) = (i + m) + k
      OBVIOUS
    <3>2. b[i + (m + k)] = (s \o t)[m + k] /\ (s \o t)[m + k] = t[(m + k) - m]
      BY <1>3, <1>4, <3>1
    <3> QED
      BY <3>1, <3>2
  <2>2. (i + m) + n <= l
    BY <1>3
  <2> QED
    BY <1>1, <2>1, <2>2 DEF At
<1> QED
  BY <1>1, <1>5, <1>6

\* What a buffer holds can be cut out of it.
LEMMA AtSubSeq ==
    ASSUME NEW b \in Seq(Byte), NEW i \in Nat, NEW s \in Seq(Byte), At(b, i, s)
    PROVE  SubSeq(b, i + 1, i + Len(s)) = s
<1>1. PICK m \in Nat : m = Len(s)
  OBVIOUS
<1>2. i + m <= Len(b) /\ \A k \in 1 .. m : b[i + k] = s[k]
  BY <1>1 DEF At
<1>3. \A k \in (i + 1) .. (i + m) : b[k] \in Byte
  BY <1>2
<1>4. PICK u : u = SubSeq(b, i + 1, i + m)
  OBVIOUS
<1>5. u \in Seq(Byte) /\ Len(u) = (IF i + 1 <= i + m THEN (i + m) - (i + 1) + 1 ELSE 0)
      /\ \A k \in 1 .. (i + m) - (i + 1) + 1 : u[k] = b[(i + 1) + k - 1]
  BY <1>3, <1>4, SubSeqProperties
<1>6. Len(u) = m
  BY <1>5
<1>7. ASSUME NEW k \in 1 .. m PROVE u[k] = s[k]
  <2>1. k \in 1 .. (i + m) - (i + 1) + 1 /\ (i + 1) + k - 1 = i + k
    OBVIOUS
  <2> QED
    BY <1>2, <1>5, <2>1
<1> QED
  BY <1>1, <1>4, <1>5, <1>6, <1>7, SeqEqual

\* A prefix of a buffer that is long enough holds the same.
LEMMA AtPrefix ==
    ASSUME NEW b \in Seq(Byte), NEW i \in Nat, NEW s \in Seq(Byte), At(b, i, s),
           NEW m \in Nat, i + Len(s) <= m, m <= Len(b)
    PROVE  At(SubSeq(b, 1, m), i, s)
<1>1. PICK n \in Nat : n = Len(s)
  OBVIOUS
<1>2. PICK u : u = SubSeq(b, 1, m)
  OBVIOUS
<1>3. Len(u) = m /\ \A k \in 1 .. m : u[k] = b[k]
  BY <1>2
<1>4. ASSUME NEW k \in 1 .. n PROVE u[i + k] = s[k]
  <2>1. i + k \in 1 .. m
    BY <1>1
  <2>2. b[i + k] = s[k]
    BY <1>1 DEF At
  <2> QED
    BY <1>3, <2>1, <2>2
<1> QED
  BY <1>1, <1>2, <1>3, <1>4 DEF At

\* A buffer holds itself.
LEMMA AtSelf ==
    ASSUME NEW b \in Seq(Byte)
    PROVE  At(b, 0, b)
BY DEF At

\* A tuple of two numbers from its first and its rest.
LEMMA Tuple2 ==
    ASSUME NEW w \in Nat, NEW x \in Nat
    PROVE  <<w>> \o <<x>> = <<w, x>>
<1>1. <<w>> \in Seq(Nat) /\ <<x>> \in Seq(Nat) /\ <<w, x>> \in Seq(Nat)
  OBVIOUS
<1>2. Len(<<w>> \o <<x>>) = 2 /\ <<w>> \o <<x>> \in Seq(Nat)
  BY <1>1
<1>3. \A i \in 1 .. 2 : (<<w>> \o <<x>>)[i] = <<w, x>>[i]
  BY <1>1
<1> QED
  BY <1>1, <1>2, <1>3, SeqEqual

\* A tuple of three numbers from its first and its rest.
LEMMA Tuple3 ==
    ASSUME NEW w \in Nat, NEW x \in Nat, NEW y \in Nat
    PROVE  <<w>> \o <<x, y>> = <<w, x, y>>
<1>1. <<w>> \in Seq(Nat) /\ <<x, y>> \in Seq(Nat) /\ <<w, x, y>> \in Seq(Nat)
  OBVIOUS
<1>2. Len(<<w>> \o <<x, y>>) = 3 /\ <<w>> \o <<x, y>> \in Seq(Nat)
  BY <1>1
<1>3. \A i \in 1 .. 3 : (<<w>> \o <<x, y>>)[i] = <<w, x, y>>[i]
  BY <1>1
<1> QED
  BY <1>1, <1>2, <1>3, SeqEqual

\* A tuple of four numbers from its first and its rest.
LEMMA Tuple4 ==
    ASSUME NEW w \in Nat, NEW x \in Nat, NEW y \in Nat, NEW z \in Nat
    PROVE  <<w>> \o <<x, y, z>> = <<w, x, y, z>>
<1>1. <<w>> \in Seq(Nat) /\ <<x, y, z>> \in Seq(Nat) /\ <<w, x, y, z>> \in Seq(Nat)
  OBVIOUS
<1>2. Len(<<w>> \o <<x, y, z>>) = 4 /\ <<w>> \o <<x, y, z>> \in Seq(Nat)
  BY <1>1
<1>3. \A i \in 1 .. 4 : (<<w>> \o <<x, y, z>>)[i] = <<w, x, y, z>>[i]
  BY <1>1
<1> QED
  BY <1>1, <1>2, <1>3, SeqEqual

-----------------------------------------------------------------------------
(* The remaining length *)

\* The values of a byte.
LEMMA ByteIs ==
    \A x : x \in Byte <=> x \in Nat /\ x < 256
BY SMT DEF Byte

\* One step of encode, when g holds what is written for smaller numbers.
EncStep(g, k) ==
    IF k = 0 THEN <<>>
    ELSE <<(k % 128) + (IF k >= 128 THEN 128 ELSE 0)>> \o g[k \div 128]
IsEnc(g) == g = [k \in 0 .. MaxEncodable |-> EncStep(g, k)]

\* The four lengths of an encoded number.
EncOf(k) ==
    IF k = 0 THEN <<>>
    ELSE IF k < 128 THEN <<k>>
    ELSE IF k < 16384 THEN <<128 + (k % 128), k \div 128>>
    ELSE IF k < 2097152 THEN <<128 + (k % 128), 128 + ((k \div 128) % 128), k \div 16384>>
    ELSE <<128 + (k % 128), 128 + ((k \div 128) % 128), 128 + ((k \div 16384) % 128), k \div 2097152>>

\* The greatest number that four bytes hold.
LEMMA MaxIs ==
    MaxEncodable \in Nat /\ \A k \in Int : k <= MaxEncodable <=> k < 268435456
BY SMT DEF MaxEncodable

\* Dropping the last seven bits of a number.
LEMMA Shift ==
    ASSUME NEW k \in 1 .. MaxEncodable
    PROVE  /\ k \div 128 \in 0 .. MaxEncodable
           /\ k < 128 => k \div 128 = 0 /\ k % 128 = k
           /\ k >= 128 => k \div 128 >= 1
           /\ k < 16384 => k \div 128 < 128
           /\ k >= 16384 => k \div 128 >= 128
           /\ k < 2097152 => k \div 128 < 16384
           /\ k >= 2097152 => k \div 128 >= 16384
           /\ k \div 128 < 2097152
           /\ (k \div 128) \div 128 = k \div 16384
           /\ (k \div 128) \div 16384 = k \div 2097152
<1>1. k \in Nat /\ k >= 1 /\ k < 268435456
  BY MaxIs, SMT
<1>2. k \div 128 \in Nat /\ k \div 128 <= k
  BY <1>1, SMT
<1>3. k \div 128 \in 0 .. MaxEncodable
  BY <1>2, MaxIs, SMT
<1> HIDE DEF MaxEncodable
<1>4. /\ (k \div 128) \div 128 = k \div 16384
      /\ (k \div 128) \div 16384 = k \div 2097152
  BY <1>1, SMT
<1> QED
  BY <1>1, <1>3, <1>4, SMT

\* The explicit form is what a step of encode makes of the explicit form.
LEMMA EncStepOf ==
    ASSUME NEW k \in 0 .. MaxEncodable, NEW g,
           k > 0 => g[k \div 128] = EncOf(k \div 128)
    PROVE  EncStep(g, k) = EncOf(k)
<1>1. CASE k = 0
  BY <1>1 DEF EncStep, EncOf
<1>2. CASE k > 0
  <2>1. PICK d \in 0 .. MaxEncodable : d = k \div 128
    BY <1>2, Shift
  <2>2. k \in 1 .. MaxEncodable
    BY <1>2
  <2>3. EncStep(g, k) = <<(k % 128) + (IF k >= 128 THEN 128 ELSE 0)>> \o EncOf(d)
    BY <1>2, <2>1 DEF EncStep
  <2>4. PICK h \in Nat : h = (k % 128) + (IF k >= 128 THEN 128 ELSE 0)
    BY <2>2, SMT
  <2>5. CASE k < 128
    <3>1. EncOf(d) = <<>> /\ EncOf(k) = <<k>> /\ h = k
      BY <1>2, <2>1, <2>2, <2>4, <2>5, Shift, SMT DEF EncOf
    <3> QED
      BY <2>3, <2>4, <3>1, SMT
  <2>6. k >= 128 => h = 128 + (k % 128)
    BY <2>2, <2>4, SMT
  <2>7. CASE k >= 128 /\ k < 16384
    <3>1. EncOf(d) = <<d>> /\ EncOf(k) = <<h, d>>
      BY <1>2, <2>1, <2>2, <2>6, <2>7, Shift, SMT DEF EncOf
    <3>2. <<h>> \o <<d>> = <<h, d>>
      BY Tuple2, SMT
    <3> QED
      BY <2>3, <2>4, <3>1, <3>2, SMT
  <2>8. CASE k >= 16384 /\ k < 2097152
    <3>1. PICK x \in Nat, y \in Nat : x = 128 + (d % 128) /\ y = d \div 128
      OBVIOUS
    <3>2. k \div 16384 = y
      BY <2>1, <2>2, <3>1, Shift, SMT
    <3>3. d >= 128 /\ d < 16384 /\ k >= 128
      BY <2>1, <2>2, <2>8, Shift, SMT
    <3>4. EncOf(d) = <<x, y>>
      BY <3>1, <3>3, SMTT(30) DEF EncOf
    <3>5. EncOf(k) = <<h, x, y>>
      BY <2>1, <2>6, <2>8, <3>1, <3>2, <3>3, SMT DEF EncOf
    <3>6. <<h>> \o <<x, y>> = <<h, x, y>>
      BY Tuple3, SMT
    <3> QED
      BY <2>3, <2>4, <3>4, <3>5, <3>6, SMT
  <2>9. CASE k >= 2097152
    <3>1. PICK x \in Nat, y \in Nat, z \in Nat :
            x = 128 + (d % 128) /\ y = 128 + ((d \div 128) % 128) /\ z = d \div 16384
      BY SMT
    <3>2. 128 + ((k \div 16384) % 128) = y /\ k \div 2097152 = z
      BY <2>1, <2>2, <3>1, Shift, SMT
    <3>3. d >= 16384 /\ d < 2097152 /\ k >= 128
      BY <2>1, <2>2, <2>9, Shift, SMT
    <3>4. EncOf(d) = <<x, y, z>>
      BY <3>1, <3>3, SMTT(30) DEF EncOf
    <3>5. EncOf(k) = <<h, x, y, z>>
      BY <2>1, <2>6, <2>9, <3>1, <3>2, <3>3, SMT DEF EncOf
    <3>6. <<h>> \o <<x, y, z>> = <<h, x, y, z>>
      BY Tuple4, SMT
    <3> QED
      BY <2>3, <2>4, <3>4, <3>5, <3>6, SMT
  <2> QED
    BY <2>2, <2>5, <2>7, <2>8, <2>9, SMT
<1> QED
  BY <1>1, <1>2

\* What RemainingLength::encode writes.
LEMMA EncodeLengthIs ==
    ASSUME NEW n \in 0 .. MaxEncodable
    PROVE  EncodeLength(n) = EncOf(n)
<1> DEFINE e == [k \in 0 .. MaxEncodable |-> EncOf(k)]
<1>1. IsEnc(e)
  <2>1. ASSUME NEW k \in 0 .. MaxEncodable PROVE EncOf(k) = EncStep(e, k)
    <3>1. k > 0 => k \div 128 \in 0 .. MaxEncodable
      BY Shift
    <3>2. k > 0 => e[k \div 128] = EncOf(k \div 128)
      BY <3>1
    <3> QED
      BY <3>2, EncStepOf
  <2> QED
    BY <2>1 DEF IsEnc
<1>2. PICK g : g = CHOOSE h : IsEnc(h)
  OBVIOUS
<1>3. IsEnc(g)
  <2> HIDE DEF e
  <2> QED
    BY <1>1, <1>2, Zenon
<1>4. \A k \in 0 .. MaxEncodable : g[k] = EncStep(g, k)
  BY <1>3 DEF IsEnc
<1>5. EncodeLength(n) = g[n]
  BY <1>2, Zenon DEF EncodeLength, IsEnc, EncStep
<1>6. g[0] = EncOf(0)
  BY <1>4, EncStepOf, MaxIs, SMT
<1> DEFINE Good(m) == \A k \in 0 .. MaxEncodable : k < m => g[k] = EncOf(k)
<1>7. ASSUME NEW m \in Nat, NEW l \in Nat, Good(m), \A k \in 1 .. MaxEncodable : k < l => k \div 128 < m
      PROVE  Good(l)
  <2>1. ASSUME NEW k \in 0 .. MaxEncodable, k < l
        PROVE  g[k] = EncOf(k)
    <3>1. k > 0 => k \div 128 \in 0 .. MaxEncodable /\ k \div 128 < m
      BY <1>7, <2>1, Shift
    <3> QED
      BY <1>4, <1>7, <3>1, EncStepOf
  <2> QED
    BY <2>1
<1>8. Good(1)
  BY <1>6
<1> HIDE DEF Good
<1>9. \A k \in 1 .. MaxEncodable : k < 128 => k \div 128 < 1
  BY Shift, SMT
<1>10. Good(128)
  BY <1>7, <1>8, <1>9, SMT
<1>11. \A k \in 1 .. MaxEncodable : k < 16384 => k \div 128 < 128
  BY Shift, SMT
<1>12. Good(16384)
  BY <1>7, <1>10, <1>11, SMT
<1>13. \A k \in 1 .. MaxEncodable : k < 2097152 => k \div 128 < 16384
  BY Shift, SMT
<1>14. Good(2097152)
  BY <1>7, <1>12, <1>13, SMT
<1>15. \A k \in 1 .. MaxEncodable : k < 268435456 => k \div 128 < 2097152
  BY Shift, SMT
<1>16. Good(268435456)
  BY <1>7, <1>14, <1>15, SMT
<1> QED
  BY <1>5, <1>16, MaxIs, SMT DEF Good

\* The bytes at which decode may stop, the first of them, and the number that
\* the bytes up to the n-th hold.
Stops(b, i) == {n \in 1 .. 4 : i + n > Len(b) \/ b[i + n] < 128}
FirstStop(b, i) == CHOOSE x \in Stops(b, i) : \A y \in Stops(b, i) : x <= y
Part(b, i, n, k) == IF k <= n THEN b[i + k] % 128 ELSE 0
NumberOf(b, i, n) ==
    Part(b, i, n, 1) + 128 * (Part(b, i, n, 2) + 128 * (Part(b, i, n, 3) + 128 * Part(b, i, n, 4)))

\* The cases of RemainingLength::decode.
LEMMA DecodeLengthCases ==
    ASSUME NEW b, NEW i
    PROVE  DecodeLength(b, i) =
                IF Stops(b, i) = {} THEN Err
                ELSE IF i + FirstStop(b, i) > Len(b) THEN Panic
                ELSE Ok(NumberOf(b, i, FirstStop(b, i)), i + FirstStop(b, i))
BY Zenon DEF DecodeLength, Stops, FirstStop, NumberOf, Part

\* The first byte at which decode may stop.
LEMMA FirstStopIs ==
    ASSUME NEW b, NEW i, NEW m \in Stops(b, i), \A y \in Stops(b, i) : m <= y
    PROVE  FirstStop(b, i) = m
<1>1. Stops(b, i) \subseteq Nat
  BY DEF Stops
<1>2. PICK x : x = FirstStop(b, i)
  OBVIOUS
<1>3. x \in Stops(b, i) /\ \A y \in Stops(b, i) : x <= y
  BY <1>2, Zenon DEF FirstStop
<1>4. x <= m /\ m <= x /\ x \in Nat /\ m \in Nat
  BY <1>1, <1>3
<1>5. x = m
  BY <1>4
<1> QED
  BY <1>2, <1>5

\* decode reads up to the first byte without a continuation bit.
LEMMA DecodeLengthAt ==
    ASSUME NEW b, NEW i \in Nat, NEW m \in 1 .. 4, Len(b) \in Nat, i + m <= Len(b),
           \A k \in 1 .. m : b[i + k] \in Nat,
           \A k \in 1 .. m - 1 : b[i + k] >= 128, b[i + m] < 128
    PROVE  DecodeLength(b, i) = Ok(NumberOf(b, i, m), i + m)
<1>1. m \in Stops(b, i)
  BY DEF Stops
<1>2. ASSUME NEW y \in Stops(b, i) PROVE m <= y
  <2>1. y \in 1 .. 4 /\ (i + y > Len(b) \/ b[i + y] < 128)
    BY DEF Stops
  <2>2. ASSUME y < m PROVE FALSE
    <3>1. y \in 1 .. m - 1 /\ y \in 1 .. m /\ ~(i + y > Len(b))
      BY <2>1, <2>2
    <3>2. b[i + y] \in Nat /\ b[i + y] >= 128
      BY <3>1
    <3> QED
      BY <2>1, <3>1, <3>2
  <2> QED
    BY <2>1, <2>2
<1>3. FirstStop(b, i) = m
  BY <1>1, <1>2, FirstStopIs
<1>4. Stops(b, i) # {} /\ ~(i + m > Len(b))
  BY <1>1
<1> QED
  BY <1>3, <1>4, DecodeLengthCases, Zenon

\* decode does not succeed where every byte has a continuation bit.
LEMMA DecodeLengthCut ==
    ASSUME NEW b, NEW i \in Nat, Len(b) \in Nat,
           \A k \in 1 .. Len(b) - i : b[i + k] \in Nat /\ b[i + k] >= 128
    PROVE  DecodeLength(b, i).st # "ok"
<1>1. CASE Stops(b, i) = {}
  BY <1>1, DecodeLengthCases DEF Err
<1>2. CASE Stops(b, i) # {}
  <2>1. \A y \in Stops(b, i) : y \in 1 .. 4 /\ i + y > Len(b)
    <3>1. ASSUME NEW y \in Stops(b, i) PROVE y \in 1 .. 4 /\ i + y > Len(b)
      <4>1. y \in 1 .. 4 /\ (i + y > Len(b) \/ b[i + y] < 128)
        BY DEF Stops
      <4>2. i + y <= Len(b) => y \in 1 .. Len(b) - i
        BY <4>1
      <4>3. i + y <= Len(b) => b[i + y] \in Nat /\ b[i + y] >= 128
        BY <4>2
      <4> QED
        BY <4>1, <4>3
    <3> QED
      BY <3>1
  <2>2. Stops(b, i) \in SUBSET Nat
    BY DEF Stops
  <2>3. PICK m \in Stops(b, i) : \A y \in Stops(b, i) : m <= y
    BY <1>2, <2>2, LeastNatural
  <2>4. FirstStop(b, i) = m
    BY <2>3, FirstStopIs
  <2>5. DecodeLength(b, i) = Panic
    BY <1>2, <2>1, <2>4, DecodeLengthCases
  <2> QED
    BY <2>5 DEF Panic
<1> QED
  BY <1>1, <1>2

\* Four digits make a number that four bytes hold.
LEMMA NumberOfIn ==
    ASSUME NEW b, NEW i, NEW n,
           \A k \in 1 .. 4 : Part(b, i, n, k) \in Nat /\ Part(b, i, n, k) < 128
    PROVE  NumberOf(b, i, n) \in 0 .. MaxEncodable
<1>1. \A w, x, y, z \in Nat :
        w < 128 /\ x < 128 /\ y < 128 /\ z < 128
        => /\ w + 128 * (x + 128 * (y + 128 * z)) \in Nat
           /\ w + 128 * (x + 128 * (y + 128 * z)) < 268435456
  BY SMT
<1>2. /\ Part(b, i, n, 1) \in Nat /\ Part(b, i, n, 2) \in Nat
      /\ Part(b, i, n, 3) \in Nat /\ Part(b, i, n, 4) \in Nat
      /\ Part(b, i, n, 1) < 128 /\ Part(b, i, n, 2) < 128
      /\ Part(b, i, n, 3) < 128 /\ Part(b, i, n, 4) < 128
  BY SMT
<1>3. NumberOf(b, i, n) \in Nat /\ NumberOf(b, i, n) < 268435456
  BY <1>1, <1>2, SMT DEF NumberOf
<1> QED
  BY <1>3, MaxIs, SMT

\* What decode gives is a number that four bytes hold, and at least one byte is
\* consumed.
LEMMA DecodeLengthOk ==
    ASSUME NEW b \in Seq(Byte), NEW i \in Nat
    PROVE  LET r == DecodeLength(b, i)
           IN  r.st = "ok" => /\ r = Ok(r.v, r.at) /\ r.v \in 0 .. MaxEncodable
                              /\ r.at \in i + 1 .. Len(b)
<1>1. SUFFICES ASSUME DecodeLength(b, i).st = "ok"
               PROVE  \E v \in 0 .. MaxEncodable, e \in i + 1 .. Len(b) : DecodeLength(b, i) = Ok(v, e)
  BY DEF Ok
<1>2. Stops(b, i) # {}
  BY <1>1, DecodeLengthCases DEF Err
<1>3. Stops(b, i) \in SUBSET Nat /\ \A y \in Stops(b, i) : y \in 1 .. 4
  BY DEF Stops
<1>4. PICK m \in Stops(b, i) : \A y \in Stops(b, i) : m <= y
  BY <1>2, <1>3, LeastNatural
<1>5. FirstStop(b, i) = m
  BY <1>4, FirstStopIs
<1>6. ~(i + m > Len(b))
  BY <1>1, <1>2, <1>5, DecodeLengthCases DEF Panic
<1>7. DecodeLength(b, i) = Ok(NumberOf(b, i, m), i + m)
  BY <1>2, <1>5, <1>6, DecodeLengthCases
<1>8. m \in 1 .. 4
  BY <1>3
<1>9. NumberOf(b, i, m) \in 0 .. MaxEncodable
  <2>1. ASSUME NEW k \in 1 .. 4 PROVE Part(b, i, m, k) \in Nat /\ Part(b, i, m, k) < 128
    <3>0. k <= m => i + k \in 1 .. Len(b)
      BY <1>6, <1>8
    <3>1. k <= m => b[i + k] \in Nat
      BY <3>0, ByteIs
    <3> QED
      BY <1>8, <3>1 DEF Part
  <2> QED
    BY <2>1, NumberOfIn
<1>10. i + m \in i + 1 .. Len(b)
  BY <1>6, <1>8
<1> QED
  BY <1>7, <1>9, <1>10

\* The digits of a number.
LEMMA DigitsOf ==
    ASSUME NEW n \in 1 .. MaxEncodable
    PROVE  /\ n % 128 \in 0 .. 127 /\ (n \div 128) % 128 \in 0 .. 127 /\ (n \div 16384) % 128 \in 0 .. 127
           /\ n < 16384 => n \div 128 \in 0 .. 127 /\ (n % 128) + 128 * (n \div 128) = n
           /\ n < 2097152 => /\ n \div 16384 \in 0 .. 127
                             /\ (n % 128) + 128 * (((n \div 128) % 128) + 128 * (n \div 16384)) = n
           /\ n \div 2097152 \in 0 .. 127
           /\ (n % 128) + 128 * (((n \div 128) % 128)
                + 128 * (((n \div 16384) % 128) + 128 * (n \div 2097152))) = n
<1>1. n \in Nat /\ n < 268435456
  BY MaxIs, SMT
<1>2. (n \div 128) \div 128 = n \div 16384 /\ (n \div 128) \div 16384 = n \div 2097152
  BY Shift, SMT
<1>3. n = (n % 128) + 128 * (n \div 128) /\ n % 128 \in 0 .. 127
  BY <1>1, SMT
<1>4. PICK d \in Nat : d = n \div 128
  BY <1>1, SMT
<1>5. d = (d % 128) + 128 * (d \div 128) /\ d % 128 \in 0 .. 127
  BY SMT
<1>6. PICK e \in Nat : e = n \div 16384
  BY <1>1, SMT
<1>7. e = (e % 128) + 128 * (e \div 128) /\ e % 128 \in 0 .. 127
  BY SMT
<1>8. e = d \div 128 /\ e \div 128 = n \div 2097152
  BY <1>1, <1>2, <1>4, <1>6, SMT
<1>9. /\ n < 16384 => n \div 128 \in 0 .. 127
      /\ n < 2097152 => n \div 16384 \in 0 .. 127
      /\ n \div 2097152 \in 0 .. 127
  BY <1>1, SMT
<1> QED
  BY <1>3, <1>4, <1>5, <1>6, <1>7, <1>8, <1>9, SMT

\* What encode writes is one to four bytes, as few as the number needs.
LEMMA EncodeLengthBytes ==
    ASSUME NEW n \in 0 .. MaxEncodable
    PROVE  /\ EncodeLength(n) \in Seq(Byte) /\ Len(EncodeLength(n)) \in 0 .. 4
           /\ n = 0 => EncodeLength(n) = <<>>
           /\ n > 0 => /\ Len(EncodeLength(n)) >= 1
                       /\ Len(EncodeLength(n)) <= 1 <=> n < 128
                       /\ Len(EncodeLength(n)) <= 2 <=> n < 16384
                       /\ Len(EncodeLength(n)) <= 3 <=> n < 2097152
<1>1. PICK e : e = EncodeLength(n) /\ e = EncOf(n)
  BY EncodeLengthIs
<1>2. CASE n = 0
  BY <1>1, <1>2 DEF EncOf
<1>3. CASE n > 0
  <2>1. n \in 1 .. MaxEncodable
    BY <1>3
  <2>2. PICK x \in Nat, y \in Nat, z \in Nat : x = n % 128 /\ y = (n \div 128) % 128 /\ z = (n \div 16384) % 128
    BY SMT
  <2>3. x < 128 /\ y < 128 /\ z < 128
    BY <2>1, <2>2, DigitsOf, SMT
  <2>4. 128 + x \in Byte /\ 128 + y \in Byte /\ 128 + z \in Byte
    BY <2>3, ByteIs
  <2>5. CASE n < 128
    <3>1. e = <<n>> /\ n \in Byte
      BY <1>1, <1>3, <2>5, ByteIs, SMT DEF EncOf
    <3> QED
      BY <1>1, <1>3, <2>5, <3>1, SMT
  <2>6. CASE ~(n < 128) /\ n < 16384
    <3>1. n \div 128 \in Byte
      BY <2>1, <2>6, ByteIs, DigitsOf, SMT
    <3>2. e = <<128 + x, n \div 128>>
      BY <1>1, <1>3, <2>2, <2>6, SMT DEF EncOf
    <3>3. e \in Seq(Byte) /\ Len(e) = 2
      BY <2>4, <3>1, <3>2
    <3> QED
      BY <1>1, <1>3, <2>6, <3>3, SMT
  <2>7. CASE ~(n < 16384) /\ n < 2097152
    <3>1. n \div 16384 \in Byte
      BY <2>1, <2>7, ByteIs, DigitsOf, SMT
    <3>2. e = <<128 + x, 128 + y, n \div 16384>>
      BY <1>1, <1>3, <2>2, <2>7, SMT DEF EncOf
    <3>3. e \in Seq(Byte) /\ Len(e) = 3
      BY <2>4, <3>1, <3>2, SMT
    <3> QED
      BY <1>1, <1>3, <2>7, <3>3, SMT
  <2>8. CASE ~(n < 2097152)
    <3>1. n \div 2097152 \in Byte
      BY <2>1, <2>8, ByteIs, DigitsOf, SMT
    <3>2. e = <<128 + x, 128 + y, 128 + z, n \div 2097152>>
      BY <1>1, <1>3, <2>2, <2>8, SMT DEF EncOf
    <3>3. e \in Seq(Byte) /\ Len(e) = 4
      BY <2>4, <3>1, <3>2, SMT
    <3> QED
      BY <1>1, <1>3, <2>8, <3>3, SMT
  <2> QED
    BY <2>5, <2>6, <2>7, <2>8, SMT
<1> QED
  BY <1>2, <1>3

\* One byte is read as it is.
LEMMA OneByte ==
    ASSUME NEW b, NEW i \in Nat, NEW x \in Nat, Len(b) \in Nat, x < 128, At(b, i, <<x>>)
    PROVE  DecodeLength(b, i) = Ok(x, i + 1)
<1>1. i + 1 <= Len(b) /\ b[i + 1] = x
  BY DEF At
<1>2. DecodeLength(b, i) = Ok(NumberOf(b, i, 1), i + 1)
  BY <1>1, DecodeLengthAt
<1>3. NumberOf(b, i, 1) = x
  BY <1>1 DEF NumberOf, Part
<1> QED
  BY <1>2, <1>3

\* Two bytes.
LEMMA TwoBytes ==
    ASSUME NEW b, NEW i \in Nat, NEW x \in Nat, NEW y \in Nat, Len(b) \in Nat, x < 128, y < 128,
           At(b, i, <<128 + x, y>>)
    PROVE  DecodeLength(b, i) = Ok(x + 128 * y, i + 2)
<1>1. i + 2 <= Len(b) /\ b[i + 1] = 128 + x /\ b[i + 2] = y
  BY DEF At
<1>2. DecodeLength(b, i) = Ok(NumberOf(b, i, 2), i + 2)
  BY <1>1, DecodeLengthAt
<1>3. NumberOf(b, i, 2) = x + 128 * y
  BY <1>1 DEF NumberOf, Part
<1> QED
  BY <1>2, <1>3

\* Three bytes.
LEMMA ThreeBytes ==
    ASSUME NEW b, NEW i \in Nat, NEW x \in Nat, NEW y \in Nat, NEW z \in Nat, Len(b) \in Nat,
           x < 128, y < 128, z < 128, At(b, i, <<128 + x, 128 + y, z>>)
    PROVE  DecodeLength(b, i) = Ok(x + 128 * (y + 128 * z), i + 3)
<1>1. i + 3 <= Len(b) /\ b[i + 1] = 128 + x /\ b[i + 2] = 128 + y /\ b[i + 3] = z
  BY DEF At
<1>2. DecodeLength(b, i) = Ok(NumberOf(b, i, 3), i + 3)
  BY <1>1, DecodeLengthAt, SMTT(30)
<1>3. NumberOf(b, i, 3) = x + 128 * (y + 128 * z)
  <2>1. (128 + x) % 128 = x /\ (128 + y) % 128 = y /\ z % 128 = z
    OBVIOUS
  <2>2. 1 <= 3 /\ 2 <= 3 /\ 3 <= 3 /\ ~(4 <= 3)
    OBVIOUS
  <2>3. Part(b, i, 3, 1) = x /\ Part(b, i, 3, 2) = y /\ Part(b, i, 3, 3) = z /\ Part(b, i, 3, 4) = 0
    BY <1>1, <2>1, <2>2, Zenon DEF Part
  <2>4. z + 128 * 0 = z
    OBVIOUS
  <2> QED
    BY <2>3, <2>4, ZenonT(60) DEF NumberOf
<1> QED
  BY <1>2, <1>3

\* Four bytes.
LEMMA FourBytes ==
    ASSUME NEW b, NEW i \in Nat, NEW x \in Nat, NEW y \in Nat, NEW z \in Nat, NEW w \in Nat,
           Len(b) \in Nat, x < 128, y < 128, z < 128, w < 128, i + 4 <= Len(b),
           b[i + 1] = 128 + x, b[i + 2] = 128 + y, b[i + 3] = 128 + z, b[i + 4] = w
    PROVE  DecodeLength(b, i) = Ok(x + 128 * (y + 128 * (z + 128 * w)), i + 4)
<1>1. ASSUME NEW k \in 1 .. 4 PROVE b[i + k] \in Nat
  <2>1. k = 1 \/ k = 2 \/ k = 3 \/ k = 4
    OBVIOUS
  <2> QED
    BY <2>1
<1>2. ASSUME NEW k \in 1 .. 4 - 1 PROVE b[i + k] >= 128
  <2>1. k = 1 \/ k = 2 \/ k = 3
    OBVIOUS
  <2> QED
    BY <2>1, SMTT(30)
<1>3. b[i + 4] < 128 /\ 4 \in 1 .. 4
  OBVIOUS
<1>4. DecodeLength(b, i) = Ok(NumberOf(b, i, 4), i + 4)
  BY <1>1, <1>2, <1>3, DecodeLengthAt, SMTT(30)
<1>5. (128 + x) % 128 = x /\ (128 + y) % 128 = y /\ (128 + z) % 128 = z /\ w % 128 = w
  <2>1. \A d \in Nat : d < 128 => (128 + d) % 128 = d /\ d % 128 = d
    BY SMT
  <2> QED
    BY <2>1
<1>6. Part(b, i, 4, 1) = x /\ Part(b, i, 4, 2) = y /\ Part(b, i, 4, 3) = z /\ Part(b, i, 4, 4) = w
  BY <1>5 DEF Part
<1>7. NumberOf(b, i, 4) = x + 128 * (y + 128 * (z + 128 * w))
  BY <1>6 DEF NumberOf
<1> QED
  BY <1>4, <1>7

\* decode reads what encode wrote.
LEMMA LengthRoundTrip ==
    ASSUME NEW b, NEW i \in Nat, Len(b) \in Nat, NEW n \in 1 .. MaxEncodable,
           At(b, i, EncodeLength(n))
    PROVE  DecodeLength(b, i) = Ok(n, i + Len(EncodeLength(n)))
<1>1. PICK e : e = EncodeLength(n) /\ e = EncOf(n)
  BY EncodeLengthIs, n \in 0 .. MaxEncodable
<1>2. PICK x \in Nat, y \in Nat, z \in Nat : x = n % 128 /\ y = (n \div 128) % 128 /\ z = (n \div 16384) % 128
  BY SMT
<1>3. x < 128 /\ y < 128 /\ z < 128
  BY <1>2, DigitsOf, SMT
<1>4. CASE n < 128
  <2>1. e = <<n>>
    BY <1>1, <1>4, SMT DEF EncOf
  <2>2. DecodeLength(b, i) = Ok(n, i + 1)
    BY <1>1, <1>4, <2>1, OneByte
  <2> QED
    BY <1>1, <2>1, <2>2
<1>5. CASE ~(n < 128) /\ n < 16384
  <2>1. PICK u \in Nat : u = n \div 128
    BY SMT
  <2>2. u < 128 /\ x + 128 * u = n
    BY <1>2, <1>5, <2>1, DigitsOf, SMT
  <2>3. e = <<128 + x, u>>
    BY <1>1, <1>2, <1>5, <2>1, SMT DEF EncOf
  <2>4. DecodeLength(b, i) = Ok(x + 128 * u, i + 2)
    BY <1>1, <1>3, <2>2, <2>3, TwoBytes
  <2>5. Len(e) = 2
    BY <2>3
  <2> QED
    BY <1>1, <2>2, <2>4, <2>5
<1>6. CASE ~(n < 16384) /\ n < 2097152
  <2>1. PICK u \in Nat : u = n \div 16384
    BY SMT
  <2>2. u < 128 /\ x + 128 * (y + 128 * u) = n
    BY <1>2, <1>6, <2>1, DigitsOf, SMT
  <2>3. e = <<128 + x, 128 + y, u>>
    BY <1>1, <1>2, <1>6, <2>1, SMT DEF EncOf
  <2>4. DecodeLength(b, i) = Ok(x + 128 * (y + 128 * u), i + 3)
    BY <1>1, <1>3, <2>2, <2>3, ThreeBytes
  <2>5. Len(e) = 3
    BY <2>3
  <2> QED
    BY <1>1, <2>2, <2>4, <2>5
<1>7. CASE ~(n < 2097152)
  <2>1. PICK u \in Nat : u = n \div 2097152
    BY SMT
  <2>2. u < 128 /\ x + 128 * (y + 128 * (z + 128 * u)) = n
    BY <1>2, <1>7, <2>1, DigitsOf, SMTT(30)
  <2>3. e = <<128 + x, 128 + y, 128 + z, u>>
    BY <1>1, <1>2, <1>7, <2>1, SMT DEF EncOf
  <2>4. At(b, i, e)
    BY <1>1
  <2>5. Len(e) = 4 /\ e[1] = 128 + x /\ e[2] = 128 + y /\ e[3] = 128 + z /\ e[4] = u
    BY <2>3
  <2>6. i + 4 <= Len(b) /\ b[i + 1] = 128 + x /\ b[i + 2] = 128 + y /\ b[i + 3] = 128 + z /\ b[i + 4] = u
    BY <2>4, <2>5, SMTT(30) DEF At
  <2>7. DecodeLength(b, i) = Ok(x + 128 * (y + 128 * (z + 128 * u)), i + 4)
    BY <1>3, <2>2, <2>6, FourBytes, SMTT(30)
  <2> QED
    BY <1>1, <2>2, <2>5, <2>7
<1> QED
  BY <1>4, <1>5, <1>6, <1>7, SMT

\* The length that a client writes.
LEMMA ClientLengthBytes ==
    ASSUME NEW n \in Nat, n < 16384
    PROVE  ClientLength(n) \in Seq(Byte) /\ Len(ClientLength(n)) \in 1 .. 2
<1>1. CASE n < 128
  BY <1>1, ByteIs, SMT DEF ClientLength
<1>2. CASE ~(n < 128)
  <2>1. 128 + (n % 128) \in Byte /\ n \div 128 \in Byte
    BY ByteIs, SMT
  <2> QED
    BY <1>2, <2>1, SMT DEF ClientLength
<1> QED
  BY <1>1, <1>2

\* decode reads the length that a client writes.
LEMMA ClientLengthRead ==
    ASSUME NEW b, NEW i \in Nat, Len(b) \in Nat, NEW n \in Nat, n < 16384, At(b, i, ClientLength(n))
    PROVE  DecodeLength(b, i) = Ok(n, i + Len(ClientLength(n)))
<1>1. CASE n < 128
  <2>1. ClientLength(n) = <<n>>
    BY <1>1 DEF ClientLength
  <2> QED
    BY <1>1, <2>1, OneByte
<1>2. CASE ~(n < 128)
  <2>1. PICK x \in Nat, u \in Nat : x = n % 128 /\ u = n \div 128
    BY SMT
  <2>2. x < 128 /\ u < 128 /\ x + 128 * u = n
    BY <2>1, SMT
  <2>3. ClientLength(n) = <<128 + x, u>>
    BY <1>2, <2>1, SMT DEF ClientLength
  <2>4. DecodeLength(b, i) = Ok(x + 128 * u, i + 2)
    BY <2>2, <2>3, TwoBytes
  <2>5. Len(ClientLength(n)) = 2
    BY <2>3
  <2> QED
    BY <2>2, <2>4, <2>5
<1> QED
  BY <1>1, <1>2

-----------------------------------------------------------------------------
(* Fields *)

\* The characters of a string are bytes.
LEMMA AsciiIs ==
    /\ \A x : x \in Ascii <=> x \in Nat /\ x < 128
    /\ Ascii \subseteq Byte
BY SMT DEF Ascii, Byte

\* The high and the low byte of a number.
LEMMA U16Bytes ==
    ASSUME NEW n, U16(n)
    PROVE  /\ n \div 256 \in Byte /\ n % 256 \in Byte /\ 256 * (n \div 256) + (n % 256) = n
           /\ PutU16(n) = <<n \div 256, n % 256>> /\ PutU16(n) \in Seq(Byte) /\ Len(PutU16(n)) = 2
<1>1. n \in Nat /\ n < 65536
  BY DEF U16
<1>2. n \div 256 \in Nat /\ n \div 256 < 256 /\ n % 256 \in Nat /\ n % 256 < 256
      /\ 256 * (n \div 256) + (n % 256) = n
  BY <1>1, SMT
<1>3. n \div 256 \in Byte /\ n % 256 \in Byte
  BY <1>2, ByteIs, SMT
<1>4. PICK x \in Byte, y \in Byte : x = n \div 256 /\ y = n % 256
  BY <1>3, Zenon
<1>5. PutU16(n) = <<x, y>>
  BY <1>4, Zenon DEF PutU16
<1>6. <<x, y>> \in Seq(Byte) /\ Len(<<x, y>>) = 2
  OBVIOUS
<1> QED
  BY <1>2, <1>3, <1>4, <1>5, <1>6, Zenon

\* get_u8.
LEMMA GetU8 ==
    ASSUME NEW b \in Seq(Byte), NEW i \in Nat
    PROVE  GetFixed(1, b, i) = IF i + 1 <= Len(b) THEN Ok(b[i + 1], i + 1) ELSE Panic
<1>0. 1 # 2
  OBVIOUS
<1>1. CASE i + 1 <= Len(b)
  <2>1. ~(i + 1 > Len(b))
    BY <1>1
  <2> QED
    BY <1>0, <1>1, <2>1, Zenon DEF GetFixed
<1>2. CASE ~(i + 1 <= Len(b))
  <2>1. i + 1 > Len(b)
    BY <1>2
  <2> QED
    BY <1>2, <2>1, Zenon DEF GetFixed
<1> QED
  BY <1>1, <1>2

\* get_u16.
LEMMA GetU16 ==
    ASSUME NEW b \in Seq(Byte), NEW i \in Nat
    PROVE  GetFixed(2, b, i) =
                IF i + 2 <= Len(b) THEN Ok(256 * b[i + 1] + b[i + 2], i + 2) ELSE Panic
<1>0. 2 # 1
  OBVIOUS
<1>1. CASE i + 2 <= Len(b)
  <2>1. ~(i + 2 > Len(b))
    BY <1>1
  <2> QED
    BY <1>0, <1>1, <2>1, Zenon DEF GetFixed
<1>2. CASE ~(i + 2 <= Len(b))
  <2>1. i + 2 > Len(b)
    BY <1>2
  <2> QED
    BY <1>2, <2>1, Zenon DEF GetFixed
<1> QED
  BY <1>1, <1>2

\* get_u32.
LEMMA GetU32 ==
    ASSUME NEW b \in Seq(Byte), NEW i \in Nat
    PROVE  GetFixed(4, b, i) =
                IF i + 4 <= Len(b) THEN Ok(SubSeq(b, i + 1, i + 4), i + 4) ELSE Panic
<1>0. 4 # 1 /\ 4 # 2
  OBVIOUS
<1>1. CASE i + 4 <= Len(b)
  <2>1. ~(i + 4 > Len(b))
    BY <1>1
  <2> QED
    BY <1>0, <1>1, <2>1, Zenon DEF GetFixed
<1>2. CASE ~(i + 4 <= Len(b))
  <2>1. i + 4 > Len(b)
    BY <1>2
  <2> QED
    BY <1>2, <2>1, Zenon DEF GetFixed
<1> QED
  BY <1>1, <1>2

\* The u16 at i.
LEMMA U16At ==
    ASSUME NEW b \in Seq(Byte), NEW i \in Nat, NEW n, U16(n), At(b, i, PutU16(n))
    PROVE  GetFixed(2, b, i) = Ok(n, i + 2)
<1>0. /\ n \div 256 \in Byte /\ n % 256 \in Byte /\ 256 * (n \div 256) + (n % 256) = n
      /\ PutU16(n) = <<n \div 256, n % 256>>
  BY U16Bytes
<1>1. PICK x \in Byte, y \in Byte : 256 * x + y = n /\ PutU16(n) = <<x, y>>
  BY <1>0, ZenonT(60)
<1>2. At(b, i, <<x, y>>)
  BY <1>1
<1>3. i + 2 <= Len(b) /\ b[i + 1] = x /\ b[i + 2] = y
  BY <1>2 DEF At
<1> QED
  BY <1>1, <1>3, GetU16, ZenonT(60)

\* A part of a buffer is a sequence of bytes.
LEMMA Slice ==
    ASSUME NEW b \in Seq(Byte), NEW i \in Nat, NEW n \in Nat, i + n <= Len(b)
    PROVE  /\ SubSeq(b, i + 1, i + n) \in Seq(Byte) /\ Len(SubSeq(b, i + 1, i + n)) = n
           /\ \A k \in 1 .. n : SubSeq(b, i + 1, i + n)[k] = b[i + k]
<1>1. \A k \in (i + 1) .. (i + n) : b[k] \in Byte
  OBVIOUS
<1>2. PICK u : u = SubSeq(b, i + 1, i + n)
  OBVIOUS
<1>3. u \in Seq(Byte) /\ Len(u) = (IF i + 1 <= i + n THEN (i + n) - (i + 1) + 1 ELSE 0)
      /\ \A k \in 1 .. (i + n) - (i + 1) + 1 : u[k] = b[(i + 1) + k - 1]
  BY <1>1, <1>2, SubSeqProperties
<1>4. Len(u) = n
  BY <1>3
<1>5. ASSUME NEW k \in 1 .. n PROVE u[k] = b[i + k]
  <2>1. k \in 1 .. (i + n) - (i + 1) + 1 /\ (i + 1) + k - 1 = i + k
    OBVIOUS
  <2> QED
    BY <1>3, <2>1
<1> QED
  BY <1>2, <1>3, <1>4, <1>5

\* A string of characters passes the check of from_utf8, and only such a string.
LEMMA Utf8Is ==
    ASSUME NEW s \in Seq(Byte)
    PROVE  IsUtf8(s) <=> s \in Seq(Ascii)
<1>1. DOMAIN s = 1 .. Len(s) /\ Len(s) \in Nat
  OBVIOUS
<1>2. ASSUME IsUtf8(s) PROVE s \in Seq(Ascii)
  <2>1. \A n \in 1 .. Len(s) : s[n] \in Ascii
    BY <1>1, <1>2 DEF IsUtf8
  <2>2. s \in [1 .. Len(s) -> Ascii]
    BY <2>1
  <2> QED
    BY <1>1, <2>2
<1>3. ASSUME s \in Seq(Ascii) PROVE IsUtf8(s)
  BY <1>3 DEF IsUtf8
<1> QED
  BY <1>2, <1>3

\* What encode_utf8_string writes.
LEMMA StrBytes ==
    ASSUME NEW s \in Seq(Byte), U16(Len(s))
    PROVE  PutStr(s) \in Seq(Byte) /\ Len(PutStr(s)) = 2 + Len(s)
<1>1. PICK u \in Seq(Byte) : u = PutU16(Len(s)) /\ Len(u) = 2
  BY U16Bytes
<1>2. u \o s \in Seq(Byte) /\ Len(u \o s) = Len(u) + Len(s)
  BY ConcatProperties, Zenon
<1> QED
  BY <1>1, <1>2, Zenon DEF PutStr

\* The n bytes of a string behind the first j bytes.
StrCase(kind, b, j, n) ==
    IF n > Len(b) - j THEN IF kind = "filter" THEN Panic ELSE Err
    ELSE IF kind # "bin" /\ ~IsUtf8(SubSeq(b, j + 1, j + n)) THEN Err
    ELSE Ok(SubSeq(b, j + 1, j + n), j + n)

\* What the decoder of a string makes of a buffer.
LEMMA GetStrCases ==
    ASSUME NEW b \in Seq(Byte), NEW i \in Nat, NEW kind
    PROVE  GetStr(kind, b, i) =
                IF ~(i + 2 <= Len(b)) THEN Panic
                ELSE StrCase(kind, b, i + 2, 256 * b[i + 1] + b[i + 2])
<1>1. CASE i + 2 <= Len(b)
  <2>1. PICK n : n = 256 * b[i + 1] + b[i + 2]
    OBVIOUS
  <2>2. GetFixed(2, b, i) = Ok(n, i + 2)
    BY <1>1, <2>1, GetU16
  <2>3. GetFixed(2, b, i).st = "ok" /\ GetFixed(2, b, i).v = n /\ GetFixed(2, b, i).at = i + 2
    BY <2>2 DEF Ok
  <2> QED
    BY <1>1, <2>1, <2>3, ZenonT(60) DEF GetStr, Then, StrCase
<1>2. CASE ~(i + 2 <= Len(b))
  <2>1. GetFixed(2, b, i) = Panic
    BY <1>2, GetU16
  <2>2. Panic.st # "ok"
    BY DEF Panic
  <2> QED
    BY <1>2, <2>1, <2>2, Zenon DEF GetStr, Then, StrCase
<1> QED
  BY <1>1, <1>2

\* The string at i.
LEMMA StrAt ==
    ASSUME NEW b \in Seq(Byte), NEW i \in Nat, NEW s \in Seq(Byte), U16(Len(s)), NEW kind,
           kind = "bin" \/ s \in Seq(Ascii), At(b, i, PutStr(s))
    PROVE  GetStr(kind, b, i) = Ok(s, i + 2 + Len(s))
<1>1. PICK u \in Seq(Byte) : u = PutU16(Len(s)) /\ Len(u) = 2
  BY U16Bytes
<1>2. At(b, i, PutU16(Len(s))) /\ At(b, i + 2, s)
  <2>1. At(b, i, u \o s) /\ Len(b) \in Nat
    BY <1>1 DEF PutStr
  <2>2. At(b, i, u) /\ At(b, i + Len(u), s)
    BY <2>1, AtConcat
  <2> QED
    BY <1>1, <2>2
<1>3. GetFixed(2, b, i) = Ok(Len(s), i + 2)
  BY <1>2, U16At
<1>4. i + 2 <= Len(b) /\ 256 * b[i + 1] + b[i + 2] = Len(s)
  <2>1. Ok(Len(s), i + 2) # Panic
    BY DEF Ok, Panic
  <2>2. i + 2 <= Len(b)
    BY <1>3, <2>1, GetU16
  <2>3. Ok(256 * b[i + 1] + b[i + 2], i + 2) = Ok(Len(s), i + 2)
    BY <1>3, <2>2, GetU16
  <2> QED
    BY <2>2, <2>3 DEF Ok
<1>5. ~(Len(s) > Len(b) - (i + 2))
  BY <1>2 DEF At
<1>6. SubSeq(b, (i + 2) + 1, (i + 2) + Len(s)) = s
  BY <1>2, AtSubSeq
<1>7. kind = "bin" \/ IsUtf8(s)
  BY Utf8Is
<1>8. GetStr(kind, b, i) = StrCase(kind, b, i + 2, Len(s))
  BY <1>4, GetStrCases
<1> QED
  BY <1>5, <1>6, <1>7, <1>8, Zenon DEF StrCase

\* The text at i.
LEMMA TextAt ==
    ASSUME NEW b \in Seq(Byte), NEW i \in Nat, NEW s \in Seq(Ascii), U16(Len(s)), NEW kind,
           At(b, i, PutStr(s))
    PROVE  GetStr(kind, b, i) = Ok(s, i + 2 + Len(s))
<1>1. s \in Seq(Byte)
  BY AsciiIs, SeqMonotonic, Zenon
<1> QED
  BY <1>1, StrAt

\* What the decoder of a string gives, when it succeeds.
LEMMA StrOk ==
    ASSUME NEW b \in Seq(Byte), NEW i \in Nat, NEW kind, GetStr(kind, b, i).st = "ok"
    PROVE  \E s \in Seq(Byte), e \in Nat :
                /\ GetStr(kind, b, i) = Ok(s, e) /\ e >= i + 2 /\ e <= Len(b)
                /\ Len(s) = e - (i + 2) /\ (kind # "bin" => s \in Seq(Ascii))
<1>1. Panic.st # "ok" /\ Err.st # "ok"
  BY DEF Panic, Err
<1>2. i + 2 <= Len(b)
  BY <1>1, GetStrCases, Zenon
<1>3. i + 1 \in 1 .. Len(b) /\ i + 2 \in 1 .. Len(b)
  BY <1>2
<1>4. PICK n \in Nat : n = 256 * b[i + 1] + b[i + 2]
  BY <1>3, ByteIs
<1>0. GetStr(kind, b, i) = StrCase(kind, b, i + 2, n)
  BY <1>2, <1>4, GetStrCases
<1>5. ~(n > Len(b) - (i + 2))
  BY <1>0, <1>1, Zenon DEF StrCase
<1>6. PICK s : s = SubSeq(b, (i + 2) + 1, (i + 2) + n)
  OBVIOUS
<1>7. ~(kind # "bin" /\ ~IsUtf8(s))
  BY <1>0, <1>1, <1>5, <1>6, Zenon DEF StrCase
<1>8. GetStr(kind, b, i) = Ok(s, (i + 2) + n)
  BY <1>0, <1>5, <1>6, <1>7, Zenon DEF StrCase
<1>9. (i + 2) + n <= Len(b) /\ (i + 2) + n \in Nat /\ i + 2 \in Nat
  BY <1>5
<1>10. s \in Seq(Byte) /\ Len(s) = n
  BY <1>6, <1>9, Slice
<1>11. kind # "bin" => s \in Seq(Ascii)
  BY <1>7, <1>10, Utf8Is
<1>12. (i + 2) + n >= i + 2 /\ Len(s) = ((i + 2) + n) - (i + 2)
  BY <1>10
<1> QED
  BY <1>8, <1>9, <1>10, <1>11, <1>12

\* The decoder and the encoder of each kind of field.
LEMMA GetFieldIs ==
    ASSUME NEW b, NEW i
    PROVE  /\ GetField("u8", b, i) = GetFixed(1, b, i)
           /\ GetField("u16", b, i) = GetFixed(2, b, i)
           /\ GetField("u32", b, i) = GetFixed(4, b, i)
           /\ GetField("var", b, i) = DecodeLength(b, i)
           /\ GetField("str", b, i) = GetStr("str", b, i)
           /\ GetField("bin", b, i) = GetStr("bin", b, i)
           /\ GetField("filter", b, i) = GetStr("filter", b, i)
BY Zenon DEF GetField

\* decode_string_pair.
LEMMA GetPair ==
    ASSUME NEW b, NEW i
    PROVE  LET r == GetStr("str", b, i)
               q == GetStr("str", b, r.at)
           IN  GetField("pair", b, i) = IF r.st = "ok"
                                        THEN IF q.st = "ok" THEN Ok(<<r.v, q.v>>, q.at) ELSE q
                                        ELSE r
BY Zenon DEF GetField, Then

\* The encoder of each kind of field.
LEMMA PutFieldIs ==
    ASSUME NEW v
    PROVE  /\ PutField("u8", v) = <<v>>
           /\ PutField("u16", v) = PutU16(v)
           /\ PutField("u32", v) = v
           /\ PutField("var", v) = EncodeLength(v)
           /\ PutField("str", v) = PutStr(v)
           /\ PutField("bin", v) = PutStr(v)
           /\ PutField("pair", v) = PutStr(v[1]) \o PutStr(v[2])
BY Zenon DEF PutField

\* The kinds of properties.
Kinds == {"u8", "u16", "u32", "var", "str", "bin", "pair"}

\* A string that fits.
LEMMA TextIs ==
    ASSUME NEW max \in Nat, U16(max), NEW s
    PROVE  /\ s \in Blobs(max) <=> s \in Seq(Byte) /\ Len(s) <= max
           /\ s \in Texts(max) <=> s \in Seq(Ascii) /\ Len(s) <= max
           /\ s \in Texts(max) => s \in Blobs(max)
           /\ s \in Blobs(max) => U16(Len(s)) /\ PutStr(s) \in Seq(Byte) /\ Len(PutStr(s)) = 2 + Len(s)
<1>1. /\ s \in Blobs(max) <=> s \in Seq(Byte) /\ Len(s) <= max
      /\ s \in Texts(max) <=> s \in Seq(Ascii) /\ Len(s) <= max
  BY Zenon DEF Blobs, Texts
<1>2. s \in Seq(Ascii) => s \in Seq(Byte)
  BY AsciiIs, SeqMonotonic, Zenon
<1>3. s \in Blobs(max) => U16(Len(s))
  BY <1>1 DEF U16
<1> QED
  BY <1>1, <1>2, <1>3, StrBytes, Zenon

\* A pair that fits.
LEMMA PairIs ==
    ASSUME NEW max \in Nat, U16(max), NEW v \in Texts(max) \X Texts(max)
    PROVE  v = <<v[1], v[2]>> /\ v[1] \in Texts(max) /\ v[2] \in Texts(max)
OBVIOUS

\* What the encoder of a field that fits writes.
LEMMA FieldBytes ==
    ASSUME NEW max \in Nat, U16(max), NEW kind \in Kinds, NEW v, Fits(kind, v, max)
    PROVE  PutField(kind, v) \in Seq(Byte) /\ Len(PutField(kind, v)) <= 2 * max + 4
<1>1. CASE kind = "u8"
  <2>1. v \in Byte
    BY <1>1 DEF Fits
  <2>2. <<v>> \in Seq(Byte) /\ Len(<<v>>) <= 2 * max + 4
    BY <2>1
  <2> QED
    BY <1>1, <2>2, PutFieldIs, Zenon
<1>2. CASE kind = "u16"
  <2>1. U16(v)
    BY <1>2 DEF Fits
  <2>2. PICK u \in Seq(Byte) : u = PutU16(v) /\ Len(u) = 2
    BY <2>1, U16Bytes, Zenon
  <2>3. Len(u) <= 2 * max + 4
    BY <2>2
  <2> QED
    BY <1>2, <2>2, <2>3, PutFieldIs, Zenon
<1>3. CASE kind = "u32"
  <2>1. v \in Seq(Byte) /\ Len(v) = 4
    BY <1>3 DEF Fits
  <2>2. Len(v) <= 2 * max + 4
    BY <2>1
  <2> QED
    BY <1>3, <2>1, <2>2, PutFieldIs, Zenon
<1>4. CASE kind = "var"
  <2>1. v \in 0 .. MaxEncodable
    BY <1>4 DEF Fits
  <2>2. EncodeLength(v) \in Seq(Byte) /\ Len(EncodeLength(v)) \in 0 .. 4
    BY <2>1, EncodeLengthBytes, SMT
  <2>3. Len(EncodeLength(v)) <= 2 * max + 4
    <3>1. PICK l \in 0 .. 4 : l = Len(EncodeLength(v))
      BY <2>2, Zenon
    <3>2. l <= 2 * max + 4
      OBVIOUS
    <3> QED
      BY <3>1, <3>2, Zenon
  <2> QED
    BY <1>4, <2>2, <2>3, PutFieldIs, Zenon
<1>5. CASE kind = "str" \/ kind = "bin"
  <2>1. v \in Texts(max) \/ v \in Blobs(max)
    BY <1>5, Zenon DEF Fits
  <2>2. v \in Seq(Byte) /\ Len(v) <= max
    BY <2>1, TextIs, Zenon
  <2>3. PutStr(v) \in Seq(Byte) /\ Len(PutStr(v)) = 2 + Len(v)
    BY <2>1, TextIs, Zenon
  <2>4. 2 + Len(v) <= 2 * max + 4
    <3>1. PICK l \in Nat : l = Len(v)
      BY <2>2, LenProperties, Zenon
    <3>2. 2 + l <= 2 * max + 4
      BY <2>2, <3>1
    <3> QED
      BY <3>1, <3>2
  <2> QED
    BY <1>5, <2>3, <2>4, PutFieldIs, Zenon
<1>6. CASE kind = "pair"
  <2>1. v \in Texts(max) \X Texts(max)
    BY <1>6, Zenon DEF Fits
  <2>2. v[1] \in Texts(max) /\ v[2] \in Texts(max)
    BY <2>1, PairIs, Zenon
  <2>3. /\ v[1] \in Seq(Byte) /\ v[2] \in Seq(Byte) /\ Len(v[1]) <= max /\ Len(v[2]) <= max
        /\ PutStr(v[1]) \in Seq(Byte) /\ Len(PutStr(v[1])) = 2 + Len(v[1])
        /\ PutStr(v[2]) \in Seq(Byte) /\ Len(PutStr(v[2])) = 2 + Len(v[2])
    BY <2>2, TextIs, Zenon
  <2>4. PICK l \in Nat, m \in Nat : l = Len(v[1]) /\ m = Len(v[2])
    BY <2>3, LenProperties, Zenon
  <2>5. PICK x \in Seq(Byte), y \in Seq(Byte) :
          x = PutStr(v[1]) /\ y = PutStr(v[2]) /\ Len(x) = 2 + l /\ Len(y) = 2 + m
    BY <2>3, <2>4, Zenon
  <2>6. x \o y \in Seq(Byte) /\ Len(x \o y) = Len(x) + Len(y)
    BY ConcatProperties, Zenon
  <2>7. l <= max /\ m <= max
    BY <2>3, <2>4, Zenon
  <2>8. (2 + l) + (2 + m) <= 2 * max + 4
    BY <2>7
  <2> QED
    BY <1>6, <2>5, <2>6, <2>8, PutFieldIs, Zenon
<1> QED
  BY <1>1, <1>2, <1>3, <1>4, <1>5, <1>6 DEF Kinds

\* The pair of strings at i.
LEMMA PairAt ==
    ASSUME NEW b \in Seq(Byte), NEW i \in Nat, NEW x \in Seq(Ascii), NEW y \in Seq(Ascii),
           U16(Len(x)), U16(Len(y)), At(b, i, PutStr(x) \o PutStr(y))
    PROVE  GetField("pair", b, i) = Ok(<<x, y>>, i + Len(PutStr(x) \o PutStr(y)))
<1>1. x \in Seq(Byte) /\ y \in Seq(Byte)
  BY AsciiIs, SeqMonotonic, Zenon
<1>2. PICK s \in Seq(Byte) : s = PutStr(x) /\ Len(s) = 2 + Len(x)
  BY <1>1, StrBytes
<1>3. PICK u \in Seq(Byte) : u = PutStr(y) /\ Len(u) = 2 + Len(y)
  BY <1>1, StrBytes
<1>4. At(b, i, s) /\ At(b, i + Len(s), u)
  <2>1. At(b, i, s \o u)
    BY <1>2, <1>3, Zenon
  <2>2. Len(b) \in Nat
    OBVIOUS
  <2> QED
    BY <2>1, <2>2, AtConcat, Zenon
<1>5. PICK j \in Nat : j = i + Len(s) /\ j = i + 2 + Len(x)
  BY <1>2
<1>6. PICK e \in Nat : e = j + 2 + Len(y)
  OBVIOUS
<1>7. GetStr("str", b, i) = Ok(x, j)
  <2>1. At(b, i, PutStr(x))
    BY <1>2, <1>4
  <2>2. GetStr("str", b, i) = Ok(x, i + 2 + Len(x))
    BY <2>1, TextAt
  <2> QED
    BY <1>5, <2>2
<1>8. GetStr("str", b, j) = Ok(y, e)
  <2>1. At(b, j, PutStr(y))
    BY <1>3, <1>4, <1>5
  <2>2. GetStr("str", b, j) = Ok(y, j + 2 + Len(y))
    BY <2>1, TextAt
  <2> QED
    BY <1>6, <2>2
<1>9. Len(s \o u) = Len(s) + Len(u)
  BY ConcatProperties, Zenon
<1>10. i + (Len(s) + Len(u)) = e
  <2>1. PICK l \in Nat, m \in Nat : l = Len(y) /\ m = Len(s)
    BY LenProperties, Zenon
  <2>2. \A n \in Nat : n = i + m => i + (m + (2 + l)) = n + 2 + l
    OBVIOUS
  <2> QED
    BY <1>3, <1>5, <1>6, <2>1, <2>2, Zenon
<1>11. Ok(x, j).st = "ok" /\ Ok(x, j).at = j /\ Ok(x, j).v = x
  BY DEF Ok
<1>12. Ok(y, e).st = "ok" /\ Ok(y, e).at = e /\ Ok(y, e).v = y
  BY DEF Ok
<1>13. GetField("pair", b, i) = Ok(<<x, y>>, e)
  BY <1>7, <1>8, <1>11, <1>12, GetPair, Zenon
<1> QED
  BY <1>2, <1>3, <1>9, <1>10, <1>13, Zenon

\* The decoder of a field reads what its encoder wrote.
LEMMA FieldAt ==
    ASSUME NEW b \in Seq(Byte), NEW i \in Nat, NEW max \in Nat, U16(max),
           NEW kind \in Kinds, NEW v, Fits(kind, v, max), kind = "var" => v # 0,
           At(b, i, PutField(kind, v))
    PROVE  GetField(kind, b, i) = Ok(v, i + Len(PutField(kind, v)))
<1>0. Len(b) \in Nat
  OBVIOUS
<1>1. CASE kind = "u8"
  <2>1. v \in Byte
    BY <1>1 DEF Fits
  <2>2. PutField(kind, v) = <<v>>
    BY <1>1, PutFieldIs, Zenon
  <2>3. Len(<<v>>) = 1
    OBVIOUS
  <2>4. i + 1 <= Len(b) /\ b[i + 1] = v
    BY <2>2 DEF At
  <2>5. GetField(kind, b, i) = GetFixed(1, b, i)
    BY <1>1, GetFieldIs, Zenon
  <2> QED
    BY <2>2, <2>3, <2>4, <2>5, GetU8, Zenon
<1>2. CASE kind = "u16"
  <2>1. U16(v)
    BY <1>2 DEF Fits
  <2>2. PutField(kind, v) = PutU16(v) /\ Len(PutU16(v)) = 2
    BY <1>2, <2>1, U16Bytes, PutFieldIs, ZenonT(60)
  <2>3. GetFixed(2, b, i) = Ok(v, i + 2)
    BY <2>1, <2>2, U16At, Zenon
  <2>4. GetField(kind, b, i) = GetFixed(2, b, i)
    BY <1>2, GetFieldIs, Zenon
  <2> QED
    BY <2>2, <2>3, <2>4, Zenon
<1>3. CASE kind = "u32"
  <2>1. v \in Seq(Byte) /\ Len(v) = 4
    BY <1>3 DEF Fits
  <2>2. PutField(kind, v) = v
    BY <1>3, PutFieldIs, Zenon
  <2>3. SubSeq(b, i + 1, i + Len(v)) = v
    BY <2>1, <2>2, AtSubSeq, Zenon
  <2>4. i + 4 <= Len(b)
    BY <2>1, <2>2 DEF At
  <2>5. GetField(kind, b, i) = GetFixed(4, b, i)
    BY <1>3, GetFieldIs, Zenon
  <2> QED
    BY <2>1, <2>2, <2>3, <2>4, <2>5, GetU32, Zenon
<1>4. CASE kind = "var"
  <2>1. v \in 1 .. MaxEncodable
    BY <1>4, MaxIs, SMT DEF Fits
  <2>2. PutField(kind, v) = EncodeLength(v)
    BY <1>4, PutFieldIs, Zenon
  <2>3. DecodeLength(b, i) = Ok(v, i + Len(EncodeLength(v)))
    BY <1>0, <2>1, <2>2, LengthRoundTrip, Zenon
  <2>4. GetField(kind, b, i) = DecodeLength(b, i)
    BY <1>4, GetFieldIs, Zenon
  <2> QED
    BY <2>2, <2>3, <2>4, Zenon
<1>5. CASE kind = "str" \/ kind = "bin"
  <2>1. (kind = "str" /\ v \in Texts(max)) \/ (kind = "bin" /\ v \in Blobs(max))
    BY <1>5, Zenon DEF Fits
  <2>2. /\ v \in Seq(Byte) /\ U16(Len(v)) /\ Len(PutStr(v)) = 2 + Len(v)
        /\ kind = "bin" \/ v \in Seq(Ascii)
    BY <2>1, TextIs, Zenon
  <2>3. PutField(kind, v) = PutStr(v)
    BY <1>5, PutFieldIs, Zenon
  <2>4. GetStr(kind, b, i) = Ok(v, i + 2 + Len(v))
    BY <2>2, <2>3, StrAt, Zenon
  <2>5. GetField(kind, b, i) = GetStr(kind, b, i)
    BY <1>5, GetFieldIs, Zenon
  <2>6. i + 2 + Len(v) = i + (2 + Len(v))
    BY <2>2
  <2> QED
    BY <2>2, <2>3, <2>4, <2>5, <2>6, Zenon
<1>6. CASE kind = "pair"
  <2>1. v \in Texts(max) \X Texts(max)
    BY <1>6, Zenon DEF Fits
  <2>2. v = <<v[1], v[2]>> /\ v[1] \in Texts(max) /\ v[2] \in Texts(max)
    BY <2>1, PairIs, Zenon
  <2>3. PICK x \in Seq(Ascii), y \in Seq(Ascii) : x = v[1] /\ y = v[2]
    BY <2>2, TextIs, Zenon
  <2>4. U16(Len(x)) /\ U16(Len(y))
    BY <2>2, <2>3, TextIs, Zenon
  <2>5. PutField(kind, v) = PutStr(x) \o PutStr(y)
    BY <1>6, <2>3, PutFieldIs, Zenon
  <2>6. At(b, i, PutStr(x) \o PutStr(y))
    BY <2>5, Zenon
  <2>7. GetField("pair", b, i) = Ok(<<x, y>>, i + Len(PutStr(x) \o PutStr(y)))
    BY <2>4, <2>6, PairAt
  <2> QED
    BY <1>6, <2>2, <2>3, <2>5, <2>7, Zenon
<1> QED
  BY <1>1, <1>2, <1>3, <1>4, <1>5, <1>6 DEF Kinds

\* A decoder that began behind the first i of m bytes has succeeded.
Read(r, i, m) == r = Ok(r.v, r.at) /\ r.at \in Nat /\ r.at > i /\ r.at <= m

\* A value and the number of bytes consumed.
LEMMA OkIs ==
    ASSUME NEW v, NEW e
    PROVE  Ok(v, e).st = "ok" /\ Ok(v, e).v = v /\ Ok(v, e).at = e
BY DEF Ok

\* Neither an error nor a panic is a success.
LEMMA NotOk ==
    Err.st # "ok" /\ Panic.st # "ok" /\ Err.st = "err" /\ Panic.st = "panic"
BY DEF Err, Panic

\* A success.
LEMMA ReadOk ==
    ASSUME NEW v, NEW e \in Nat, NEW i \in Nat, NEW m \in Nat, i < e, e <= m
    PROVE  Read(Ok(v, e), i, m)
BY OkIs DEF Read

\* What the decoder of a string gives, when it succeeds.
LEMMA TextOk ==
    ASSUME NEW b \in Seq(Byte), NEW i \in Nat, NEW kind, GetStr(kind, b, i).st = "ok"
    PROVE  LET r == GetStr(kind, b, i)
           IN  /\ Read(r, i, Len(b)) /\ r.at >= i + 2 /\ r.v \in Blobs(Len(b))
               /\ kind # "bin" => r.v \in Texts(Len(b))
<1>1. PICK s \in Seq(Byte), e \in Nat :
        /\ GetStr(kind, b, i) = Ok(s, e) /\ e >= i + 2 /\ e <= Len(b)
        /\ Len(s) = e - (i + 2) /\ (kind # "bin" => s \in Seq(Ascii))
  BY StrOk, ZenonT(60)
<1>2. PICK m \in Nat : m = Len(b)
  OBVIOUS
<1>3. e <= m => e - (i + 2) <= m
  OBVIOUS
<1>4. Len(s) <= m
  BY <1>1, <1>2, <1>3, Zenon
<1>5. i < e
  BY <1>1
<1>6. Read(Ok(s, e), i, m)
  BY <1>1, <1>2, <1>5, ReadOk, Zenon
<1>7. s \in Blobs(m) /\ (kind # "bin" => s \in Texts(m))
  BY <1>1, <1>4, Zenon DEF Blobs, Texts
<1> QED
  BY <1>1, <1>2, <1>6, <1>7, OkIs

\* What the decoder of a pair gives.
LEMMA PairOk ==
    ASSUME NEW b \in Seq(Byte), NEW i \in Nat, GetField("pair", b, i).st = "ok"
    PROVE  LET r == GetField("pair", b, i)
           IN  Read(r, i, Len(b)) /\ r.v \in Texts(Len(b)) \X Texts(Len(b))
<1>1. PICK r : r = GetStr("str", b, i)
  OBVIOUS
<1>2. PICK q : q = GetStr("str", b, r.at)
  OBVIOUS
<1>3. r.st = "ok" /\ q.st = "ok" /\ GetField("pair", b, i) = Ok(<<r.v, q.v>>, q.at)
  BY <1>1, <1>2, GetPair
<1>4. Read(r, i, Len(b)) /\ r.v \in Texts(Len(b))
  BY <1>1, <1>3, TextOk, Zenon
<1>5. r.at \in Nat
  BY <1>4 DEF Read
<1>6. Read(q, r.at, Len(b)) /\ q.v \in Texts(Len(b))
  BY <1>2, <1>3, <1>5, TextOk, Zenon
<1>7. q.at \in Nat /\ i < q.at /\ q.at <= Len(b)
  <2>1. PICK n \in Nat, k \in Nat : n = r.at /\ k = q.at
    BY <1>4, <1>6, Zenon DEF Read
  <2>2. n > i /\ k > n /\ k <= Len(b)
    BY <1>4, <1>6, <2>1, Zenon DEF Read
  <2>3. i < k
    BY <2>2
  <2> QED
    BY <2>1, <2>2, <2>3, Zenon
<1>8. PICK m \in Nat : m = Len(b)
  OBVIOUS
<1>9. Read(Ok(<<r.v, q.v>>, q.at), i, m)
  BY <1>7, <1>8, ReadOk, Zenon
<1>10. <<r.v, q.v>> \in Texts(Len(b)) \X Texts(Len(b))
  BY <1>4, <1>6
<1> QED
  BY <1>3, <1>8, <1>9, <1>10, OkIs

\* What the decoder of a number gives.
LEMMA NumberOk ==
    ASSUME NEW b \in Seq(Byte), NEW i \in Nat, NEW kind \in {"u8", "u16", "u32", "var"},
           GetField(kind, b, i).st = "ok"
    PROVE  LET r == GetField(kind, b, i)
           IN  /\ Read(r, i, Len(b)) /\ (kind = "u8" => r.v \in Byte) /\ (kind = "u16" => U16(r.v))
               /\ kind = "u32" => r.v \in Seq(Byte) /\ Len(r.v) = 4
               /\ kind = "var" => r.v \in 0 .. MaxEncodable
<1>0. PICK m \in Nat : m = Len(b)
  OBVIOUS
<1>1. CASE kind = "u8"
  <2>1. GetField(kind, b, i) = GetFixed(1, b, i)
    BY <1>1, GetFieldIs, Zenon
  <2>2. i + 1 <= m
    BY <1>0, <2>1, GetU8, NotOk, Zenon
  <2>3. GetField(kind, b, i) = Ok(b[i + 1], i + 1)
    BY <1>0, <2>1, <2>2, GetU8, Zenon
  <2>4. i + 1 \in 1 .. Len(b)
    BY <1>0, <2>2
  <2>5. b[i + 1] \in Byte
    BY <2>4
  <2>6. i + 1 \in Nat /\ i < i + 1
    OBVIOUS
  <2>7. Read(Ok(b[i + 1], i + 1), i, m)
    BY <2>2, <2>6, ReadOk, Zenon
  <2> QED
    BY <1>0, <1>1, <2>3, <2>5, <2>7, OkIs
<1>2. CASE kind = "u16"
  <2>1. GetField(kind, b, i) = GetFixed(2, b, i)
    BY <1>2, GetFieldIs, Zenon
  <2>2. i + 2 <= m
    BY <1>0, <2>1, GetU16, NotOk, Zenon
  <2>3. PICK n : n = 256 * b[i + 1] + b[i + 2]
    OBVIOUS
  <2>4. GetField(kind, b, i) = Ok(n, i + 2)
    BY <1>0, <2>1, <2>2, <2>3, GetU16
  <2>5. i + 1 \in 1 .. Len(b) /\ i + 2 \in 1 .. Len(b)
    BY <1>0, <2>2
  <2>6. b[i + 1] \in Byte /\ b[i + 2] \in Byte
    BY <2>5
  <2>7. PICK x \in Nat, y \in Nat : x = b[i + 1] /\ y = b[i + 2] /\ x < 256 /\ y < 256
    BY <2>6, ByteIs
  <2>8. U16(256 * x + y)
    <3>1. x < 256 /\ y < 256
      BY <2>7
    <3>2. 256 * x + y \in Nat /\ 256 * x + y < 65536
      BY <3>1, SMT
    <3> QED
      BY <3>2, SMT DEF U16
  <2>9. i + 2 \in Nat /\ i < i + 2
    OBVIOUS
  <2>10. Read(Ok(n, i + 2), i, m)
    BY <2>2, <2>9, ReadOk, Zenon
  <2>11. U16(n)
    BY <2>3, <2>7, <2>8
  <2> QED
    BY <1>0, <1>2, <2>4, <2>10, <2>11, OkIs
<1>3. CASE kind = "u32"
  <2>1. GetField(kind, b, i) = GetFixed(4, b, i)
    BY <1>3, GetFieldIs, Zenon
  <2>2. i + 4 <= m
    BY <1>0, <2>1, GetU32, NotOk, Zenon
  <2>3. PICK s : s = SubSeq(b, i + 1, i + 4)
    OBVIOUS
  <2>4. GetField(kind, b, i) = Ok(s, i + 4)
    BY <1>0, <2>1, <2>2, <2>3, GetU32, Zenon
  <2>5. s \in Seq(Byte) /\ Len(s) = 4
    BY <1>0, <2>2, <2>3, Slice
  <2>6. i + 4 \in Nat /\ i < i + 4
    OBVIOUS
  <2>7. Read(Ok(s, i + 4), i, m)
    BY <2>2, <2>6, ReadOk, Zenon
  <2> QED
    BY <1>0, <1>3, <2>4, <2>5, <2>7, OkIs
<1>4. CASE kind = "var"
  <2>1. PICK r : r = GetField(kind, b, i) /\ r = DecodeLength(b, i)
    BY <1>4, GetFieldIs, Zenon
  <2>2. r = Ok(r.v, r.at) /\ r.v \in 0 .. MaxEncodable /\ r.at \in i + 1 .. Len(b)
    BY <2>1, DecodeLengthOk, Zenon
  <2>3. \A k \in i + 1 .. m : k \in Nat /\ k > i /\ k <= m
    OBVIOUS
  <2>4. Read(r, i, m)
    BY <1>0, <2>2, <2>3, Zenon DEF Read
  <2> QED
    BY <1>0, <1>4, <2>1, <2>2, <2>4, Zenon
<1> QED
  BY <1>1, <1>2, <1>3, <1>4

\* What the decoder of a field gives fits the kind of the field.
LEMMA FieldOk ==
    ASSUME NEW b \in Seq(Byte), NEW i \in Nat, NEW kind \in Kinds, GetField(kind, b, i).st = "ok"
    PROVE  LET r == GetField(kind, b, i)
           IN  Read(r, i, Len(b)) /\ Fits(kind, r.v, Len(b))
<1>1. CASE kind \in {"u8", "u16", "u32", "var"}
  BY <1>1, NumberOk, Zenon DEF Fits
<1>2. CASE kind = "str" \/ kind = "bin"
  <2>1. PICK r : r = GetField(kind, b, i) /\ r = GetStr(kind, b, i)
    BY <1>2, GetFieldIs, Zenon
  <2>2. Read(r, i, Len(b)) /\ r.v \in Blobs(Len(b)) /\ (kind # "bin" => r.v \in Texts(Len(b)))
    BY <2>1, TextOk, Zenon
  <2>3. Fits(kind, r.v, Len(b))
    BY <1>2, <2>2, Zenon DEF Fits
  <2> QED
    BY <2>1, <2>2, <2>3, Zenon
<1>3. CASE kind = "pair"
  BY <1>3, PairOk, Zenon DEF Fits
<1> QED
  BY <1>1, <1>2, <1>3, Zenon DEF Kinds

-----------------------------------------------------------------------------
(* Fields one after the other *)

FieldKinds == Kinds \cup {"filter"}

\* The next field, behind those of prev.
FieldsNext(prev, kind, b) ==
    Then(prev, LAMBDA vs, j : Then(GetField(kind, b, j), LAMBDA v, e : Ok(Append(vs, v), e)))

\* One step of reading fields, when g holds the steps before.
FieldsStep(kinds, b, i, g, n) == IF n = 0 THEN Ok(<<>>, i) ELSE FieldsNext(g[n - 1], kinds[n], b)
IsGet(kinds, b, i, g) == g = [n \in 0 .. Len(kinds) |-> FieldsStep(kinds, b, i, g, n)]

\* The steps are defined.
LEMMA GetDefined ==
    ASSUME NEW kinds \in Seq(FieldKinds), NEW b, NEW i
    PROVE  IsGet(kinds, b, i, CHOOSE g : IsGet(kinds, b, i, g))
<1> DEFINE To(g, d) == \A n \in 0 .. Len(kinds) : n <= d => g[n] = FieldsStep(kinds, b, i, g, n)
<1> DEFINE S == {d \in Nat : \E g : To(g, d)}
<1>1. 0 \in S
  <2> DEFINE g == [n \in 0 .. Len(kinds) |-> Ok(<<>>, i)]
  <2>1. To(g, 0)
    BY DEF FieldsStep
  <2> QED
    BY <2>1
<1>2. ASSUME NEW d \in Nat, d \in S
      PROVE  d + 1 \in S
  <2>1. PICK g : To(g, d)
    BY <1>2
  <2> DEFINE h == [n \in 0 .. Len(kinds) |-> FieldsStep(kinds, b, i, g, n)]
  <2>2. \A n \in 0 .. Len(kinds) : n <= d => h[n] = g[n]
    BY <2>1
  <2>3. ASSUME NEW n \in 0 .. Len(kinds), n <= d + 1
        PROVE  h[n] = FieldsStep(kinds, b, i, h, n)
    <3>1. h[n] = FieldsStep(kinds, b, i, g, n)
      OBVIOUS
    <3> HIDE DEF h
    <3>2. n # 0 => n - 1 \in 0 .. Len(kinds) /\ n - 1 <= d
      BY <2>3
    <3>3. n # 0 => h[n - 1] = g[n - 1]
      BY <2>2, <3>2
    <3> QED
      BY <3>1, <3>3 DEF FieldsStep
  <2>4. To(h, d + 1)
    BY <2>3
  <2>5. d + 1 \in Nat
    OBVIOUS
  <2> HIDE DEF h, To
  <2> QED
    BY <2>4, <2>5
<1>3. Len(kinds) \in S
  <2> HIDE DEF S
  <2>1. Nat \subseteq S
    BY <1>1, <1>2, NatSetInduction
  <2> QED
    BY <2>1
<1>4. PICK g : To(g, Len(kinds))
  BY <1>3
<1> DEFINE h == [n \in 0 .. Len(kinds) |-> g[n]]
<1>5. ASSUME NEW n \in 0 .. Len(kinds)
      PROVE  h[n] = FieldsStep(kinds, b, i, h, n)
  <2>1. n # 0 => n - 1 \in 0 .. Len(kinds)
    OBVIOUS
  <2>2. h[n] = g[n] /\ (n # 0 => h[n - 1] = g[n - 1])
    BY <2>1
  <2>3. g[n] = FieldsStep(kinds, b, i, g, n)
    BY <1>4
  <2> HIDE DEF h
  <2> QED
    BY <2>2, <2>3 DEF FieldsStep
<1>6. h = [n \in 0 .. Len(kinds) |-> h[n]]
  OBVIOUS
<1>7. IsGet(kinds, b, i, h)
  <2> HIDE DEF h
  <2> QED
    BY <1>5, <1>6, Zenon DEF IsGet
<1> HIDE DEF h
<1> QED
  BY <1>7, Zenon

\* GetFields is the last step.
LEMMA GetFieldsIs ==
    ASSUME NEW kinds, NEW b, NEW i
    PROVE  GetFields(kinds, b, i) = (CHOOSE g : IsGet(kinds, b, i, g))[Len(kinds)]
BY Zenon DEF GetFields, IsGet, FieldsStep, FieldsNext

\* No fields.
LEMMA Fields0 ==
    ASSUME NEW b, NEW i
    PROVE  GetFields(<<>>, b, i) = Ok(<<>>, i)
<1>1. PICK g : g = CHOOSE h : IsGet(<<>>, b, i, h)
  OBVIOUS
<1>2. <<>> \in Seq(FieldKinds) /\ Len(<<>>) = 0
  OBVIOUS
<1>3. IsGet(<<>>, b, i, g)
  BY <1>1, <1>2, GetDefined, Zenon
<1>4. g[0] = FieldsStep(<<>>, b, i, g, 0)
  BY <1>2, <1>3 DEF IsGet
<1>5. GetFields(<<>>, b, i) = g[0]
  BY <1>1, <1>2, GetFieldsIs, Zenon
<1> QED
  BY <1>4, <1>5 DEF FieldsStep

\* One more field.
LEMMA FieldsAppend ==
    ASSUME NEW s \in Seq(FieldKinds), NEW p \in FieldKinds, NEW b, NEW i
    PROVE  GetFields(Append(s, p), b, i) = FieldsNext(GetFields(s, b, i), p, b)
<1>2. PICK t \in Seq(FieldKinds) : t = Append(s, p) /\ Len(t) = Len(s) + 1 /\ t[Len(s) + 1] = p /\ \A k \in 1 .. Len(s) : t[k] = s[k]
  <2>1. Append(s, p) \in Seq(FieldKinds) /\ Len(Append(s, p)) = Len(s) + 1
    OBVIOUS
  <2>2. Append(s, p)[Len(s) + 1] = p /\ \A k \in 1 .. Len(s) : Append(s, p)[k] = s[k]
    OBVIOUS
  <2> QED
    BY <2>1, <2>2, Zenon
<1>3. PICK f : f = CHOOSE h : IsGet(s, b, i, h)
  OBVIOUS
<1>4. PICK g : g = CHOOSE h : IsGet(t, b, i, h)
  OBVIOUS
<1>5. PICK n \in Nat : n = Len(s)
  OBVIOUS
<1>6. /\ \A k \in 0 .. n : f[k] = FieldsStep(s, b, i, f, k)
      /\ \A k \in 0 .. n + 1 : g[k] = FieldsStep(t, b, i, g, k)
  <2>1. IsGet(s, b, i, f)
    BY <1>3, GetDefined, Zenon
  <2>2. IsGet(t, b, i, g)
    BY <1>4, GetDefined, Zenon
  <2>3. f = [k \in 0 .. n |-> FieldsStep(s, b, i, f, k)]
    BY <1>5, <2>1, Zenon DEF IsGet
  <2>4. g = [k \in 0 .. n + 1 |-> FieldsStep(t, b, i, g, k)]
    BY <1>2, <1>5, <2>2, Zenon DEF IsGet
  <2> QED
    BY <2>3, <2>4, Zenon
<1> DEFINE S == {k \in Nat : k <= n => f[k] = g[k]}
<1>7. 0 \in S
  BY <1>6 DEF FieldsStep
<1>8. ASSUME NEW k \in Nat, k \in S
      PROVE  k + 1 \in S
  <2>1. CASE k + 1 <= n
    <3>1. k + 1 \in 0 .. n /\ k + 1 \in 0 .. n + 1 /\ k + 1 \in 1 .. n /\ k + 1 # 0 /\ (k + 1) - 1 = k
      BY <2>1
    <3>2. f[k] = g[k]
      BY <1>8, <2>1
    <3>3. s[k + 1] = t[k + 1]
      BY <1>2, <1>5, <3>1
    <3>4. f[k + 1] = FieldsStep(s, b, i, f, k + 1) /\ g[k + 1] = FieldsStep(t, b, i, g, k + 1)
      BY <1>6, <3>1
    <3>5. f[k + 1] = g[k + 1]
      BY <3>1, <3>2, <3>3, <3>4 DEF FieldsStep
    <3> QED
      BY <3>5
  <2>2. CASE ~(k + 1 <= n)
    BY <2>2
  <2> QED
    BY <2>1, <2>2
<1>9. f[n] = g[n]
  <2>1. n \in S
    <3> HIDE DEF S
    <3> QED
      BY <1>7, <1>8, NatSetInduction
  <2> QED
    BY <2>1
<1>10. g[n + 1] = FieldsNext(g[n], p, b)
  <2>1. n + 1 \in 0 .. n + 1 /\ n + 1 # 0 /\ (n + 1) - 1 = n
    OBVIOUS
  <2>2. g[n + 1] = FieldsStep(t, b, i, g, n + 1) /\ t[n + 1] = p
    BY <1>2, <1>5, <1>6, <2>1
  <2> QED
    BY <2>1, <2>2 DEF FieldsStep
<1>11. GetFields(s, b, i) = f[n] /\ GetFields(t, b, i) = g[n + 1]
  BY <1>2, <1>3, <1>4, <1>5, GetFieldsIs, Zenon
<1> QED
  BY <1>2, <1>9, <1>10, <1>11, Zenon

\* A tuple with one more element.
LEMMA AppendTuple ==
    ASSUME NEW x, NEW y
    PROVE  Append(<<x>>, y) = <<x, y>>
<1> DEFINE S == {x, y}
<1>1. <<x>> \in Seq(S) /\ <<x, y>> \in Seq(S) /\ y \in S
  OBVIOUS
<1>2. Append(<<x>>, y) \in Seq(S)
  BY <1>1
<1>3. Len(<<x, y>>) = 2 /\ <<x, y>>[1] = x /\ <<x, y>>[2] = y
  OBVIOUS
<1>4. Len(Append(<<x>>, y)) = 2
  BY <1>1
<1>5. Append(<<x>>, y)[1] = x /\ Append(<<x>>, y)[2] = y
  BY <1>1
<1>6. \A k \in 1 .. Len(<<x, y>>) : <<x, y>>[k] = Append(<<x>>, y)[k]
  BY <1>3, <1>5
<1> HIDE DEF S
<1> QED
  BY <1>1, <1>2, <1>3, <1>4, <1>6, SeqEqual

\* The next field is read where the others end.
LEMMA NextIs ==
    ASSUME NEW vs, NEW j, NEW kind, NEW b
    PROVE  LET r == GetField(kind, b, j)
           IN  FieldsNext(Ok(vs, j), kind, b) = IF r.st = "ok" THEN Ok(Append(vs, r.v), r.at) ELSE r
<1>1. PICK p : p = Ok(vs, j)
  OBVIOUS
<1>2. p.st = "ok" /\ p.v = vs /\ p.at = j
  BY <1>1, OkIs, Zenon
<1>3. FieldsNext(p, kind, b) = Then(GetField(kind, b, j), LAMBDA v, e : Ok(Append(vs, v), e))
  BY <1>2 DEF FieldsNext, Then
<1> QED
  BY <1>1, <1>3 DEF Then

\* A failure stays.
LEMMA NextFails ==
    ASSUME NEW r, r.st # "ok", NEW kind, NEW b
    PROVE  FieldsNext(r, kind, b) = r
BY Zenon DEF FieldsNext, Then

\* One field.
LEMMA Fields1 ==
    ASSUME NEW k \in FieldKinds, NEW b, NEW i
    PROVE  LET r == GetField(k, b, i)
           IN  GetFields(<<k>>, b, i) = IF r.st = "ok" THEN Ok(<<r.v>>, r.at) ELSE r
<1>1. Append(<<>>, k) = <<k>> /\ <<>> \in Seq(FieldKinds)
  OBVIOUS
<1>2. GetFields(<<k>>, b, i) = FieldsNext(Ok(<<>>, i), k, b)
  <2>1. GetFields(Append(<<>>, k), b, i) = FieldsNext(GetFields(<<>>, b, i), k, b)
    BY <1>1, FieldsAppend, Zenon
  <2> QED
    BY <1>1, <2>1, Fields0
<1>3. PICK r : r = GetField(k, b, i)
  OBVIOUS
<1>4. Append(<<>>, r.v) = <<r.v>>
  OBVIOUS
<1>5. FieldsNext(Ok(<<>>, i), k, b) = IF r.st = "ok" THEN Ok(Append(<<>>, r.v), r.at) ELSE r
  BY <1>3, NextIs
<1> QED
  BY <1>2, <1>3, <1>4, <1>5

\* Two fields.
LEMMA Fields2 ==
    ASSUME NEW k \in FieldKinds, NEW l \in FieldKinds, NEW b, NEW i
    PROVE  LET r == GetField(k, b, i)
               q == GetField(l, b, r.at)
           IN  GetFields(<<k, l>>, b, i) = IF r.st = "ok"
                                           THEN IF q.st = "ok" THEN Ok(<<r.v, q.v>>, q.at) ELSE q
                                           ELSE r
<1>1. Append(<<k>>, l) = <<k, l>> /\ <<k>> \in Seq(FieldKinds)
  BY AppendTuple
<1>2. GetFields(<<k, l>>, b, i) = FieldsNext(GetFields(<<k>>, b, i), l, b)
  <2>1. GetFields(Append(<<k>>, l), b, i) = FieldsNext(GetFields(<<k>>, b, i), l, b)
    BY <1>1, FieldsAppend, Zenon
  <2> QED
    BY <1>1, <2>1
<1>3. PICK r : r = GetField(k, b, i)
  OBVIOUS
<1>4. CASE r.st = "ok"
  <2>1. GetFields(<<k>>, b, i) = Ok(<<r.v>>, r.at)
    BY <1>3, <1>4, Fields1, Zenon
  <2>2. PICK q : q = GetField(l, b, r.at)
    OBVIOUS
  <2>3. Append(<<r.v>>, q.v) = <<r.v, q.v>>
    BY AppendTuple
  <2>4. FieldsNext(Ok(<<r.v>>, r.at), l, b) = IF q.st = "ok" THEN Ok(Append(<<r.v>>, q.v), q.at) ELSE q
    BY <2>2, NextIs
  <2> QED
    BY <1>2, <1>3, <1>4, <2>1, <2>2, <2>3, <2>4
<1>5. CASE r.st # "ok"
  <2>1. GetFields(<<k>>, b, i) = r
    BY <1>3, <1>5, Fields1, Zenon
  <2> QED
    BY <1>2, <1>3, <1>5, <2>1, NextFails, Zenon
<1> QED
  BY <1>4, <1>5

-----------------------------------------------------------------------------
(* Sequences one after the other *)

\* One step of FlattenSeq, when g holds the steps before.
FlatStep(s, g, n) == IF n = 1 THEN s[n] ELSE g[n - 1] \o s[n]
IsFlat(s, g) == g = [n \in 1 .. Len(s) |-> FlatStep(s, g, n)]

\* The first n elements of s, one after the other.
Flat(s, n) == IF n = 0 THEN <<>> ELSE (CHOOSE g : IsFlat(s, g))[n]

\* The steps are defined.
LEMMA FlatDefined ==
    ASSUME NEW s, Len(s) \in Nat
    PROVE  IsFlat(s, CHOOSE g : IsFlat(s, g))
<1>0. PICK l \in Nat : l = Len(s)
  OBVIOUS
<1> DEFINE To(g, d) == \A n \in 1 .. l : n <= d => g[n] = FlatStep(s, g, n)
<1> DEFINE S == {d \in Nat : \E g : To(g, d)}
<1>1. 0 \in S
  <2>1. To(<<>>, 0)
    OBVIOUS
  <2> QED
    BY <2>1
<1>2. ASSUME NEW d \in Nat, d \in S
      PROVE  d + 1 \in S
  <2>1. PICK g : To(g, d)
    BY <1>2
  <2> DEFINE h == [n \in 1 .. l |-> FlatStep(s, g, n)]
  <2>2. \A n \in 1 .. l : n <= d => h[n] = g[n]
    BY <2>1
  <2>3. ASSUME NEW n \in 1 .. l, n <= d + 1
        PROVE  h[n] = FlatStep(s, h, n)
    <3>1. h[n] = FlatStep(s, g, n)
      OBVIOUS
    <3> HIDE DEF h
    <3>2. n # 1 => n - 1 \in 1 .. l /\ n - 1 <= d
      BY <2>3
    <3>3. n # 1 => h[n - 1] = g[n - 1]
      BY <2>2, <3>2
    <3> QED
      BY <3>1, <3>3 DEF FlatStep
  <2>4. To(h, d + 1)
    BY <2>3
  <2>5. d + 1 \in Nat
    OBVIOUS
  <2> HIDE DEF h, To
  <2> QED
    BY <2>4, <2>5
<1>3. l \in S
  <2> HIDE DEF S
  <2>1. Nat \subseteq S
    BY <1>1, <1>2, NatSetInduction
  <2> QED
    BY <2>1
<1>4. PICK g : To(g, l)
  BY <1>3
<1> DEFINE h == [n \in 1 .. l |-> g[n]]
<1>5. ASSUME NEW n \in 1 .. l
      PROVE  h[n] = FlatStep(s, h, n)
  <2>1. n # 1 => n - 1 \in 1 .. l
    OBVIOUS
  <2>2. h[n] = g[n] /\ (n # 1 => h[n - 1] = g[n - 1])
    BY <2>1
  <2>3. g[n] = FlatStep(s, g, n)
    BY <1>4
  <2> HIDE DEF h
  <2> QED
    BY <2>2, <2>3 DEF FlatStep
<1>6. h = [n \in 1 .. l |-> h[n]]
  OBVIOUS
<1>7. IsFlat(s, h)
  <2> HIDE DEF h
  <2> QED
    BY <1>0, <1>5, <1>6, Zenon DEF IsFlat
<1> HIDE DEF h
<1> QED
  BY <1>7, Zenon

\* FlattenSeq is the last step, and each step adds an element.
LEMMA FlatIs ==
    ASSUME NEW s \in Seq(Seq(Byte))
    PROVE  /\ FlattenSeq(s) = Flat(s, Len(s)) /\ Flat(s, 0) = <<>>
           /\ \A n \in 0 .. Len(s) : Flat(s, n) \in Seq(Byte)
           /\ \A n \in 0 .. Len(s) - 1 : Flat(s, n + 1) = Flat(s, n) \o s[n + 1]
<1>1. PICK g : g = CHOOSE h : IsFlat(s, h)
  OBVIOUS
<1>2. PICK l \in Nat : l = Len(s)
  OBVIOUS
<1>3. g = [n \in 1 .. l |-> FlatStep(s, g, n)]
  BY <1>1, <1>2, FlatDefined, Zenon DEF IsFlat
<1>4. \A n \in 1 .. l : g[n] = FlatStep(s, g, n)
  BY <1>3, Zenon
<1>5. Flat(s, 0) = <<>> /\ \A n \in 1 .. l : Flat(s, n) = g[n]
  BY <1>1 DEF Flat
<1>6. \A n \in 1 .. l : s[n] \in Seq(Byte)
  BY <1>2
<1>7. ASSUME NEW n \in 0 .. l - 1
      PROVE  Flat(s, n + 1) = Flat(s, n) \o s[n + 1]
  <2>1. n + 1 \in 1 .. l /\ n + 1 # 0 /\ (n + 1) - 1 = n
    OBVIOUS
  <2>2. g[n + 1] = IF n + 1 = 1 THEN s[n + 1] ELSE g[n] \o s[n + 1]
    BY <1>4, <2>1 DEF FlatStep
  <2>3. Flat(s, n + 1) = g[n + 1]
    BY <1>5, <2>1
  <2>4. CASE n = 0
    <3>1. Flat(s, n) = <<>> /\ g[n + 1] = s[n + 1]
      BY <1>5, <2>2, <2>4
    <3>2. <<>> \o s[n + 1] = s[n + 1]
      BY <1>6, <2>1, ConcatEmptySeq
    <3> QED
      BY <2>3, <3>1, <3>2
  <2>5. CASE n # 0
    <3>1. n \in 1 .. l /\ n + 1 # 1
      BY <2>5
    <3> QED
      BY <1>5, <2>2, <2>3, <3>1
  <2> QED
    BY <2>4, <2>5
<1> DEFINE S == {n \in Nat : n <= l => Flat(s, n) \in Seq(Byte)}
<1>8. 0 \in S
  <2>1. <<>> \in Seq(Byte) /\ 0 \in Nat
    BY EmptySeq
  <2> QED
    BY <1>5, <2>1, Zenon
<1>9. ASSUME NEW n \in Nat, n \in S PROVE n + 1 \in S
  <2>1. CASE n + 1 <= l
    <3>1. n \in 0 .. l - 1 /\ n <= l /\ n + 1 \in 1 .. l
      BY <2>1
    <3>2. PICK u \in Seq(Byte), v \in Seq(Byte) : u = Flat(s, n) /\ v = s[n + 1]
      BY <1>6, <1>9, <3>1
    <3>3. Flat(s, n + 1) = u \o v
      BY <1>7, <3>1, <3>2
    <3>4. u \o v \in Seq(Byte) /\ n + 1 \in Nat
      BY ConcatProperties
    <3> QED
      BY <3>3, <3>4, Zenon
  <2> QED
    BY <2>1
<1>10. \A n \in 0 .. l : Flat(s, n) \in Seq(Byte)
  <2>1. Nat \subseteq S
    <3> HIDE DEF S
    <3> QED
      BY <1>8, <1>9, NatSetInduction
  <2> QED
    BY <2>1
<1>11. FlattenSeq(s) = Flat(s, l)
  <2>1. CASE l = 0
    <3>1. s # <<>> => Len(s) \in Nat \ {0}
      BY EmptySeq, Zenon
    <3>2. s = <<>>
      BY <1>2, <2>1, <3>1
    <3> QED
      BY <1>2, <1>5, <2>1, <3>2 DEF FlattenSeq
  <2>2. CASE l # 0
    <3>1. FlattenSeq(s) = (CHOOSE h : IsFlat(s, h))[Len(s)]
      BY <1>2, <2>2, Zenon DEF FlattenSeq, IsFlat, FlatStep
    <3> QED
      BY <1>1, <1>2, <1>5, <2>2, <3>1
  <2> QED
    BY <2>1, <2>2
<1> QED
  BY <1>2, <1>5, <1>7, <1>10, <1>11

\* Two sequences that begin with the same n elements.
LEMMA FlatPrefix ==
    ASSUME NEW s \in Seq(Seq(Byte)), NEW t \in Seq(Seq(Byte)), NEW n \in Nat,
           n <= Len(s), n <= Len(t), \A k \in 1 .. n : s[k] = t[k]
    PROVE  Flat(s, n) = Flat(t, n)
<1>1. PICK l \in Nat, m \in Nat : l = Len(s) /\ m = Len(t)
  OBVIOUS
<1>2. /\ Flat(s, 0) = <<>> /\ Flat(t, 0) = <<>>
      /\ \A k \in 0 .. l - 1 : Flat(s, k + 1) = Flat(s, k) \o s[k + 1]
      /\ \A k \in 0 .. m - 1 : Flat(t, k + 1) = Flat(t, k) \o t[k + 1]
  BY <1>1, FlatIs
<1>3. n <= l /\ n <= m
  BY <1>1
<1> DEFINE S == {k \in Nat : k <= n => Flat(s, k) = Flat(t, k)}
<1>4. 0 \in S
  BY <1>2
<1>5. ASSUME NEW k \in Nat, k \in S PROVE k + 1 \in S
  <2>1. CASE k + 1 <= n
    <3>1. k \in 0 .. l - 1 /\ k \in 0 .. m - 1 /\ k <= n /\ k + 1 \in 1 .. n
      BY <1>3, <2>1
    <3>2. Flat(s, k) = Flat(t, k) /\ s[k + 1] = t[k + 1]
      BY <1>5, <3>1
    <3>3. Flat(s, k + 1) = Flat(t, k + 1)
      BY <1>2, <3>1, <3>2
    <3> QED
      BY <3>3
  <2> QED
    BY <2>1
<1>6. Nat \subseteq S
  <2> HIDE DEF S
  <2> QED
    BY <1>4, <1>5, NatSetInduction
<1> QED
  BY <1>6

\* The sum of lengths that are at most m.
LEMMA FlatLen ==
    ASSUME NEW s \in Seq(Seq(Byte)), NEW m \in Nat, \A k \in 1 .. Len(s) : Len(s[k]) <= m
    PROVE  FlattenSeq(s) \in Seq(Byte) /\ Len(FlattenSeq(s)) <= Len(s) * m
<1>1. PICK l \in Nat : l = Len(s)
  OBVIOUS
<1>2. /\ FlattenSeq(s) = Flat(s, l) /\ Flat(s, 0) = <<>> /\ \A n \in 0 .. l : Flat(s, n) \in Seq(Byte)
      /\ \A k \in 0 .. l - 1 : Flat(s, k + 1) = Flat(s, k) \o s[k + 1]
  BY <1>1, FlatIs
<1> DEFINE S == {k \in Nat : k <= l => Len(Flat(s, k)) <= k * m}
<1>3. 0 \in S
  BY <1>2
<1>4. ASSUME NEW k \in Nat, k \in S PROVE k + 1 \in S
  <2>1. CASE k + 1 <= l
    <3>1. k \in 0 .. l - 1 /\ k <= l /\ k + 1 \in 1 .. l /\ k \in 0 .. l
      BY <2>1
    <3>2. PICK u \in Seq(Byte), v \in Seq(Byte) : u = Flat(s, k) /\ v = s[k + 1]
      <4>1. s[k + 1] \in Seq(Byte)
        BY <1>1, <3>1, ElementOfSeq
      <4> QED
        BY <1>2, <3>1, <4>1
    <3>3. PICK x \in Nat, y \in Nat : x = Len(u) /\ y = Len(v)
      OBVIOUS
    <3>4. Len(u \o v) = x + y
      BY <3>3
    <3>5. x <= k * m /\ y <= m
      BY <1>1, <1>4, <3>1, <3>2, <3>3
    <3>6. x + y <= (k + 1) * m
      BY <3>5
    <3>7. Flat(s, k + 1) = u \o v
      BY <1>2, <3>1, <3>2
    <3> QED
      BY <3>4, <3>6, <3>7
  <2> QED
    BY <2>1
<1>5. Nat \subseteq S
  <2> HIDE DEF S
  <2> QED
    BY <1>3, <1>4, NatSetInduction
<1>6. l \in 0 .. l /\ l <= l
  OBVIOUS
<1> QED
  BY <1>1, <1>2, <1>5, <1>6

\* A buffer that holds the elements of s holds each where those before it end.
LEMMA FlatAt ==
    ASSUME NEW b, Len(b) \in Nat, NEW i \in Nat, NEW s \in Seq(Seq(Byte)), At(b, i, FlattenSeq(s)),
           NEW n \in Nat, n < Len(s)
    PROVE  At(b, i + Len(Flat(s, n)), s[n + 1])
<1>1. PICK l \in Nat : l = Len(s)
  OBVIOUS
<1>2. /\ FlattenSeq(s) = Flat(s, l) /\ \A k \in 0 .. l : Flat(s, k) \in Seq(Byte)
      /\ \A k \in 0 .. l - 1 : Flat(s, k + 1) = Flat(s, k) \o s[k + 1]
  BY <1>1, FlatIs
<1>3. ASSUME NEW k \in Nat, k < l, At(b, i, Flat(s, k + 1))
      PROVE  At(b, i, Flat(s, k)) /\ At(b, i + Len(Flat(s, k)), s[k + 1])
  <2>1. k \in 0 .. l - 1 /\ k \in 0 .. l /\ k + 1 \in 1 .. l
    BY <1>3
  <2>2. PICK u \in Seq(Byte), v \in Seq(Byte) : u = Flat(s, k) /\ v = s[k + 1]
    <3>1. s[k + 1] \in Seq(Byte)
      BY <1>1, <2>1, ElementOfSeq
    <3> QED
      BY <1>2, <2>1, <3>1
  <2>3. At(b, i, u \o v)
    BY <1>2, <1>3, <2>1, <2>2
  <2> QED
    BY <2>2, <2>3, AtConcat, Zenon
<1> DEFINE S == {d \in Nat : d <= l => At(b, i, Flat(s, l - d))}
<1>4. 0 \in S
  BY <1>2
<1>5. ASSUME NEW d \in Nat, d \in S PROVE d + 1 \in S
  <2>1. CASE d + 1 <= l
    <3>1. PICK k \in Nat : k = l - (d + 1) /\ k < l /\ k + 1 = l - d /\ d <= l
      BY <2>1
    <3>2. At(b, i, Flat(s, k + 1))
      BY <1>5, <3>1
    <3>3. At(b, i, Flat(s, k))
      BY <1>3, <3>1, <3>2
    <3> QED
      BY <3>1, <3>3
  <2> QED
    BY <2>1
<1>6. Nat \subseteq S
  <2> HIDE DEF S
  <2> QED
    BY <1>4, <1>5, NatSetInduction
<1>7. PICK d \in Nat : d = l - (n + 1) /\ d <= l /\ l - d = n + 1 /\ n < l
  <2>1. n < l
    BY <1>1
  <2>2. l - (n + 1) \in Nat /\ l - (n + 1) <= l /\ l - (l - (n + 1)) = n + 1
    BY <2>1
  <2> QED
    BY <2>1, <2>2
<1>8. At(b, i, Flat(s, n + 1))
  BY <1>6, <1>7
<1> QED
  BY <1>3, <1>7, <1>8

\* Fields that are read one by one, the n-th from at[n] to at[n + 1].
Reads(kinds, b, vs, at) ==
    /\ Len(vs) = Len(kinds)
    /\ \A n \in 1 .. Len(kinds) : GetField(kinds[n], b, at[n]) = Ok(vs[n], at[n + 1])

\* They are what GetFields gives.
LEMMA FieldsRead ==
    ASSUME NEW kinds \in Seq(FieldKinds), NEW b, NEW V, NEW vs \in Seq(V), NEW at,
           Reads(kinds, b, vs, at)
    PROVE  GetFields(kinds, b, at[1]) = Ok(vs, at[Len(kinds) + 1])
<1>0. /\ Len(vs) = Len(kinds)
      /\ \A n \in 1 .. Len(kinds) : GetField(kinds[n], b, at[n]) = Ok(vs[n], at[n + 1])
  BY Zenon DEF Reads
<1>1. PICK l \in Nat : l = Len(kinds)
  OBVIOUS
<1>2. PICK g : g = CHOOSE h : IsGet(kinds, b, at[1], h)
  OBVIOUS
<1>3. \A n \in 0 .. l : g[n] = FieldsStep(kinds, b, at[1], g, n)
  <2>1. IsGet(kinds, b, at[1], g)
    BY <1>2, GetDefined, Zenon
  <2>2. g = [n \in 0 .. l |-> FieldsStep(kinds, b, at[1], g, n)]
    BY <1>1, <2>1, Zenon DEF IsGet
  <2> QED
    BY <2>2, Zenon
<1> DEFINE S == {n \in Nat : n <= l => g[n] = Ok(SubSeq(vs, 1, n), at[n + 1])}
<1>4. 0 \in S
  <2>1. g[0] = Ok(<<>>, at[1])
    BY <1>3 DEF FieldsStep
  <2>2. SubSeq(vs, 1, 0) = <<>>
    BY SubSeqEmpty
  <2>3. 0 + 1 = 1 /\ 0 \in Nat
    OBVIOUS
  <2> QED
    BY <2>1, <2>2, <2>3, Zenon
<1>5. ASSUME NEW n \in Nat, n \in S PROVE n + 1 \in S
  <2>1. CASE n + 1 <= l
    <3>1. /\ n + 1 \in 0 .. l /\ n + 1 \in 1 .. l /\ n <= l /\ n + 1 # 0 /\ (n + 1) - 1 = n
          /\ n + 1 \in Nat
      BY <2>1
    <3>2. PICK u : u = SubSeq(vs, 1, n)
      OBVIOUS
    <3>3. g[n] = Ok(u, at[n + 1])
      BY <1>5, <3>1, <3>2
    <3>4. GetField(kinds[n + 1], b, at[n + 1]) = Ok(vs[n + 1], at[(n + 1) + 1])
      BY <1>0, <1>1, <3>1
    <3>5. g[n + 1] = FieldsNext(Ok(u, at[n + 1]), kinds[n + 1], b)
      BY <1>3, <3>1, <3>3 DEF FieldsStep
    <3>6. g[n + 1] = Ok(Append(u, vs[n + 1]), at[(n + 1) + 1])
      <4>1. PICK k, v, j, e : k = kinds[n + 1] /\ v = vs[n + 1] /\ j = at[n + 1] /\ e = at[(n + 1) + 1]
        OBVIOUS
      <4>2. PICK r : r = GetField(k, b, j)
        OBVIOUS
      <4>3. r.st = "ok" /\ r.v = v /\ r.at = e
        <5>1. r = Ok(v, e)
          BY <3>4, <4>1, <4>2
        <5> QED
          BY <5>1, OkIs
      <4>4. FieldsNext(Ok(u, j), k, b) = Ok(Append(u, r.v), r.at)
        BY <4>2, <4>3, NextIs, Zenon
      <4> QED
        BY <3>5, <4>1, <4>3, <4>4, Zenon
    <3>7. Append(u, vs[n + 1]) = SubSeq(vs, 1, n + 1)
      BY <1>0, <1>1, <3>1, <3>2
    <3> QED
      BY <3>1, <3>6, <3>7, Zenon
  <2> QED
    BY <2>1
<1>6. Nat \subseteq S
  <2> HIDE DEF S
  <2> QED
    BY <1>4, <1>5, NatSetInduction
<1>7. g[l] = Ok(SubSeq(vs, 1, l), at[l + 1])
  <2>1. l <= l
    OBVIOUS
  <2> QED
    BY <1>6, <2>1
<1>8. SubSeq(vs, 1, l) = vs
  BY <1>0, <1>1
<1> QED
  BY <1>1, <1>2, <1>7, <1>8, GetFieldsIs, Zenon

\* The length of two sequences.
LEMMA Joined ==
    ASSUME NEW s \in Seq(Byte), NEW t \in Seq(Byte)
    PROVE  /\ s \o t \in Seq(Byte) /\ Len(s \o t) = Len(s) + Len(t)
           /\ Len(s) \in Nat /\ Len(t) \in Nat
BY ConcatProperties

\* Three sequences that follow one another.
LEMMA Joined3 ==
    ASSUME NEW s \in Seq(Byte), NEW t \in Seq(Byte), NEW u \in Seq(Byte)
    PROVE  s \o t \o u \in Seq(Byte) /\ Len(s \o t \o u) = Len(s) + Len(t) + Len(u)
<1>1. PICK c \in Seq(Byte) : c = s \o t /\ Len(c) = Len(s) + Len(t)
  BY Joined, Zenon
<1>2. c \o u \in Seq(Byte) /\ Len(c \o u) = Len(c) + Len(u)
  BY Joined, Zenon
<1> QED
  BY <1>1, <1>2, Zenon

\* Four sequences that follow one another.
LEMMA Joined4 ==
    ASSUME NEW s \in Seq(Byte), NEW t \in Seq(Byte), NEW u \in Seq(Byte), NEW v \in Seq(Byte)
    PROVE  s \o t \o u \o v \in Seq(Byte) /\ Len(s \o t \o u \o v) = Len(s) + Len(t) + Len(u) + Len(v)
<1>0. s \o t \o u \in Seq(Byte) /\ Len(s \o t \o u) = Len(s) + Len(t) + Len(u)
  BY Joined3, Zenon
<1>1. PICK c \in Seq(Byte) : c = s \o t \o u /\ Len(c) = Len(s) + Len(t) + Len(u)
  BY <1>0, Zenon
<1>2. c \o v \in Seq(Byte) /\ Len(c \o v) = Len(c) + Len(v)
  BY Joined, Zenon
<1> QED
  BY <1>1, <1>2, Zenon

\* A buffer holds three sequences that follow one another.
LEMMA AtThree ==
    ASSUME NEW b \in Seq(Byte), NEW i \in Nat, NEW s \in Seq(Byte), NEW t \in Seq(Byte),
           NEW u \in Seq(Byte), At(b, i, s \o t \o u)
    PROVE  At(b, i, s) /\ At(b, i + Len(s), t) /\ At(b, i + Len(s) + Len(t), u)
<1>1. PICK c \in Seq(Byte) : c = s \o t /\ Len(c) = Len(s) + Len(t)
  BY Joined, Zenon
<1>2. Len(b) \in Nat
  OBVIOUS
<1>3. At(b, i, c) /\ At(b, i + Len(c), u)
  BY <1>1, <1>2, AtConcat, Zenon
<1>4. At(b, i, s) /\ At(b, i + Len(s), t)
  BY <1>1, <1>2, <1>3, AtConcat, Zenon
<1>5. i + Len(c) = i + Len(s) + Len(t)
  <2>1. PICK k \in Nat, l \in Nat : k = Len(s) /\ l = Len(t)
    OBVIOUS
  <2>2. i + (k + l) = i + k + l
    OBVIOUS
  <2> QED
    BY <1>1, <2>1, <2>2, Zenon
<1> QED
  BY <1>3, <1>4, <1>5, Zenon

\* A buffer holds four sequences that follow one another.
LEMMA AtFour ==
    ASSUME NEW b \in Seq(Byte), NEW i \in Nat, NEW s \in Seq(Byte), NEW t \in Seq(Byte),
           NEW u \in Seq(Byte), NEW v \in Seq(Byte), At(b, i, s \o t \o u \o v)
    PROVE  /\ At(b, i, s \o t \o u) /\ At(b, i, s) /\ At(b, i + Len(s), t)
           /\ At(b, i + Len(s) + Len(t), u) /\ At(b, i + Len(s) + Len(t) + Len(u), v)
<1>0. s \o t \o u \in Seq(Byte) /\ Len(s \o t \o u) = Len(s) + Len(t) + Len(u)
  BY Joined3, Zenon
<1>1. PICK c \in Seq(Byte) : c = s \o t \o u /\ Len(c) = Len(s) + Len(t) + Len(u)
  BY <1>0, Zenon
<1>2. Len(b) \in Nat
  OBVIOUS
<1>3. At(b, i, c) /\ At(b, i + Len(c), v)
  BY <1>1, <1>2, AtConcat, Zenon
<1>4. At(b, i, s) /\ At(b, i + Len(s), t) /\ At(b, i + Len(s) + Len(t), u)
  BY <1>1, <1>3, AtThree, Zenon
<1>5. i + Len(c) = i + Len(s) + Len(t) + Len(u)
  <2>1. PICK k \in Nat, l \in Nat, m \in Nat : k = Len(s) /\ l = Len(t) /\ m = Len(u)
    OBVIOUS
  <2>2. i + (k + l + m) = i + k + l + m
    OBVIOUS
  <2> QED
    BY <1>1, <2>1, <2>2, Zenon
<1> QED
  BY <1>1, <1>3, <1>4, <1>5, Zenon

-----------------------------------------------------------------------------
(* The metadata file *)

\* A Client box: the fields that are saved.
IsBox(c) ==
    /\ c.level \in Byte /\ U16(c.ka) /\ c.expr \in Seq(Byte) /\ Len(c.expr) = 4
    /\ U16(c.rm) /\ U16(c.mps) /\ U16(c.tam)

\* A u8 field.
LEMMA FieldU8 ==
    ASSUME NEW b \in Seq(Byte), NEW i \in Nat, NEW v \in Byte, At(b, i, <<v>>)
    PROVE  GetField("u8", b, i) = Ok(v, i + 1)
<1>1. b[i + 1] = v /\ i + 1 <= Len(b)
  BY DEF At
<1>2. GetFixed(1, b, i) = Ok(b[i + 1], i + 1)
  BY <1>1, GetU8, Zenon
<1> QED
  BY <1>1, <1>2, GetFieldIs, Zenon

\* A u16 field.
LEMMA FieldU16 ==
    ASSUME NEW b \in Seq(Byte), NEW i \in Nat, NEW v, U16(v), At(b, i, PutU16(v))
    PROVE  GetField("u16", b, i) = Ok(v, i + 2)
BY U16At, GetFieldIs, Zenon

\* A u32 field.
LEMMA FieldU32 ==
    ASSUME NEW b \in Seq(Byte), NEW i \in Nat, NEW v \in Seq(Byte), Len(v) = 4, At(b, i, v)
    PROVE  GetField("u32", b, i) = Ok(v, i + 4)
<1>1. i + 4 <= Len(b)
  BY DEF At
<1>2. SubSeq(b, i + 1, i + 4) = v
  BY AtSubSeq, Zenon
<1>3. GetFixed(4, b, i) = Ok(SubSeq(b, i + 1, i + 4), i + 4)
  BY <1>1, GetU32, Zenon
<1> QED
  BY <1>2, <1>3, GetFieldIs, Zenon

\* The first four fields in the file of a box.
LEMMA MetaFirst ==
    ASSUME NEW s \in Seq(Byte), NEW t \in Seq(Byte), NEW u \in Seq(Byte), NEW v \in Seq(Byte)
    PROVE  /\ s \o t \o u \o v \in Seq(Byte)
           /\ Len(s) = 1 /\ Len(t) = 2 /\ Len(u) = 4 /\ Len(v) = 2 => Len(s \o t \o u \o v) = 9
<1>1. s \o t \o u \o v \in Seq(Byte) /\ Len(s \o t \o u \o v) = Len(s) + Len(t) + Len(u) + Len(v)
  BY Joined4
<1>2. 1 + 2 + 4 + 2 = 9
  OBVIOUS
<1> QED
  BY <1>1, <1>2, Zenon

\* Where they are.
LEMMA MetaFirstAt ==
    ASSUME NEW b \in Seq(Byte), NEW s \in Seq(Byte), NEW t \in Seq(Byte), NEW u \in Seq(Byte),
           NEW v \in Seq(Byte), Len(s) = 1, Len(t) = 2, Len(u) = 4, At(b, 0, s \o t \o u \o v)
    PROVE  At(b, 0, s) /\ At(b, 1, t) /\ At(b, 3, u) /\ At(b, 7, v)
<1>1. 0 \in Nat
  OBVIOUS
<1>2. /\ At(b, 0, s) /\ At(b, 0 + Len(s), t) /\ At(b, 0 + Len(s) + Len(t), u)
      /\ At(b, 0 + Len(s) + Len(t) + Len(u), v)
  BY <1>1, AtFour, Zenon
<1>3. 0 + 1 = 1 /\ 0 + 1 + 2 = 3 /\ 0 + 1 + 2 + 4 = 7
  OBVIOUS
<1> QED
  BY <1>2, <1>3, Zenon

\* The other three.
LEMMA MetaLast ==
    ASSUME NEW c \in Seq(Byte), NEW w \in Seq(Byte), NEW x \in Seq(Byte), NEW y \in Seq(Byte),
           Len(c) = 9, Len(w) = 2, Len(x) = 2
    PROVE  /\ c \o w \o x \o y \in Seq(Byte) /\ At(c \o w \o x \o y, 0, c)
           /\ At(c \o w \o x \o y, 9, w) /\ At(c \o w \o x \o y, 11, x) /\ At(c \o w \o x \o y, 13, y)
<1>1. c \o w \o x \o y \in Seq(Byte)
  BY Joined4, Zenon
<1>2. PICK b \in Seq(Byte) : b = c \o w \o x \o y
  BY <1>1, Zenon
<1>3. 0 \in Nat /\ At(b, 0, c \o w \o x \o y)
  BY <1>2, AtSelf, Zenon
<1>4. /\ At(b, 0, c \o w \o x) /\ At(b, 0 + Len(c), w) /\ At(b, 0 + Len(c) + Len(w), x)
      /\ At(b, 0 + Len(c) + Len(w) + Len(x), y) /\ At(b, 0, c)
  BY <1>3, AtFour, Zenon
<1>5. 0 + 9 = 9 /\ 0 + 9 + 2 = 11 /\ 0 + 9 + 2 + 2 = 13
  OBVIOUS
<1> QED
  BY <1>1, <1>2, <1>4, <1>5, Zenon

\* The fields of a file, read one by one.
MetaReads(b, level, ka, expr, rm, mps, tam, y) ==
    /\ GetField("u8", b, 0) = Ok(level, 1) /\ GetField("u16", b, 1) = Ok(ka, 3)
    /\ GetField("u32", b, 3) = Ok(expr, 7) /\ GetField("u16", b, 7) = Ok(rm, 9)
    /\ GetField("u16", b, 9) = Ok(mps, 11) /\ GetField("u16", b, 11) = Ok(tam, 13)
    /\ GetField("u32", b, 13) = Ok(y, 17)

\* The seven fields of a file make the box.
LEMMA MetaFields ==
    ASSUME NEW b, NEW level, NEW ka, NEW expr, NEW rm, NEW mps, NEW tam, NEW y,
           MetaReads(b, level, ka, expr, rm, mps, tam, y)
    PROVE  Deserialize(b).v =
                [level |-> level, ka |-> ka, expr |-> expr, rm |-> rm, mps |-> mps, tam |-> rm]
<1> DEFINE kinds == <<"u8", "u16", "u32", "u16", "u16", "u16", "u32">>
<1> DEFINE vs == <<level, ka, expr, rm, mps, tam, y>>
<1> DEFINE at == <<0, 1, 3, 7, 9, 11, 13, 17>>
<1> DEFINE V == {level, ka, expr, rm, mps, tam, y}
<1>8. GetFields(kinds, b, 0) = Ok(vs, 17)
  <2>1. kinds \in Seq(FieldKinds) /\ Len(kinds) = 7
    BY DEF FieldKinds, Kinds
  <2>2. vs \in Seq(V) /\ Len(vs) = 7
    OBVIOUS
  <2>3. \A n \in 1 .. 7 : GetField(kinds[n], b, at[n]) = Ok(vs[n], at[n + 1])
    BY DEF MetaReads
  <2>4. at[1] = 0 /\ at[7 + 1] = 17
    OBVIOUS
  <2>5. PICK K, U, T, W : K = kinds /\ U = vs /\ T = at /\ W = V
    OBVIOUS
  <2> HIDE DEF kinds, vs, at, V
  <2>6. K \in Seq(FieldKinds) /\ Len(K) = 7 /\ U \in Seq(W) /\ Len(U) = Len(K)
    BY <2>1, <2>2, <2>5, Zenon
  <2>7. \A n \in 1 .. Len(K) : GetField(K[n], b, T[n]) = Ok(U[n], T[n + 1])
    BY <2>3, <2>5, <2>6, Zenon
  <2>8. GetFields(K, b, T[1]) = Ok(U, T[Len(K) + 1])
    <3>1. K \in Seq(FieldKinds) /\ U \in Seq(W) /\ Len(U) = Len(K)
      BY <2>6, Zenon
    <3>2. Reads(K, b, U, T)
      BY <3>1, <2>7, Zenon DEF Reads
    <3> QED
      BY <3>1, <3>2, FieldsRead, ZenonT(60)
  <2> QED
    BY <2>4, <2>5, <2>6, <2>8, Zenon
<1>9. /\ vs[1] = level /\ vs[2] = ka /\ vs[3] = expr /\ vs[4] = rm /\ vs[5] = mps
  OBVIOUS
<1>10. Deserialize(b) = Then(Ok(vs, 17), LAMBDA f, e :
        Ok([level |-> f[1], ka |-> f[2], expr |-> f[3], rm |-> f[4], mps |-> f[5], tam |-> f[4]], e))
  BY <1>8, Zenon DEF Deserialize
<1> HIDE DEF vs
<1>11. Deserialize(b) =
        Ok([level |-> level, ka |-> ka, expr |-> expr, rm |-> rm, mps |-> mps, tam |-> rm], 17)
  BY <1>9, <1>10, OkIs DEF Then
<1> QED
  BY <1>11 DEF Ok

\* What restore makes of the file of a box.
LEMMA MetaRoundTrip ==
    ASSUME NEW c, IsBox(c)
    PROVE  /\ Serialize(c) \in Seq(Byte)
           /\ Deserialize(Serialize(c)).v =
                [level |-> c.level, ka |-> c.ka, expr |-> c.expr, rm |-> c.rm, mps |-> c.mps, tam |-> c.rm]
<1>1. PICK s \in Seq(Byte) : s = <<c.level>> /\ Len(s) = 1
  <2>1. PICK l \in Byte : l = c.level
    BY Zenon DEF IsBox
  <2>2. <<l>> \in Seq(Byte) /\ Len(<<l>>) = 1
    OBVIOUS
  <2> QED
    BY <2>1, <2>2, Zenon
<1>2. PICK y \in Seq(Byte) : y = <<0, 0, 0, 0>> /\ Len(y) = 4
  <2>1. 0 \in Byte
    BY ByteIs
  <2>2. <<0, 0, 0, 0>> \in Seq(Byte) /\ Len(<<0, 0, 0, 0>>) = 4
    BY <2>1
  <2> QED
    BY <2>2, Zenon
<1>3. c.level \in Byte /\ U16(c.ka) /\ U16(c.rm) /\ U16(c.mps) /\ U16(c.tam)
  BY Zenon DEF IsBox
<1>4. PICK t \in Seq(Byte) : t = PutU16(c.ka) /\ Len(t) = 2
  BY <1>3, U16Bytes, ZenonT(60)
<1>5. PICK u \in Seq(Byte) : u = c.expr /\ Len(u) = 4
  BY Zenon DEF IsBox
<1>6. PICK v \in Seq(Byte) : v = PutU16(c.rm) /\ Len(v) = 2
  BY <1>3, U16Bytes, ZenonT(60)
<1>7. PICK w \in Seq(Byte) : w = PutU16(c.mps) /\ Len(w) = 2
  BY <1>3, U16Bytes, ZenonT(60)
<1>8. PICK x \in Seq(Byte) : x = PutU16(c.tam) /\ Len(x) = 2
  BY <1>3, U16Bytes, Zenon
<1>9. PICK d : d = s \o t \o u \o v
  OBVIOUS
<1>10. d \in Seq(Byte) /\ Len(d) = 9
  <2>1. s \o t \o u \o v \in Seq(Byte) /\ Len(s \o t \o u \o v) = 9
    <3>1. /\ s \o t \o u \o v \in Seq(Byte)
          /\ Len(s) = 1 /\ Len(t) = 2 /\ Len(u) = 4 /\ Len(v) = 2 => Len(s \o t \o u \o v) = 9
      BY MetaFirst
    <3> QED
      BY <1>1, <1>4, <1>5, <1>6, <3>1, Zenon
  <2> QED
    BY <1>9, <2>1, Zenon
<1>11. PICK b : b = d \o w \o x \o y
  OBVIOUS
<1>12. b \in Seq(Byte) /\ At(b, 0, d) /\ At(b, 9, w) /\ At(b, 11, x) /\ At(b, 13, y)
  BY <1>7, <1>8, <1>10, <1>11, MetaLast
<1>13. At(b, 0, s) /\ At(b, 1, t) /\ At(b, 3, u) /\ At(b, 7, v)
  BY <1>1, <1>4, <1>5, <1>9, <1>12, MetaFirstAt
<1>14. /\ 0 \in Nat /\ 1 \in Nat /\ 3 \in Nat /\ 7 \in Nat /\ 9 \in Nat /\ 11 \in Nat /\ 13 \in Nat
       /\ 0 + 1 = 1 /\ 1 + 2 = 3 /\ 3 + 4 = 7 /\ 7 + 2 = 9 /\ 9 + 2 = 11 /\ 11 + 2 = 13 /\ 13 + 4 = 17
  OBVIOUS
<1>15. GetField("u8", b, 0) = Ok(c.level, 0 + 1)
  BY <1>1, <1>3, <1>12, <1>13, <1>14, FieldU8, Zenon
<1>16. GetField("u16", b, 1) = Ok(c.ka, 1 + 2)
  BY <1>3, <1>4, <1>12, <1>13, <1>14, FieldU16, ZenonT(60)
<1>17. GetField("u32", b, 3) = Ok(c.expr, 3 + 4)
  <2>1. u \in Seq(Byte) /\ Len(u) = 4 /\ At(b, 3, u) /\ b \in Seq(Byte) /\ 3 \in Nat
    BY <1>5, <1>12, <1>13, <1>14, Zenon
  <2>2. GetField("u32", b, 3) = Ok(u, 3 + 4)
    BY <2>1, FieldU32
  <2> QED
    BY <1>5, <2>2, Zenon
<1>18. GetField("u16", b, 7) = Ok(c.rm, 7 + 2)
  BY <1>3, <1>6, <1>12, <1>13, <1>14, FieldU16, Zenon
<1>19. GetField("u16", b, 9) = Ok(c.mps, 9 + 2)
  BY <1>3, <1>7, <1>12, <1>13, <1>14, FieldU16, Zenon
<1>20. GetField("u16", b, 11) = Ok(c.tam, 11 + 2)
  BY <1>3, <1>8, <1>12, <1>13, <1>14, FieldU16, Zenon
<1>21. GetField("u32", b, 13) = Ok(y, 13 + 4)
  <2>1. y \in Seq(Byte) /\ Len(y) = 4 /\ At(b, 13, y) /\ b \in Seq(Byte) /\ 13 \in Nat
    BY <1>2, <1>12, <1>13, <1>14, Zenon
  <2> QED
    BY <2>1, FieldU32
<1>22. Deserialize(b).v =
            [level |-> c.level, ka |-> c.ka, expr |-> c.expr, rm |-> c.rm, mps |-> c.mps, tam |-> c.rm]
  <2>1. MetaReads(b, c.level, c.ka, c.expr, c.rm, c.mps, c.tam, y)
    BY <1>14, <1>15, <1>16, <1>17, <1>18, <1>19, <1>20, <1>21, Zenon DEF MetaReads
  <2> QED
    BY <2>1, MetaFields
<1>23. b = Serialize(c)
  BY <1>1, <1>2, <1>4, <1>5, <1>6, <1>7, <1>8, <1>9, <1>11, Zenon DEF Serialize
<1> QED
  BY <1>12, <1>22, <1>23, Zenon

-----------------------------------------------------------------------------
(* The loop over properties *)

\* The identifiers of a table have the kinds of fields, user properties are pairs,
\* and only a subscription identifier is of variable length.
KindsOK(kinds) ==
    \A id \in DOMAIN kinds :
        kinds[id] \in Kinds /\ (kinds[id] = "var" => id = 11) /\ (id = UserProperty => kinds[id] = "pair")

\* They have the kinds of the code.
SameKinds(kinds) == \A id \in DOMAIN kinds : kinds[id] = KindOf(id)

\* Every identifier has the kind of a field.
LEMMA KindIn ==
    ASSUME NEW id
    PROVE  /\ KindOf(id) \in Kinds /\ (KindOf(id) = "var" => id = 11)
           /\ (id = UserProperty => KindOf(id) = "pair")
<1>1. KindOf(id) \in Kinds
  BY Zenon DEF KindOf, Kinds
<1>2. id = UserProperty => /\ id \notin {1, 23, 25, 36, 37, 40, 41, 42} /\ id \notin {19, 33, 34, 35, 39}
                           /\ id \notin {2, 17} /\ id # 11 /\ id \notin {9, 22}
  BY DEF UserProperty
<1>3. id = UserProperty => KindOf(id) = "pair"
  BY <1>2, Zenon DEF KindOf
<1>4. KindOf(id) = "var" => id = 11
  BY Zenon DEF KindOf
<1> QED
  BY <1>1, <1>3, <1>4, Zenon

\* The property behind the first j bytes.
PropAt(kinds, b, j) == GetField(kinds[b[j + 1]], b, j + 1)

\* One step of the loop, when it reads the property r, and q is what follows.
PropsCase(kinds, b, j, r, q) ==
    IF j = Len(b) THEN Ok(<<>>, j)
    ELSE IF b[j + 1] \notin DOMAIN kinds THEN Err
    ELSE IF r.st # "ok" THEN r
    ELSE IF q.st # "ok" THEN q
    ELSE Ok(Stored(b[j + 1], r.v, q.v), q.at)

\* One step, when g holds the steps behind it.
PropsStep(kinds, b, g, j) == PropsCase(kinds, b, j, PropAt(kinds, b, j), g[PropAt(kinds, b, j).at])
IsProps(kinds, b, g) == g = [j \in 0 .. Len(b) |-> PropsStep(kinds, b, g, j)]

\* GetProperties is one of the steps.
LEMMA GetPropertiesIs ==
    ASSUME NEW kinds, NEW b, NEW i
    PROVE  GetProperties(kinds, b, i) = (CHOOSE g : IsProps(kinds, b, g))[i]
<1> DEFINE Body(g, j) ==
        IF j = Len(b) THEN Ok(<<>>, j)
        ELSE LET id == b[j + 1]
             IN  IF id \notin DOMAIN kinds THEN Err
                 ELSE Then(GetField(kinds[id], b, j + 1), LAMBDA v, k :
                         Then(g[k], LAMBDA rest, e : Ok(Stored(id, v, rest), e)))
<1>1. \A g, j : Body(g, j) = PropsStep(kinds, b, g, j)
  BY Zenon DEF Then, PropsStep, PropsCase, PropAt
<1>2. GetProperties(kinds, b, i) = (CHOOSE g : g = [j \in 0 .. Len(b) |-> Body(g, j)])[i]
  BY Zenon DEF GetProperties
<1> HIDE DEF Body
<1>3. \A g : IsProps(kinds, b, g) <=> g = [j \in 0 .. Len(b) |-> Body(g, j)]
  BY <1>1, Zenon DEF IsProps
<1> QED
  BY <1>2, <1>3, Zenon

\* A step looks at later steps only.
LEMMA PropsAgree ==
    ASSUME NEW kinds, KindsOK(kinds), NEW b \in Seq(Byte), NEW j \in 0 .. Len(b), NEW g, NEW h,
           \A k \in 0 .. Len(b) : k > j => g[k] = h[k]
    PROVE  PropsStep(kinds, b, g, j) = PropsStep(kinds, b, h, j)
<1>1. PICK m \in Nat : m = Len(b)
  OBVIOUS
<1>2. PICK r : r = PropAt(kinds, b, j)
  OBVIOUS
<1>3. CASE j # m /\ b[j + 1] \in DOMAIN kinds /\ r.st = "ok"
  <2>0. kinds[b[j + 1]] \in Kinds
    BY <1>3, Zenon DEF KindsOK
  <2>1. kinds[b[j + 1]] \in Kinds /\ j + 1 \in Nat /\ j \in Nat
    BY <2>0
  <2>2. Read(r, j + 1, m)
    BY <1>1, <1>2, <1>3, <2>1, FieldOk, Zenon DEF PropAt
  <2>3. PICK k : k = r.at
    OBVIOUS
  <2>4. k \in Nat /\ k > j + 1 /\ k <= m
    BY <2>2, <2>3, Zenon DEF Read
  <2>5. k \in 0 .. m /\ k > j
    BY <2>1, <2>4
  <2>6. g[k] = h[k]
    BY <1>1, <2>5
  <2> QED
    BY <1>2, <2>3, <2>6, Zenon DEF PropsStep
<1>4. CASE ~(j # m /\ b[j + 1] \in DOMAIN kinds /\ r.st = "ok")
  BY <1>1, <1>2, <1>4, Zenon DEF PropsStep, PropsCase
<1> QED
  BY <1>3, <1>4

\* The steps are defined.
LEMMA PropsDefined ==
    ASSUME NEW kinds, KindsOK(kinds), NEW b \in Seq(Byte)
    PROVE  IsProps(kinds, b, CHOOSE g : IsProps(kinds, b, g))
<1>0. PICK l \in Nat : l = Len(b)
  OBVIOUS
<1> DEFINE To(g, d) == \A n \in 0 .. l : l - n <= d => g[n] = PropsStep(kinds, b, g, n)
<1> DEFINE S == {d \in Nat : \E g : To(g, d)}
<1>1. 0 \in S
  <2> DEFINE g == [n \in 0 .. l |-> PropsStep(kinds, b, <<>>, n)]
  <2>1. \A n \in 0 .. l : l - n <= 0 => n = l
    OBVIOUS
  <2>2. g[l] = Ok(<<>>, l)
    BY <1>0 DEF PropsStep, PropsCase
  <2> HIDE DEF g
  <2>3. PropsStep(kinds, b, g, l) = Ok(<<>>, l)
    BY <1>0, Zenon DEF PropsStep, PropsCase
  <2>4. To(g, 0)
    BY <2>1, <2>2, <2>3, Zenon
  <2> QED
    BY <2>4
<1>2. ASSUME NEW d \in Nat, d \in S
      PROVE  d + 1 \in S
  <2>1. PICK g : To(g, d)
    BY <1>2
  <2> DEFINE h == [n \in 0 .. l |-> PropsStep(kinds, b, g, n)]
  <2>2. \A n \in 0 .. l : l - n <= d => h[n] = g[n]
    BY <2>1
  <2>3. ASSUME NEW n \in 0 .. l, l - n <= d + 1
        PROVE  h[n] = PropsStep(kinds, b, h, n)
    <3>1. h[n] = PropsStep(kinds, b, g, n)
      OBVIOUS
    <3> HIDE DEF h
    <3>2. \A k \in 0 .. l : k > n => l - k <= d
      BY <2>3
    <3>3. \A k \in 0 .. l : k > n => g[k] = h[k]
      BY <2>2, <3>2, Zenon
    <3> QED
      BY <1>0, <3>1, <3>3, PropsAgree, Zenon
  <2>4. To(h, d + 1)
    BY <2>3
  <2>5. d + 1 \in Nat
    OBVIOUS
  <2> HIDE DEF h, To
  <2> QED
    BY <2>4, <2>5
<1>3. l \in S
  <2> HIDE DEF S
  <2>1. Nat \subseteq S
    BY <1>1, <1>2, NatSetInduction
  <2> QED
    BY <2>1
<1>4. PICK g : To(g, l)
  BY <1>3
<1> DEFINE h == [n \in 0 .. l |-> g[n]]
<1>5. ASSUME NEW n \in 0 .. l
      PROVE  h[n] = PropsStep(kinds, b, h, n)
  <2>1. \A k \in 0 .. l : g[k] = h[k]
    OBVIOUS
  <2>2. g[n] = PropsStep(kinds, b, g, n)
    BY <1>4
  <2> HIDE DEF h
  <2>3. PropsStep(kinds, b, g, n) = PropsStep(kinds, b, h, n)
    BY <1>0, <2>1, PropsAgree, Zenon
  <2> QED
    BY <2>1, <2>2, <2>3, Zenon
<1>6. h = [n \in 0 .. l |-> h[n]]
  OBVIOUS
<1>7. IsProps(kinds, b, h)
  <2> HIDE DEF h
  <2> QED
    BY <1>0, <1>5, <1>6, Zenon DEF IsProps
<1> HIDE DEF h
<1> QED
  BY <1>7, Zenon

\* The loop, written with itself.
LEMMA PropsLoop ==
    ASSUME NEW kinds, KindsOK(kinds), NEW b \in Seq(Byte), NEW j \in 0 .. Len(b)
    PROVE  GetProperties(kinds, b, j) =
                PropsCase(kinds, b, j, PropAt(kinds, b, j),
                          GetProperties(kinds, b, PropAt(kinds, b, j).at))
<1>1. PICK g : g = CHOOSE h : IsProps(kinds, b, h)
  OBVIOUS
<1>2. g = [k \in 0 .. Len(b) |-> PropsStep(kinds, b, g, k)]
  BY <1>1, PropsDefined, ZenonT(60) DEF IsProps
<1>3. g[j] = PropsStep(kinds, b, g, j)
  BY <1>2, Zenon
<1>4. GetProperties(kinds, b, j) = g[j]
  BY <1>1, GetPropertiesIs, Zenon
<1>5. GetProperties(kinds, b, PropAt(kinds, b, j).at) = g[PropAt(kinds, b, j).at]
  BY <1>1, GetPropertiesIs, Zenon
<1> QED
  BY <1>3, <1>4, <1>5, Zenon DEF PropsStep

\* The kinds of the code are such kinds.
LEMMA SameOK ==
    ASSUME NEW kinds, SameKinds(kinds)
    PROVE  KindsOK(kinds)
<1>1. ASSUME NEW id \in DOMAIN kinds
      PROVE  kinds[id] \in Kinds /\ (kinds[id] = "var" => id = 11) /\ (id = UserProperty => kinds[id] = "pair")
  <2>1. kinds[id] = KindOf(id)
    BY Zenon DEF SameKinds
  <2> QED
    BY <2>1, KindIn, Zenon
<1> QED
  BY <1>1, Zenon DEF KindsOK

\* The tables of the packets.
LEMMA TablesOK ==
    /\ KindsOK(ConnectKinds) /\ KindsOK(PublishKinds) /\ KindsOK(ConnackKinds)
    /\ SameKinds(ConnectKinds) /\ SameKinds(PublishKinds) /\ SameKinds(ConnackKinds)
<1>1. SameKinds(ConnectKinds) /\ SameKinds(PublishKinds) /\ SameKinds(ConnackKinds)
  BY Zenon DEF SameKinds, ConnectKinds, PublishKinds, ConnackKinds
<1> QED
  BY <1>1, SameOK, Zenon

\* A function is determined by its values.
IsFcn(f) == f = [x \in DOMAIN f |-> f[x]]

\* q is p with the value v of id.
IsWith(q, p, id, v) ==
    /\ DOMAIN q = DOMAIN p \cup {id} /\ IsFcn(q) /\ q[id] = v
    /\ \A x \in DOMAIN p : x # id => q[x] = p[x]

\* Properties with one more.
LEMMA WithIs ==
    ASSUME NEW p, NEW id, NEW v
    PROVE  IsWith(With(p, id, v), p, id, v)
BY Zenon DEF With, IsFcn, IsWith

\* The user properties among the properties p.
UserOf(p) == IF UserProperty \in DOMAIN p THEN p[UserProperty] ELSE <<>>

\* p is rest with the property v of id in front of it.
IsStored(p, id, v, rest) ==
    /\ DOMAIN p = DOMAIN rest \cup {id} /\ IsFcn(p)
    /\ \A x \in DOMAIN rest : x # id => p[x] = rest[x]
    /\ id = UserProperty => p[id] = <<v>> \o UserOf(rest)
    /\ id # UserProperty => p[id] = IF id \in DOMAIN rest THEN rest[id] ELSE v

\* A property that is put in front of others.
LEMMA StoredIs ==
    ASSUME NEW id, NEW v, NEW rest, IsFcn(rest)
    PROVE  IsStored(Stored(id, v, rest), id, v, rest)
<1>0. PICK p : p = Stored(id, v, rest)
  OBVIOUS
<1>1. CASE id = UserProperty
  <2>1. p = With(rest, id, <<v>> \o UserOf(rest))
    BY <1>0, <1>1, Zenon DEF Stored, UserOf
  <2>2. IsWith(p, rest, id, <<v>> \o UserOf(rest))
    BY <2>1, WithIs, Zenon
  <2> QED
    BY <1>0, <1>1, <2>2, Zenon DEF IsWith, IsStored
<1>2. CASE id # UserProperty /\ id \in DOMAIN rest
  <2>1. p = rest
    BY <1>0, <1>2, Zenon DEF Stored
  <2>2. DOMAIN rest = DOMAIN rest \cup {id}
    BY <1>2
  <2> QED
    BY <1>0, <1>2, <2>1, <2>2, Zenon DEF IsStored
<1>3. CASE id # UserProperty /\ id \notin DOMAIN rest
  <2>1. p = With(rest, id, v)
    BY <1>0, <1>3, Zenon DEF Stored
  <2>2. IsWith(p, rest, id, v)
    BY <2>1, WithIs, Zenon
  <2> QED
    BY <1>0, <1>3, <2>2, Zenon DEF IsWith, IsStored
<1> QED
  BY <1>1, <1>2, <1>3, Zenon

\* What the loop gives, with at most m user properties.
PropsFit(kinds, p, max, m) ==
    /\ IsFcn(p) /\ DOMAIN p \subseteq DOMAIN kinds
    /\ \A id \in DOMAIN p :
          IF id = UserProperty
          THEN p[id] \in Seq(Texts(max) \X Texts(max)) /\ Len(p[id]) \in 1 .. m
          ELSE Fits(kinds[id], p[id], max)

\* A property that fits is put in front of properties that fit.
LEMMA StoredFits ==
    ASSUME NEW kinds, KindsOK(kinds), NEW max, NEW m \in Nat, NEW rest, PropsFit(kinds, rest, max, m),
           NEW id \in DOMAIN kinds, NEW v, Fits(kinds[id], v, max)
    PROVE  PropsFit(kinds, Stored(id, v, rest), max, m + 1)
<1>1. PICK p : p = Stored(id, v, rest)
  OBVIOUS
<1>2. IsFcn(rest) /\ DOMAIN rest \subseteq DOMAIN kinds
  BY Zenon DEF PropsFit
<1>3. /\ DOMAIN p = DOMAIN rest \cup {id} /\ IsFcn(p)
      /\ \A x \in DOMAIN rest : x # id => p[x] = rest[x]
      /\ id = UserProperty => p[id] = <<v>> \o UserOf(rest)
      /\ id # UserProperty => p[id] = IF id \in DOMAIN rest THEN rest[id] ELSE v
  <2>1. IsStored(p, id, v, rest)
    BY <1>1, <1>2, StoredIs, Zenon
  <2> QED
    BY <2>1, Zenon DEF IsStored
<1> DEFINE P == Texts(max) \X Texts(max)
<1> DEFINE Good(x) == IF x = UserProperty
                      THEN p[x] \in Seq(P) /\ Len(p[x]) \in 1 .. m + 1
                      ELSE Fits(kinds[x], p[x], max)
<1>4. ASSUME NEW x \in DOMAIN rest, x # id PROVE Good(x)
  <2>1. p[x] = rest[x]
    BY <1>3, <1>4, Zenon
  <2>2. IF x = UserProperty THEN rest[x] \in Seq(P) /\ Len(rest[x]) \in 1 .. m
        ELSE Fits(kinds[x], rest[x], max)
    BY <1>4, Zenon DEF PropsFit
  <2>3. \A k \in 1 .. m : k \in 1 .. m + 1
    OBVIOUS
  <2> QED
    BY <2>1, <2>2, <2>3, Zenon
<1>5. Good(id)
  <2>1. CASE id = UserProperty
    <3>1. v \in P
      <4>1. kinds[id] = "pair"
        BY <2>1, Zenon DEF KindsOK
      <4> QED
        BY <4>1, Zenon DEF Fits
    <3>2. PICK u : u = UserOf(rest)
      OBVIOUS
    <3>3. u \in Seq(P) /\ Len(u) \in 0 .. m
      <4>1. CASE UserProperty \in DOMAIN rest
        <5>1. u \in Seq(P) /\ Len(u) \in 1 .. m
          BY <3>2, <4>1, Zenon DEF PropsFit, UserOf
        <5>2. \A k \in 1 .. m : k \in 0 .. m
          OBVIOUS
        <5> QED
          BY <5>1, <5>2, Zenon
      <4>2. CASE UserProperty \notin DOMAIN rest
        <5>1. u = <<>>
          BY <3>2, <4>2, Zenon DEF UserOf
        <5>2. <<>> \in Seq(P) /\ Len(<<>>) = 0 /\ 0 \in 0 .. m
          BY EmptySeq
        <5> QED
          BY <5>1, <5>2, Zenon
      <4> QED
        BY <4>1, <4>2, Zenon
    <3> HIDE DEF P
    <3>4. <<v>> \in Seq(P) /\ Len(<<v>>) = 1
      BY <3>1
    <3>5. <<v>> \o u \in Seq(P) /\ Len(<<v>> \o u) = 1 + Len(u)
      BY <3>3, <3>4, ConcatProperties
    <3>6. \A k \in 0 .. m : 1 + k \in 1 .. m + 1
      OBVIOUS
    <3>7. p[id] = <<v>> \o u
      BY <1>3, <2>1, <3>2, Zenon
    <3>8. p[id] \in Seq(P) /\ Len(p[id]) \in 1 .. m + 1
      BY <3>3, <3>5, <3>6, <3>7, Zenon
    <3> QED
      BY <2>1, <3>8, Zenon
  <2>2. CASE id # UserProperty /\ id \in DOMAIN rest
    <3>1. Fits(kinds[id], rest[id], max)
      BY <2>2, Zenon DEF PropsFit
    <3> QED
      BY <1>3, <2>2, <3>1, Zenon
  <2>3. CASE id # UserProperty /\ id \notin DOMAIN rest
    BY <1>3, <2>3, Zenon
  <2> QED
    BY <2>1, <2>2, <2>3, Zenon
<1>6. \A x \in DOMAIN p : Good(x)
  <2> HIDE DEF Good
  <2> QED
    BY <1>3, <1>4, <1>5, Zenon
<1>7. DOMAIN p \subseteq DOMAIN kinds
  BY <1>2, <1>3, Zenon
<1> QED
  BY <1>1, <1>3, <1>6, <1>7, Zenon DEF PropsFit

\* A larger bound fits, too.
LEMMA PropsFitMore ==
    ASSUME NEW kinds, NEW p, NEW max, NEW m \in Nat, NEW n \in Nat, m <= n, PropsFit(kinds, p, max, m)
    PROVE  PropsFit(kinds, p, max, n)
<1>1. \A k \in 1 .. m : k \in 1 .. n
  OBVIOUS
<1> QED
  BY <1>1, Zenon DEF PropsFit

\* No properties fit.
LEMMA PropsFitNone ==
    ASSUME NEW kinds, NEW max, NEW m
    PROVE  PropsFit(kinds, <<>>, max, m)
<1>1. DOMAIN <<>> = {}
  OBVIOUS
<1>2. IsFcn(<<>>)
  BY DEF IsFcn
<1> QED
  BY <1>1, <1>2 DEF PropsFit

\* What the loop gives from position j on fits.
PropsGood(kinds, b, j) ==
    LET r == GetProperties(kinds, b, j)
    IN  r.st = "ok" => r = Ok(r.v, Len(b)) /\ PropsFit(kinds, r.v, Len(b), Len(b) - j)

\* It does at the end of the buffer.
LEMMA PropsGoodEnd ==
    ASSUME NEW kinds, KindsOK(kinds), NEW b \in Seq(Byte)
    PROVE  PropsGood(kinds, b, Len(b)) /\ GetProperties(kinds, b, Len(b)) = Ok(<<>>, Len(b))
<1>1. Len(b) \in 0 .. Len(b)
  OBVIOUS
<1>2. PICK r : r = GetProperties(kinds, b, Len(b))
  OBVIOUS
<1>3. r = Ok(<<>>, Len(b))
  BY <1>1, <1>2, PropsLoop, Zenon DEF PropsCase
<1>4. r = Ok(r.v, Len(b)) /\ r.v = <<>>
  BY <1>3, OkIs
<1> QED
  BY <1>2, <1>3, <1>4, PropsFitNone, Zenon DEF PropsGood

\* It does if it does behind the property at j.
LEMMA PropsGoodStep ==
    ASSUME NEW kinds, KindsOK(kinds), NEW b \in Seq(Byte), NEW j \in 0 .. Len(b), j # Len(b),
           \A k \in 0 .. Len(b) : k > j => PropsGood(kinds, b, k)
    PROVE  PropsGood(kinds, b, j)
<1>1. PICK m \in Nat : m = Len(b)
  OBVIOUS
<1>2. PICK r : r = PropAt(kinds, b, j)
  OBVIOUS
<1>3. PICK q : q = GetProperties(kinds, b, r.at)
  OBVIOUS
<1>4. PICK s : s = GetProperties(kinds, b, j)
  OBVIOUS
<1>5. s = PropsCase(kinds, b, j, r, q)
  BY <1>2, <1>3, <1>4, PropsLoop, Zenon
<1>6. SUFFICES ASSUME s.st = "ok" PROVE s = Ok(s.v, m) /\ PropsFit(kinds, s.v, m, m - j)
  BY <1>1, <1>4, Zenon DEF PropsGood
<1>7. /\ b[j + 1] \in DOMAIN kinds /\ r.st = "ok" /\ q.st = "ok"
      /\ s = Ok(Stored(b[j + 1], r.v, q.v), q.at)
  BY <1>5, <1>6, NotOk, Zenon DEF PropsCase
<1>8. PICK id : id = b[j + 1]
  OBVIOUS
<1>9. id \in DOMAIN kinds /\ kinds[id] \in Kinds
  BY <1>7, <1>8, Zenon DEF KindsOK
<1>10. j \in Nat /\ j + 1 \in Nat
  OBVIOUS
<1>11. Read(r, j + 1, m) /\ Fits(kinds[id], r.v, m)
  BY <1>1, <1>2, <1>7, <1>8, <1>9, <1>10, FieldOk, Zenon DEF PropAt
<1>12. PICK k : k = r.at
  OBVIOUS
<1>13. k \in Nat /\ k > j + 1 /\ k <= m
  BY <1>11, <1>12, Zenon DEF Read
<1>14. k \in 0 .. m /\ k > j /\ m - k \in Nat /\ m - j \in Nat /\ m - k + 1 \in Nat /\ m - k + 1 <= m - j
  BY <1>1, <1>10, <1>13
<1>15. PropsGood(kinds, b, k)
  BY <1>1, <1>14, Zenon
<1>16. q = Ok(q.v, m) /\ PropsFit(kinds, q.v, m, m - k)
  BY <1>1, <1>3, <1>7, <1>12, <1>15, Zenon DEF PropsGood
<1>17. PropsFit(kinds, Stored(id, r.v, q.v), m, m - k + 1)
  BY <1>9, <1>11, <1>14, <1>16, StoredFits, Zenon
<1>18. PropsFit(kinds, Stored(id, r.v, q.v), m, m - j)
  BY <1>14, <1>17, PropsFitMore, Zenon
<1>19. q.at = m
  BY <1>16 DEF Ok
<1>20. s = Ok(Stored(id, r.v, q.v), m)
  BY <1>7, <1>8, <1>19, Zenon
<1>21. s.v = Stored(id, r.v, q.v)
  BY <1>20, OkIs, Zenon
<1> QED
  BY <1>18, <1>20, <1>21, Zenon

\* It does everywhere.
LEMMA PropsOk ==
    ASSUME NEW kinds, KindsOK(kinds), NEW b \in Seq(Byte), NEW j \in 0 .. Len(b)
    PROVE  PropsGood(kinds, b, j)
<1>1. PICK m \in Nat : m = Len(b)
  OBVIOUS
<1> DEFINE S == {d \in Nat : \A k \in 0 .. m : m - k <= d => PropsGood(kinds, b, k)}
<1>2. 0 \in S
  <2>1. \A k \in 0 .. m : m - k <= 0 => k = m
    OBVIOUS
  <2> QED
    BY <1>1, <2>1, PropsGoodEnd
<1>3. ASSUME NEW d \in Nat, d \in S PROVE d + 1 \in S
  <2>1. ASSUME NEW k \in 0 .. m, m - k <= d + 1 PROVE PropsGood(kinds, b, k)
    <3>1. CASE k = m
      BY <1>1, <3>1, PropsGoodEnd, Zenon
    <3>2. CASE k # m
      <4>1. \A l \in 0 .. m : l > k => m - l <= d
        BY <2>1
      <4>2. \A l \in 0 .. m : l > k => PropsGood(kinds, b, l)
        BY <1>3, <4>1, Zenon
      <4> QED
        BY <1>1, <3>2, <4>2, PropsGoodStep, Zenon
    <3> QED
      BY <3>1, <3>2
  <2>2. d + 1 \in Nat
    OBVIOUS
  <2> QED
    BY <2>1, <2>2, Zenon
<1>4. Nat \subseteq S
  <2> HIDE DEF S
  <2> QED
    BY <1>2, <1>3, NatSetInduction
<1>5. m - j \in Nat /\ m - j <= m - j
  BY <1>1
<1> QED
  BY <1>1, <1>4, <1>5

-----------------------------------------------------------------------------
(* The loop over topic filters *)

\* The filter behind the first j bytes, with its options.
FilterAt(b, j) == GetFields(<<"filter", "u8">>, b, j)

\* One step of the loop, when it reads the filter r, and q is what follows.
FiltersCase(b, j, r, q) ==
    IF j = Len(b) THEN Ok(<<>>, j)
    ELSE IF r.st # "ok" THEN r
    ELSE IF r.v[2] % 4 = 3 THEN Err
    ELSE IF q.st # "ok" THEN q
    ELSE Ok(<<<<r.v[1], r.v[2] % 4>>>> \o q.v, q.at)

\* One step, when g holds the steps behind it.
FiltersStep(b, g, j) == FiltersCase(b, j, FilterAt(b, j), g[FilterAt(b, j).at])
IsFilters(b, g) == g = [j \in 0 .. Len(b) |-> FiltersStep(b, g, j)]

\* Filters is one of the steps.
LEMMA FiltersIs ==
    ASSUME NEW b, NEW i
    PROVE  Filters(b, i) = (CHOOSE g : IsFilters(b, g))[i]
<1> DEFINE Body(g, j) ==
        IF j = Len(b) THEN Ok(<<>>, j)
        ELSE Then(GetFields(<<"filter", "u8">>, b, j), LAMBDA f, k :
                IF f[2] % 4 = 3 THEN Err
                ELSE Then(g[k], LAMBDA fs, e : Ok(<<<<f[1], f[2] % 4>>>> \o fs, e)))
<1>1. \A g, j : Body(g, j) = FiltersStep(b, g, j)
  BY Zenon DEF Then, FiltersStep, FiltersCase, FilterAt
<1>2. Filters(b, i) = (CHOOSE g : g = [j \in 0 .. Len(b) |-> Body(g, j)])[i]
  BY Zenon DEF Filters
<1> HIDE DEF Body
<1>3. \A g : IsFilters(b, g) <=> g = [j \in 0 .. Len(b) |-> Body(g, j)]
  BY <1>1, Zenon DEF IsFilters
<1> QED
  BY <1>2, <1>3, Zenon

\* A filter and its options, where the decoder finds them.
LEMMA FilterOk ==
    ASSUME NEW b \in Seq(Byte), NEW j \in Nat, FilterAt(b, j).st = "ok"
    PROVE  LET r == FilterAt(b, j)
           IN  Read(r, j, Len(b)) /\ r.v[1] \in Texts(Len(b)) /\ r.v[2] \in Byte
<1>1. PICK f : f = GetField("filter", b, j)
  OBVIOUS
<1>2. PICK o : o = GetField("u8", b, f.at)
  OBVIOUS
<1>3. PICK r : r = FilterAt(b, j)
  OBVIOUS
<1>4. "filter" \in FieldKinds /\ "u8" \in FieldKinds /\ "u8" \in Kinds
  BY DEF FieldKinds, Kinds
<1>5. r = IF f.st = "ok" THEN IF o.st = "ok" THEN Ok(<<f.v, o.v>>, o.at) ELSE o ELSE f
  <2>1. LET s == GetField("filter", b, j)
            t == GetField("u8", b, s.at)
        IN  GetFields(<<"filter", "u8">>, b, j) = IF s.st = "ok"
                                                  THEN IF t.st = "ok" THEN Ok(<<s.v, t.v>>, t.at) ELSE t
                                                  ELSE s
    BY <1>4, Fields2
  <2> QED
    BY <1>1, <1>2, <1>3, <2>1 DEF FilterAt
<1>6. f.st = "ok" /\ o.st = "ok" /\ r = Ok(<<f.v, o.v>>, o.at)
  BY <1>3, <1>5, Zenon
<1>7. f = GetStr("filter", b, j)
  BY <1>1, GetFieldIs, Zenon
<1>8. Read(f, j, Len(b)) /\ f.v \in Texts(Len(b))
  BY <1>6, <1>7, TextOk, Zenon
<1>9. PICK k \in Nat : k = f.at /\ k > j /\ k <= Len(b)
  BY <1>8, Zenon DEF Read
<1>10. Read(o, k, Len(b)) /\ Fits("u8", o.v, Len(b))
  BY <1>2, <1>4, <1>6, <1>9, FieldOk, Zenon
<1>11. PICK e \in Nat : e = o.at /\ e > k /\ e <= Len(b)
  BY <1>10, Zenon DEF Read
<1>12. e > j /\ Len(b) \in Nat
  BY <1>9, <1>11
<1>13. Read(Ok(<<f.v, o.v>>, e), j, Len(b))
  <2>1. j < e
    BY <1>12
  <2> QED
    BY <1>11, <1>12, <2>1, ReadOk, Zenon
<1>14. o.v \in Byte
  BY <1>10, Zenon DEF Fits
<1>15. PICK x, y : x = f.v /\ y = o.v
  OBVIOUS
<1>16. r = Ok(<<x, y>>, e) /\ x \in Texts(Len(b)) /\ y \in Byte
  BY <1>6, <1>8, <1>11, <1>14, <1>15, Zenon
<1>17. r.v = <<x, y>>
  BY <1>16, OkIs, Zenon
<1>18. <<x, y>>[1] = x /\ <<x, y>>[2] = y
  OBVIOUS
<1>19. r.v[1] = x /\ r.v[2] = y
  BY <1>17, <1>18, Zenon
<1>20. Read(r, j, Len(b))
  BY <1>13, <1>15, <1>16, Zenon
<1> QED
  BY <1>3, <1>16, <1>19, <1>20, Zenon

\* A step looks at later steps only.
LEMMA FiltersAgree ==
    ASSUME NEW b \in Seq(Byte), NEW j \in 0 .. Len(b), NEW g, NEW h,
           \A k \in 0 .. Len(b) : k > j => g[k] = h[k]
    PROVE  FiltersStep(b, g, j) = FiltersStep(b, h, j)
<1>1. PICK r : r = FilterAt(b, j)
  OBVIOUS
<1>2. CASE r.st = "ok"
  <2>1. j \in Nat
    OBVIOUS
  <2>2. Read(r, j, Len(b))
    BY <1>1, <1>2, <2>1, FilterOk, Zenon
  <2>3. PICK k : k = r.at
    OBVIOUS
  <2>4. k \in Nat /\ k > j /\ k <= Len(b)
    BY <2>2, <2>3, Zenon DEF Read
  <2>5. k \in 0 .. Len(b)
    BY <2>4
  <2>6. g[k] = h[k]
    BY <2>4, <2>5, Zenon
  <2> QED
    BY <1>1, <2>3, <2>6, Zenon DEF FiltersStep
<1>3. CASE r.st # "ok"
  BY <1>1, <1>3, Zenon DEF FiltersStep, FiltersCase
<1> QED
  BY <1>2, <1>3

\* The steps are defined.
LEMMA FiltersDefined ==
    ASSUME NEW b \in Seq(Byte)
    PROVE  IsFilters(b, CHOOSE g : IsFilters(b, g))
<1>0. PICK l \in Nat : l = Len(b)
  OBVIOUS
<1> DEFINE To(g, d) == \A n \in 0 .. l : l - n <= d => g[n] = FiltersStep(b, g, n)
<1> DEFINE S == {d \in Nat : \E g : To(g, d)}
<1>1. 0 \in S
  <2> DEFINE g == [n \in 0 .. l |-> FiltersStep(b, <<>>, n)]
  <2>1. \A n \in 0 .. l : l - n <= 0 => n = l
    OBVIOUS
  <2>2. g[l] = Ok(<<>>, l)
    BY <1>0 DEF FiltersStep, FiltersCase
  <2> HIDE DEF g
  <2>3. FiltersStep(b, g, l) = Ok(<<>>, l)
    BY <1>0, Zenon DEF FiltersStep, FiltersCase
  <2>4. To(g, 0)
    BY <2>1, <2>2, <2>3, Zenon
  <2> QED
    BY <2>4
<1>2. ASSUME NEW d \in Nat, d \in S
      PROVE  d + 1 \in S
  <2>1. PICK g : To(g, d)
    BY <1>2
  <2> DEFINE h == [n \in 0 .. l |-> FiltersStep(b, g, n)]
  <2>2. \A n \in 0 .. l : l - n <= d => h[n] = g[n]
    BY <2>1
  <2>3. ASSUME NEW n \in 0 .. l, l - n <= d + 1
        PROVE  h[n] = FiltersStep(b, h, n)
    <3>1. h[n] = FiltersStep(b, g, n)
      OBVIOUS
    <3> HIDE DEF h
    <3>2. \A k \in 0 .. l : k > n => l - k <= d
      BY <2>3
    <3>3. \A k \in 0 .. l : k > n => g[k] = h[k]
      BY <2>2, <3>2, Zenon
    <3> QED
      BY <1>0, <3>1, <3>3, FiltersAgree, Zenon
  <2>4. To(h, d + 1)
    BY <2>3
  <2>5. d + 1 \in Nat
    OBVIOUS
  <2> HIDE DEF h, To
  <2> QED
    BY <2>4, <2>5
<1>3. l \in S
  <2> HIDE DEF S
  <2>1. Nat \subseteq S
    BY <1>1, <1>2, NatSetInduction
  <2> QED
    BY <2>1
<1>4. PICK g : To(g, l)
  BY <1>3
<1> DEFINE h == [n \in 0 .. l |-> g[n]]
<1>5. ASSUME NEW n \in 0 .. l
      PROVE  h[n] = FiltersStep(b, h, n)
  <2>1. \A k \in 0 .. l : g[k] = h[k]
    OBVIOUS
  <2>2. g[n] = FiltersStep(b, g, n)
    BY <1>4
  <2> HIDE DEF h
  <2>3. FiltersStep(b, g, n) = FiltersStep(b, h, n)
    BY <1>0, <2>1, FiltersAgree, Zenon
  <2> QED
    BY <2>1, <2>2, <2>3, Zenon
<1>6. h = [n \in 0 .. l |-> h[n]]
  OBVIOUS
<1>7. IsFilters(b, h)
  <2> HIDE DEF h
  <2> QED
    BY <1>0, <1>5, <1>6, Zenon DEF IsFilters
<1> HIDE DEF h
<1> QED
  BY <1>7, Zenon

\* The loop, written with itself.
LEMMA FiltersLoop ==
    ASSUME NEW b \in Seq(Byte), NEW j \in 0 .. Len(b)
    PROVE  Filters(b, j) = FiltersCase(b, j, FilterAt(b, j), Filters(b, FilterAt(b, j).at))
<1>1. PICK g : g = CHOOSE h : IsFilters(b, h)
  OBVIOUS
<1>2. g = [k \in 0 .. Len(b) |-> FiltersStep(b, g, k)]
  BY <1>1, FiltersDefined, Zenon DEF IsFilters
<1>3. g[j] = FiltersStep(b, g, j)
  BY <1>2, Zenon
<1>4. Filters(b, j) = g[j]
  BY <1>1, FiltersIs, Zenon
<1>5. Filters(b, FilterAt(b, j).at) = g[FilterAt(b, j).at]
  BY <1>1, FiltersIs, Zenon
<1> QED
  BY <1>3, <1>4, <1>5, Zenon DEF FiltersStep

\* What the loop gives from position j on.
Chosen(max) == Texts(max) \X {0, 1, 2}
FiltersGood(b, j) ==
    LET r == Filters(b, j)
    IN  r.st = "ok" => r = Ok(r.v, Len(b)) /\ r.v \in Seq(Chosen(Len(b))) /\ Len(r.v) <= Len(b) - j

\* It is typed at the end of the buffer.
LEMMA FiltersGoodEnd ==
    ASSUME NEW b \in Seq(Byte)
    PROVE  FiltersGood(b, Len(b)) /\ Filters(b, Len(b)) = Ok(<<>>, Len(b))
<1>1. Len(b) \in 0 .. Len(b)
  OBVIOUS
<1>2. PICK r : r = Filters(b, Len(b))
  OBVIOUS
<1>3. r = Ok(<<>>, Len(b))
  BY <1>1, <1>2, FiltersLoop, Zenon DEF FiltersCase
<1>4. r = Ok(r.v, Len(b)) /\ r.v = <<>>
  BY <1>3, OkIs
<1>5. <<>> \in Seq(Chosen(Len(b))) /\ Len(<<>>) = 0
  BY EmptySeq, Zenon
<1>6. 0 <= Len(b) - Len(b)
  OBVIOUS
<1> QED
  BY <1>2, <1>3, <1>4, <1>5, <1>6, Zenon DEF FiltersGood

\* It is if it is behind the filter at j.
LEMMA FiltersGoodStep ==
    ASSUME NEW b \in Seq(Byte), NEW j \in 0 .. Len(b), j # Len(b),
           \A k \in 0 .. Len(b) : k > j => FiltersGood(b, k)
    PROVE  FiltersGood(b, j)
<1>1. PICK m \in Nat : m = Len(b)
  OBVIOUS
<1>2. PICK r : r = FilterAt(b, j)
  OBVIOUS
<1>3. PICK q : q = Filters(b, r.at)
  OBVIOUS
<1>4. PICK s : s = Filters(b, j)
  OBVIOUS
<1>5. s = FiltersCase(b, j, r, q)
  BY <1>2, <1>3, <1>4, FiltersLoop, Zenon
<1>6. SUFFICES ASSUME s.st = "ok" PROVE s = Ok(s.v, m) /\ s.v \in Seq(Chosen(m)) /\ Len(s.v) <= m - j
  BY <1>1, <1>4, Zenon DEF FiltersGood
<1>7. /\ r.st = "ok" /\ r.v[2] % 4 # 3 /\ q.st = "ok"
      /\ s = Ok(<<<<r.v[1], r.v[2] % 4>>>> \o q.v, q.at)
  BY <1>5, <1>6, NotOk, Zenon DEF FiltersCase
<1>8. j \in Nat
  OBVIOUS
<1>9. Read(r, j, m) /\ r.v[1] \in Texts(m) /\ r.v[2] \in Byte
  BY <1>1, <1>2, <1>7, <1>8, FilterOk, Zenon
<1>10. PICK k : k = r.at
  OBVIOUS
<1>11. k \in Nat /\ k > j /\ k <= m
  BY <1>9, <1>10, Zenon DEF Read
<1>12. k \in 0 .. m
  BY <1>11
<1>13. FiltersGood(b, k)
  BY <1>1, <1>11, <1>12, Zenon
<1>14. q = Ok(q.v, m) /\ q.v \in Seq(Chosen(m)) /\ Len(q.v) <= m - k
  BY <1>1, <1>3, <1>7, <1>10, <1>13, Zenon DEF FiltersGood
<1>15. PICK x, o : x = r.v[1] /\ o = r.v[2]
  OBVIOUS
<1>16. o % 4 \in {0, 1, 2}
  <2>1. o \in Nat /\ o % 4 # 3
    BY <1>7, <1>9, <1>15, ByteIs
  <2> QED
    BY <2>1
<1>17. <<x, o % 4>> \in Chosen(m)
  BY <1>9, <1>15, <1>16 DEF Chosen
<1>18. PICK u, f : u = q.v /\ f = <<x, o % 4>>
  OBVIOUS
<1>19. <<f>> \in Seq(Chosen(m)) /\ Len(<<f>>) = 1
  BY <1>17, <1>18
<1>20. <<f>> \o u \in Seq(Chosen(m)) /\ Len(<<f>> \o u) = 1 + Len(u)
  BY <1>14, <1>18, <1>19, ConcatProperties
<1>21. 1 + Len(u) <= m - j
  BY <1>8, <1>11, <1>14, <1>18
<1>22. q.at = m
  BY <1>14 DEF Ok
<1>23. s = Ok(<<f>> \o u, m)
  BY <1>7, <1>15, <1>18, <1>22, Zenon
<1>24. s.v = <<f>> \o u
  BY <1>23, OkIs, Zenon
<1> QED
  BY <1>20, <1>21, <1>23, <1>24, Zenon

\* It is everywhere.
LEMMA FiltersOk ==
    ASSUME NEW b \in Seq(Byte), NEW j \in 0 .. Len(b)
    PROVE  FiltersGood(b, j)
<1>1. PICK m \in Nat : m = Len(b)
  OBVIOUS
<1> DEFINE S == {d \in Nat : \A k \in 0 .. m : m - k <= d => FiltersGood(b, k)}
<1>2. 0 \in S
  <2>1. \A k \in 0 .. m : m - k <= 0 => k = m
    OBVIOUS
  <2> QED
    BY <1>1, <2>1, FiltersGoodEnd
<1>3. ASSUME NEW d \in Nat, d \in S PROVE d + 1 \in S
  <2>1. ASSUME NEW k \in 0 .. m, m - k <= d + 1 PROVE FiltersGood(b, k)
    <3>1. CASE k = m
      BY <1>1, <3>1, FiltersGoodEnd, Zenon
    <3>2. CASE k # m
      <4>1. \A l \in 0 .. m : l > k => m - l <= d
        BY <2>1
      <4>2. \A l \in 0 .. m : l > k => FiltersGood(b, l)
        BY <1>3, <4>1, Zenon
      <4> QED
        BY <1>1, <3>2, <4>2, FiltersGoodStep, Zenon
    <3> QED
      BY <3>1, <3>2
  <2>2. d + 1 \in Nat
    OBVIOUS
  <2> QED
    BY <2>1, <2>2, Zenon
<1>4. Nat \subseteq S
  <2> HIDE DEF S
  <2> QED
    BY <1>2, <1>3, NatSetInduction
<1>5. m - j \in Nat /\ m - j <= m - j
  BY <1>1
<1> QED
  BY <1>1, <1>4, <1>5

-----------------------------------------------------------------------------
(* The decoders of packets, case by case *)

\* Properties with their length in r.
PropertiesCase(kinds, b, r, short) ==
    IF r.st # "ok" THEN r
    ELSE IF Len(b) - r.at < r.v THEN short
    ELSE GetProperties(kinds, SubSeq(b, 1, r.at + r.v), r.at)

\* The properties of a CONNECT.
LEMMA ConnectPropertiesIs ==
    ASSUME NEW b, NEW i
    PROVE  ConnectProperties(b, i) = PropertiesCase(ConnectKinds, b, DecodeLength(b, i), Panic)
BY Zenon DEF ConnectProperties, PropertiesCase, Then

\* The properties of a PUBLISH.
LEMMA PublishPropertiesIs ==
    ASSUME NEW b, NEW i
    PROVE  PublishProperties(b, i) =
                LET r == DecodeLength(b, i)
                IN  IF r.st = "ok" /\ r.v = 0 THEN Ok(None, r.at) ELSE PropertiesCase(PublishKinds, b, r, Err)
BY Zenon DEF PublishProperties, PropertiesCase, Then

\* The parts of a PUBLISH: topic and identifier, and properties.
QosOf(b) == (b[1] \div 2) % 4
PubFields(b) == GetFields(IF QosOf(b) > 0 THEN <<"str", "u16">> ELSE <<"str">>, b, DecodeLength(b, 1).at)
PubProps(b) == PublishProperties(b, PubFields(b).at)

\* The message that they make.
MessageOf(b, f, p) ==
    [type |-> "publish", dup |-> Bit(b[1], 3), qos |-> QosOf(b), retain |-> Bit(b[1], 0),
     topic |-> f.v[1], id |-> Tail(f.v), props |-> p.v, payload |-> SubSeq(b, p.at + 1, Len(b))]

PublishCase(b, r, f, p) ==
    IF Len(b) < 2 \/ QosOf(b) = 3 THEN Err
    ELSE IF r.st # "ok" THEN r
    ELSE IF Len(b) - r.at < r.v THEN Err
    ELSE IF f.st # "ok" THEN f
    ELSE IF p.st # "ok" THEN p
    ELSE Ok(MessageOf(b, f, p), Len(b))

\* The decoder of a PUBLISH.
LEMMA DecodePublishIs ==
    ASSUME NEW b
    PROVE  DecodePublish(b) = PublishCase(b, DecodeLength(b, 1), PubFields(b), PubProps(b))
BY Zenon DEF DecodePublish, PublishCase, PubFields, PubProps, QosOf, MessageOf, Then

\* The parts of a SUBSCRIBE: the identifier and a byte, and the filters.
SubFields(c, i) == GetFields(<<"u16", "u8">>, c, i)
SubscribeCase(b, r, f, fs) ==
    IF r.st # "ok" THEN r
    ELSE IF Len(b) - r.at < r.v THEN Panic
    ELSE IF f.st # "ok" THEN f
    ELSE IF fs.st # "ok" THEN fs
    ELSE Ok([type |-> "subscribe", id |-> f.v[1], list |-> fs.v], fs.at)

\* The decoder of a SUBSCRIBE.
LEMMA DecodeSubscribeIs ==
    ASSUME NEW b
    PROVE  LET r == DecodeLength(b, 1)
               c == SubSeq(b, 1, r.at + r.v)
               f == SubFields(c, r.at)
           IN  DecodeSubscribe(b) = SubscribeCase(b, r, f, Filters(c, f.at))
BY Zenon DEF DecodeSubscribe, SubscribeCase, SubFields, Then

\* The parts of a CONNECT.
WillOf(f, b, j) == IF Bit(f[1], 2) THEN SkipWill(b, j) ELSE Ok(<<>>, j)
UserKinds(f) == (IF Bit(f[1], 7) THEN <<"str">> ELSE <<>>) \o (IF Bit(f[1], 6) THEN <<"bin">> ELSE <<>>)

PayloadCase(f, p, r, w, u) ==
    IF r.st # "ok" THEN r
    ELSE IF w.st # "ok" THEN w
    ELSE IF u.st # "ok" THEN u
    ELSE Ok([type |-> "connect", clean |-> Bit(f[1], 5), ka |-> f[2], props |-> p, clid |-> r.v], u.at)

\* The payload.
LEMMA ConnectPayloadIs ==
    ASSUME NEW f, NEW p, NEW b, NEW i
    PROVE  LET r == GetStr("str", b, i)
               w == WillOf(f, b, r.at)
               u == GetFields(UserKinds(f), b, w.at)
           IN  ConnectPayload(f, p, b, i) = PayloadCase(f, p, r, w, u)
BY Zenon DEF ConnectPayload, PayloadCase, WillOf, UserKinds, Then

\* The will.
LEMMA SkipWillIs ==
    ASSUME NEW b, NEW i
    PROVE  LET r == ConnectProperties(b, i)
           IN  SkipWill(b, i) = IF r.st # "ok" THEN r ELSE GetFields(<<"str", "bin">>, b, r.at)
BY Zenon DEF SkipWill, Then

\* The flags, interval and properties.
LEMMA ConnectHeaderIs ==
    ASSUME NEW b, NEW i
    PROVE  LET f == GetFields(<<"u8", "u16">>, b, i)
               p == ConnectProperties(b, f.at)
           IN  ConnectHeader(b, i) = IF f.st # "ok" THEN f
                                     ELSE IF p.st # "ok" THEN p
                                     ELSE ConnectPayload(f.v, p.v, b, p.at)
BY Zenon DEF ConnectHeader, Then

\* The name and level.
LEMMA ConnectProtocolIs ==
    ASSUME NEW b, NEW i
    PROVE  LET r == GetStr("str", b, i)
               l == GetFixed(1, b, r.at)
           IN  ConnectProtocol(b, i) = IF r.st # "ok" THEN r
                                       ELSE IF r.v # MQTT THEN Err
                                       ELSE IF l.st # "ok" THEN l
                                       ELSE IF l.v # 5 THEN Err
                                       ELSE ConnectHeader(b, l.at)
BY Zenon DEF ConnectProtocol, Then

\* The decoder of a CONNECT.
LEMMA DecodeConnectIs ==
    ASSUME NEW b, b # <<>>
    PROVE  LET r == DecodeLength(b, 1)
           IN  DecodeConnect(b) = IF b[1] \div 16 # 1 THEN Err
                                  ELSE IF r.st # "ok" THEN r
                                  ELSE IF Len(b) - r.at < r.v THEN Err
                                  ELSE ConnectProtocol(b, r.at)
BY Zenon DEF DecodeConnect, Then

\* A longer bound admits the values that a shorter one admits.
LEMMA FitsWider ==
    ASSUME NEW max \in Nat, NEW n \in Nat, max <= n
    PROVE  /\ Texts(max) \subseteq Texts(n) /\ Blobs(max) \subseteq Blobs(n)
           /\ \A kind, v : Fits(kind, v, max) => Fits(kind, v, n)
           /\ Seq(Texts(max) \X Texts(max)) \subseteq Seq(Texts(n) \X Texts(n))
<1>1. Texts(max) \subseteq Texts(n)
  <2>1. ASSUME NEW s \in Seq(Ascii), Len(s) <= max PROVE Len(s) <= n
    BY <2>1
  <2> QED
    BY <2>1, Zenon DEF Texts
<1>2. Blobs(max) \subseteq Blobs(n)
  <2>1. ASSUME NEW s \in Seq(Byte), Len(s) <= max PROVE Len(s) <= n
    BY <2>1
  <2> QED
    BY <2>1, Zenon DEF Blobs
<1>3. \A v : v \in Texts(max) \X Texts(max) => v \in Texts(n) \X Texts(n)
  <2> HIDE DEF Texts
  <2> QED
    BY <1>1
<1>4. ASSUME NEW kind, NEW v, Fits(kind, v, max) PROVE Fits(kind, v, n)
  BY <1>1, <1>2, <1>3, <1>4, Zenon DEF Fits
<1>5. Seq(Texts(max) \X Texts(max)) \subseteq Seq(Texts(n) \X Texts(n))
  <2>1. PICK S, T : S = Texts(max) \X Texts(max) /\ T = Texts(n) \X Texts(n)
    OBVIOUS
  <2>2. S \subseteq T
    BY <1>3, <2>1, Zenon
  <2>3. Seq(S) \subseteq Seq(T)
    BY <2>2
  <2> QED
    BY <2>1, <2>3, Zenon
<1> QED
  BY <1>1, <1>2, <1>4, <1>5, Zenon

\* So do properties.
LEMMA PropsWider ==
    ASSUME NEW kinds, NEW p, NEW max \in Nat, NEW n \in Nat, max <= n, PropsFit(kinds, p, max, max)
    PROVE  PropsFit(kinds, p, n, n)
<1>1. ASSUME NEW id \in DOMAIN p, id = UserProperty
      PROVE  p[id] \in Seq(Texts(n) \X Texts(n)) /\ Len(p[id]) \in 1 .. n
  <2>1. p[id] \in Seq(Texts(max) \X Texts(max)) /\ Len(p[id]) \in 1 .. max
    BY <1>1, Zenon DEF PropsFit
  <2>2. \A k \in 1 .. max : k \in 1 .. n
    OBVIOUS
  <2> QED
    BY <2>1, <2>2, FitsWider, Zenon
<1>2. ASSUME NEW id \in DOMAIN p, id # UserProperty
      PROVE  Fits(kinds[id], p[id], n)
  <2>1. Fits(kinds[id], p[id], max)
    BY <1>2, Zenon DEF PropsFit
  <2> QED
    BY <2>1, FitsWider, Zenon
<1>3. IsFcn(p) /\ DOMAIN p \subseteq DOMAIN kinds
  BY Zenon DEF PropsFit
<1> QED
  BY <1>1, <1>2, <1>3, Zenon DEF PropsFit

\* FitProps bounds the number of user properties by the length of strings.
LEMMA FitPropsIs ==
    ASSUME NEW kinds, NEW p, NEW max
    PROVE  FitProps(kinds, p, max) <=> PropsFit(kinds, p, max, max)
BY Zenon DEF FitProps, PropsFit, IsFcn

\* Properties that are decoded: where they end, and what they are.
GotProps(kinds, b, i, q) == q.st = "ok" => Read(q, i, Len(b)) /\ FitProps(kinds, q.v, Len(b))

\* What the two decoders of properties have in common.
LEMMA PropertiesOk ==
    ASSUME NEW kinds, KindsOK(kinds), NEW b \in Seq(Byte), NEW i \in Nat, NEW short, short.st # "ok"
    PROVE  GotProps(kinds, b, i, PropertiesCase(kinds, b, DecodeLength(b, i), short))
<1>1. PICK r : r = DecodeLength(b, i)
  OBVIOUS
<1>2. SUFFICES ASSUME PropertiesCase(kinds, b, r, short).st = "ok"
               PROVE  GotProps(kinds, b, i, PropertiesCase(kinds, b, r, short))
  BY <1>1, Zenon DEF GotProps
<1>3. r.st = "ok" /\ ~(Len(b) - r.at < r.v)
      /\ PropertiesCase(kinds, b, r, short) = GetProperties(kinds, SubSeq(b, 1, r.at + r.v), r.at)
  BY <1>2, Zenon DEF PropertiesCase
<1>4. r.v \in 0 .. MaxEncodable /\ r.at \in i + 1 .. Len(b)
  BY <1>1, <1>3, DecodeLengthOk, Zenon
<1>5. PICK n \in Nat, j \in Nat, l \in Nat : n = r.v /\ j = r.at /\ l = Len(b)
  <2>1. r.v \in Nat
    BY <1>4, MaxIs
  <2>2. r.at \in Nat /\ Len(b) \in Nat
    BY <1>4
  <2> QED
    BY <2>1, <2>2
<1>6a. j \in i + 1 .. l /\ ~(l - j < n)
  BY <1>3, <1>4, <1>5, Zenon
<1>6. j > i /\ j <= l /\ j + n <= l /\ j + n \in Nat /\ j \in 0 .. j + n /\ j + n > i
  BY <1>6a
<1>7. PICK c : c = SubSeq(b, 1, j + n)
  OBVIOUS
<1>8. c \in Seq(Byte) /\ Len(c) = j + n
  <2>1. 0 + (j + n) <= Len(b) /\ 0 + 1 = 1 /\ 0 + (j + n) = j + n
    BY <1>5, <1>6
  <2>2. SubSeq(b, 0 + 1, 0 + (j + n)) \in Seq(Byte) /\ Len(SubSeq(b, 0 + 1, 0 + (j + n))) = j + n
    BY <1>6, <2>1, Slice
  <2> QED
    BY <1>7, <2>1, <2>2, Zenon
<1>9. PICK q : q = GetProperties(kinds, c, j)
  OBVIOUS
<1>10. q = PropertiesCase(kinds, b, r, short) /\ q.st = "ok"
  BY <1>2, <1>3, <1>5, <1>7, <1>9, Zenon
<1>11. PropsGood(kinds, c, j)
  BY <1>6, <1>8, PropsOk, Zenon
<1>12. q = Ok(q.v, j + n) /\ PropsFit(kinds, q.v, j + n, (j + n) - j)
  BY <1>8, <1>9, <1>10, <1>11, Zenon DEF PropsGood
<1>13. (j + n) - j \in Nat /\ (j + n) - j <= j + n
  OBVIOUS
<1>14. PropsFit(kinds, q.v, l, l)
  BY <1>6, <1>12, <1>13, PropsFitMore, PropsWider, Zenon
<1>15. Read(Ok(q.v, j + n), i, l)
  BY <1>6, ReadOk, Zenon
<1>16. Read(q, i, l)
  BY <1>12, <1>15, Zenon
<1> QED
  BY <1>5, <1>10, <1>14, <1>16, FitPropsIs, Zenon DEF GotProps

\* A PUBLISH that was decoded from at most max bytes.
GotPublish(p, max) ==
    /\ p = [type |-> "publish", dup |-> p.dup, qos |-> p.qos, retain |-> p.retain, topic |-> p.topic,
            id |-> p.id, props |-> p.props, payload |-> p.payload]
    /\ p.dup \in BOOLEAN /\ p.retain \in BOOLEAN /\ p.topic \in Texts(max)
    /\ \/ p.qos = 0 /\ p.id = None
       \/ p.qos \in {1, 2} /\ p.id = <<p.id[1]>> /\ U16(p.id[1])
    /\ FitProps(PublishKinds, p.props, max)
    /\ p.payload \in Blobs(max)

\* The last of one or two values.
LEMMA TailIs ==
    ASSUME NEW x, NEW y
    PROVE  Tail(<<x>>) = <<>> /\ Tail(<<x, y>>) = <<y>>
<1>1. PICK S : x \in S /\ y \in S
  <2>1. x \in {x, y} /\ y \in {x, y}
    OBVIOUS
  <2> QED
    BY <2>1, Zenon
<1>2. <<x>> \in Seq(S) /\ Len(<<x>>) = 1
  BY <1>1
<1>3. <<x, y>> \in Seq(S) /\ Len(<<x, y>>) = 2
  BY <1>1
<1> QED
  BY <1>2, <1>3, HeadTailProperties

\* The topic and identifier of a PUBLISH.
PubHead(b, i, f) ==
    /\ Read(f, i, Len(b)) /\ f.v[1] \in Texts(Len(b))
    /\ \/ QosOf(b) = 0 /\ Tail(f.v) = None
       \/ QosOf(b) > 0 /\ Tail(f.v) = <<Tail(f.v)[1]>> /\ U16(Tail(f.v)[1])

\* The fields of a PUBLISH that are decoded have their types.
LEMMA PubFieldsOk ==
    ASSUME NEW b \in Seq(Byte), DecodeLength(b, 1).at \in Nat, QosOf(b) \in Nat, PubFields(b).st = "ok"
    PROVE  PubHead(b, DecodeLength(b, 1).at, PubFields(b))
<1>1a. PICK f : f = PubFields(b)
  OBVIOUS
<1>1. PICK i \in Nat : i = DecodeLength(b, 1).at /\ f = PubFields(b)
  BY <1>1a, Zenon
<1>2. "str" \in FieldKinds /\ "u16" \in FieldKinds
  BY DEF FieldKinds, Kinds
<1>3. PICK r : r = GetField("str", b, i)
  OBVIOUS
<1>4. r = GetStr("str", b, i)
  BY <1>3, GetFieldIs, Zenon
<1>5. r.st = "ok" => Read(r, i, Len(b)) /\ r.v \in Texts(Len(b))
  BY <1>4, TextOk, Zenon
<1>6. CASE QosOf(b) > 0
  <2>1. PubFields(b) = GetFields(<<"str", "u16">>, b, i)
    BY <1>1, <1>6, Zenon DEF PubFields
  <2>2. PICK q : q = GetField("u16", b, r.at)
    OBVIOUS
  <2>3. PubFields(b) = IF r.st = "ok" THEN IF q.st = "ok" THEN Ok(<<r.v, q.v>>, q.at) ELSE q ELSE r
    <3>1. LET s == GetField("str", b, i)
              t == GetField("u16", b, s.at)
          IN  GetFields(<<"str", "u16">>, b, i) = IF s.st = "ok"
                                                  THEN IF t.st = "ok" THEN Ok(<<s.v, t.v>>, t.at) ELSE t
                                                  ELSE s
      BY <1>2, Fields2
    <3> QED
      BY <1>3, <2>1, <2>2, <3>1
  <2>4. r.st = "ok" /\ q.st = "ok" /\ PubFields(b) = Ok(<<r.v, q.v>>, q.at)
    BY <2>3, Zenon
  <2>5. r.at \in Nat /\ r.at > i /\ r.at <= Len(b)
    BY <1>5, <2>4, Zenon DEF Read
  <2>6. Read(q, r.at, Len(b)) /\ U16(q.v)
    BY <2>2, <2>4, <2>5, NumberOk, Zenon
  <2>7. q.at \in Nat /\ q.at > r.at /\ q.at <= Len(b) /\ Len(b) \in Nat
    BY <2>6 DEF Read
  <2>8. i < q.at
    BY <2>5, <2>7
  <2>9. Read(PubFields(b), i, Len(b))
    BY <2>4, <2>7, <2>8, ReadOk, Zenon
  <2>10. PICK x, y, e : x = r.v /\ y = q.v /\ e = q.at
    OBVIOUS
  <2>11. f = Ok(<<x, y>>, e)
    BY <1>1, <2>4, <2>10, Zenon
  <2>12. f.v = <<x, y>>
    BY <2>11, OkIs, Zenon
  <2>13. <<x, y>>[1] = x /\ <<y>>[1] = y
    OBVIOUS
  <2>14. f.v[1] = x /\ Tail(f.v) = <<y>>
    BY <2>12, <2>13, TailIs, Zenon
  <2> QED
    BY <1>1, <1>5, <1>6, <2>4, <2>6, <2>9, <2>10, <2>13, <2>14, Zenon DEF PubHead
<1>7. CASE ~(QosOf(b) > 0)
  <2>1. PubFields(b) = GetFields(<<"str">>, b, i)
    BY <1>1, <1>7, Zenon DEF PubFields
  <2>3. PubFields(b) = IF r.st = "ok" THEN Ok(<<r.v>>, r.at) ELSE r
    BY <1>2, <1>3, <2>1, Fields1, Zenon
  <2>4. r.st = "ok" /\ PubFields(b) = Ok(<<r.v>>, r.at)
    BY <2>3, Zenon
  <2>5. r.at \in Nat /\ r.at > i /\ r.at <= Len(b) /\ i < r.at
    BY <1>5, <2>4 DEF Read
  <2>9. Read(PubFields(b), i, Len(b))
    <3>1. Len(b) \in Nat
      OBVIOUS
    <3> QED
      BY <2>4, <2>5, <3>1, ReadOk, Zenon
  <2>10. PICK x, e : x = r.v /\ e = r.at
    OBVIOUS
  <2>11. f = Ok(<<x>>, e)
    BY <1>1, <2>4, <2>10, Zenon
  <2>12. f.v = <<x>>
    BY <2>11, OkIs, Zenon
  <2>13. <<x>>[1] = x
    OBVIOUS
  <2>14. f.v[1] = x /\ Tail(f.v) = None
    BY <2>12, <2>13, TailIs, Zenon DEF None
  <2>15. QosOf(b) = 0
    BY <1>7
  <2> QED
    BY <1>1, <1>5, <2>4, <2>9, <2>10, <2>14, <2>15, Zenon DEF PubHead
<1> QED
  BY <1>6, <1>7

\* The two flags and the service level of a header byte.
LEMMA HeaderBits ==
    ASSUME NEW b \in Seq(Byte), Len(b) >= 1
    PROVE  /\ b[1] \in Byte /\ b[1] \in Nat /\ QosOf(b) \in 0 .. 3
           /\ Bit(b[1], 3) \in BOOLEAN /\ Bit(b[1], 0) \in BOOLEAN
<1>1. 1 \in 1 .. Len(b)
  OBVIOUS
<1>2. b[1] \in Byte
  BY <1>1, ElementOfSeq, Zenon
<1>3. b[1] \in Nat
  BY <1>2, ByteIs
<1>4. QosOf(b) \in 0 .. 3
  BY <1>3 DEF QosOf
<1>5. \A x, n : Bit(x, n) \in BOOLEAN
  BY Zenon DEF Bit
<1> QED
  BY <1>2, <1>3, <1>4, <1>5, Zenon

\* A PUBLISH that is decoded has fields of their types.
LEMMA PublishOk ==
    ASSUME NEW b \in Seq(Byte), DecodePublish(b).st = "ok"
    PROVE  GotPublish(DecodePublish(b).v, Len(b))
<1>1. PICK r, f, p : r = DecodeLength(b, 1) /\ f = PubFields(b) /\ p = PubProps(b)
  OBVIOUS
<1>2. DecodePublish(b) = PublishCase(b, r, f, p)
  BY <1>1, DecodePublishIs, Zenon
<1>3. /\ ~(Len(b) < 2) /\ QosOf(b) # 3 /\ r.st = "ok" /\ f.st = "ok" /\ p.st = "ok"
      /\ DecodePublish(b) = Ok(MessageOf(b, f, p), Len(b))
  BY <1>2, NotOk, Zenon DEF PublishCase
<1>4. Len(b) \in Nat /\ Len(b) >= 1
  BY <1>3
<1>5. /\ b[1] \in Nat /\ QosOf(b) \in {0, 1, 2} /\ QosOf(b) \in Nat
      /\ Bit(b[1], 3) \in BOOLEAN /\ Bit(b[1], 0) \in BOOLEAN
  <2>1. b[1] \in Nat /\ QosOf(b) \in 0 .. 3 /\ Bit(b[1], 3) \in BOOLEAN /\ Bit(b[1], 0) \in BOOLEAN
    BY <1>4, HeaderBits, Zenon
  <2>2. PICK o : o = QosOf(b)
    OBVIOUS
  <2>3. o \in 0 .. 3 /\ o # 3 => o \in {0, 1, 2} /\ o \in Nat
    OBVIOUS
  <2> QED
    BY <1>3, <2>1, <2>2, <2>3, Zenon
<1>6. r.at \in Nat
  <2>1. r.at \in 1 + 1 .. Len(b)
    BY <1>1, <1>3, DecodeLengthOk, Zenon
  <2> QED
    BY <2>1
<1>7. PubHead(b, r.at, f)
  BY <1>1, <1>3, <1>5, <1>6, PubFieldsOk, Zenon
<1>8. PICK j \in Nat : j = f.at
  BY <1>7, Zenon DEF PubHead, Read
<1>9. GotProps(PublishKinds, b, j, p)
  <2>1. GotProps(PublishKinds, b, j, PropertiesCase(PublishKinds, b, DecodeLength(b, j), Err))
    BY PropertiesOk, TablesOK, NotOk, Zenon
  <2>2. PICK s : s = DecodeLength(b, j)
    OBVIOUS
  <2>3. p = IF s.st = "ok" /\ s.v = 0 THEN Ok(None, s.at) ELSE PropertiesCase(PublishKinds, b, s, Err)
    BY <1>1, <1>8, <2>2, PublishPropertiesIs, Zenon DEF PubProps
  <2>4. CASE s.st = "ok" /\ s.v = 0
    <3>1. s.at \in j + 1 .. Len(b)
      BY <2>2, <2>4, DecodeLengthOk, Zenon
    <3>2. s.at \in Nat /\ j < s.at /\ s.at <= Len(b)
      BY <3>1
    <3>3. p = Ok(None, s.at)
      BY <2>3, <2>4, Zenon
    <3>4. Read(p, j, Len(b))
      BY <1>4, <3>2, <3>3, ReadOk, Zenon
    <3>5. p.v = <<>>
      BY <3>3, OkIs, Zenon DEF None
    <3>6. FitProps(PublishKinds, p.v, Len(b))
      BY <3>5, PropsFitNone, FitPropsIs, Zenon
    <3> QED
      BY <3>4, <3>6, Zenon DEF GotProps
  <2>5. CASE ~(s.st = "ok" /\ s.v = 0)
    BY <2>1, <2>2, <2>3, <2>5, Zenon
  <2> QED
    BY <2>4, <2>5, Zenon
<1>10. Read(p, j, Len(b)) /\ FitProps(PublishKinds, p.v, Len(b))
  BY <1>3, <1>9, Zenon DEF GotProps
<1>11. PICK k \in Nat : k = p.at /\ k <= Len(b)
  BY <1>10, Zenon DEF Read
<1>12. SubSeq(b, k + 1, Len(b)) \in Blobs(Len(b))
  <2>1. PICK n \in Nat : n = Len(b) - k /\ k + n = Len(b) /\ n <= Len(b)
    <3>1. \A l \in Nat : k <= l => l - k \in Nat /\ k + (l - k) = l /\ l - k <= l
      OBVIOUS
    <3>2. Len(b) - k \in Nat /\ k + (Len(b) - k) = Len(b) /\ Len(b) - k <= Len(b)
      BY <1>4, <1>11, <3>1, Zenon
    <3> QED
      BY <3>2, Zenon
  <2>2. k + n <= Len(b)
    BY <1>4, <2>1
  <2>3. SubSeq(b, k + 1, k + n) \in Seq(Byte) /\ Len(SubSeq(b, k + 1, k + n)) = n
    BY <2>2, Slice, Zenon
  <2> QED
    BY <2>1, <2>3, Zenon DEF Blobs
<1>13. PICK m : m = MessageOf(b, f, p)
  OBVIOUS
<1>14. /\ m = [type |-> "publish", dup |-> m.dup, qos |-> m.qos, retain |-> m.retain, topic |-> m.topic,
               id |-> m.id, props |-> m.props, payload |-> m.payload]
       /\ m.dup = Bit(b[1], 3) /\ m.qos = QosOf(b) /\ m.retain = Bit(b[1], 0) /\ m.topic = f.v[1]
       /\ m.id = Tail(f.v) /\ m.props = p.v /\ m.payload = SubSeq(b, k + 1, Len(b))
  BY <1>11, <1>13 DEF MessageOf
<1>15. \/ m.qos = 0 /\ m.id = None
       \/ m.qos \in {1, 2} /\ m.id = <<m.id[1]>> /\ U16(m.id[1])
  <2>1. \A o \in {0, 1, 2} : o > 0 => o \in {1, 2}
    OBVIOUS
  <2> QED
    BY <1>5, <1>7, <1>14, <2>1, Zenon DEF PubHead
<1>16. GotPublish(m, Len(b))
  <2>1. f.v[1] \in Texts(Len(b))
    BY <1>7, Zenon DEF PubHead
  <2> QED
    BY <1>5, <1>10, <1>12, <1>14, <1>15, <2>1, Zenon DEF GotPublish
<1>17. DecodePublish(b).v = m
  <2>1. PICK d : d = DecodePublish(b)
    OBVIOUS
  <2>2. d = Ok(m, Len(b))
    BY <1>3, <1>13, <2>1, Zenon
  <2>3. d.v = m
    BY <2>2, OkIs, Zenon
  <2> QED
    BY <2>1, <2>3, Zenon
<1> QED
  BY <1>16, <1>17, Zenon

\* Two fields that are decoded: where they end, and their types.
TwoFields(k, l, b, i, f) ==
    Read(f, i, Len(b)) /\ Fits(k, f.v[1], Len(b)) /\ Fits(l, f.v[2], Len(b))

\* Two fields that are decoded have their types.
LEMMA Fields2Ok ==
    ASSUME NEW k \in Kinds, NEW l \in Kinds, NEW b \in Seq(Byte), NEW i \in Nat,
           GetFields(<<k, l>>, b, i).st = "ok"
    PROVE  TwoFields(k, l, b, i, GetFields(<<k, l>>, b, i))
<1>1. PICK f, r : f = GetFields(<<k, l>>, b, i) /\ r = GetField(k, b, i)
  OBVIOUS
<1>2. PICK q : q = GetField(l, b, r.at)
  OBVIOUS
<1>3. f = IF r.st = "ok" THEN IF q.st = "ok" THEN Ok(<<r.v, q.v>>, q.at) ELSE q ELSE r
  <2>1. k \in FieldKinds /\ l \in FieldKinds
    BY DEF FieldKinds
  <2>2. LET s == GetField(k, b, i)
            t == GetField(l, b, s.at)
        IN  GetFields(<<k, l>>, b, i) = IF s.st = "ok"
                                        THEN IF t.st = "ok" THEN Ok(<<s.v, t.v>>, t.at) ELSE t
                                        ELSE s
    BY <2>1, Fields2
  <2> QED
    BY <1>1, <1>2, <2>2
<1>4. r.st = "ok" /\ q.st = "ok" /\ f = Ok(<<r.v, q.v>>, q.at)
  BY <1>1, <1>3, Zenon
<1>5. Read(r, i, Len(b)) /\ Fits(k, r.v, Len(b))
  BY <1>1, <1>4, FieldOk, Zenon
<1>6. PICK j \in Nat : j = r.at /\ j > i /\ j <= Len(b)
  BY <1>5, Zenon DEF Read
<1>7. Read(q, j, Len(b)) /\ Fits(l, q.v, Len(b))
  BY <1>2, <1>4, <1>6, FieldOk, Zenon
<1>8. PICK e \in Nat : e = q.at /\ e > j /\ e <= Len(b)
  BY <1>7, Zenon DEF Read
<1>9. i < e /\ Len(b) \in Nat
  BY <1>6, <1>8
<1>10. PICK x, y : x = r.v /\ y = q.v
  OBVIOUS
<1>11. f = Ok(<<x, y>>, e)
  BY <1>4, <1>8, <1>10, Zenon
<1>12. Read(Ok(<<x, y>>, e), i, Len(b))
  BY <1>8, <1>9, ReadOk, Zenon
<1>13. f.v = <<x, y>>
  BY <1>11, OkIs, Zenon
<1>14. <<x, y>>[1] = x /\ <<x, y>>[2] = y
  OBVIOUS
<1>15. f.v[1] = x /\ f.v[2] = y
  BY <1>13, <1>14, Zenon
<1> QED
  BY <1>1, <1>5, <1>7, <1>10, <1>11, <1>12, <1>15, Zenon DEF TwoFields

\* A SUBSCRIBE that was decoded from at most max bytes.
GotSubscribe(p, max) ==
    /\ p = [type |-> "subscribe", id |-> p.id, list |-> p.list] /\ U16(p.id)
    /\ p.list \in Seq(Chosen(max)) /\ Len(p.list) <= max

\* A SUBSCRIBE that is decoded has fields of their types.
LEMMA SubscribeOk ==
    ASSUME NEW b \in Seq(Byte), DecodeSubscribe(b).st = "ok"
    PROVE  GotSubscribe(DecodeSubscribe(b).v, Len(b))
<1>1. PICK r : r = DecodeLength(b, 1)
  OBVIOUS
<1>2. PICK c : c = SubSeq(b, 1, r.at + r.v)
  OBVIOUS
<1>3. PICK f : f = SubFields(c, r.at)
  OBVIOUS
<1>4. PICK fs : fs = Filters(c, f.at)
  OBVIOUS
<1>5. DecodeSubscribe(b) = SubscribeCase(b, r, f, fs)
  BY <1>1, <1>2, <1>3, <1>4, DecodeSubscribeIs, Zenon
<1>6. PICK m : m = [type |-> "subscribe", id |-> f.v[1], list |-> fs.v]
  OBVIOUS
<1>7. /\ r.st = "ok" /\ ~(Len(b) - r.at < r.v) /\ f.st = "ok" /\ fs.st = "ok"
      /\ DecodeSubscribe(b) = Ok(m, fs.at)
  BY <1>5, <1>6, NotOk, Zenon DEF SubscribeCase
<1>8. PICK n \in Nat, j \in Nat, l \in Nat : n = r.v /\ j = r.at /\ l = Len(b) /\ j + n <= l
  <2>1. r.v \in 0 .. MaxEncodable /\ r.at \in 1 + 1 .. Len(b)
    BY <1>1, <1>7, DecodeLengthOk, Zenon
  <2>2. r.v \in Nat
    BY <2>1, MaxIs
  <2>3. r.at \in Nat /\ Len(b) \in Nat
    BY <2>1
  <2>4. \A x \in Nat, y \in Nat, z \in Nat : ~(z - y < x) => y + x <= z
    OBVIOUS
  <2>5. r.at + r.v <= Len(b)
    BY <1>7, <2>2, <2>3, <2>4, Zenon
  <2> QED
    BY <2>2, <2>3, <2>5, Zenon
<1>9. c \in Seq(Byte) /\ Len(c) = j + n /\ j + n \in Nat
  <2>1. 0 + (j + n) <= Len(b) /\ 0 + 1 = 1 /\ 0 + (j + n) = j + n /\ j + n \in Nat
    BY <1>8
  <2>2. SubSeq(b, 0 + 1, 0 + (j + n)) \in Seq(Byte) /\ Len(SubSeq(b, 0 + 1, 0 + (j + n))) = j + n
    BY <2>1, Slice
  <2> QED
    BY <1>2, <1>8, <2>1, <2>2, Zenon
<1>10. TwoFields("u16", "u8", c, j, f)
  <2>1. "u16" \in Kinds /\ "u8" \in Kinds
    BY DEF Kinds
  <2>2. f = GetFields(<<"u16", "u8">>, c, j)
    BY <1>3, <1>8, Zenon DEF SubFields
  <2> QED
    BY <1>7, <1>9, <2>1, <2>2, Fields2Ok, Zenon
<1>11. U16(f.v[1])
  BY <1>10, Zenon DEF TwoFields, Fits
<1>12. PICK k \in Nat : k = f.at /\ k \in 0 .. Len(c)
  <2>1. f.at \in Nat /\ f.at <= Len(c)
    BY <1>10, Zenon DEF TwoFields, Read
  <2>2. \A x \in Nat, y \in Nat : x <= y => x \in 0 .. y
    OBVIOUS
  <2> QED
    BY <1>9, <2>1, <2>2, Zenon
<1>13. FiltersGood(c, k)
  BY <1>9, <1>12, FiltersOk, Zenon
<1>14. fs.v \in Seq(Chosen(j + n)) /\ Len(fs.v) <= (j + n) - k
  BY <1>4, <1>7, <1>9, <1>12, <1>13, Zenon DEF FiltersGood
<1>15. PICK s : s = fs.v
  OBVIOUS
<1>16. Chosen(j + n) \subseteq Chosen(l)
  <2>1. Texts(j + n) \subseteq Texts(l)
    BY <1>8, <1>9, FitsWider, Zenon
  <2> QED
    BY <2>1 DEF Chosen
<1>17. s \in Seq(Chosen(l))
  <2>1. PICK A, B : A = Chosen(j + n) /\ B = Chosen(l)
    OBVIOUS
  <2>2. A \subseteq B /\ s \in Seq(A)
    BY <1>14, <1>15, <1>16, <2>1, Zenon
  <2>3. s \in Seq(B)
    BY <2>2
  <2> QED
    BY <2>1, <2>3, Zenon
<1>18. Len(s) <= l
  <2>1. PICK x \in Nat : x = Len(s)
    <3>1. Len(s) \in Nat
      BY <1>17, LenProperties, Zenon
    <3> QED
      BY <3>1
  <2>2. x <= (j + n) - k
    BY <1>14, <1>15, <2>1, Zenon
  <2>3. j + n <= l
    BY <1>8, Zenon
  <2>4. x <= l
    BY <2>2, <2>3
  <2> QED
    BY <2>1, <2>4, Zenon
<1>19. m = [type |-> "subscribe", id |-> m.id, list |-> m.list] /\ m.id = f.v[1] /\ m.list = s
  BY <1>6, <1>15
<1>20. DecodeSubscribe(b).v = m
  <2>1. PICK d, e : d = DecodeSubscribe(b) /\ e = fs.at
    OBVIOUS
  <2>2. d = Ok(m, e)
    BY <1>7, <2>1, Zenon
  <2>3. d.v = m
    BY <2>2, OkIs, Zenon
  <2> QED
    BY <2>1, <2>3, Zenon
<1> QED
  BY <1>8, <1>11, <1>17, <1>18, <1>19, <1>20, Zenon DEF GotSubscribe

\* A CONNECT that was decoded from at most max bytes.
GotConnect(p, max) ==
    /\ p = [type |-> "connect", clean |-> p.clean, ka |-> p.ka, props |-> p.props, clid |-> p.clid]
    /\ p.clean \in BOOLEAN /\ U16(p.ka) /\ FitProps(ConnectKinds, p.props, max) /\ p.clid \in Texts(max)

\* What is decoded behind the properties of a CONNECT has its types.
LEMMA PayloadOk ==
    ASSUME NEW b \in Seq(Byte), NEW i \in Nat, NEW f, U16(f[2]), NEW p, FitProps(ConnectKinds, p, Len(b)),
           ConnectPayload(f, p, b, i).st = "ok"
    PROVE  GotConnect(ConnectPayload(f, p, b, i).v, Len(b))
<1>1. PICK r : r = GetStr("str", b, i)
  OBVIOUS
<1>2. PICK w : w = WillOf(f, b, r.at)
  OBVIOUS
<1>3. PICK u : u = GetFields(UserKinds(f), b, w.at)
  OBVIOUS
<1>4. ConnectPayload(f, p, b, i) = PayloadCase(f, p, r, w, u)
  BY <1>1, <1>2, <1>3, ConnectPayloadIs, Zenon
<1>5. PICK m : m = [type |-> "connect", clean |-> Bit(f[1], 5), ka |-> f[2], props |-> p, clid |-> r.v]
  OBVIOUS
<1>6. r.st = "ok" /\ ConnectPayload(f, p, b, i) = Ok(m, u.at)
  BY <1>4, <1>5, NotOk, Zenon DEF PayloadCase
<1>7. r.v \in Texts(Len(b))
  BY <1>1, <1>6, TextOk, Zenon
<1>8. Bit(f[1], 5) \in BOOLEAN
  BY Zenon DEF Bit
<1>9. /\ m = [type |-> "connect", clean |-> m.clean, ka |-> m.ka, props |-> m.props, clid |-> m.clid]
      /\ m.clean = Bit(f[1], 5) /\ m.ka = f[2] /\ m.props = p /\ m.clid = r.v
  BY <1>5
<1>10. GotConnect(m, Len(b))
  BY <1>7, <1>8, <1>9, Zenon DEF GotConnect
<1>11. PICK d, e : d = ConnectPayload(f, p, b, i) /\ e = u.at
  OBVIOUS
<1>12. d = Ok(m, e)
  BY <1>6, <1>11, Zenon
<1>13. d.v = m
  BY <1>12, OkIs, Zenon
<1> QED
  BY <1>10, <1>11, <1>13, Zenon

\* A CONNECT that is decoded has fields of their types.
LEMMA ConnectOk ==
    ASSUME NEW b \in Seq(Byte), DecodeConnect(b).st = "ok"
    PROVE  GotConnect(DecodeConnect(b).v, Len(b))
<1>1. b # <<>>
  BY NotOk, Zenon DEF DecodeConnect
<1>2. PICK i \in Nat : DecodeConnect(b) = ConnectProtocol(b, i)
  <2>1. PICK r : r = DecodeLength(b, 1)
    OBVIOUS
  <2>2. DecodeConnect(b) = IF b[1] \div 16 # 1 THEN Err
                           ELSE IF r.st # "ok" THEN r
                           ELSE IF Len(b) - r.at < r.v THEN Err
                           ELSE ConnectProtocol(b, r.at)
    BY <1>1, <2>1, DecodeConnectIs, Zenon
  <2>3. r.st = "ok" /\ DecodeConnect(b) = ConnectProtocol(b, r.at)
    BY <2>2, NotOk, Zenon
  <2>4. r.at \in 1 + 1 .. Len(b)
    BY <2>1, <2>3, DecodeLengthOk, Zenon
  <2>5. r.at \in Nat
    BY <2>4
  <2> QED
    BY <2>3, <2>5, Zenon
<1>3. PICK j \in Nat : DecodeConnect(b) = ConnectHeader(b, j)
  <2>1. PICK r : r = GetStr("str", b, i)
    OBVIOUS
  <2>2. PICK l : l = GetFixed(1, b, r.at)
    OBVIOUS
  <2>3. ConnectProtocol(b, i) = IF r.st # "ok" THEN r
                                ELSE IF r.v # MQTT THEN Err
                                ELSE IF l.st # "ok" THEN l
                                ELSE IF l.v # 5 THEN Err
                                ELSE ConnectHeader(b, l.at)
    BY <2>1, <2>2, ConnectProtocolIs, Zenon
  <2>4. r.st = "ok" /\ l.st = "ok" /\ DecodeConnect(b) = ConnectHeader(b, l.at)
    BY <1>2, <2>3, NotOk, Zenon
  <2>5. PICK k \in Nat : k = r.at
    <3>1. Read(r, i, Len(b))
      BY <2>1, <2>4, TextOk, Zenon
    <3> QED
      BY <3>1, Zenon DEF Read
  <2>6. l = GetField("u8", b, k)
    BY <2>2, <2>5, GetFieldIs, Zenon
  <2>7. "u8" \in Kinds
    BY DEF Kinds
  <2>8. Read(l, k, Len(b))
    BY <2>4, <2>6, <2>7, FieldOk, Zenon
  <2>9. l.at \in Nat
    BY <2>8, Zenon DEF Read
  <2> QED
    BY <2>4, <2>9, Zenon
<1>4. PICK f : f = GetFields(<<"u8", "u16">>, b, j)
  OBVIOUS
<1>5. PICK p : p = ConnectProperties(b, f.at)
  OBVIOUS
<1>6. ConnectHeader(b, j) = IF f.st # "ok" THEN f
                            ELSE IF p.st # "ok" THEN p
                            ELSE ConnectPayload(f.v, p.v, b, p.at)
  BY <1>4, <1>5, ConnectHeaderIs, Zenon
<1>7. f.st = "ok" /\ p.st = "ok" /\ DecodeConnect(b) = ConnectPayload(f.v, p.v, b, p.at)
  BY <1>3, <1>6, NotOk, Zenon
<1>8. TwoFields("u8", "u16", b, j, f)
  <2>1. "u16" \in Kinds /\ "u8" \in Kinds
    BY DEF Kinds
  <2> QED
    BY <1>4, <1>7, <2>1, Fields2Ok, Zenon
<1>9. U16(f.v[2])
  BY <1>8, Zenon DEF TwoFields, Fits
<1>10. PICK k \in Nat : k = f.at
  BY <1>8, Zenon DEF TwoFields, Read
<1>11. GotProps(ConnectKinds, b, k, p)
  <2>1. GotProps(ConnectKinds, b, k, PropertiesCase(ConnectKinds, b, DecodeLength(b, k), Panic))
    BY PropertiesOk, TablesOK, NotOk, Zenon
  <2> QED
    BY <1>5, <1>10, <2>1, ConnectPropertiesIs, Zenon
<1>12. Read(p, k, Len(b)) /\ FitProps(ConnectKinds, p.v, Len(b))
  BY <1>7, <1>11, Zenon DEF GotProps
<1>13a. PICK g, q : g = f.v /\ q = p.v
  OBVIOUS
<1>13. PICK e \in Nat : e = p.at /\ g = f.v /\ q = p.v
  BY <1>13a, <1>12, Zenon DEF Read
<1>14. DecodeConnect(b) = ConnectPayload(g, q, b, e) /\ U16(g[2]) /\ FitProps(ConnectKinds, q, Len(b))
  BY <1>7, <1>9, <1>12, <1>13, Zenon
<1>15. GotConnect(ConnectPayload(g, q, b, e).v, Len(b))
  BY <1>14, PayloadOk, Zenon
<1> QED
  BY <1>14, <1>15, Zenon

\* A decoded packet of a client whose session is open.
GotPacket(p, max) == GotPublish(p, max) \/ GotSubscribe(p, max) \/ p = [type |-> "pingreq"]

\* A packet that is decoded has fields of their types.
LEMMA DecodeOk ==
    ASSUME NEW b \in Seq(Byte), Decode(b).st = "ok"
    PROVE  GotPacket(Decode(b).v, Len(b))
<1>1. \/ Decode(b) = DecodeSubscribe(b) \/ Decode(b) = DecodePublish(b)
      \/ Decode(b) = Ok([type |-> "pingreq"], Len(b))
  <2>1. PICK r, q, p : r = DecodeSubscribe(b) /\ q = DecodePublish(b) /\ p = Ok([type |-> "pingreq"], Len(b))
    OBVIOUS
  <2>2. PICK t : t = b[1] \div 16
    OBVIOUS
  <2>3. Decode(b) = CASE t = 8 -> r [] t = 3 -> q [] t = 12 -> p [] OTHER -> Err
    BY <2>1, <2>2, Zenon DEF Decode
  <2> QED
    BY <2>1, <2>3, NotOk
<1>2. CASE Decode(b) = DecodeSubscribe(b)
  BY <1>2, SubscribeOk, Zenon DEF GotPacket
<1>3. CASE Decode(b) = DecodePublish(b)
  BY <1>3, PublishOk, Zenon DEF GotPacket
<1>4. CASE Decode(b) = Ok([type |-> "pingreq"], Len(b))
  <2>1. Ok([type |-> "pingreq"], Len(b)).v = [type |-> "pingreq"]
    BY OkIs, Zenon
  <2> QED
    BY <1>4, <2>1, Zenon DEF GotPacket
<1> QED
  BY <1>1, <1>2, <1>3, <1>4, Zenon

\* How the properties are written that the broker looks at.
LEMMA KindValues ==
    /\ KindOf(17) = "u32" /\ KindOf(33) = "u16" /\ KindOf(34) = "u16" /\ KindOf(39) = "u16"
    /\ KindOf(19) = "u16" /\ KindOf(36) = "u8" /\ KindOf(18) = "str"
    /\ KindOf(1) = "u8" /\ KindOf(2) = "u32" /\ KindOf(3) = "str" /\ KindOf(38) = "pair"
BY SMT DEF KindOf, UserProperty

\* One of the properties.
LEMMA PropertyFits ==
    ASSUME NEW kinds, KindsOK(kinds), NEW p, NEW max, FitProps(kinds, p, max), NEW id \in DOMAIN p
    PROVE  /\ id \in DOMAIN kinds /\ kinds[id] \in Kinds
           /\ id # UserProperty => Fits(kinds[id], p[id], max)
           /\ id = UserProperty => /\ p[id] \in Seq(Texts(max) \X Texts(max)) /\ Len(p[id]) \in 1 .. max
                                   /\ kinds[id] = "pair"
<1>1. id \in DOMAIN kinds
  BY Zenon DEF FitProps
<1>2. kinds[id] \in Kinds /\ (id = UserProperty => kinds[id] = "pair")
  BY <1>1, Zenon DEF KindsOK
<1> QED
  BY <1>1, <1>2, Zenon DEF FitProps

\* One of the properties of a packet of the code.
LEMMA KindFits ==
    ASSUME NEW kinds, SameKinds(kinds), NEW p, NEW max, FitProps(kinds, p, max), NEW id \in DOMAIN p
    PROVE  /\ id # UserProperty => Fits(KindOf(id), p[id], max)
           /\ id = UserProperty => p[id] \in Seq(Texts(max) \X Texts(max)) /\ Len(p[id]) \in 1 .. max
<1>1. id \in DOMAIN kinds
  BY Zenon DEF FitProps
<1>2. kinds[id] = KindOf(id)
  BY <1>1, Zenon DEF SameKinds
<1> QED
  BY <1>1, <1>2, Zenon DEF FitProps

\* Expiry is four bytes, a limit two.
LEMMA LimitsOk ==
    ASSUME NEW p, NEW max, GotConnect(p, max)
    PROVE  /\ Expiry(p) \in Seq(Byte) /\ Len(Expiry(p)) = 4
           /\ U16(Limit(p, 33)) /\ U16(Limit(p, 34)) /\ U16(Limit(p, 39))
<1>1. PICK q : q = p.props
  OBVIOUS
<1>2. FitProps(ConnectKinds, q, max) /\ SameKinds(ConnectKinds)
  BY <1>1, TablesOK, Zenon DEF GotConnect
<1>3. Expiry(p) \in Seq(Byte) /\ Len(Expiry(p)) = 4
  <2>1. CASE 17 \in DOMAIN q
    <3>1. 17 # UserProperty
      BY DEF UserProperty
    <3>2. Fits(KindOf(17), q[17], max)
      BY <1>2, <2>1, <3>1, KindFits, Zenon
    <3>3. q[17] \in Seq(Byte) /\ Len(q[17]) = 4
      BY <3>2, KindValues, Zenon DEF Fits
    <3>4. Expiry(p) = q[17]
      BY <1>1, <2>1, Zenon DEF Expiry
    <3> QED
      BY <3>3, <3>4, Zenon
  <2>2. CASE 17 \notin DOMAIN q
    <3>1. 0 \in Byte
      BY ByteIs
    <3>2. <<0, 0, 0, 0>> \in Seq(Byte) /\ Len(<<0, 0, 0, 0>>) = 4
      BY <3>1
    <3> QED
      BY <1>1, <2>2, <3>2, Zenon DEF Expiry
  <2> QED
    BY <2>1, <2>2, Zenon
<1>4. ASSUME NEW id \in {33, 34, 39}
      PROVE  U16(Limit(p, id))
  <2>1. id # UserProperty
    BY DEF UserProperty
  <2>2. KindOf(id) = "u16"
    <3>1. id = 33 \/ id = 34 \/ id = 39
      OBVIOUS
    <3> QED
      BY <3>1, KindValues, Zenon
  <2>3. CASE id \in DOMAIN q
    <3>2. Fits(KindOf(id), q[id], max)
      BY <1>2, <2>1, <2>3, KindFits, Zenon
    <3>3. U16(q[id])
      BY <2>2, <3>2, Zenon DEF Fits
    <3> QED
      BY <1>1, <2>3, <3>3, Zenon DEF Limit
  <2>4. CASE id \notin DOMAIN q
    <3>1. U16(0)
      BY DEF U16
    <3> QED
      BY <1>1, <2>4, <3>1, Zenon DEF Limit
  <2> QED
    BY <2>3, <2>4, Zenon
<1> QED
  BY <1>3, <1>4, Zenon

\* The box that is made for a client can be written to its metadata file.
LEMMA NewClientIs ==
    ASSUME NEW p, NEW max, GotConnect(p, max)
    PROVE  IsBox(NewClient(p))
<1>1. PICK c : c = NewClient(p)
  OBVIOUS
<1>2. /\ c.level = 5 /\ c.expr = Expiry(p) /\ c.rm = Limit(p, 33) /\ c.mps = Limit(p, 39)
      /\ c.tam = Limit(p, 34) /\ c.ka = IF p.ka < MinKeepAlive THEN MinKeepAlive ELSE p.ka
  BY <1>1 DEF NewClient
<1>3. U16(p.ka) /\ U16(MinKeepAlive)
  BY StreamAssumption, Zenon DEF GotConnect
<1>4. 5 \in Byte
  BY ByteIs
<1> QED
  BY <1>1, <1>2, <1>3, <1>4, LimitsOk, Zenon DEF IsBox

-----------------------------------------------------------------------------
(* What the encoders write *)

\* A table of properties: identifiers are bytes.
TableOK(kinds) == KindsOK(kinds) /\ DOMAIN kinds \subseteq Byte

\* The three tables are.
LEMMA ByteTables ==
    TableOK(ConnectKinds) /\ TableOK(PublishKinds) /\ TableOK(ConnackKinds)
<1>1. DOMAIN ConnectKinds = {17, 21, 22, 23, 25, 33, 34, 38, 39}
  BY Zenon DEF ConnectKinds
<1>2. DOMAIN PublishKinds = {1, 2, 3, 8, 9, 11, 35, 38}
  BY Zenon DEF PublishKinds
<1>3. DOMAIN ConnackKinds = {17, 18, 19, 21, 22, 26, 28, 31, 33, 34, 36, 37, 38, 39, 40, 41, 42}
  BY Zenon DEF ConnackKinds
<1>4. DOMAIN ConnectKinds \subseteq Byte /\ DOMAIN PublishKinds \subseteq Byte /\ DOMAIN ConnackKinds \subseteq Byte
  BY <1>1, <1>2, <1>3, ByteIs
<1> QED
  BY <1>4, TablesOK, Zenon DEF TableOK

\* A property is written as its identifier and its value.
LEMMA PutPropertyBytes ==
    ASSUME NEW max \in Nat, U16(max), NEW kind \in Kinds, NEW v, Fits(kind, v, max), NEW id \in Byte
    PROVE  /\ PutProperty(kind, id, v) \in Seq(Byte) /\ Len(PutProperty(kind, id, v)) <= 2 * max + 5
           /\ Len(PutProperty(kind, id, v)) = 1 + Len(PutField(kind, v))
<1>1. PICK s, t : s = <<id>> /\ t = PutField(kind, v)
  OBVIOUS
<1>2. s \in Seq(Byte) /\ Len(s) = 1
  BY <1>1
<1>3. t \in Seq(Byte) /\ Len(t) <= 2 * max + 4
  BY <1>1, FieldBytes, Zenon
<1>4. s \o t \in Seq(Byte) /\ Len(s \o t) = 1 + Len(t)
  BY <1>2, <1>3, Joined, Zenon
<1>5. 1 + Len(t) <= 2 * max + 5
  <2>1. PICK n \in Nat : n = Len(t)
    BY <1>3
  <2>2. n <= 2 * max + 4
    BY <1>3, <2>1, Zenon
  <2>3. 1 + n <= 2 * max + 5
    BY <2>2
  <2> QED
    BY <2>1, <2>3, Zenon
<1> QED
  BY <1>1, <1>4, <1>5, Zenon DEF PutProperty

\* A function on 1 .. n is a sequence of length n.
LEMMA FcnSeq ==
    ASSUME NEW s, NEW n \in Nat, NEW S, IsFcn(s), DOMAIN s = 1 .. n, \A k \in 1 .. n : s[k] \in S
    PROVE  s \in Seq(S) /\ Len(s) = n
<1>1. s \in [1 .. n -> S]
  BY Zenon DEF IsFcn
<1>2. s \in Seq(S)
  BY <1>1
<1> QED
  BY <1>2

\* The user properties, each as it is written.
UserParts(kind, u) == [m \in DOMAIN u |-> PutProperty(kind, UserProperty, u[m])]

\* The user properties are written one behind the other.
LEMMA UserBytes ==
    ASSUME NEW max \in Nat, U16(max), NEW u \in Seq(Texts(max) \X Texts(max))
    PROVE  /\ UserParts("pair", u) \in Seq(Seq(Byte)) /\ Len(UserParts("pair", u)) = Len(u)
           /\ \A k \in 1 .. Len(u) : /\ UserParts("pair", u)[k] = PutProperty("pair", UserProperty, u[k])
                                     /\ Len(UserParts("pair", u)[k]) <= 2 * max + 5
<1>1. PICK s : s = UserParts("pair", u)
  OBVIOUS
<1>2. PICK n \in Nat : n = Len(u) /\ DOMAIN u = 1 .. n
  BY LenProperties, Zenon
<1>3. s = [m \in 1 .. n |-> PutProperty("pair", UserProperty, u[m])]
  BY <1>1, <1>2, Zenon DEF UserParts
<1>4. "pair" \in Kinds /\ UserProperty \in Byte
  BY ByteIs DEF Kinds, UserProperty
<1>5. ASSUME NEW k \in 1 .. n
      PROVE  s[k] = PutProperty("pair", UserProperty, u[k]) /\ s[k] \in Seq(Byte) /\ Len(s[k]) <= 2 * max + 5
  <2>1. u[k] \in Texts(max) \X Texts(max)
    BY <1>2, ElementOfSeq, Zenon
  <2>2. Fits("pair", u[k], max)
    <3>1. "pair" # "u8" /\ "pair" # "u16" /\ "pair" # "u32" /\ "pair" # "var" /\ "pair" # "str" /\ "pair" # "bin"
      OBVIOUS
    <3> QED
      BY <2>1, <3>1, Zenon DEF Fits
  <2>3. s[k] = PutProperty("pair", UserProperty, u[k])
    BY <1>3, Zenon
  <2>4. PutProperty("pair", UserProperty, u[k]) \in Seq(Byte)
        /\ Len(PutProperty("pair", UserProperty, u[k])) <= 2 * max + 5
    BY <1>4, <2>2, PutPropertyBytes, Zenon
  <2> QED
    BY <2>3, <2>4, Zenon
<1>6. s \in Seq(Seq(Byte)) /\ Len(s) = n
  <2>1. DOMAIN s = 1 .. n
    BY <1>3, Zenon
  <2>2. IsFcn(s)
    BY <1>3, Zenon DEF IsFcn
  <2>3. \A k \in 1 .. n : s[k] \in Seq(Byte)
    BY <1>5, Zenon
  <2> QED
    BY <2>1, <2>2, <2>3, FcnSeq, Zenon
<1> QED
  BY <1>1, <1>2, <1>5, <1>6, Zenon

\* Bounds on the bytes of one property, and of all that have one identifier.
PartMax == 4101
PutMax == 8402949

\* The user properties are bytes.
LEMMA UserFlat ==
    ASSUME NEW max \in Nat, U16(max), NEW u \in Seq(Texts(max) \X Texts(max))
    PROVE  /\ FlattenSeq(UserParts("pair", u)) \in Seq(Byte)
           /\ max <= MaxCap /\ Len(u) <= max => Len(FlattenSeq(UserParts("pair", u))) <= PutMax
<1>1. PICK s : s = UserParts("pair", u)
  OBVIOUS
<1>2. /\ s \in Seq(Seq(Byte)) /\ Len(s) = Len(u)
      /\ \A k \in 1 .. Len(u) : Len(s[k]) <= 2 * max + 5
  BY <1>1, UserBytes, Zenon
<1>3. FlattenSeq(s) \in Seq(Byte)
  <2>1. 2 * max + 5 \in Nat
    OBVIOUS
  <2> QED
    BY <1>2, <2>1, FlatLen, Zenon
<1>4. ASSUME max <= MaxCap, Len(u) <= max
      PROVE  Len(FlattenSeq(s)) <= PutMax
  <2>1. max <= 2048
    BY <1>4 DEF MaxCap
  <2>2. 2 * max + 5 <= PartMax /\ PartMax \in Nat
    BY <2>1, SMT DEF PartMax
  <2>3. \A k \in 1 .. Len(s) : Len(s[k]) <= PartMax
    <3>1. ASSUME NEW k \in 1 .. Len(s) PROVE Len(s[k]) <= PartMax
      <4>1. s[k] \in Seq(Byte)
        BY <1>2, ElementOfSeq, Zenon
      <4>2. PICK l \in Nat : l = Len(s[k])
        BY <4>1, LenProperties, Zenon
      <4>3. l <= 2 * max + 5
        BY <1>2, <4>2, Zenon
      <4>4. l <= PartMax
        BY <2>2, <4>3
      <4> QED
        BY <4>2, <4>4, Zenon
    <3> QED
      BY <3>1, Zenon
  <2>4. Len(FlattenSeq(s)) <= Len(s) * PartMax
    BY <1>2, <2>2, <2>3, FlatLen, Zenon
  <2>5. PICK n \in Nat, m \in Nat : n = Len(u) /\ m = Len(FlattenSeq(s))
    <3>1. Len(u) \in Nat /\ Len(FlattenSeq(s)) \in Nat
      BY <1>3, LenProperties, Zenon
    <3> QED
      BY <3>1, Zenon
  <2>6. n <= 2048
    <3>1. n <= max
      BY <1>4, <2>5, Zenon
    <3> QED
      BY <2>1, <3>1
  <2>7. m <= n * PartMax
    BY <1>2, <2>4, <2>5, Zenon
  <2>8. m <= PutMax
    BY <2>6, <2>7, SMT DEF PartMax, PutMax
  <2> QED
    BY <2>5, <2>8, Zenon
<1> QED
  BY <1>1, <1>3, <1>4, Zenon

\* What is written for one identifier.
IsPut(kinds, s, p, id) ==
    /\ s \in Seq(Byte)
    /\ id \notin DOMAIN p => s = <<>>
    /\ id \in DOMAIN p /\ id # UserProperty => s = PutProperty(kinds[id], id, p[id])
    /\ id \in DOMAIN p /\ id = UserProperty => s = FlattenSeq(UserParts("pair", p[id]))

\* It is bytes, and short enough if its strings are.
LEMMA PutOfIs ==
    ASSUME NEW max \in Nat, U16(max), NEW kinds, TableOK(kinds), NEW p, FitProps(kinds, p, max), NEW id
    PROVE  /\ IsPut(kinds, PutOf(kinds, p, id), p, id)
           /\ max <= MaxCap => Len(PutOf(kinds, p, id)) <= PutMax
<1>1. PICK s : s = PutOf(kinds, p, id)
  OBVIOUS
<1>2. CASE id \notin DOMAIN p
  <2>1. s = <<>>
    BY <1>1, <1>2, Zenon DEF PutOf
  <2>2. s \in Seq(Byte) /\ Len(s) = 0
    BY <2>1, EmptySeq, Zenon
  <2>3. Len(s) <= PutMax
    BY <2>2, SMT DEF PutMax
  <2>4. IsPut(kinds, s, p, id)
    BY <1>2, <2>1, <2>2, Zenon DEF IsPut
  <2> QED
    BY <1>1, <2>3, <2>4, Zenon
<1>3. CASE id \in DOMAIN p /\ id # UserProperty
  <2>1. id \in DOMAIN kinds /\ kinds[id] \in Kinds /\ Fits(kinds[id], p[id], max)
    BY <1>3, PropertyFits, Zenon DEF TableOK
  <2>2. id \in Byte /\ kinds[id] \in Kinds
    BY <2>1, Zenon DEF TableOK
  <2>3. s = PutProperty(kinds[id], id, p[id])
    BY <1>1, <1>3, <2>1, Zenon DEF PutOf
  <2>4. s \in Seq(Byte) /\ Len(s) <= 2 * max + 5
    BY <2>1, <2>2, <2>3, PutPropertyBytes, Zenon
  <2>5. max <= MaxCap => Len(s) <= PutMax
    <3>1. PICK n \in Nat : n = Len(s)
      BY <2>4, LenProperties, Zenon
    <3>2. n <= 2 * max + 5
      BY <2>4, <3>1, Zenon
    <3>3. max <= 2048 => n <= PutMax
      BY <3>2, SMT DEF PutMax
    <3> QED
      BY <3>1, <3>3, SMT DEF MaxCap
  <2>6. IsPut(kinds, s, p, id)
    BY <1>3, <2>3, <2>4, Zenon DEF IsPut
  <2> QED
    BY <1>1, <2>5, <2>6, Zenon
<1>4. CASE id \in DOMAIN p /\ id = UserProperty
  <2>1. /\ id \in DOMAIN kinds /\ kinds[id] = "pair"
        /\ p[id] \in Seq(Texts(max) \X Texts(max)) /\ Len(p[id]) \in 1 .. max
    BY <1>4, PropertyFits, Zenon DEF TableOK
  <2>2. PICK u : u = p[id]
    OBVIOUS
  <2>3. kinds[id] = "pair"
    BY <2>1
  <2>4. s = FlattenSeq(UserParts("pair", u))
    BY <1>1, <1>4, <2>2, <2>3, Zenon DEF PutOf, UserParts
  <2>5. u \in Seq(Texts(max) \X Texts(max)) /\ Len(u) <= max
    BY <2>1, <2>2
  <2>6. s \in Seq(Byte)
    BY <2>4, <2>5, UserFlat, Zenon
  <2>7. max <= MaxCap => Len(s) <= PutMax
    <3>1. max <= MaxCap => Len(FlattenSeq(UserParts("pair", u))) <= PutMax
      BY <2>5, UserFlat, Zenon
    <3> QED
      BY <2>4, <3>1, Zenon
  <2>8. IsPut(kinds, s, p, id)
    BY <1>4, <2>2, <2>4, <2>6, Zenon DEF IsPut
  <2> QED
    BY <1>1, <2>7, <2>8, Zenon
<1> QED
  BY <1>2, <1>3, <1>4, Zenon

\* Properties in an order, each as it is written.
Parts(order, kinds, p) == [n \in DOMAIN order |-> PutOf(kinds, p, order[n])]

\* Each part is what is written for its identifier.
LEMMA PartsIs ==
    ASSUME NEW max \in Nat, U16(max), NEW kinds, TableOK(kinds), NEW p, FitProps(kinds, p, max),
           NEW order \in Seq(Byte)
    PROVE  /\ Parts(order, kinds, p) \in Seq(Seq(Byte)) /\ Len(Parts(order, kinds, p)) = Len(order)
           /\ \A k \in 1 .. Len(order) : /\ IsPut(kinds, Parts(order, kinds, p)[k], p, order[k])
                                         /\ max <= MaxCap => Len(Parts(order, kinds, p)[k]) <= PutMax
           /\ PutProperties(order, kinds, p) = FlattenSeq(Parts(order, kinds, p))
<1>1. PICK s : s = Parts(order, kinds, p)
  OBVIOUS
<1>2. PICK n \in Nat : n = Len(order) /\ DOMAIN order = 1 .. n
  BY LenProperties, Zenon
<1>3. s = [k \in 1 .. n |-> PutOf(kinds, p, order[k])]
  BY <1>1, <1>2, Zenon DEF Parts
<1>4. ASSUME NEW k \in 1 .. n
      PROVE  IsPut(kinds, s[k], p, order[k]) /\ (max <= MaxCap => Len(s[k]) <= PutMax)
  <2>1. s[k] = PutOf(kinds, p, order[k])
    BY <1>3, Zenon
  <2> QED
    BY <2>1, PutOfIs, Zenon
<1>5. s \in Seq(Seq(Byte)) /\ Len(s) = n
  <2>1. DOMAIN s = 1 .. n /\ IsFcn(s)
    BY <1>3, Zenon DEF IsFcn
  <2>2. \A k \in 1 .. n : s[k] \in Seq(Byte)
    BY <1>4, Zenon DEF IsPut
  <2> QED
    BY <2>1, <2>2, FcnSeq, Zenon
<1>6. PutProperties(order, kinds, p) = FlattenSeq(s)
  BY <1>1, Zenon DEF Parts, PutProperties
<1> QED
  BY <1>1, <1>2, <1>4, <1>5, <1>6, Zenon

\* A bound on the bytes of all properties.
PropsMax == 142850133

\* Properties are bytes, and few enough if the strings are short.
LEMMA PutPropertiesBytes ==
    ASSUME NEW max \in Nat, U16(max), NEW kinds, TableOK(kinds), NEW p, FitProps(kinds, p, max),
           NEW order \in Seq(Byte)
    PROVE  /\ PutProperties(order, kinds, p) \in Seq(Byte)
           /\ max <= MaxCap /\ Len(order) <= 17 => Len(PutProperties(order, kinds, p)) <= PropsMax
<1>1. PICK s : s = Parts(order, kinds, p)
  OBVIOUS
<1>2. /\ s \in Seq(Seq(Byte)) /\ Len(s) = Len(order) /\ PutProperties(order, kinds, p) = FlattenSeq(s)
      /\ max <= MaxCap => \A k \in 1 .. Len(s) : Len(s[k]) <= PutMax
  <2>1. s \in Seq(Seq(Byte)) /\ Len(s) = Len(order) /\ PutProperties(order, kinds, p) = FlattenSeq(s)
    <3>1. /\ Parts(order, kinds, p) \in Seq(Seq(Byte)) /\ Len(Parts(order, kinds, p)) = Len(order)
          /\ PutProperties(order, kinds, p) = FlattenSeq(Parts(order, kinds, p))
      BY PartsIs
    <3> QED
      BY <1>1, <3>1, Zenon
  <2>2. \A k \in 1 .. Len(order) : max <= MaxCap => Len(s[k]) <= PutMax
    BY <1>1, PartsIs, Zenon
  <2> QED
    BY <2>1, <2>2, Zenon
<1>3. FlattenSeq(s) \in Seq(Byte)
  <2>1. Len(s) \in Nat
    BY <1>2, LenProperties, Zenon
  <2>2. FlattenSeq(s) = Flat(s, Len(s)) /\ \A n \in 0 .. Len(s) : Flat(s, n) \in Seq(Byte)
    BY <1>2, FlatIs, Zenon
  <2>3. Len(s) \in 0 .. Len(s)
    BY <2>1
  <2> QED
    BY <2>2, <2>3, Zenon
<1>4. ASSUME max <= MaxCap, Len(order) <= 17
      PROVE  Len(FlattenSeq(s)) <= PropsMax
  <2>1. PutMax \in Nat
    BY SMT DEF PutMax
  <2>2. Len(FlattenSeq(s)) <= Len(s) * PutMax
    BY <1>2, <1>4, <2>1, FlatLen, Zenon
  <2>3. PICK n \in Nat, m \in Nat : n = Len(s) /\ m = Len(FlattenSeq(s))
    <3>1. Len(s) \in Nat /\ Len(FlattenSeq(s)) \in Nat
      BY <1>2, <1>3, LenProperties, Zenon
    <3> QED
      BY <3>1, Zenon
  <2>4. n <= 17 /\ m <= n * PutMax
    BY <1>2, <1>4, <2>2, <2>3, Zenon
  <2>5. m <= PropsMax
    BY <2>4, SMT DEF PutMax, PropsMax
  <2> QED
    BY <2>3, <2>5, Zenon
<1> QED
  BY <1>2, <1>3, <1>4, Zenon

\* Joining five sequences of bytes.
LEMMA Joined5 ==
    ASSUME NEW s \in Seq(Byte), NEW t \in Seq(Byte), NEW u \in Seq(Byte), NEW v \in Seq(Byte),
           NEW w \in Seq(Byte)
    PROVE  /\ s \o t \o u \o v \o w \in Seq(Byte)
           /\ Len(s \o t \o u \o v \o w) = Len(s) + Len(t) + Len(u) + Len(v) + Len(w)
<1>1. PICK c : c = s \o t \o u \o v
  OBVIOUS
<1>2. c \in Seq(Byte) /\ Len(c) = Len(s) + Len(t) + Len(u) + Len(v)
  <2>1. s \o t \o u \o v \in Seq(Byte) /\ Len(s \o t \o u \o v) = Len(s) + Len(t) + Len(u) + Len(v)
    BY Joined4
  <2> QED
    BY <1>1, <2>1, Zenon
<1>3. c \o w \in Seq(Byte) /\ Len(c \o w) = Len(c) + Len(w)
  BY <1>2, Joined, Zenon
<1> QED
  BY <1>1, <1>2, <1>3, Zenon

\* Joining six sequences of bytes.
LEMMA Joined6 ==
    ASSUME NEW s \in Seq(Byte), NEW t \in Seq(Byte), NEW u \in Seq(Byte), NEW v \in Seq(Byte),
           NEW w \in Seq(Byte), NEW x \in Seq(Byte)
    PROVE  /\ s \o t \o u \o v \o w \o x \in Seq(Byte)
           /\ Len(s \o t \o u \o v \o w \o x) = Len(s) + Len(t) + Len(u) + Len(v) + Len(w) + Len(x)
<1>1. PICK c : c = s \o t \o u \o v \o w
  OBVIOUS
<1>2. c \in Seq(Byte) /\ Len(c) = Len(s) + Len(t) + Len(u) + Len(v) + Len(w)
  <2>1. s \o t \o u \o v \o w \in Seq(Byte) /\ Len(s \o t \o u \o v \o w) = Len(s) + Len(t) + Len(u) + Len(v) + Len(w)
    BY Joined5
  <2> QED
    BY <1>1, <2>1, Zenon
<1>3. c \o x \in Seq(Byte) /\ Len(c \o x) = Len(c) + Len(x)
  BY <1>2, Joined, Zenon
<1> QED
  BY <1>1, <1>2, <1>3, Zenon

\* A packet of the broker: bytes whose remaining length is right, and which is
\* short enough for a remaining length.
IsFrame(f) ==
    /\ f \in Seq(Byte) /\ Len(f) \in 1 .. MaxEncodable
    /\ DecodeLength(f, 1).st = "ok" /\ DecodeLength(f, 1).at + DecodeLength(f, 1).v = Len(f)

\* A header byte, the remaining length and that many bytes are a packet.
LEMMA FrameIs ==
    ASSUME NEW h \in Byte, NEW n \in 1 .. MaxEncodable, NEW t \in Seq(Byte), n + 5 <= MaxEncodable
    PROVE  Len(t) = n => IsFrame(<<h>> \o EncodeLength(n) \o t)
<1>1. SUFFICES ASSUME Len(t) = n PROVE IsFrame(<<h>> \o EncodeLength(n) \o t)
  OBVIOUS
<1>2. PICK c, e : c = <<h>> /\ e = EncodeLength(n)
  OBVIOUS
<1>3. c \in Seq(Byte) /\ Len(c) = 1
  BY <1>2
<1>4. n \in 0 .. MaxEncodable
  BY MaxIs
<1>5. e \in Seq(Byte) /\ Len(e) \in 0 .. 4
  <2>1. EncodeLength(n) \in Seq(Byte) /\ Len(EncodeLength(n)) \in 0 .. 4
    BY <1>4, EncodeLengthBytes, SMT
  <2> QED
    BY <1>2, <2>1, Zenon
<1>6. PICK f : f = c \o e \o t
  OBVIOUS
<1>7. f \in Seq(Byte) /\ Len(f) = Len(c) + Len(e) + Len(t)
  BY <1>3, <1>5, <1>6, Joined3, Zenon
<1>8. PICK l \in Nat, m \in Nat : l = Len(f) /\ m = Len(e) /\ m <= 4
  <2>1. \A x \in 0 .. 4 : x \in Nat /\ x <= 4
    OBVIOUS
  <2>2. Len(f) \in Nat /\ Len(e) \in Nat /\ Len(e) <= 4
    BY <1>5, <1>7, <2>1, LenProperties, Zenon
  <2> QED
    BY <2>2, Zenon
<1>9. l = 1 + m + n
  BY <1>1, <1>3, <1>7, <1>8, Zenon
<1>10. l \in 1 .. MaxEncodable /\ n \in Nat
  BY <1>8, <1>9, MaxIs
<1>11. At(f, 0, f)
  BY <1>7, AtSelf, Zenon
<1>12. At(f, 0 + Len(c), e)
  <2>1. 0 \in Nat
    OBVIOUS
  <2> QED
    BY <1>3, <1>5, <1>6, <1>7, <1>11, <2>1, AtThree, Zenon
<1>13. At(f, 1, e)
  <2>1. 0 + 1 = 1
    OBVIOUS
  <2> QED
    BY <1>3, <1>12, <2>1, Zenon
<1>14. DecodeLength(f, 1) = Ok(n, 1 + m)
  BY <1>2, <1>8, <1>13, LengthRoundTrip, Zenon
<1>15. 1 + m + n = (1 + m) + n
  BY <1>10
<1>16. PICK r, k : r = DecodeLength(f, 1) /\ k = 1 + m
  OBVIOUS
<1>17. r = Ok(n, k)
  BY <1>14, <1>16, Zenon
<1>18. r.st = "ok" /\ r.v = n /\ r.at = k
  BY <1>17, OkIs, Zenon
<1>19. r.at + r.v = l
  BY <1>9, <1>15, <1>16, <1>18, Zenon
<1> QED
  BY <1>2, <1>6, <1>7, <1>8, <1>10, <1>16, <1>18, <1>19, Zenon DEF IsFrame

\* What follows a sequence may be joined first, be it two, three or four sequences.
Group2(x, s, t) == x \o s \o t = x \o (s \o t)
Group3(x, s, t, u) == x \o s \o t \o u = x \o (s \o t \o u)
Group4(x, s, t, u, v) == x \o s \o t \o u \o v = x \o (s \o t \o u \o v)

\* Joining is associative.
LEMMA Regroup2 ==
    ASSUME NEW x \in Seq(Byte), NEW s \in Seq(Byte), NEW t \in Seq(Byte)
    PROVE  Group2(x, s, t)
<1>1. s \o t \in Seq(Byte) /\ x \o s \o t = x \o (s \o t)
  BY Joined, ConcatAssociative
<1> QED
  BY <1>1, Zenon DEF Group2

\* Three sequences.
LEMMA Regroup3 ==
    ASSUME NEW x \in Seq(Byte), NEW s \in Seq(Byte), NEW t \in Seq(Byte), NEW u \in Seq(Byte)
    PROVE  Group3(x, s, t, u)
<1>1. PICK c \in Seq(Byte) : c = s \o t
  BY Joined, Zenon
<1>2. Group2(x, s, t) /\ Group2(x, c, u)
  BY Regroup2, Zenon
<1> QED
  BY <1>1, <1>2, Zenon DEF Group2, Group3

\* Four sequences.
LEMMA Regroup4 ==
    ASSUME NEW x \in Seq(Byte), NEW s \in Seq(Byte), NEW t \in Seq(Byte), NEW u \in Seq(Byte),
           NEW v \in Seq(Byte)
    PROVE  Group4(x, s, t, u, v)
<1>1. PICK c \in Seq(Byte) : c = s \o t \o u
  BY Joined3, Zenon
<1>2. Group3(x, s, t, u) /\ Group2(x, c, v)
  BY Regroup2, Regroup3, Zenon
<1> QED
  BY <1>1, <1>2, Zenon DEF Group2, Group3, Group4

\* Bytes that the encoders write.
LEMMA SomeBytes ==
    /\ 0 \in Byte /\ 1 \in Byte /\ 2 \in Byte /\ 16 \in Byte /\ 32 \in Byte /\ 130 \in Byte /\ 144 \in Byte
    /\ 192 \in Byte
BY ByteIs

\* A PUBACK, and the packets like it, is a packet.
LEMMA PubackFrame ==
    ASSUME NEW kind \in {"PubAck", "PubRec", "PubRel"}, NEW id, U16(id)
    PROVE  IsFrame(EncodePuback(kind, id))
<1>1. PICK h \in Byte : h = PubackCodes[kind]
  <2>1. PubackCodes[kind] \in Nat /\ PubackCodes[kind] < 256
    BY DEF PubackCodes
  <2> QED
    BY <2>1, ByteIs
<1>2. 3 \in 1 .. MaxEncodable /\ 3 + 5 <= MaxEncodable /\ 0 \in 0 .. MaxEncodable /\ 3 \in 0 .. MaxEncodable
  BY MaxIs, SMT
<1>3. PICK x \in Seq(Byte) : x = <<h>> \o EncodeLength(3)
  <2>1. EncodeLength(3) \in Seq(Byte)
    BY <1>2, EncodeLengthBytes, SMT
  <2>2. <<h>> \in Seq(Byte)
    BY <1>1
  <2> QED
    BY <2>1, <2>2, Joined, Zenon
<1>4. PICK s \in Seq(Byte) : s = PutU16(id) /\ Len(s) = 2
  BY U16Bytes, Zenon
<1>5. PICK t \in Seq(Byte) : t = << 0 >> /\ Len(t) = 1
  <2>1. 0 \in Byte
    BY SomeBytes, Zenon
  <2>2. << 0 >> \in Seq(Byte) /\ Len(<< 0 >>) = 1
    BY <2>1
  <2> QED
    BY <2>2, Zenon
<1>6. PICK u \in Seq(Byte) : u = EncodeLength(0) /\ Len(u) = 0
  <2>1. EncodeLength(0) = <<>>
    BY <1>2, EncodeLengthBytes, SMT
  <2> QED
    BY <2>1, EmptySeq, Zenon
<1>7. EncodePuback(kind, id) = x \o s \o t \o u
  BY <1>1, <1>3, <1>4, <1>5, <1>6, Zenon DEF EncodePuback
<1>8. EncodePuback(kind, id) = x \o (s \o t \o u)
  <2>1. Group3(x, s, t, u)
    BY Regroup3, Zenon
  <2> QED
    BY <1>7, <2>1, Zenon DEF Group3
<1>9. PICK w \in Seq(Byte) : w = s \o t \o u /\ Len(w) = 3
  <2>1. s \o t \o u \in Seq(Byte) /\ Len(s \o t \o u) = Len(s) + Len(t) + Len(u)
    BY Joined3, Zenon
  <2>2. 2 + 1 + 0 = 3
    OBVIOUS
  <2> QED
    BY <1>4, <1>5, <1>6, <2>1, <2>2, Zenon
<1>10. IsFrame(<<h>> \o EncodeLength(3) \o w)
  BY <1>2, <1>9, FrameIs, Zenon
<1> QED
  BY <1>3, <1>8, <1>9, <1>10, Zenon

\* So is a SUBACK.
LEMMA SubackFrame ==
    ASSUME NEW id, U16(id), NEW codes \in Seq(Byte), Len(codes) <= MaxCap
    PROVE  IsFrame(EncodeSuback(id, codes))
<1>1. PICK l \in Nat : l = Len(codes)
  BY LenProperties, Zenon
<1>2. PICK n \in 1 .. MaxEncodable : n = l + 2 /\ n + 5 <= MaxEncodable
  <2>1. l + 2 \in 1 .. MaxEncodable /\ (l + 2) + 5 <= MaxEncodable
    BY <1>1, MaxIs DEF MaxCap
  <2> QED
    BY <2>1, Zenon
<1>3. PICK x \in Seq(Byte) : x = << 144 >> \o EncodeLength(n)
  <2>1. n \in 0 .. MaxEncodable
    BY MaxIs
  <2>2. EncodeLength(n) \in Seq(Byte)
    BY <2>1, EncodeLengthBytes, SMT
  <2>3. 144 \in Byte
    BY SomeBytes
  <2>4. << 144 >> \in Seq(Byte)
    BY <2>3
  <2> QED
    BY <2>2, <2>4, Joined, Zenon
<1>4. PICK s \in Seq(Byte) : s = PutU16(id) /\ Len(s) = 2
  BY U16Bytes, Zenon
<1>6. PICK u \in Seq(Byte) : u = EncodeLength(0) /\ Len(u) = 0
  <2>1. 0 \in 0 .. MaxEncodable
    BY MaxIs
  <2>2. EncodeLength(0) = <<>>
    BY <2>1, EncodeLengthBytes, SMT
  <2> QED
    BY <2>2, EmptySeq, Zenon
<1>7. EncodeSuback(id, codes) = x \o s \o u \o codes
  <2>1. EncodeLength(Len(codes) + 2) = EncodeLength(n)
    BY <1>1, <1>2, Zenon
  <2> QED
    BY <1>3, <1>4, <1>6, <2>1, Zenon DEF EncodeSuback
<1>8. EncodeSuback(id, codes) = x \o (s \o u \o codes)
  <2>1. Group3(x, s, u, codes)
    BY Regroup3, Zenon
  <2> QED
    BY <1>7, <2>1, Zenon DEF Group3
<1>9. PICK w \in Seq(Byte) : w = s \o u \o codes /\ Len(w) = n
  <2>1. s \o u \o codes \in Seq(Byte) /\ Len(s \o u \o codes) = Len(s) + Len(u) + Len(codes)
    BY Joined3, Zenon
  <2>2. 2 + 0 + l = l + 2
    OBVIOUS
  <2> QED
    <3>1. Len(s \o u \o codes) = 2 + 0 + l
      BY <1>1, <1>4, <1>6, <2>1, Zenon
    <3>2. Len(s \o u \o codes) = n
      BY <1>2, <2>2, <3>1, Zenon
    <3> QED
      BY <2>1, <3>2, Zenon
<1>10. IsFrame(<< 144 >> \o EncodeLength(n) \o w)
  <2>1. 144 \in Byte
    BY SomeBytes
  <2> QED
    BY <1>2, <1>9, <2>1, FrameIs
<1> QED
  BY <1>3, <1>8, <1>9, <1>10, Zenon

\* A property may be added.
LEMMA FitsWith ==
    ASSUME NEW kinds, NEW p, NEW max, FitProps(kinds, p, max), NEW id \in DOMAIN kinds, id # UserProperty,
           NEW v, Fits(kinds[id], v, max)
    PROVE  FitProps(kinds, With(p, id, v), max)
<1>1. PICK q : q = With(p, id, v)
  OBVIOUS
<1>2. IsWith(q, p, id, v)
  BY <1>1, WithIs, Zenon
<1>3. PropsFit(kinds, p, max, max)
  BY FitPropsIs, Zenon
<1>4. IsFcn(q) /\ DOMAIN q \subseteq DOMAIN kinds
  BY <1>2, <1>3, Zenon DEF IsWith, PropsFit
<1>5. ASSUME NEW x \in DOMAIN q
      PROVE  IF x = UserProperty
             THEN q[x] \in Seq(Texts(max) \X Texts(max)) /\ Len(q[x]) \in 1 .. max
             ELSE Fits(kinds[x], q[x], max)
  <2>1. CASE x = id
    BY <1>2, <2>1, Zenon DEF IsWith
  <2>2. CASE x # id
    <3>1. x \in DOMAIN p /\ q[x] = p[x]
      BY <1>2, <2>2, Zenon DEF IsWith
    <3> QED
      BY <1>3, <3>1, Zenon DEF PropsFit
  <2> QED
    BY <2>1, <2>2, Zenon
<1>6. PropsFit(kinds, q, max, max)
  BY <1>4, <1>5, Zenon DEF PropsFit
<1> QED
  BY <1>1, <1>6, FitPropsIs, Zenon

\* Some properties, as those of another packet.
LEMMA FitsOnly ==
    ASSUME NEW kinds, SameKinds(kinds), NEW others, SameKinds(others), NEW p, NEW max, FitProps(kinds, p, max),
           NEW S, S \subseteq DOMAIN others
    PROVE  FitProps(others, Only(p, S), max)
<1>1. PICK q : q = Only(p, S)
  OBVIOUS
<1>2. IsFcn(q) /\ DOMAIN q = DOMAIN p \cap S /\ \A x \in DOMAIN q : q[x] = p[x]
  BY <1>1, Zenon DEF Only, IsFcn
<1>3. PropsFit(kinds, p, max, max)
  BY FitPropsIs, Zenon
<1>4. ASSUME NEW x \in DOMAIN q
      PROVE  IF x = UserProperty
             THEN q[x] \in Seq(Texts(max) \X Texts(max)) /\ Len(q[x]) \in 1 .. max
             ELSE Fits(others[x], q[x], max)
  <2>1. x \in DOMAIN p /\ q[x] = p[x] /\ x \in DOMAIN others
    BY <1>2, Zenon
  <2>2. x \in DOMAIN kinds
    BY <1>3, <2>1, Zenon DEF PropsFit
  <2>3. kinds[x] = others[x]
    BY <2>1, <2>2, Zenon DEF SameKinds
  <2> QED
    BY <1>3, <2>1, <2>3, Zenon DEF PropsFit
<1>5. DOMAIN q \subseteq DOMAIN others
  BY <1>2, Zenon
<1>6. PropsFit(others, q, max, max)
  BY <1>2, <1>4, <1>5, Zenon DEF PropsFit
<1> QED
  BY <1>1, <1>6, FitPropsIs, Zenon

\* The id that is given to a client is a text.
LEMMA RawClidIs ==
    RawClid \in Texts(MaxCap) /\ Len(RawClid) = 8
<1>1. /\ 114 \in Ascii /\ 97 \in Ascii /\ 119 \in Ascii /\ 95 \in Ascii /\ 99 \in Ascii /\ 108 \in Ascii
      /\ 105 \in Ascii /\ 100 \in Ascii
  BY AsciiIs
<1>2. RawClid \in Seq(Ascii) /\ Len(RawClid) = 8
  BY <1>1 DEF RawClid
<1>3. 8 <= MaxCap
  BY DEF MaxCap
<1> QED
  BY <1>2, <1>3, Zenon DEF Texts

\* The properties of a CONNACK have the types of its properties.
LEMMA CollectFits ==
    ASSUME NEW req, GotConnect(req, MaxCap)
    PROVE  FitProps(ConnackKinds, Collect(req), MaxCap)
<1>1. DOMAIN ConnackKinds = {17, 18, 19, 21, 22, 26, 28, 31, 33, 34, 36, 37, 38, 39, 40, 41, 42}
  BY Zenon DEF ConnackKinds
<1>2. {33, 34, 38, 39} \subseteq DOMAIN ConnackKinds /\ 17 \in DOMAIN ConnackKinds /\ 36 \in DOMAIN ConnackKinds
      /\ 19 \in DOMAIN ConnackKinds /\ 18 \in DOMAIN ConnackKinds
  BY <1>1
<1>3. /\ ConnackKinds[17] = "u32" /\ ConnackKinds[36] = "u8" /\ ConnackKinds[19] = "u16" /\ ConnackKinds[18] = "str"
      /\ SameKinds(ConnackKinds) /\ SameKinds(ConnectKinds) /\ KindsOK(ConnackKinds)
  BY <1>2, KindValues, TablesOK, Zenon DEF SameKinds
<1>4. 17 # UserProperty /\ 36 # UserProperty /\ 19 # UserProperty /\ 18 # UserProperty
  BY DEF UserProperty
<1>5. PICK p0 : p0 = Only(req.props, {33, 34, 38, 39})
  OBVIOUS
<1>6. FitProps(ConnackKinds, p0, MaxCap)
  <2>1. FitProps(ConnectKinds, req.props, MaxCap)
    BY Zenon DEF GotConnect
  <2> QED
    BY <1>2, <1>3, <1>5, <2>1, FitsOnly, Zenon
<1>7. PICK p1 : p1 = With(p0, 17, Expiry(req))
  OBVIOUS
<1>8. PICK p2 : p2 = With(p1, 36, 2)
  OBVIOUS
<1>9. PICK p3 : p3 = With(p2, 19, req.ka)
  OBVIOUS
<1>10. FitProps(ConnackKinds, p1, MaxCap)
  <2>1. Expiry(req) \in Seq(Byte) /\ Len(Expiry(req)) = 4
    BY LimitsOk, Zenon
  <2>2. Fits("u32", Expiry(req), MaxCap)
    BY <2>1 DEF Fits
  <2> QED
    BY <1>2, <1>3, <1>4, <1>6, <1>7, <2>2, FitsWith, Zenon
<1>11. FitProps(ConnackKinds, p2, MaxCap)
  <2>1. 2 \in Byte
    BY SomeBytes
  <2>2. Fits("u8", 2, MaxCap)
    BY <2>1 DEF Fits
  <2> QED
    BY <1>2, <1>3, <1>4, <1>8, <1>10, <2>2, FitsWith, Zenon
<1>12. FitProps(ConnackKinds, p3, MaxCap)
  <2>1. U16(req.ka)
    BY Zenon DEF GotConnect
  <2>2. Fits("u16", req.ka, MaxCap)
    BY <2>1 DEF Fits
  <2> QED
    BY <1>2, <1>3, <1>4, <1>9, <1>11, <2>2, FitsWith, Zenon
<1>13. FitProps(ConnackKinds, With(p3, 18, RawClid), MaxCap)
  <2>2. Fits("str", RawClid, MaxCap)
    BY RawClidIs DEF Fits
  <2> QED
    BY <1>2, <1>3, <1>4, <1>12, <2>2, FitsWith, Zenon
<1>14. Collect(req) = IF req.clid = <<>> THEN With(p3, 18, RawClid) ELSE p3
  BY <1>5, <1>7, <1>8, <1>9, Zenon DEF Collect
<1> QED
  BY <1>12, <1>13, <1>14, Zenon

\* The recursion of Sum.
SumStep(s, g, n) == IF n = 0 THEN 0 ELSE g[n - 1] + s[n]
IsSum(s, g) == g = [n \in 0 .. Len(s) |-> SumStep(s, g, n)]

\* Sum is the function that the recursion defines.
LEMMA SumIs ==
    ASSUME NEW s
    PROVE  Sum(s) = (CHOOSE g : IsSum(s, g))[Len(s)]
BY Zenon DEF Sum, IsSum, SumStep

\* The lengths of sequences that follow one another add up.
LEMMA SumLen ==
    ASSUME NEW t \in Seq(Seq(Byte)), NEW s, Len(s) = Len(t), \A k \in 1 .. Len(t) : s[k] = Len(t[k])
    PROVE  Sum(s) = Len(FlattenSeq(t))
<1>1. PICK l \in Nat : l = Len(t) /\ l = Len(s)
  BY LenProperties, Zenon
<1> DEFINE F(n) == Len(Flat(t, n))
           g0 == [n \in 0 .. l |-> F(n)]
<1>2. F(0) = 0
  <2>1. Flat(t, 0) = <<>>
    BY FlatIs, Zenon
  <2> QED
    BY <2>1, EmptySeq, Zenon
<1>3. ASSUME NEW n \in Nat, n < l
      PROVE  F(n + 1) = F(n) + s[n + 1]
  <2>1. n \in 0 .. l /\ n \in 0 .. l - 1 /\ n + 1 \in 1 .. l
    BY <1>3
  <2>2. Flat(t, n) \in Seq(Byte) /\ Flat(t, n + 1) = Flat(t, n) \o t[n + 1]
    BY <1>1, <2>1, FlatIs, Zenon
  <2>3. t[n + 1] \in Seq(Byte) /\ s[n + 1] = Len(t[n + 1])
    BY <1>1, <2>1, ElementOfSeq, Zenon
  <2>4. Len(Flat(t, n) \o t[n + 1]) = Len(Flat(t, n)) + Len(t[n + 1])
    BY <2>2, <2>3, Joined, Zenon
  <2> QED
    BY <2>2, <2>3, <2>4, Zenon
<1> HIDE DEF F
<1>4. IsSum(s, g0)
  <2>1. ASSUME NEW n \in 0 .. l
        PROVE  F(n) = SumStep(s, g0, n)
    <3>1. CASE n = 0
      BY <1>2, <3>1, Zenon DEF SumStep
    <3>2. CASE n # 0
      <4>1. n - 1 \in Nat /\ n - 1 < l /\ (n - 1) + 1 = n /\ n - 1 \in 0 .. l
        BY <3>2
      <4>2. F(n) = F(n - 1) + s[n]
        BY <1>3, <4>1, Zenon
      <4>3. g0[n - 1] = F(n - 1)
        BY <4>1, Zenon
      <4> QED
        BY <3>2, <4>2, <4>3, Zenon DEF SumStep
    <3> QED
      BY <3>1, <3>2, Zenon
  <2> QED
    BY <1>1, <2>1, Zenon DEF IsSum
<1>5. PICK h : h = (CHOOSE g : IsSum(s, g)) /\ IsSum(s, h)
  BY <1>4, Zenon
<1>6. \A n \in 0 .. l : h[n] = SumStep(s, h, n)
  BY <1>1, <1>5, Zenon DEF IsSum
<1> DEFINE S == {n \in Nat : n <= l => h[n] = F(n)}
<1>7. 0 \in S
  <2>1. 0 \in 0 .. l
    OBVIOUS
  <2>2. h[0] = 0
    BY <1>6, <2>1, Zenon DEF SumStep
  <2> QED
    BY <1>2, <2>2
<1>8. ASSUME NEW n \in Nat, n \in S PROVE n + 1 \in S
  <2>1. n + 1 \in Nat
    OBVIOUS
  <2>2. ASSUME n + 1 <= l PROVE h[n + 1] = F(n + 1)
    <3>1. n < l /\ n <= l /\ n + 1 \in 0 .. l /\ n + 1 # 0 /\ (n + 1) - 1 = n
      BY <2>2
    <3>2. h[n + 1] = h[n] + s[n + 1]
      BY <1>6, <3>1, Zenon DEF SumStep
    <3>3. h[n] = F(n)
      BY <1>8, <3>1, Zenon
    <3> QED
      BY <1>3, <3>1, <3>2, <3>3, Zenon
  <2> QED
    BY <2>1, <2>2, Zenon
<1>9. l \in S
  <2>1. Nat \subseteq S
    BY <1>7, <1>8, NatSetInduction, Zenon
  <2> QED
    BY <2>1, Zenon
<1>10. h[l] = F(l)
  <2>1. l <= l
    OBVIOUS
  <2> QED
    BY <1>9, <2>1, Zenon
<1>11. Sum(s) = h[l]
  BY <1>1, <1>5, SumIs, Zenon
<1>12. FlattenSeq(t) = Flat(t, l)
  BY <1>1, FlatIs, Zenon
<1> QED
  BY <1>10, <1>11, <1>12, Zenon DEF F

\* Four sequences that follow one another.
LEMMA FlatFour ==
    ASSUME NEW s \in Seq(Seq(Byte)), Len(s) = 4
    PROVE  Len(FlattenSeq(s)) = Len(s[1]) + Len(s[2]) + Len(s[3]) + Len(s[4])
<1>1. FlattenSeq(s) = Flat(s, 4) /\ Flat(s, 0) = <<>>
  BY FlatIs, Zenon
<1>2. ASSUME NEW n \in {0, 1, 2, 3}
      PROVE  Len(Flat(s, n + 1)) = Len(Flat(s, n)) + Len(s[n + 1])
  <2>1. n \in 0 .. 4 /\ n \in 0 .. 4 - 1 /\ n + 1 \in 1 .. 4
    OBVIOUS
  <2>2. Flat(s, n) \in Seq(Byte) /\ Flat(s, n + 1) = Flat(s, n) \o s[n + 1]
    BY <2>1, FlatIs, Zenon
  <2>3. s[n + 1] \in Seq(Byte)
    BY <2>1, ElementOfSeq, Zenon
  <2> QED
    BY <2>2, <2>3, Joined, Zenon
<1>3. 0 + 1 = 1 /\ 1 + 1 = 2 /\ 2 + 1 = 3 /\ 3 + 1 = 4
  OBVIOUS
<1>4. Len(Flat(s, 1)) = Len(Flat(s, 0)) + Len(s[1]) /\ Len(Flat(s, 2)) = Len(Flat(s, 1)) + Len(s[2])
      /\ Len(Flat(s, 3)) = Len(Flat(s, 2)) + Len(s[3]) /\ Len(Flat(s, 4)) = Len(Flat(s, 3)) + Len(s[4])
  <2>1. /\ Len(Flat(s, 0 + 1)) = Len(Flat(s, 0)) + Len(s[0 + 1])
        /\ Len(Flat(s, 1 + 1)) = Len(Flat(s, 1)) + Len(s[1 + 1])
        /\ Len(Flat(s, 2 + 1)) = Len(Flat(s, 2)) + Len(s[2 + 1])
        /\ Len(Flat(s, 3 + 1)) = Len(Flat(s, 3)) + Len(s[3 + 1])
    BY <1>2, Zenon
  <2> QED
    BY <1>3, <2>1, Zenon
<1>5. Len(Flat(s, 0)) = 0
  BY <1>1, EmptySeq, Zenon
<1>6. PICK a \in Nat : a = Len(s[1])
  <2>1. s[1] \in Seq(Byte)
    <3>1. 1 \in 1 .. 4
      OBVIOUS
    <3> QED
      BY <3>1, ElementOfSeq, Zenon
  <2> QED
    BY <2>1, LenProperties, Zenon
<1>7. 0 + a = a
  OBVIOUS
<1> QED
  BY <1>1, <1>4, <1>5, <1>6, <1>7, Zenon

\* The length of a property.
LEMMA PropertyLen ==
    ASSUME NEW max \in Nat, U16(max), NEW id \in Byte
    PROVE  /\ \A v \in Byte : Len(PutProperty("u8", id, v)) = 2
           /\ \A v \in Seq(Byte) : Len(v) = 4 => Len(PutProperty("u32", id, v)) = 5
           /\ \A v \in Texts(max) : Len(PutProperty("str", id, v)) = 3 + Len(v)
           /\ \A v \in Texts(max) \X Texts(max) :
                 Len(PutProperty("pair", id, v)) = 5 + Len(v[1]) + Len(v[2])
<1>1. PICK h \in Seq(Byte) : h = <<id>> /\ Len(h) = 1
  <2>1. <<id>> \in Seq(Byte) /\ Len(<<id>>) = 1
    OBVIOUS
  <2> QED
    BY <2>1, Zenon
<1>2. ASSUME NEW kind, NEW v, PutField(kind, v) \in Seq(Byte)
      PROVE  Len(PutProperty(kind, id, v)) = 1 + Len(PutField(kind, v))
  BY <1>1, <1>2, Joined, Zenon DEF PutProperty
<1>3. ASSUME NEW v \in Byte PROVE Len(PutProperty("u8", id, v)) = 2
  <2>1. <<v>> \in Seq(Byte) /\ Len(<<v>>) = 1
    OBVIOUS
  <2>2. PutField("u8", v) = <<v>>
    BY PutFieldIs, Zenon
  <2>3. Len(PutProperty("u8", id, v)) = 1 + 1
    BY <1>2, <2>1, <2>2, Zenon
  <2>4. 1 + 1 = 2
    OBVIOUS
  <2> QED
    BY <2>3, <2>4, Zenon
<1>4. ASSUME NEW v \in Seq(Byte), Len(v) = 4 PROVE Len(PutProperty("u32", id, v)) = 5
  <2>2. PutField("u32", v) = v
    BY PutFieldIs, Zenon
  <2>3. Len(PutProperty("u32", id, v)) = 1 + 4
    BY <1>2, <1>4, <2>2, Zenon
  <2>4. 1 + 4 = 5
    OBVIOUS
  <2> QED
    BY <2>3, <2>4, Zenon
<1>5. ASSUME NEW v \in Texts(max)
      PROVE  /\ PutStr(v) \in Seq(Byte) /\ Len(PutStr(v)) = 2 + Len(v) /\ Len(v) \in Nat
  <2>1. v \in Blobs(max) /\ v \in Seq(Ascii)
    BY TextIs, Zenon
  <2> QED
    BY <2>1, TextIs, LenProperties, Zenon
<1>6. ASSUME NEW v \in Texts(max) PROVE Len(PutProperty("str", id, v)) = 3 + Len(v)
  <2>1. PutField("str", v) = PutStr(v)
    BY PutFieldIs, Zenon
  <2>2. Len(PutProperty("str", id, v)) = 1 + (2 + Len(v))
    BY <1>2, <1>5, <2>1, Zenon
  <2>3. \A n \in Nat : 1 + (2 + n) = 3 + n
    OBVIOUS
  <2> QED
    BY <1>5, <2>2, <2>3, Zenon
<1>7. ASSUME NEW v \in Texts(max) \X Texts(max)
      PROVE  Len(PutProperty("pair", id, v)) = 5 + Len(v[1]) + Len(v[2])
  <2>1. v[1] \in Texts(max) /\ v[2] \in Texts(max)
    BY PairIs, Zenon
  <2>2. PICK x, y : x = v[1] /\ y = v[2]
    OBVIOUS
  <2>3. PutStr(x) \in Seq(Byte) /\ PutStr(y) \in Seq(Byte) /\ Len(PutStr(x)) = 2 + Len(x)
        /\ Len(PutStr(y)) = 2 + Len(y) /\ Len(x) \in Nat /\ Len(y) \in Nat
    BY <1>5, <2>1, <2>2, Zenon
  <2>4. PutField("pair", v) = PutStr(x) \o PutStr(y)
    BY <2>2, PutFieldIs, Zenon
  <2>5. PutStr(x) \o PutStr(y) \in Seq(Byte) /\ Len(PutStr(x) \o PutStr(y)) = (2 + Len(x)) + (2 + Len(y))
    BY <2>3, Joined, Zenon
  <2>6. Len(PutProperty("pair", id, v)) = 1 + ((2 + Len(x)) + (2 + Len(y)))
    BY <1>2, <2>4, <2>5, Zenon
  <2>7. \A m, n \in Nat : 1 + ((2 + m) + (2 + n)) = 5 + m + n
    OBVIOUS
  <2>8. Len(PutProperty("pair", id, v)) = 5 + Len(x) + Len(y)
    BY <2>3, <2>6, <2>7, Zenon
  <2> QED
    BY <2>2, <2>8, Zenon
<1> QED
  BY <1>3, <1>4, <1>6, <1>7, Zenon

\* The orders are sequences of bytes.
LEMMA OrdersOK ==
    /\ PublishOrder \in Seq(Byte) /\ Len(PublishOrder) = 4
    /\ ConnackOrder \in Seq(Byte) /\ Len(ConnackOrder) = 17
    /\ ClientOrder \in Seq(Byte) /\ Len(ClientOrder) = 16
<1>1. PublishOrder \in Seq(Nat) /\ Len(PublishOrder) = 4 /\ \A k \in 1 .. 4 : PublishOrder[k] < 256
  BY DEF PublishOrder
<1>2. ConnackOrder \in Seq(Nat) /\ Len(ConnackOrder) = 17 /\ \A k \in 1 .. 17 : ConnackOrder[k] < 256
  BY DEF ConnackOrder
<1>3. ClientOrder \in Seq(Nat) /\ Len(ClientOrder) = 16 /\ \A k \in 1 .. 16 : ClientOrder[k] < 256
  BY DEF ClientOrder
<1>4. ASSUME NEW s \in Seq(Nat), NEW n \in Nat, Len(s) = n, \A k \in 1 .. n : s[k] < 256
      PROVE  s \in Seq(Byte)
  <2>1. DOMAIN s = 1 .. n /\ s = [k \in 1 .. n |-> s[k]]
    BY <1>4, LenProperties
  <2>2. \A k \in 1 .. n : s[k] \in Byte
    BY <1>4, ByteIs
  <2> QED
    BY <2>1, <2>2, FcnSeq, Zenon DEF IsFcn
<1>5. 4 \in Nat /\ 16 \in Nat /\ 17 \in Nat
  OBVIOUS
<1> QED
  BY <1>1, <1>2, <1>3, <1>4, <1>5, ZenonT(60)

\* est_len is the number of bytes that Properties::encode writes.
LEMMA EstLenIs ==
    ASSUME NEW max \in Nat, U16(max), NEW p, FitProps(PublishKinds, p, max)
    PROVE  EstLen(p) = Len(PutProperties(PublishOrder, PublishKinds, p))
<1>1. PICK s : s = Parts(PublishOrder, PublishKinds, p)
  OBVIOUS
<1>2. TableOK(PublishKinds) /\ SameKinds(PublishKinds)
  BY ByteTables, TablesOK, Zenon
<1>2a. /\ PublishKinds[1] = "u8" /\ PublishKinds[2] = "u32" /\ PublishKinds[3] = "str"
       /\ PublishKinds[38] = "pair"
  <2>1. 1 \in DOMAIN PublishKinds /\ 2 \in DOMAIN PublishKinds /\ 3 \in DOMAIN PublishKinds
        /\ 38 \in DOMAIN PublishKinds
    BY DEF PublishKinds
  <2> QED
    BY <1>2, <2>1, KindValues, Zenon DEF SameKinds
<1>3. /\ Parts(PublishOrder, PublishKinds, p) \in Seq(Seq(Byte))
      /\ Len(Parts(PublishOrder, PublishKinds, p)) = Len(PublishOrder)
      /\ PutProperties(PublishOrder, PublishKinds, p) = FlattenSeq(Parts(PublishOrder, PublishKinds, p))
  BY <1>2, OrdersOK, PartsIs
<1>4. s \in Seq(Seq(Byte)) /\ Len(s) = 4 /\ PutProperties(PublishOrder, PublishKinds, p) = FlattenSeq(s)
  BY <1>1, <1>3, OrdersOK, Zenon
<1>5. \A k \in 1 .. 4 : IsPut(PublishKinds, s[k], p, PublishOrder[k])
  BY <1>1, <1>2, OrdersOK, PartsIs, Zenon
<1>6. /\ IsPut(PublishKinds, s[1], p, 1) /\ IsPut(PublishKinds, s[2], p, 2)
      /\ IsPut(PublishKinds, s[3], p, 3) /\ IsPut(PublishKinds, s[4], p, 38)
  <2>1. PublishOrder[1] = 1 /\ PublishOrder[2] = 2 /\ PublishOrder[3] = 3 /\ PublishOrder[4] = 38
    BY DEF PublishOrder
  <2>2. 1 \in 1 .. 4 /\ 2 \in 1 .. 4 /\ 3 \in 1 .. 4 /\ 4 \in 1 .. 4
    OBVIOUS
  <2> QED
    BY <1>5, <2>1, <2>2, Zenon
<1>7. 1 # UserProperty /\ 2 # UserProperty /\ 3 # UserProperty /\ 38 = UserProperty
  BY DEF UserProperty
<1>8. 1 \in Byte /\ 2 \in Byte /\ 3 \in Byte /\ 38 \in Byte
  BY ByteIs
<1>9. Len(<<>>) = 0
  BY EmptySeq, Zenon
<1>10. Len(s[1]) = IF 1 \in DOMAIN p THEN 2 ELSE 0
  <2>1. CASE 1 \notin DOMAIN p
    <3>1. s[1] = <<>>
      BY <1>6, <2>1, Zenon DEF IsPut
    <3>2. Len(s[1]) = 0
      BY <1>9, <3>1, Zenon
    <3> QED
      BY <2>1, <3>2, Zenon
  <2>2. CASE 1 \in DOMAIN p
    <3>1. Fits(KindOf(1), p[1], max)
      BY <1>2, <1>7, <2>2, KindFits, Zenon
    <3>2. p[1] \in Byte
      BY <3>1, KindValues, Zenon DEF Fits
    <3>3. s[1] = PutProperty("u8", 1, p[1])
      BY <1>2a, <1>6, <1>7, <2>2, Zenon DEF IsPut
    <3>4. Len(PutProperty("u8", 1, p[1])) = 2
      BY <1>8, <3>2, PropertyLen
    <3> QED
      BY <2>2, <3>3, <3>4, Zenon
  <2> QED
    BY <2>1, <2>2, Zenon
<1>11. Len(s[2]) = IF 2 \in DOMAIN p THEN 5 ELSE 0
  <2>1. CASE 2 \notin DOMAIN p
    <3>1. s[2] = <<>>
      BY <1>6, <2>1, Zenon DEF IsPut
    <3>2. Len(s[2]) = 0
      BY <1>9, <3>1, Zenon
    <3> QED
      BY <2>1, <3>2, Zenon
  <2>2. CASE 2 \in DOMAIN p
    <3>1. Fits(KindOf(2), p[2], max)
      BY <1>2, <1>7, <2>2, KindFits, Zenon
    <3>2. p[2] \in Seq(Byte) /\ Len(p[2]) = 4
      BY <3>1, KindValues, Zenon DEF Fits
    <3>3. s[2] = PutProperty("u32", 2, p[2])
      BY <1>2a, <1>6, <1>7, <2>2, Zenon DEF IsPut
    <3>4. Len(PutProperty("u32", 2, p[2])) = 5
      BY <1>8, <3>2, PropertyLen
    <3> QED
      BY <2>2, <3>3, <3>4, Zenon
  <2> QED
    BY <2>1, <2>2, Zenon
<1>12. Len(s[3]) = IF 3 \in DOMAIN p THEN 3 + Len(p[3]) ELSE 0
  <2>1. CASE 3 \notin DOMAIN p
    <3>1. s[3] = <<>>
      BY <1>6, <2>1, Zenon DEF IsPut
    <3>2. Len(s[3]) = 0
      BY <1>9, <3>1, Zenon
    <3> QED
      BY <2>1, <3>2, Zenon
  <2>2. CASE 3 \in DOMAIN p
    <3>1. Fits(KindOf(3), p[3], max)
      BY <1>2, <1>7, <2>2, KindFits, Zenon
    <3>2. p[3] \in Texts(max)
      BY <3>1, KindValues, Zenon DEF Fits
    <3>3. s[3] = PutProperty("str", 3, p[3])
      BY <1>2a, <1>6, <1>7, <2>2, Zenon DEF IsPut
    <3>4. Len(PutProperty("str", 3, p[3])) = 3 + Len(p[3])
      BY <1>8, <3>2, PropertyLen
    <3> QED
      BY <2>2, <3>3, <3>4, Zenon
  <2> QED
    BY <2>1, <2>2, Zenon
<1>13. Len(s[4]) = IF 38 \in DOMAIN p
                   THEN Sum([n \in DOMAIN p[38] |-> 5 + Len(p[38][n][1]) + Len(p[38][n][2])]) ELSE 0
  <2>1. CASE 38 \notin DOMAIN p
    <3>1. s[4] = <<>>
      BY <1>6, <2>1, Zenon DEF IsPut
    <3>2. Len(s[4]) = 0
      BY <1>9, <3>1, Zenon
    <3> QED
      BY <2>1, <3>2, Zenon
  <2>2. CASE 38 \in DOMAIN p
    <3>1. PICK u : u = p[38]
      OBVIOUS
    <3>2. u \in Seq(Texts(max) \X Texts(max))
      BY <1>2, <1>7, <2>2, <3>1, KindFits, Zenon
    <3>3. PICK t : t = UserParts("pair", u)
      OBVIOUS
    <3>4. s[4] = FlattenSeq(t)
      BY <1>6, <1>7, <2>2, <3>1, <3>3, Zenon DEF IsPut
    <3>5. /\ t \in Seq(Seq(Byte)) /\ Len(t) = Len(u)
          /\ \A k \in 1 .. Len(u) : t[k] = PutProperty("pair", UserProperty, u[k])
      BY <3>2, <3>3, UserBytes, Zenon
    <3>6. PICK l \in Nat : l = Len(u) /\ DOMAIN u = 1 .. l
      BY <3>2, LenProperties, Zenon
    <3>7. PICK v : v = [n \in DOMAIN u |-> 5 + Len(u[n][1]) + Len(u[n][2])]
      OBVIOUS
    <3>8. \A k \in 1 .. l : v[k] = Len(t[k])
      <4>1. ASSUME NEW k \in 1 .. l PROVE v[k] = Len(t[k])
        <5>1. u[k] \in Texts(max) \X Texts(max)
          BY <3>2, <3>6, ElementOfSeq, Zenon
        <5>2. Len(PutProperty("pair", 38, u[k])) = 5 + Len(u[k][1]) + Len(u[k][2])
          BY <1>8, <5>1, PropertyLen, Zenon
        <5>3. v[k] = 5 + Len(u[k][1]) + Len(u[k][2])
          BY <3>6, <3>7, Zenon
        <5> QED
          BY <1>7, <3>5, <3>6, <5>2, <5>3, Zenon
      <4> QED
        BY <4>1, Zenon
    <3>9. Len(v) = l
      <4>1. DOMAIN v = 1 .. l /\ IsFcn(v)
        BY <3>6, <3>7, Zenon DEF IsFcn
      <4>2. \A k \in 1 .. l : v[k] \in {v[n] : n \in 1 .. l}
        BY Zenon
      <4> QED
        BY <4>1, <4>2, FcnSeq, Zenon
    <3>10. Sum(v) = Len(FlattenSeq(t))
      BY <3>5, <3>6, <3>8, <3>9, SumLen, Zenon
    <3> QED
      BY <2>2, <3>1, <3>4, <3>7, <3>10, Zenon
  <2> QED
    BY <2>1, <2>2, Zenon
<1>14. Len(FlattenSeq(s)) = Len(s[1]) + Len(s[2]) + Len(s[3]) + Len(s[4])
  BY <1>4, FlatFour, Zenon
<1> QED
  BY <1>4, <1>10, <1>11, <1>12, <1>13, <1>14, Zenon DEF EstLen

\* The parts of a PUBLISH that is forwarded.
PropPart(m) ==
    IF m.props = None THEN << 0 >>
    ELSE EncodeLength(EstLen(m.props)) \o PutProperties(PublishOrder, PublishKinds, m.props)
IdPart(m) == IF m.id # None THEN PutU16(m.id[1]) ELSE <<>>
PubHeader(m) == 48 + 2 * m.qos + (IF m.retain THEN 1 ELSE 0)
PubRest(m) == PutStr(m.topic) \o IdPart(m) \o PropPart(m) \o m.payload
PubLen(m) == 2 + Len(m.topic) + Len(PropPart(m)) + Len(m.payload) + (IF m.id # None THEN 2 ELSE 0)

\* The bound on strings is a u16.
LEMMA CapIs ==
    MaxCap \in Nat /\ U16(MaxCap) /\ MaxCap <= MaxCap /\ PropsMax \in Nat /\ PropsMax + 100 <= MaxEncodable
BY MaxIs, SMT DEF MaxCap, U16, PropsMax

\* Its properties are bytes.
LEMMA PropPartBytes ==
    ASSUME NEW m, GotPublish(m, MaxCap)
    PROVE  PropPart(m) \in Seq(Byte) /\ Len(PropPart(m)) <= PropsMax + 4
<1>1. CASE m.props = None
  <2>1. 0 \in Byte
    BY SomeBytes
  <2>2. << 0 >> \in Seq(Byte) /\ Len(<< 0 >>) = 1
    BY <2>1
  <2>3. 1 <= PropsMax + 4
    BY CapIs
  <2>4. PropPart(m) = << 0 >>
    BY <1>1, Zenon DEF PropPart
  <2> QED
    BY <2>2, <2>3, <2>4, Zenon
<1>2. CASE m.props # None
  <2>1. PICK s : s = PutProperties(PublishOrder, PublishKinds, m.props)
    OBVIOUS
  <2>2. FitProps(PublishKinds, m.props, MaxCap) /\ TableOK(PublishKinds)
    BY ByteTables, Zenon DEF GotPublish
  <2>3. s \in Seq(Byte) /\ Len(s) <= PropsMax
    <3>1. PutProperties(PublishOrder, PublishKinds, m.props) \in Seq(Byte)
      BY <2>2, CapIs, OrdersOK, PutPropertiesBytes, Zenon
    <3>2. Len(PublishOrder) <= 17
      BY OrdersOK
    <3>3. Len(PutProperties(PublishOrder, PublishKinds, m.props)) <= PropsMax
      BY <2>2, <3>2, CapIs, OrdersOK, PutPropertiesBytes, Zenon
    <3> QED
      BY <2>1, <3>1, <3>3, Zenon
  <2>4. EstLen(m.props) = Len(s)
    BY <2>1, <2>2, CapIs, EstLenIs, Zenon
  <2>5. PICK n \in Nat : n = Len(s) /\ n <= PropsMax
    BY <2>3, LenProperties, Zenon
  <2>6. n \in 0 .. MaxEncodable
    BY <2>5, CapIs, MaxIs
  <2>7. EncodeLength(n) \in Seq(Byte) /\ Len(EncodeLength(n)) \in 0 .. 4
    BY <2>6, EncodeLengthBytes, SMT
  <2>8. PICK e \in Seq(Byte) : e = EncodeLength(n) /\ Len(e) \in 0 .. 4
    BY <2>7, Zenon
  <2>9. e \o s \in Seq(Byte) /\ Len(e \o s) = Len(e) + Len(s)
    BY <2>3, Joined, Zenon
  <2>10. \A x \in 0 .. 4 : x + n <= PropsMax + 4
    BY <2>5, CapIs
  <2>11. Len(e \o s) <= PropsMax + 4
    BY <2>5, <2>8, <2>9, <2>10, Zenon
  <2>12. PropPart(m) = e \o s
    BY <1>2, <2>1, <2>4, <2>5, <2>8, Zenon DEF PropPart
  <2> QED
    BY <2>9, <2>11, <2>12, Zenon
<1> QED
  BY <1>1, <1>2, Zenon

\* Its parts are bytes, and as many as the remaining length says.
LEMMA PubParts ==
    ASSUME NEW m, GotPublish(m, MaxCap)
    PROVE  /\ PutStr(m.topic) \in Seq(Byte) /\ IdPart(m) \in Seq(Byte) /\ PropPart(m) \in Seq(Byte)
           /\ m.payload \in Seq(Byte) /\ PubRest(m) \in Seq(Byte) /\ Len(PubRest(m)) = PubLen(m)
           /\ PubLen(m) \in 1 .. MaxEncodable /\ PubLen(m) + 5 <= MaxEncodable /\ PubHeader(m) \in Byte
           /\ Len(PutStr(m.topic)) = 2 + Len(m.topic) /\ Len(m.topic) \in Nat
           /\ Len(IdPart(m)) = IF m.id # None THEN 2 ELSE 0
<1>1. PICK s, i, q, t : s = PutStr(m.topic) /\ i = IdPart(m) /\ q = PropPart(m) /\ t = m.payload
  OBVIOUS
<1>2. q \in Seq(Byte) /\ Len(q) <= PropsMax + 4
  BY <1>1, PropPartBytes, Zenon
<1>3. t \in Seq(Byte) /\ Len(t) <= MaxCap
  BY <1>1, Zenon DEF GotPublish, Blobs
<1>4. m.topic \in Texts(MaxCap)
  BY Zenon DEF GotPublish
<1>5. s \in Seq(Byte) /\ Len(s) = 2 + Len(m.topic) /\ Len(m.topic) \in Nat /\ Len(m.topic) <= MaxCap
  <2>1. m.topic \in Blobs(MaxCap) /\ m.topic \in Seq(Ascii) /\ Len(m.topic) <= MaxCap
    BY <1>4, CapIs, TextIs, Zenon
  <2>2. PutStr(m.topic) \in Seq(Byte) /\ Len(PutStr(m.topic)) = 2 + Len(m.topic)
    BY <2>1, CapIs, TextIs, Zenon
  <2> QED
    BY <1>1, <2>1, <2>2, LenProperties, Zenon
<1>6. i \in Seq(Byte) /\ Len(i) = IF m.id # None THEN 2 ELSE 0
  <2>1. CASE m.id = None
    <3>1. i = <<>>
      BY <1>1, <2>1, Zenon DEF IdPart
    <3> QED
      BY <2>1, <3>1, EmptySeq, Zenon
  <2>2. CASE m.id # None
    <3>1. U16(m.id[1])
      BY <2>2, Zenon DEF GotPublish
    <3>2. i = PutU16(m.id[1])
      BY <1>1, <2>2, Zenon DEF IdPart
    <3>3. PutU16(m.id[1]) \in Seq(Byte) /\ Len(PutU16(m.id[1])) = 2
      BY <3>1, U16Bytes, ZenonT(60)
    <3> QED
      BY <2>2, <3>2, <3>3, Zenon
  <2> QED
    BY <2>1, <2>2, Zenon
<1>7. s \o i \o q \o t \in Seq(Byte) /\ Len(s \o i \o q \o t) = Len(s) + Len(i) + Len(q) + Len(t)
  <2>1. s \in Seq(Byte) /\ i \in Seq(Byte) /\ q \in Seq(Byte) /\ t \in Seq(Byte)
    BY <1>2, <1>3, <1>5, <1>6, Zenon
  <2>2. s \o i \o q \in Seq(Byte) /\ Len(s \o i \o q) = Len(s) + Len(i) + Len(q)
    BY <2>1, Joined3, Zenon
  <2>3. PICK f \in Seq(Byte) : f = s \o i \o q /\ Len(f) = Len(s) + Len(i) + Len(q)
    BY <2>2, Zenon
  <2>4. f \o t \in Seq(Byte) /\ Len(f \o t) = Len(f) + Len(t)
    BY <2>1, Joined, Zenon
  <2> QED
    BY <2>3, <2>4, Zenon
<1>8. PICK a \in Nat, b \in Nat, c \in Nat, d \in Nat :
        a = Len(m.topic) /\ b = Len(i) /\ c = Len(q) /\ d = Len(t)
  BY <1>2, <1>3, <1>5, <1>6, LenProperties, Zenon
<1>9. b <= 2 /\ c <= PropsMax + 4 /\ d <= MaxCap /\ a <= MaxCap
  <2>1. b <= 2
    <3>1. b = IF m.id # None THEN 2 ELSE 0
      BY <1>6, <1>8, Zenon
    <3> QED
      BY <3>1
  <2> QED
    BY <1>2, <1>3, <1>5, <1>8, <2>1, Zenon
<1>10. PubLen(m) = 2 + a + c + d + b
  BY <1>1, <1>6, <1>8, Zenon DEF PubLen
<1>11. Len(PubRest(m)) = (2 + a) + b + c + d
  BY <1>1, <1>5, <1>7, <1>8, Zenon DEF PubRest
<1>12. (2 + a) + b + c + d = 2 + a + c + d + b
  OBVIOUS
<1>13. 2 + a + c + d + b \in 1 .. MaxEncodable /\ (2 + a + c + d + b) + 5 <= MaxEncodable
  BY <1>9, MaxIs, SMT DEF PropsMax, MaxCap
<1>14. PubHeader(m) \in Byte
  <2>1. m.qos \in {0, 1, 2}
    <3>1. \A x : x = 0 \/ x \in {1, 2} => x \in {0, 1, 2}
      OBVIOUS
    <3> QED
      BY <3>1, Zenon DEF GotPublish
  <2>2. 48 + 2 * m.qos + (IF m.retain THEN 1 ELSE 0) \in Nat /\ 48 + 2 * m.qos + (IF m.retain THEN 1 ELSE 0) < 256
    BY <2>1
  <2> QED
    BY <2>2, ByteIs DEF PubHeader
<1>15. PubRest(m) \in Seq(Byte)
  BY <1>1, <1>7, Zenon DEF PubRest
<1> QED
  BY <1>1, <1>2, <1>3, <1>5, <1>6, <1>10, <1>11, <1>12, <1>13, <1>14, <1>15, Zenon

\* A PUBLISH that is forwarded is a packet.
LEMMA PublishFrame ==
    ASSUME NEW m, GotPublish(m, MaxCap)
    PROVE  /\ EncodePublish(m) = <<PubHeader(m)>> \o EncodeLength(PubLen(m)) \o PubRest(m)
           /\ IsFrame(EncodePublish(m))
<1>1. PICK h, n, s, i, q, t : /\ h = PubHeader(m) /\ n = PubLen(m) /\ s = PutStr(m.topic) /\ i = IdPart(m)
                              /\ q = PropPart(m) /\ t = m.payload
  OBVIOUS
<1>2. /\ h \in Byte /\ n \in 1 .. MaxEncodable /\ n + 5 <= MaxEncodable /\ s \in Seq(Byte) /\ i \in Seq(Byte)
      /\ q \in Seq(Byte) /\ t \in Seq(Byte)
  BY <1>1, PubParts, Zenon
<1>3. PICK x \in Seq(Byte) : x = <<h>> \o EncodeLength(n)
  <2>1. n \in 0 .. MaxEncodable
    BY <1>2, MaxIs
  <2>2. EncodeLength(n) \in Seq(Byte)
    BY <2>1, EncodeLengthBytes, SMT
  <2>3. <<h>> \in Seq(Byte)
    BY <1>2
  <2> QED
    BY <2>2, <2>3, Joined, Zenon
<1>4. EncodePublish(m) = x \o s \o i \o q \o t
  BY <1>1, <1>3, ZenonT(60) DEF EncodePublish, PubHeader, PubLen, PropPart, IdPart
<1>5. Group4(x, s, i, q, t)
  BY <1>2, Regroup4, Zenon
<1>6. EncodePublish(m) = x \o PubRest(m)
  BY <1>1, <1>4, <1>5, Zenon DEF Group4, PubRest
<1>7. IsFrame(<<h>> \o EncodeLength(n) \o PubRest(m))
  BY <1>1, <1>2, PubParts, FrameIs, Zenon
<1> QED
  BY <1>1, <1>3, <1>6, <1>7, Zenon

\* The parts of a CONNACK: its properties and their length.
AckProps(p) == PutProperties(ConnackOrder, ConnackKinds, p)
AckLen(p) == Len(AckProps(p)) + 2 + Len(EncodeLength(Len(AckProps(p))))
AckFlags(present) == <<IF present THEN 1 ELSE 0, 0>>
AckRest(present, p) == AckFlags(present) \o EncodeLength(Len(AckProps(p))) \o AckProps(p)

\* They are bytes, and as many as the remaining length says.
LEMMA AckParts ==
    ASSUME NEW p, FitProps(ConnackKinds, p, MaxCap), NEW present \in BOOLEAN
    PROVE  /\ AckProps(p) \in Seq(Byte) /\ Len(AckProps(p)) \in 0 .. MaxEncodable
           /\ EncodeLength(Len(AckProps(p))) \in Seq(Byte) /\ AckFlags(present) \in Seq(Byte)
           /\ Len(AckFlags(present)) = 2 /\ AckRest(present, p) \in Seq(Byte)
           /\ Len(AckRest(present, p)) = AckLen(p)
           /\ AckLen(p) \in 1 .. MaxEncodable /\ AckLen(p) + 5 <= MaxEncodable
<1>1. PICK s : s = AckProps(p)
  OBVIOUS
<1>2. s \in Seq(Byte) /\ Len(s) <= PropsMax
  <2>1. TableOK(ConnackKinds)
    BY ByteTables, Zenon
  <2>2. PutProperties(ConnackOrder, ConnackKinds, p) \in Seq(Byte)
    BY <2>1, CapIs, OrdersOK, PutPropertiesBytes, Zenon
  <2>3. Len(ConnackOrder) <= 17
    BY OrdersOK
  <2>4. Len(PutProperties(ConnackOrder, ConnackKinds, p)) <= PropsMax
    BY <2>1, <2>3, CapIs, OrdersOK, PutPropertiesBytes, Zenon
  <2> QED
    BY <1>1, <2>2, <2>4, Zenon DEF AckProps
<1>3. PICK n \in Nat : n = Len(s) /\ n <= PropsMax
  BY <1>2, LenProperties, Zenon
<1>4. n \in 0 .. MaxEncodable
  BY <1>3, CapIs, MaxIs
<1>5. EncodeLength(n) \in Seq(Byte) /\ Len(EncodeLength(n)) \in 0 .. 4
  BY <1>4, EncodeLengthBytes, SMT
<1>6. PICK e \in Seq(Byte) : e = EncodeLength(n) /\ Len(e) \in 0 .. 4
  BY <1>5, Zenon
<1>7. PICK f \in Seq(Byte) : f = AckFlags(present) /\ Len(f) = 2
  <2>1. PICK x \in Byte : x = IF present THEN 1 ELSE 0
    BY SomeBytes, Zenon
  <2>2. 0 \in Byte
    BY SomeBytes, Zenon
  <2>3. <<x, 0>> \in Seq(Byte) /\ Len(<<x, 0>>) = 2
    BY <2>2
  <2> QED
    BY <2>1, <2>3, Zenon DEF AckFlags
<1>8. f \o e \o s \in Seq(Byte) /\ Len(f \o e \o s) = Len(f) + Len(e) + Len(s)
  BY <1>2, Joined3, Zenon
<1>9. AckRest(present, p) = f \o e \o s
  BY <1>1, <1>3, <1>6, <1>7, Zenon DEF AckRest
<1>10. PICK k \in Nat : k = Len(e) /\ k <= 4
  <2>1. \A x \in 0 .. 4 : x \in Nat /\ x <= 4
    OBVIOUS
  <2> QED
    BY <1>6, <2>1, Zenon
<1>11. AckLen(p) = n + 2 + k
  BY <1>1, <1>3, <1>6, <1>10, Zenon DEF AckLen
<1>12. Len(AckRest(present, p)) = 2 + k + n
  BY <1>3, <1>7, <1>8, <1>9, <1>10, Zenon
<1>13. 2 + k + n = n + 2 + k
  OBVIOUS
<1>14. n + 2 + k \in 1 .. MaxEncodable /\ (n + 2 + k) + 5 <= MaxEncodable
  BY <1>3, <1>10, CapIs, MaxIs
<1> QED
  BY <1>1, <1>2, <1>3, <1>4, <1>6, <1>7, <1>8, <1>9, <1>11, <1>12, <1>13, <1>14, Zenon

\* A CONNACK is a packet.
LEMMA ConnackFrame ==
    ASSUME NEW p, FitProps(ConnackKinds, p, MaxCap), NEW present \in BOOLEAN
    PROVE  /\ EncodeConnack(present, p) = << 32 >> \o EncodeLength(AckLen(p)) \o AckRest(present, p)
           /\ IsFrame(EncodeConnack(present, p))
<1>1. PICK n, s, e, f : n = AckLen(p) /\ s = AckProps(p) /\ e = EncodeLength(Len(AckProps(p))) /\ f = AckFlags(present)
  OBVIOUS
<1>2. /\ n \in 1 .. MaxEncodable /\ n + 5 <= MaxEncodable /\ s \in Seq(Byte) /\ e \in Seq(Byte)
      /\ f \in Seq(Byte)
  BY <1>1, AckParts, Zenon
<1>3. PICK x \in Seq(Byte) : x = << 32 >> \o EncodeLength(n)
  <2>1. n \in 0 .. MaxEncodable
    BY <1>2, MaxIs
  <2>2. EncodeLength(n) \in Seq(Byte)
    BY <2>1, EncodeLengthBytes, SMT
  <2>3. 32 \in Byte
    BY SomeBytes, Zenon
  <2>4. << 32 >> \in Seq(Byte)
    BY <2>3
  <2> QED
    BY <2>2, <2>4, Joined, Zenon
<1>4. EncodeConnack(present, p) = x \o f \o e \o s
  BY <1>1, <1>3, Zenon DEF EncodeConnack, AckLen, AckProps, AckFlags
<1>5. Group3(x, f, e, s)
  BY <1>2, Regroup3, Zenon
<1>6. EncodeConnack(present, p) = x \o AckRest(present, p)
  BY <1>1, <1>4, <1>5, Zenon DEF Group3, AckRest
<1>7. IsFrame(<< 32 >> \o EncodeLength(n) \o AckRest(present, p))
  <2>1. 32 \in Byte
    BY SomeBytes, Zenon
  <2> QED
    BY <1>1, <1>2, <2>1, AckParts, FrameIs, Zenon
<1> QED
  BY <1>1, <1>3, <1>6, <1>7, Zenon

\* The service levels of a SUBACK are bytes.
LEMMA CodesOK ==
    ASSUME NEW p, GotSubscribe(p, MaxCap)
    PROVE  /\ [n \in DOMAIN p.list |-> p.list[n][2]] \in Seq(Byte)
           /\ Len([n \in DOMAIN p.list |-> p.list[n][2]]) <= MaxCap
<1>1. PICK s : s = p.list
  OBVIOUS
<1>2. s \in Seq(Chosen(MaxCap)) /\ Len(s) <= MaxCap
  BY <1>1, Zenon DEF GotSubscribe
<1>3. PICK l \in Nat : l = Len(s) /\ DOMAIN s = 1 .. l
  BY <1>2, LenProperties, Zenon
<1>4. PICK c : c = [n \in DOMAIN s |-> s[n][2]]
  OBVIOUS
<1>5. DOMAIN c = 1 .. l /\ IsFcn(c)
  BY <1>3, <1>4, Zenon DEF IsFcn
<1>6. ASSUME NEW k \in 1 .. l PROVE c[k] \in Byte
  <2>1. s[k] \in Chosen(MaxCap)
    BY <1>2, <1>3, ElementOfSeq, Zenon
  <2>2. s[k][2] \in {0, 1, 2}
    BY <2>1 DEF Chosen
  <2>3. {0, 1, 2} \subseteq Byte
    BY SomeBytes
  <2> QED
    BY <1>3, <1>4, <2>2, <2>3, Zenon
<1>7. c \in Seq(Byte) /\ Len(c) = l
  BY <1>5, <1>6, FcnSeq, Zenon
<1> QED
  BY <1>1, <1>2, <1>3, <1>4, <1>7, Zenon

\* What is written because of a packet: packets, or PING_RES.
LEMMA AnswersOK ==
    ASSUME NEW p, GotPacket(p, MaxCap), NEW f \in Answers(p)
    PROVE  IsFrame(f) \/ f = PingRes
<1>1. CASE p = [type |-> "pingreq"]
  <2>1. p.type = "pingreq"
    BY <1>1
  <2>2. Answers(p) = {PingRes}
    BY <2>1 DEF Answers
  <2> QED
    BY <2>2, Zenon
<1>2. CASE GotSubscribe(p, MaxCap)
  <2>1. p.type = "subscribe" /\ U16(p.id)
    BY <1>2 DEF GotSubscribe
  <2>2. PICK c : c = [n \in DOMAIN p.list |-> p.list[n][2]]
    OBVIOUS
  <2>3. Answers(p) = {EncodeSuback(p.id, c)}
    BY <2>1, <2>2 DEF Answers
  <2>4. c \in Seq(Byte) /\ Len(c) <= MaxCap
    BY <1>2, <2>2, CodesOK, Zenon
  <2> QED
    BY <2>1, <2>3, <2>4, SubackFrame, Zenon
<1>3. CASE GotPublish(p, MaxCap)
  <2>1. p.type = "publish"
    BY <1>3 DEF GotPublish
  <2>2. PICK K : K = (CASE p.qos = 0 -> {} [] p.qos = 1 -> {"PubAck"} [] OTHER -> {"PubAck", "PubRec", "PubRel"})
    OBVIOUS
  <2>3. Answers(p) = {EncodePublish(p)} \cup {EncodePuback(kind, p.id[1]) : kind \in K}
    BY <2>1, <2>2 DEF Answers
  <2>4. IsFrame(EncodePublish(p))
    BY <1>3, PublishFrame, Zenon
  <2>5. ASSUME NEW kind \in K PROVE IsFrame(EncodePuback(kind, p.id[1]))
    <3>1. p.qos # 0 /\ kind \in {"PubAck", "PubRec", "PubRel"}
      BY <2>2
    <3>2. U16(p.id[1])
      BY <1>3, <3>1, Zenon DEF GotPublish
    <3> QED
      BY <3>1, <3>2, PubackFrame, Zenon
  <2> QED
    BY <2>3, <2>4, <2>5, Zenon
<1> QED
  BY <1>1, <1>2, <1>3, Zenon DEF GotPacket
=============================================================================
