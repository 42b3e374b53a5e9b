--------------------------- MODULE ClientsProofs ----------------------------
(***************************************************************************)
(* The list of clients is strictly sorted and implements the registry, for *)
(* every set of ids and every number of connections.                       *)
(***************************************************************************)
EXTENDS Clients, Integers, SequenceTheorems, TLAPS

-----------------------------------------------------------------------------
\* What Vec::insert does to the elements of the vector.
LEMMA InsertAtElements ==
    ASSUME NEW S, NEW s \in Seq(S), NEW e \in S, NEW i \in 1 .. Len(s) + 1
    PROVE  /\ InsertAt(s, i, e) \in Seq(S)
           /\ Len(InsertAt(s, i, e)) = Len(s) + 1
           /\ InsertAt(s, i, e)[i] = e
           /\ \A j \in 1 .. i - 1 : InsertAt(s, i, e)[j] = s[j]
           /\ \A j \in i + 1 .. Len(s) + 1 : InsertAt(s, i, e)[j] = s[j - 1]
<1> DEFINE a == SubSeq(s, 1, i - 1)
           b == SubSeq(s, i, Len(s))
           c == a \o <<e>>
<1>1. /\ a \in Seq(S) /\ Len(a) = i - 1 /\ \A j \in 1 .. i - 1 : a[j] = s[j]
      /\ b \in Seq(S) /\ Len(b) = Len(s) - i + 1
      /\ \A j \in 1 .. Len(s) - i + 1 : b[j] = s[i + j - 1]
  OBVIOUS
<1>2. InsertAt(s, i, e) = c \o b
  BY DEF InsertAt
<1> HIDE DEF a, b
<1>3. <<e>> \in Seq(S) /\ Len(<<e>>) = 1 /\ <<e>>[1] = e
  OBVIOUS
<1>4. /\ c \in Seq(S) /\ Len(c) = i
      /\ \A j \in 1 .. i : c[j] = IF j < i THEN s[j] ELSE e
  <2>0. PICK u \in Seq(S) : u = <<e>>
    BY <1>3
  <2>1. /\ a \o u \in Seq(S) /\ Len(a \o u) = Len(a) + Len(u)
        /\ \A j \in 1 .. Len(a) + Len(u) :
              (a \o u)[j] = IF j <= Len(a) THEN a[j] ELSE u[j - Len(a)]
    BY <1>1, ConcatProperties, Zenon
  <2>2. c = a \o u /\ Len(u) = 1 /\ u[1] = e
    BY <2>0, <1>3
  <2> HIDE DEF c
  <2>3. c \in Seq(S) /\ Len(c) = i
    BY <1>1, <2>1, <2>2
  <2>4. ASSUME NEW j \in 1 .. i PROVE c[j] = IF j < i THEN s[j] ELSE e
    <3>1. c[j] = IF j <= Len(a) THEN a[j] ELSE u[j - Len(a)]
      BY <1>1, <2>1, <2>2
    <3>2. CASE j < i
      BY <1>1, <3>1, <3>2
    <3>3. CASE j = i
      BY <1>1, <2>2, <3>1, <3>3
    <3> QED
      BY <3>2, <3>3
  <2> QED
    BY <2>3, <2>4
<1> HIDE DEF c
<1>5. /\ c \o b \in Seq(S) /\ Len(c \o b) = Len(c) + Len(b)
      /\ \A j \in 1 .. Len(c) + Len(b) :
            (c \o b)[j] = IF j <= Len(c) THEN c[j] ELSE b[j - Len(c)]
  BY <1>1, <1>4, ConcatProperties, Zenon
<1>6. PICK d : d = c \o b
  OBVIOUS
<1>7. /\ d \in Seq(S) /\ Len(d) = Len(s) + 1
      /\ \A j \in 1 .. Len(s) + 1 : d[j] = IF j <= i THEN c[j] ELSE b[j - i]
  BY <1>1, <1>4, <1>5, <1>6
<1>8. \A j \in 1 .. Len(s) + 1 : j > i => b[j - i] = s[j - 1]
  BY <1>1
<1> QED
  BY <1>2, <1>4, <1>6, <1>7, <1>8

-----------------------------------------------------------------------------
(* The inductive invariant *)

\* The box that insert has found dead is in the list until the swap.
SwapOK == stage = "swap" => old \in Listed

ClientsInv == TypeOK /\ StrictlySorted /\ ListedIsAllocated /\ OwnedOnce /\ SwapOK

\* Boxes get increasing numbers, so that a new box is not one of the listed.
Numbered ==
    /\ \A i \in 1 .. Len(list) : list[i][2] <= conns
    /\ \A b \in freed : b <= conns

\* Connections are numbers; there is a next one below the bound.
LEMMA ConnsFacts ==
    /\ Ids \subseteq Nat /\ Conns \subseteq Nat
    /\ \A n \in 0 .. MaxConns : n \in Nat /\ (n < MaxConns => n + 1 \in Conns /\ n + 1 \in 0 .. MaxConns)
BY ClientsAssumption DEF Conns

\* The numbers the list is made of.
LEMMA SlotTypes ==
    ASSUME TypeOK
    PROVE  /\ list \in Seq(Ids \X Conns) /\ Len(list) \in Nat /\ conns \in Nat
           /\ \A i \in 1 .. Len(list) :
                 list[i] \in Ids \X Conns /\ list[i][1] \in Nat /\ list[i][2] \in Nat
<1>1. list \in Seq(Ids \X Conns) /\ conns \in Nat
  BY ConnsFacts DEF TypeOK
<1>2. \A i \in 1 .. Len(list) : list[i] \in Ids \X Conns
  BY <1>1
<1>3. \A x \in Ids \X Conns : x[1] \in Nat /\ x[2] \in Nat
  BY ConnsFacts
<1>4. Len(list) \in Nat
  BY <1>1
<1> QED
  BY <1>1, <1>2, <1>3, <1>4, Zenon

\* Boxes that are owned have been made.
LEMMA OwnedNumbered ==
    ASSUME TypeOK, OwnedOnce
    PROVE  Numbered
<1>1. \A b \in 1 .. conns : b <= conns
  BY SlotTypes
<1>2. Listed \subseteq 1 .. conns /\ freed \subseteq 1 .. conns
  BY DEF OwnedOnce
<1>3. \A i \in 1 .. Len(list) : list[i][2] \in Listed
  BY DEF Listed
<1> QED
  BY <1>1, <1>2, <1>3, Zenon DEF Numbered

\* StrictlySorted, the second half of ListedIsAllocated and the set of slots, for
\* the first n slots of any list.
Ascending(s, n) == \A i, j \in 1 .. n : i < j => s[i][1] < s[j][1]
Distinct(s, n) == \A i, j \in 1 .. n : s[i][2] = s[j][2] => i = j
Elements(s, n) == {s[i] : i \in 1 .. n}

\* List t is the list s of n slots with e, whose box is new, inserted at i, the
\* first slot whose id is greater.
Opened(s, t, e, n, i) ==
    /\ t[i] = e
    /\ \A j \in 1 .. i - 1 : t[j] = s[j]
    /\ \A j \in i + 1 .. n + 1 : t[j] = s[j - 1]
    /\ e[1] \in Nat
    /\ \A j \in 1 .. n : s[j][1] \in Nat /\ s[j][2] # e[2]
    /\ \A j \in 1 .. i - 1 : s[j][1] < e[1]
    /\ i <= n => e[1] < s[i][1]

\* Such an insertion keeps a list ascending.
LEMMA InsertAscends ==
    ASSUME NEW s, NEW t, NEW e, NEW n \in Nat, NEW i \in 1 .. n + 1,
           Opened(s, t, e, n, i), Ascending(s, n), Distinct(s, n)
    PROVE  /\ Ascending(t, n + 1) /\ Distinct(t, n + 1)
           /\ Elements(t, n + 1) = Elements(s, n) \cup {e}
           /\ \A j \in 1 .. n : s[j][1] # e[1]
<1> USE DEF Opened
<1>1. \A j \in i .. n : e[1] < s[j][1]
  BY DEF Ascending
<1>2. Ascending(t, n + 1)
  BY <1>1 DEF Ascending
<1>3. Distinct(t, n + 1)
  BY DEF Distinct
<1>4. Elements(t, n + 1) \subseteq Elements(s, n) \cup {e}
  BY DEF Elements
<1>5. e \in Elements(t, n + 1)
  BY DEF Elements
<1>6. ASSUME NEW m \in 1 .. n PROVE s[m] \in Elements(t, n + 1)
  <2>1. CASE m < i
    BY <2>1 DEF Elements
  <2>2. CASE m >= i
    <3>1. m + 1 \in 1 .. n + 1 /\ m + 1 \in i + 1 .. n + 1 /\ (m + 1) - 1 = m
      BY <2>2
    <3>2. t[m + 1] = s[m]
      BY <3>1
    <3> QED
      BY <3>1, <3>2 DEF Elements
  <2> QED
    BY <2>1, <2>2
<1>7. \A j \in 1 .. n : s[j][1] # e[1]
  BY <1>1
<1> QED
  BY <1>2, <1>3, <1>4, <1>5, <1>6, <1>7 DEF Elements

\* What insert makes of the list when it opens a slot.
LEMMA InsertSlotEffect ==
    ASSUME ClientsInv, NEW id \in Ids, InsertSlot(id)
    PROVE  /\ list' \in Seq(Ids \X Conns) /\ Len(list') = Len(list) + 1
           /\ Ascending(list', Len(list) + 1) /\ Distinct(list', Len(list) + 1)
           /\ Elements(list', Len(list) + 1) = Elements(list, Len(list)) \cup {<<id, conns + 1>>}
           /\ \A j \in 1 .. Len(list) : list[j][1] # id /\ list[j][2] # conns + 1
<1> USE DEF ClientsInv
<1>1. PICK i \in 1 .. Len(list) + 1 :
          /\ StopsAt(id, i) /\ ~Occupied(id, i)
          /\ list' = InsertAt(list, i, <<id, conns + 1>>)
  BY DEF InsertSlot
<1>2. PICK e \in Ids \X Conns :
          e[1] = id /\ e[2] = conns + 1 /\ e = <<id, conns + 1>> /\ id \in Nat
  BY ConnsFacts DEF InsertSlot, TypeOK
<1>3. list \in Seq(Ids \X Conns) /\ list' = InsertAt(list, i, e)
  BY <1>1, <1>2, SlotTypes
<1>4. /\ InsertAt(list, i, e) \in Seq(Ids \X Conns)
      /\ Len(InsertAt(list, i, e)) = Len(list) + 1
      /\ InsertAt(list, i, e)[i] = e
      /\ \A j \in 1 .. i - 1 : InsertAt(list, i, e)[j] = list[j]
      /\ \A j \in i + 1 .. Len(list) + 1 : InsertAt(list, i, e)[j] = list[j - 1]
  <2> HIDE DEF ClientsInv
  <2>1. PICK S : S = Ids \X Conns
    OBVIOUS
  <2>2. list \in Seq(S) /\ e \in S
    BY <1>3, <2>1
  <2>3. /\ InsertAt(list, i, e) \in Seq(S)
        /\ Len(InsertAt(list, i, e)) = Len(list) + 1
        /\ InsertAt(list, i, e)[i] = e
        /\ \A j \in 1 .. i - 1 : InsertAt(list, i, e)[j] = list[j]
        /\ \A j \in i + 1 .. Len(list) + 1 : InsertAt(list, i, e)[j] = list[j - 1]
    BY <2>2, InsertAtElements
  <2> QED
    BY <2>1, <2>3, Zenon
<1>5. PICK n \in Nat : n = Len(list)
  BY SlotTypes
<1>6. PICK s : s = list
  OBVIOUS
<1>7. PICK t : t = InsertAt(list, i, e)
  OBVIOUS
<1>8. /\ i \in 1 .. n + 1 /\ t[i] = e
      /\ \A j \in 1 .. i - 1 : t[j] = s[j]
      /\ \A j \in i + 1 .. n + 1 : t[j] = s[j - 1]
  BY <1>4, <1>5, <1>6, <1>7, Zenon
<1>9. /\ \A j \in 1 .. n : s[j][1] \in Nat /\ s[j][2] \in Nat /\ s[j][2] <= conns
      /\ conns \in Nat
  BY <1>5, <1>6, SlotTypes, OwnedNumbered, Zenon DEF Numbered
<1>10. \A j \in 1 .. n : s[j][1] \in Nat /\ s[j][2] # e[2]
  BY <1>2, <1>9
<1>11. Ascending(s, n) /\ Distinct(s, n)
  BY <1>5, <1>6, Zenon DEF StrictlySorted, ListedIsAllocated, Ascending, Distinct
<1>12. /\ \A j \in 1 .. i - 1 : s[j][1] < id
       /\ i <= n => id <= s[i][1] /\ s[i][1] # id
  BY <1>1, <1>5, <1>6, Zenon DEF StopsAt, Occupied
<1>13. /\ e[1] \in Nat
       /\ \A j \in 1 .. i - 1 : s[j][1] < e[1]
       /\ i <= n => e[1] < s[i][1]
  BY <1>2, <1>8, <1>9, <1>12
<1>14. /\ Ascending(t, n + 1) /\ Distinct(t, n + 1)
       /\ Elements(t, n + 1) = Elements(s, n) \cup {e}
       /\ \A j \in 1 .. n : s[j][1] # e[1]
  <2>1. Opened(s, t, e, n, i) /\ i \in 1 .. n + 1
    BY <1>8, <1>10, <1>13 DEF Opened
  <2> QED
    BY <2>1, <1>11, InsertAscends, Zenon
<1> QED
  BY <1>2, <1>3, <1>4, <1>5, <1>6, <1>7, <1>10, <1>14, Zenon

\* A box is in the list once and not dropped, if the slots have different boxes
\* and none of them is dropped.
LEMMA AllocatedFrom ==
    ASSUME Distinct(list, Len(list)), Listed \cap freed = {}
    PROVE  ListedIsAllocated
<1>1. \A i \in 1 .. Len(list) : list[i][2] \in Listed
  BY DEF Listed
<1>2. \A i \in 1 .. Len(list) : list[i][2] \notin freed
  BY <1>1
<1> QED
  BY <1>2, Zenon DEF ListedIsAllocated, Distinct

\* insert of a new id keeps the list sorted; the new box is in the list.
LEMMA InsertSlotInv ==
    ASSUME ClientsInv, NEW id \in Ids, InsertSlot(id)
    PROVE  ClientsInv'
<1>1. TypeOK'
  BY InsertSlotEffect, ConnsFacts DEF ClientsInv, InsertSlot, TypeOK, insertVars
<1>2. StrictlySorted'
  BY InsertSlotEffect, Zenon DEF Ascending, StrictlySorted
<1>3. freed' = freed /\ conns' = conns + 1 /\ stage = "none" /\ stage' = "none"
  BY DEF InsertSlot, insertVars
<1>4. PICK n \in Nat : n = Len(list)
  BY SlotTypes DEF ClientsInv
<1>5. PICK m : m = <<id, conns + 1>>
  OBVIOUS
<1>6. /\ Elements(list', n + 1) = Elements(list, n) \cup {m} /\ m[2] = conns + 1
      /\ Len(list') = n + 1
  BY InsertSlotEffect, <1>4, <1>5
<1>7. /\ Listed = {x[2] : x \in Elements(list, n)}
      /\ Listed' = {x[2] : x \in Elements(list', n + 1)}
  BY <1>4, <1>6 DEF Listed, Elements
<1>8. Listed' = Listed \cup {conns + 1}
  BY <1>6, <1>7
<1>9. 1 .. conns = Listed \cup freed /\ Listed \cap freed = {} /\ conns \in Nat
  BY <1>3, SlotTypes DEF ClientsInv, OwnedOnce, InHand
<1>10. 1 .. conns + 1 = (1 .. conns) \cup {conns + 1} /\ conns + 1 \notin 1 .. conns
  BY <1>9
<1>11. OwnedOnce'
  <2>1. InHand' = {}
    BY <1>3 DEF InHand
  <2> HIDE DEF Listed
  <2> QED
    BY <1>3, <1>8, <1>9, <1>10, <2>1 DEF OwnedOnce
<1>12. ListedIsAllocated'
  <2>1. Distinct(list', Len(list'))
    BY <1>4, <1>6, InsertSlotEffect, Zenon
  <2>2. Listed' \cap freed' = {}
    BY <1>11 DEF OwnedOnce
  <2>3. (Distinct(list, Len(list)) /\ Listed \cap freed = {} => ListedIsAllocated)'
    BY AllocatedFrom, PTL
  <2> QED
    BY <2>1, <2>2, <2>3, Zenon DEF Distinct
<1> QED
  BY <1>1, <1>2, <1>3, <1>11, <1>12 DEF ClientsInv, SwapOK

\* The connections in the list are connections.
LEMMA SlotConns ==
    ASSUME TypeOK
    PROVE  \A i \in 1 .. Len(list) : list[i][2] \in Conns
<1>1. \A x \in Ids \X Conns : x[2] \in Conns
  OBVIOUS
<1> QED
  BY <1>1, SlotTypes, Zenon

\* An id whose client is alive: the new box is dropped at once.  An id whose
\* client is dead: the new box is in the hands of insert.
LEMMA InsertFoundInv ==
    ASSUME ClientsInv, NEW id \in Ids, InsertDuplicate(id) \/ InsertDead(id)
    PROVE  ClientsInv'
<1>1. /\ list' = list /\ conns' = conns + 1 /\ stage = "none"
      /\ conns \in Nat /\ conns + 1 \in Conns /\ conns + 1 \in 0 .. MaxConns
  BY ConnsFacts, SlotTypes DEF ClientsInv, TypeOK, InsertDuplicate, InsertDead
<1>2. /\ 1 .. conns = Listed \cup freed /\ Listed \cap freed = {}
      /\ Listed' = Listed
  BY <1>1 DEF ClientsInv, OwnedOnce, InHand, Listed
<1>3. 1 .. conns + 1 = (1 .. conns) \cup {conns + 1} /\ conns + 1 \notin 1 .. conns
  BY <1>1
<1>4. StrictlySorted'
  BY <1>1, Zenon DEF ClientsInv, StrictlySorted
<1>5. TypeOK' /\ SwapOK' /\ OwnedOnce'
  <2>1. CASE InsertDuplicate(id)
    <3>1. freed' = freed \cup {conns + 1} /\ UNCHANGED <<dead, logged, held, stage, old>>
      BY <2>1 DEF InsertDuplicate, insertVars
    <3>2. InHand' = {}
      BY <1>1, <3>1 DEF InHand
    <3> QED
      BY <1>1, <1>2, <1>3, <3>1, <3>2 DEF ClientsInv, TypeOK, SwapOK, OwnedOnce
  <2>2. CASE InsertDead(id)
    <3>1. /\ stage' = "swap" /\ UNCHANGED <<dead, freed, logged, held>>
          /\ \E i \in 1 .. Len(list) : old' = list[i][2]
      BY <2>2 DEF InsertDead
    <3>2. InHand' = {conns + 1} /\ old' \in Listed' /\ old' \in Conns
      BY <1>1, <3>1, SlotConns DEF InHand, Listed, ClientsInv
    <3> QED
      BY <1>1, <1>2, <1>3, <3>1, <3>2 DEF ClientsInv, TypeOK, SwapOK, OwnedOnce
  <2> QED
    BY <2>1, <2>2
<1>6. ListedIsAllocated'
  <2>1. Listed' \cap freed' = {} /\ Listed' = Listed
    BY <1>2, <1>5 DEF OwnedOnce
  <2>2. \A i \in 1 .. Len(list) : list[i][2] \in Listed
    BY DEF Listed
  <2>3. \A i \in 1 .. Len(list) : list[i][2] \notin freed'
    BY <2>1, <2>2
  <2> QED
    BY <1>1, <2>3, Zenon DEF ClientsInv, ListedIsAllocated
<1> QED
  BY <1>4, <1>5, <1>6 DEF ClientsInv

\* What insert makes of the list when it swaps the box of a slot.
LEMMA InsertSwapEffect ==
    ASSUME ClientsInv, InsertSwap
    PROVE  \E i \in 1 .. Len(list) :
              /\ list[i][2] = old
              /\ list' \in Seq(Ids \X Conns) /\ Len(list') = Len(list)
              /\ list'[i] = <<list[i][1], conns>> /\ list[i][1] \in Ids
              /\ \A j \in 1 .. Len(list) : j # i => list'[j] = list[j]
<1>1. PICK i \in 1 .. Len(list) :
          /\ list[i][2] = old
          /\ list' = [list EXCEPT ![i] = <<list[i][1], conns>>]
  BY DEF InsertSwap
<1>2. PICK S : S = Ids \X Conns
  OBVIOUS
<1>3. PICK e : e = <<list[i][1], conns>>
  OBVIOUS
<1>4. e \in S /\ list[i][1] \in Ids
  <2>1. conns \in Conns
    <3>1. conns \in 1 .. conns
      BY DEF ClientsInv, OwnedOnce, InHand, InsertSwap
    <3> QED
      BY <3>1, ClientsAssumption DEF ClientsInv, TypeOK, Conns
  <2>2. list[i] \in Ids \X Conns
    BY SlotTypes DEF ClientsInv
  <2> QED
    BY <1>2, <1>3, <2>1, <2>2
<1>5. list \in Seq(S) /\ list' = [list EXCEPT ![i] = e]
  BY <1>1, <1>2, <1>3, SlotTypes DEF ClientsInv
<1>6. /\ list' \in Seq(S) /\ Len(list') = Len(list) /\ list'[i] = e
      /\ \A j \in 1 .. Len(list) : j # i => list'[j] = list[j]
  BY <1>4, <1>5
<1> QED
  BY <1>1, <1>2, <1>3, <1>4, <1>6

\* The swap keeps the ids of the slots; the boxes change hands.
LEMMA InsertSwapInv ==
    ASSUME ClientsInv, InsertSwap
    PROVE  ClientsInv'
<1>1. PICK i \in 1 .. Len(list) :
          /\ list[i][2] = old
          /\ list' \in Seq(Ids \X Conns) /\ Len(list') = Len(list)
          /\ list'[i] = <<list[i][1], conns>> /\ list[i][1] \in Ids
          /\ \A j \in 1 .. Len(list) : j # i => list'[j] = list[j]
  BY InsertSwapEffect
<1>2. TypeOK'
  BY <1>1 DEF ClientsInv, InsertSwap, TypeOK
<1>3. PICK n \in Nat : n = Len(list)
  BY SlotTypes DEF ClientsInv
<1>4. PICK s : s = list
  OBVIOUS
<1>5. PICK t : t = list'
  OBVIOUS
<1>6. /\ i \in 1 .. n /\ t[i][1] = s[i][1] /\ t[i][2] = conns /\ s[i][2] = old
      /\ \A j \in 1 .. n : j # i => t[j] = s[j]
  BY <1>1, <1>3, <1>4, <1>5
<1>7. /\ Ascending(s, n) /\ Distinct(s, n)
      /\ Listed = {s[j][2] : j \in 1 .. n} /\ Listed' = {t[j][2] : j \in 1 .. n}
  <2>1. Ascending(s, n)
    BY <1>3, <1>4, Zenon DEF ClientsInv, StrictlySorted, Ascending
  <2>2. Distinct(s, n)
    BY <1>3, <1>4, Zenon DEF ClientsInv, ListedIsAllocated, Distinct
  <2>3. Listed = {s[j][2] : j \in 1 .. n} /\ Listed' = {t[j][2] : j \in 1 .. n}
    BY <1>1, <1>3, <1>4, <1>5 DEF Listed
  <2> QED
    BY <2>1, <2>2, <2>3
<1>8. /\ stage' = "drop" /\ UNCHANGED <<conns, freed, old>>
      /\ conns \notin Listed /\ conns \notin freed /\ old \in Listed
      /\ 1 .. conns = Listed \cup {conns} \cup freed /\ Listed \cap freed = {}
  BY DEF InsertSwap, ClientsInv, OwnedOnce, SwapOK, InHand
<1>9. Listed' = (Listed \ {old}) \cup {conns}
  <2>1. \A j \in 1 .. n : j # i => s[j][2] # old
    BY <1>6, <1>7 DEF Distinct
  <2> QED
    BY <1>6, <1>7, <2>1
<1>10. Ascending(t, n) /\ Distinct(t, n)
  <2>1. \A j \in 1 .. n : t[j][1] = s[j][1]
    BY <1>6
  <2>2. Ascending(t, n)
    BY <1>7, <2>1, Zenon DEF Ascending
  <2>3. \A j \in 1 .. n : s[j][2] # conns
    BY <1>7, <1>8
  <2>4. Distinct(t, n)
    BY <1>6, <1>7, <2>3 DEF Distinct
  <2> QED
    BY <2>2, <2>4
<1>11. OwnedOnce'
  <2>1. InHand' = {old}
    BY <1>8 DEF InHand
  <2> QED
    BY <1>8, <1>9, <2>1 DEF OwnedOnce
<1>12. StrictlySorted'
  BY <1>1, <1>3, <1>5, <1>10, Zenon DEF StrictlySorted, Ascending
<1>13. ListedIsAllocated'
  <2>1. Distinct(list', Len(list'))
    BY <1>1, <1>3, <1>5, <1>10, Zenon
  <2>2. Listed' \cap freed' = {}
    BY <1>11 DEF OwnedOnce
  <2>3. (Distinct(list, Len(list)) /\ Listed \cap freed = {} => ListedIsAllocated)'
    BY AllocatedFrom, PTL
  <2> QED
    BY <2>1, <2>2, <2>3, Zenon DEF Distinct
<1> QED
  BY <1>2, <1>8, <1>11, <1>12, <1>13 DEF ClientsInv, SwapOK

\* The drop of the swapped box and clear: boxes are dropped that were not.
LEMMA DropsInv ==
    ASSUME ClientsInv, InsertDrop \/ Clear
    PROVE  ClientsInv'
<1>1. Listed \subseteq Conns
  BY SlotConns DEF Listed, ClientsInv
<1>2. CASE InsertDrop
  <2>1. /\ list' = list /\ freed' = freed \cup {old} /\ stage' = "none" /\ old' = NULL
        /\ UNCHANGED <<conns, dead, logged, held>> /\ stage = "drop"
    BY <1>2 DEF InsertDrop
  <2>2. InHand = {old} /\ InHand' = {} /\ Listed' = Listed
    BY <2>1 DEF InHand, Listed
  <2>3. OwnedOnce' /\ Listed \cap freed' = {}
    BY <2>1, <2>2 DEF OwnedOnce, ClientsInv
  <2>4. old \in Conns
    <3>1. old \in 1 .. conns
      BY <2>2 DEF OwnedOnce, ClientsInv
    <3> QED
      BY <3>1, ClientsAssumption DEF Conns, ClientsInv, TypeOK
  <2>5. TypeOK' /\ SwapOK' /\ StrictlySorted'
    BY <2>1, <2>4 DEF ClientsInv, TypeOK, SwapOK, StrictlySorted
  <2>6. ListedIsAllocated'
    <3>1. \A i \in 1 .. Len(list) : list[i][2] \in Listed
      BY DEF Listed
    <3>2. \A i \in 1 .. Len(list) : list[i][2] \notin freed'
      BY <2>3, <3>1
    <3> QED
      BY <2>1, <3>2, Zenon DEF ClientsInv, ListedIsAllocated
  <2> QED
    BY <2>3, <2>5, <2>6 DEF ClientsInv
<1>3. CASE Clear
  <2>1. /\ list' = <<>> /\ freed' = freed \cup Listed /\ logged' = logged \cup Listed
        /\ UNCHANGED <<conns, dead, held, stage, old>> /\ stage # "swap"
    BY <1>3 DEF Clear, Listed, insertVars
  <2>2. Len(list') = 0 /\ Listed' = {} /\ InHand' = InHand
    BY <2>1 DEF Listed, InHand
  <2>3. OwnedOnce'
    BY <2>1, <2>2 DEF OwnedOnce, ClientsInv
  <2>4. TypeOK' /\ SwapOK'
    BY <1>1, <2>1 DEF ClientsInv, TypeOK, SwapOK
  <2>5. StrictlySorted' /\ ListedIsAllocated'
    BY <2>2 DEF StrictlySorted, ListedIsAllocated
  <2> QED
    BY <2>3, <2>4, <2>5 DEF ClientsInv
<1> QED
  BY <1>2, <1>3

\* The steps that leave the boxes where they are.
LEMMA OtherInv ==
    ASSUME ClientsInv, TypeOK', UNCHANGED <<list, conns, freed, stage, old>>
    PROVE  ClientsInv'
<1>1. Listed' = Listed /\ InHand' = InHand
  BY DEF Listed, InHand
<1>2. OwnedOnce' /\ SwapOK'
  BY <1>1 DEF ClientsInv, OwnedOnce, SwapOK
<1>3. StrictlySorted' /\ ListedIsAllocated'
  BY Zenon DEF ClientsInv, StrictlySorted, ListedIsAllocated
<1> QED
  BY <1>2, <1>3 DEF ClientsInv

\* Every operation on the list preserves the invariant.
LEMMA ClientsNextInv == ClientsInv /\ [Next]_cvars => ClientsInv'
<1> SUFFICES ASSUME ClientsInv, [Next]_cvars PROVE ClientsInv'
  OBVIOUS
<1>1. ASSUME NEW id \in Ids, InsertSlot(id) \/ InsertDead(id) \/ InsertDuplicate(id)
      PROVE  ClientsInv'
  BY <1>1, InsertSlotInv, InsertFoundInv
<1>2. CASE InsertSwap \/ InsertDrop \/ Clear
  BY <1>2, InsertSwapInv, DropsInv
<1>3. \A i \in 1 .. Len(list) : list[i][2] \in Conns
  BY SlotConns DEF ClientsInv
<1>4. ASSUME NEW f \in Forwarders, NEW id \in Ids, Search(f, id) PROVE ClientsInv'
  <2>1. TypeOK'
    BY <1>4, <1>3 DEF ClientsInv, Search, TypeOK, insertVars
  <2> QED
    BY <1>4, <2>1, OtherInv DEF Search, insertVars
<1>5. ASSUME NEW f \in Forwarders, Written(f) PROVE ClientsInv'
  <2>1. TypeOK'
    BY <1>5 DEF ClientsInv, Written, TypeOK, insertVars
  <2> QED
    BY <1>5, <2>1, OtherInv DEF Written, insertVars
<1>6. CASE Expire \/ Revive
  <2>1. 1 .. conns \subseteq Conns
    BY SlotTypes, ClientsAssumption DEF Conns, ClientsInv, TypeOK
  <2>2. TypeOK'
    BY <1>6, <2>1 DEF ClientsInv, Expire, Revive, TypeOK, insertVars
  <2> QED
    BY <1>6, <2>2, OtherInv DEF Expire, Revive, insertVars
<1>7. CASE UNCHANGED cvars
  <2>1. TypeOK'
    BY <1>7 DEF ClientsInv, cvars, TypeOK
  <2> QED
    BY <1>7, <2>1, OtherInv DEF cvars
<1> QED
  BY <1>1, <1>2, <1>4, <1>5, <1>6, <1>7 DEF Next

\* The inductive invariant holds in every state, for every set of ids, of
\* forwarders and every number of connections.
THEOREM ClientsInvariance == Spec => []ClientsInv
<1>1. Init => ClientsInv
  <2> SUFFICES ASSUME Init PROVE ClientsInv
    OBVIOUS
  <2>1. Len(list) = 0 /\ Listed = {} /\ InHand = {} /\ 1 .. conns = {}
    BY DEF Init, Listed, InHand
  <2>2. TypeOK
    BY ClientsAssumption DEF Init, TypeOK
  <2>3. StrictlySorted /\ ListedIsAllocated /\ SwapOK
    BY <2>1 DEF Init, StrictlySorted, ListedIsAllocated, SwapOK
  <2>4. OwnedOnce
    BY <2>1 DEF Init, OwnedOnce
  <2> QED
    BY <2>2, <2>3, <2>4 DEF ClientsInv
<1> QED
  BY <1>1, ClientsNextInv, PTL DEF Spec

\* The order binary_search_by relies on is kept by every insert, swap and clear.
THEOREM AlwaysSorted == Spec => []StrictlySorted
<1>1. ClientsInv => StrictlySorted
  BY DEF ClientsInv
<1> QED
  BY <1>1, ClientsInvariance, PTL

\* No slot points to a dropped client, and no client is in two slots.
THEOREM AlwaysAllocated == Spec => []ListedIsAllocated
<1>1. ClientsInv => ListedIsAllocated
  BY DEF ClientsInv
<1> QED
  BY <1>1, ClientsInvariance, PTL

\* insert and clear lose no box and drop none twice, however their steps and the
\* expiry and revival of the sessions interleave.
THEOREM AlwaysOwnedOnce == Spec => []OwnedOnce
<1>1. ClientsInv => OwnedOnce
  BY DEF ClientsInv
<1> QED
  BY <1>1, ClientsInvariance, PTL

-----------------------------------------------------------------------------
(* The registry *)

\* insert implements Register of the registry: because the list is sorted, the
\* slot at which its loop stops is the only one that can hold the id.
LEMMA InsertSlotRegisters ==
    ASSUME ClientsInv, NEW id \in Ids, InsertSlot(id)
    PROVE  Reg!Register(id, conns + 1)
<1>1. PICK m \in Nat : m = Len(list)
  BY SlotTypes DEF ClientsInv
<1>2. /\ Len(list') = m + 1
      /\ Elements(list', m + 1) = Elements(list, m) \cup {<<id, conns + 1>>}
      /\ \A j \in 1 .. m : list[j][1] # id /\ list[j][2] # conns + 1
  BY <1>1, InsertSlotEffect, Zenon
<1>3. \A e \in Elements(list, m) : e[1] # id /\ e[2] # conns + 1
  BY <1>2 DEF Elements
<1>4. /\ {list[k] : k \in 1 .. Len(list)} = Elements(list, m)
      /\ {list'[k] : k \in 1 .. Len(list')} = Elements(list', m + 1)
  BY <1>1, <1>2, Zenon DEF Elements
<1>5. Reg!Of(id) = {}
  BY <1>3, <1>4, Zenon DEF Reg!Of
<1>6. dead' = dead /\ stage' = "none" /\ stage' # "swap"
  BY DEF InsertSlot, insertVars
<1>7. PICK c : c = conns + 1
  OBVIOUS
<1>8. Reg!Register(id, c)
  BY <1>2, <1>3, <1>4, <1>5, <1>6, <1>7, Zenon DEF Reg!Register
<1> QED
  BY <1>7, <1>8, Zenon DEF Reg!Register

\* The same of a swap: the slot that is overwritten is the only one of its id, and
\* its box is the one that was found dead.
LEMMA InsertSwapRegisters ==
    ASSUME ClientsInv, InsertSwap
    PROVE  \E id \in Ids : Reg!Register(id, conns)
<1>1. PICK i \in 1 .. Len(list) :
          /\ list[i][2] = old
          /\ Len(list') = Len(list)
          /\ list'[i] = <<list[i][1], conns>> /\ list[i][1] \in Ids
          /\ \A j \in 1 .. Len(list) : j # i => list'[j] = list[j]
  BY InsertSwapEffect
<1>2. PICK n \in Nat : n = Len(list)
  BY SlotTypes DEF ClientsInv
<1>3. PICK s : s = list
  OBVIOUS
<1>4. PICK t : t = list'
  OBVIOUS
<1>5. PICK id \in Ids : id = list[i][1]
  BY <1>1
<1>6. PICK e : e = <<id, conns>>
  OBVIOUS
<1>7. /\ i \in 1 .. n /\ t[i] = e /\ s[i][1] = id /\ s[i][2] = old
      /\ e[1] = id /\ \A j \in 1 .. n : j # i => t[j] = s[j]
  BY <1>1, <1>2, <1>3, <1>4, <1>5, <1>6
<1>8. /\ \A j \in 1 .. n : s[j][1] \in Nat /\ Ascending(s, n)
      /\ \A j \in 1 .. n : s[j][2] \in Listed
  BY <1>2, <1>3, SlotTypes, Zenon DEF ClientsInv, StrictlySorted, Ascending, Listed
<1>9. conns \notin Listed
  BY DEF ClientsInv, OwnedOnce, InHand, InsertSwap
<1>10. \A j \in 1 .. n : (s[j][1] = id => j = i) /\ s[j][2] # conns
  <2>1. \A j \in 1 .. n : s[j][1] = id => j = i
    BY <1>7, <1>8 DEF Ascending
  <2> QED
    BY <1>8, <1>9, <2>1
<1>11. Elements(t, n) = {x \in Elements(s, n) : x[1] # id} \cup {e}
  BY <1>7, <1>10 DEF Elements
<1>12. \A x \in Elements(s, n) : (x[1] = id => x[2] = old) /\ x[2] # conns
  BY <1>7, <1>10 DEF Elements
<1>13. /\ {list[k] : k \in 1 .. Len(list)} = Elements(s, n)
       /\ {list'[k] : k \in 1 .. Len(list')} = Elements(t, n)
  BY <1>1, <1>2, <1>3, <1>4, Zenon DEF Elements
<1>14. dead' = dead /\ stage = "swap" /\ stage' # "swap"
  BY DEF InsertSwap
<1>15. Reg!Of(id) = {x \in Elements(s, n) : x[1] = id}
  BY <1>13, Zenon DEF Reg!Of
<1>16. Elements(t, n) = (Elements(s, n) \ Reg!Of(id)) \cup {<<id, conns>>}
  BY <1>6, <1>11, <1>15
<1>17. \A x \in Reg!Of(id) : x[2] \in {old}
  BY <1>12, <1>15
<1> QED
  BY <1>12, <1>13, <1>14, <1>16, <1>17, Zenon DEF Reg!Register

\* The list implements the registry: an id is given to a new connection only if
\* it is free or its connection was found dead by the same registration.
THEOREM ClientsImplementRegistry == Spec => ImplementsRegistry
<1>1. Init => Reg!Init
  BY DEF Init, Reg!Init
<1>2. ClientsInv /\ [Next]_cvars => [Reg!Next]_(Reg!rvars)
  <2> SUFFICES ASSUME ClientsInv, [Next]_cvars PROVE [Reg!Next]_(Reg!rvars)
    OBVIOUS
  <2>1. ASSUME NEW id \in Ids, InsertSlot(id) PROVE Reg!Next
    <3>1. Reg!Register(id, conns + 1)
      BY <2>1, InsertSlotRegisters
    <3>2. conns + 1 \in Conns
      BY <2>1, ConnsFacts DEF ClientsInv, TypeOK, InsertSlot
    <3> QED
      BY <3>1, <3>2 DEF Reg!Next, Reg!Register
  <2>2. CASE InsertSwap
    <3>1. conns \in Conns
      <4>1. conns \in 1 .. conns
        BY <2>2 DEF ClientsInv, OwnedOnce, InHand, InsertSwap
      <4> QED
        BY <4>1, ClientsAssumption DEF ClientsInv, TypeOK, Conns
    <3>2. PICK id \in Ids : Reg!Register(id, conns)
      BY <2>2, InsertSwapRegisters
    <3> QED
      BY <3>1, <3>2, Zenon DEF Reg!Next, Reg!Register
  <2>3. ASSUME NEW id \in Ids, InsertDead(id) PROVE Reg!Next
    <3>1. PICK i \in 1 .. Len(list) : list[i][2] \in dead /\ old' = list[i][2]
      BY <2>3 DEF InsertDead
    <3>2. stage # "swap" /\ stage' = "swap" /\ list' = list /\ dead' = dead
      BY <2>3 DEF InsertDead
    <3> QED
      BY <3>1, <3>2 DEF Reg!Next, Reg!Condemn
  <2>4. CASE Clear
    <3>1. list' = <<>> /\ dead' = dead /\ stage # "swap" /\ stage' # "swap"
      BY <2>4 DEF Clear, insertVars
    <3>2. {list'[k] : k \in 1 .. Len(list')} = {}
      BY <3>1
    <3> QED
      BY <3>1, <3>2, Zenon DEF Reg!Next, Reg!Clear
  <2>5. CASE Expire \/ Revive
    <3>1. list' = list /\ stage' = stage /\ old' = old
      BY <2>5 DEF Expire, Revive, insertVars
    <3> QED
      BY <3>1, Zenon DEF Reg!Next, Reg!Age
  <2>6. CASE UNCHANGED <<list, dead, stage, old>>
    BY <2>6, Zenon DEF Reg!rvars
  <2>7. CASE InsertDrop
    <3>1. list' = list /\ dead' = dead /\ stage # "swap" /\ stage' # "swap"
      BY <2>7 DEF InsertDrop
    <3> QED
      BY <3>1, Zenon DEF Reg!rvars
  <2>8. \/ \E id \in Ids : InsertSlot(id) \/ InsertDead(id)
        \/ InsertSwap \/ InsertDrop
        \/ Clear \/ Expire \/ Revive \/ UNCHANGED <<list, dead, stage, old>>
    BY Zenon DEF Next, InsertDuplicate, Search, Written, cvars, insertVars
  <2> QED
    BY <2>1, <2>2, <2>3, <2>4, <2>5, <2>6, <2>7, <2>8
<1> QED
  BY <1>1, <1>2, ClientsInvariance, PTL DEF Spec, ImplementsRegistry, Reg!Spec

\* Every variable of the list keeps its type.
THEOREM TypeCorrect == Spec => []TypeOK
<1>1. ClientsInv => TypeOK
  BY DEF ClientsInv
<1> QED
  BY <1>1, ClientsInvariance, PTL
=============================================================================
