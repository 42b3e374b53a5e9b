-------------------------- MODULE ClientStoreProofs --------------------------
(***************************************************************************)
(* Proofs about the files of one client: what restore returns is of one    *)
(* session, and an end that was logged is used for one restore, whatever   *)
(* crashes and late ends of earlier connections come in between.           *)
(***************************************************************************)
EXTENDS ClientStore, TLAPS, SequenceTheorems, FiniteSetTheorems

\* The operations of new and restore that have found a log, and do not look
\* whether it exists.
LogPCs ==
    {"write_created", "trunc_subs", "trunc_meta", "write_meta", "read_wall",
     "write_restored", "read_meta", "read_subs"}

EndsLast == wall \in Seq(Lines) /\ wall # <<>> /\ Last(wall)[1] = "Ended"

\* A file that a step uses exists, and the metadata is of the last session made.
FilesInv ==
    /\ pc \in LogPCs => wall \in Seq(Lines)
    /\ made <= session
    /\ pc \in NewPCs => session \in SessionIds /\ made < session
    /\ meta # NULL \/ pc \in {"trunc_meta", "write_meta"} => subs \in Seq(Topics)
    /\ meta # NULL /\ meta # 0 => meta = made
    /\ pc = "read_subs" => meta \in SessionIds

\* A task is of a session for which new has returned, so that there are files.
TaskInv ==
    \A i \in Tasks : task[i] # "none" =>
        /\ wall \in Seq(Lines) /\ subs \in Seq(Topics)
        /\ of[i] \in SessionIds /\ of[i] <= made
        /\ pc \notin NewPCs => meta = made

\* The lines beyond the position of an open log are ends of earlier
\* connections, which are longer than what is written over them.
PosInv ==
    /\ pc = "write_created" => pos = 0
    /\ pc \in {"write_created", "write_restored"} =>
          /\ pos <= Len(wall)
          /\ \A n \in pos + 1 .. Len(wall) : wall[n][3] = Size["Ended"]

\* The subscriptions are of the session of the metadata, also while they are
\* rewritten, or late.
SubsInv ==
    /\ meta # NULL /\ meta # 0 => Range(subs) \subseteq asked[meta] \cup late
    /\ pc \in {"trunc_meta", "write_meta"} => Range(subs) \subseteq late
    /\ pc \notin NewPCs => \A i \in Tasks :
          task[i] \in {"trunc", "write"} /\ of[i] = made => map[i] \subseteq asked[made] \cup late

\* A session that was returned is dropped before another one is made.
GotInv ==
    /\ pc \in NewPCs \cup (RestorePCs \ {"read_subs"}) => got = NULL
    /\ pc = "read_subs" => got = <<meta, {}>>
    /\ RestoredIsOneSession

\* What an end at the end of the log, and a restore that has seen one, may
\* still add to the number of restores.
CreditInv ==
    /\ restores <= ends
    /\ EndsLast => restores < ends
    /\ pc \in {"write_restored", "read_meta", "read_subs"} => restores < ends
    /\ pc = "write_restored" /\ pos < Len(wall) => restores + 1 < ends
    /\ pc \in {"read_meta", "read_subs"} /\ EndsLast => restores + 1 < ends

\* The subscriptions to be kept are in the file, or in the map of the task that
\* has emptied it.
Covered ==
    /\ (\A i \in Tasks : task[i] # "write") => \A t \in kept : t \in Range(subs)
    /\ \A i \in Tasks : task[i] \in {"trunc", "write"} => kept \subseteq map[i]

\* Or new has emptied the file, and the log does not let anyone restore it.
Unrestorable ==
    /\ ~EndsLast
    /\ \/ pc \in {"trunc_meta", "write_meta"}
       \/ /\ \A i \in Tasks : task[i] = "none"
          /\ pc \notin {"write_restored", "read_meta", "read_subs"}

KeptInv ==
    ~torn =>
        /\ \A i, j \in Tasks :
              task[i] \in {"trunc", "write"} /\ task[j] \in {"trunc", "write"} => i = j
        /\ pc \in {"write_created", "trunc_subs", "trunc_meta", "write_meta"} => ~EndsLast
        /\ Covered \/ Unrestorable

StoreInv == TypeOK /\ FilesInv /\ TaskInv /\ PosInv /\ SubsInv /\ GotInv /\ CreditInv /\ KeptInv

-----------------------------------------------------------------------------
(* Lines of the log *)

\* The lines that are written are lines, and an end is the longest of them.
LEMMA LineFacts ==
    /\ \A u \in Nat : \A e \in Events :
          Line(e, u) \in Lines /\ Line(e, u)[1] = e /\ Line(e, u)[3] = Size[e]
    /\ Size \in [Events -> Nat]
    /\ Size["Created"] <= Size["Ended"] /\ Size["Restored"] <= Size["Ended"]
    /\ NULL # 0
  BY StoreAssumption DEF Events, Line, Lines

\* The bounds are numbers, and NULL is none.
LEMMA BoundFacts ==
    /\ Expiry \in Nat /\ MaxTime \in Nat /\ MaxSessions \in Nat /\ MaxCrashes \in Nat
    /\ NULL \notin Nat
  BY StoreAssumption

\* write_wall over the head of longer lines leaves a log, which ends with an
\* end only if it did before and at least two lines followed the position.
LEMMA WriteWallFacts ==
    ASSUME NEW w \in Seq(Lines), NEW p \in Nat, p <= Len(w),
           NEW l \in Lines, l[1] # "Ended",
           \A i \in p + 1 .. Len(w) : w[i][3] >= l[3]
    PROVE  LET v == WriteWall(w, p, l)
           IN  /\ v \in Seq(Lines)
               /\ v # <<>> /\ Last(v)[1] = "Ended" =>
                     p + 1 < Len(w) /\ w # <<>> /\ Last(w)[1] = "Ended"
<1>1. CASE Len(w) = p
  BY <1>1 DEF WriteWall, Last
<1>2. CASE Len(w) # p
  <2> DEFINE g == <<"garbage", 0, w[p + 1][3] - l[3]>>
  <2> DEFINE a == SubSeq(w, 1, p)
  <2> DEFINE b == SubSeq(w, p + 2, Len(w))
  <2>1. p + 1 \in 1 .. Len(w) /\ Len(w) \in Nat
    BY <1>2
  <2>2. g \in Lines
    <3>1. w[p + 1] \in Lines /\ w[p + 1][3] >= l[3]
      BY <2>1
    <3>2. w[p + 1][3] \in Nat /\ l[3] \in Nat
      BY <3>1 DEF Lines
    <3>3. w[p + 1][3] - l[3] \in Nat
      BY <3>1, <3>2
    <3> QED
      BY <3>3 DEF Lines
  <2>3. a \in Seq(Lines) /\ Len(a) = p
    BY <2>1, SubSeqProperties
  <2>4. b \in Seq(Lines) /\ Len(b) = Len(w) - (p + 1)
        /\ \A i \in 1 .. Len(b) : b[i] = w[p + 1 + i]
    <3>1. \A i \in 1 .. Len(w) : w[i] \in Lines
      BY <2>1
    <3> QED
      BY <2>1, <3>1
  <2>5. <<l, g>> \in Seq(Lines) /\ Len(<<l, g>>) = 2 /\ <<l, g>>[2] = g
    BY <2>2
  <2> DEFINE v == a \o <<l, g>> \o b
  <2>6. WriteWall(w, p, l) = v
    BY <1>2 DEF WriteWall
  <2> HIDE DEF a, b
  <2>7. v \in Seq(Lines) /\ Len(v) = Len(w) + 1
    <3>1. a \o <<l, g>> \in Seq(Lines) /\ Len(a \o <<l, g>>) = p + 2
      BY <2>3, <2>5, ConcatProperties
    <3>2. v \in Seq(Lines) /\ Len(v) = Len(a \o <<l, g>>) + Len(b)
      BY <2>4, <3>1, ConcatProperties
    <3>3. Len(v) = (p + 2) + Len(b)
      BY <3>1, <3>2, Zenon
    <3> HIDE DEF v
    <3> QED
      BY <2>1, <2>4, <3>2, <3>3
  <2>8. CASE Len(w) = p + 1
    <3>1. v[Len(v)] = g
      BY <2>1, <2>3, <2>4, <2>5, <2>7, <2>8
    <3> QED
      BY <2>6, <2>7, <3>1 DEF Last
  <2>9. CASE Len(w) > p + 1
    <3>1. b[Len(b)] = w[Len(w)] /\ Len(b) \in 1 .. Len(b)
      <4>1. Len(b) \in 1 .. Len(b) /\ p + 1 + Len(b) = Len(w)
        BY <2>1, <2>4, <2>9
      <4> QED
        BY <2>4, <4>1, Zenon
    <3>2. v[Len(v)] = b[Len(b)]
      BY <2>1, <2>3, <2>4, <2>5, <2>7, <2>9, <3>1, ConcatProperties
    <3> QED
      BY <2>1, <2>6, <2>7, <2>9, <3>1, <3>2 DEF Last
  <2> QED
    BY <2>1, <2>8, <2>9, <2>4
<1> QED
  BY <1>1, <1>2

-----------------------------------------------------------------------------
(* The file of subscriptions *)

\* What a file of topics holds, and what appending to it adds.
LEMMA RangeFacts ==
    ASSUME NEW q \in Seq(Topics)
    PROVE  /\ Range(q) \subseteq Topics
           /\ \A r \in Seq(Topics) : q \o r \in Seq(Topics) /\ Range(q \o r) = Range(q) \cup Range(r)
           /\ Range(<<>>) = {} /\ <<>> \in Seq(Topics)
<1>1. Range(q) \subseteq Topics /\ Range(<<>>) = {} /\ <<>> \in Seq(Topics)
  BY DEF Range
<1>2. ASSUME NEW r \in Seq(Topics)
      PROVE  q \o r \in Seq(Topics) /\ Range(q \o r) = Range(q) \cup Range(r)
  <2>1. q \o r \in Seq(Topics) /\ Len(q \o r) = Len(q) + Len(r)
    BY <1>2, ConcatProperties
  <2>2. Range(q \o r) \subseteq Range(q) \cup Range(r)
    BY <1>2 DEF Range
  <2>3. \A n \in 1 .. Len(q) : q[n] = (q \o r)[n] /\ n \in 1 .. Len(q \o r)
    BY <1>2, <2>1
  <2>4. \A n \in 1 .. Len(r) : r[n] = (q \o r)[Len(q) + n] /\ Len(q) + n \in 1 .. Len(q \o r)
    BY <1>2, <2>1
  <2>5. \A x \in Range(q) : x \in Range(q \o r)
    BY <2>3 DEF Range
  <2>6. \A x \in Range(r) : x \in Range(q \o r)
    <3>1. ASSUME NEW x \in Range(r)
          PROVE  x \in Range(q \o r)
      <4>1. PICK n \in 1 .. Len(r) : x = r[n]
        BY <1>2 DEF Range
      <4>2. Len(q) + n \in DOMAIN (q \o r) /\ (q \o r)[Len(q) + n] = x
        BY <1>2, <2>1, <2>4, <4>1
      <4> QED
        BY <4>2, Zenon DEF Range
    <3> QED
      BY <3>1
  <2> QED
    BY <2>1, <2>2, <2>5, <2>6
<1> QED
  BY <1>1, <1>2

\* set_len(0) leaves an empty file.
LEMMA EmptyFile == <<>> \in Seq(Topics) /\ Range(<<>>) = {}
  BY DEF Range

\* get_subscribed returns topics of the file, and all if they fit.
LEMMA GetFacts ==
    ASSUME NEW q \in Seq(Topics)
    PROVE  GetSubscribed(q) \subseteq Range(q) /\ (Fits(q) => GetSubscribed(q) = Range(q))
  BY StoreAssumption DEF GetSubscribed, Fits, Range

\* What is written of a map is the map.
LEMMA OrdersFacts ==
    ASSUME NEW m \in SUBSET Topics, NEW q \in Orders(m)
    PROVE  q \in Seq(Topics) /\ Range(q) = m
<1>1. Cardinality(m) \in Nat
  BY StoreAssumption, FS_Subset, FS_CardinalityType
<1> QED
  BY <1>1 DEF Orders

-----------------------------------------------------------------------------
(* The steps *)

\* The steps of new that write no line of the log.
LEMMA NewInv ==
    ASSUME StoreInv, New \/ Mkdir \/ TruncSession \/ TruncSubs \/ TruncMeta \/ WriteMeta
    PROVE  StoreInv'
<1> USE BoundFacts DEF fileVars, acceptVars, taskVars, subsHist, logHist, histVars, Goto, SessionIds, NewPCs, RestorePCs, LogPCs
<1>1. CASE New
  <2>1. TypeOK'
    BY <1>1 DEF StoreInv, TypeOK, New
  <2>2. FilesInv'
    BY <1>1 DEF StoreInv, TypeOK, FilesInv, TaskInv, New
  <2>3. TaskInv'
    BY <1>1 DEF StoreInv, TypeOK, FilesInv, TaskInv, New
  <2>4. PosInv'
    BY <1>1 DEF StoreInv, TypeOK, FilesInv, PosInv, New
  <2>5. SubsInv'
    BY <1>1 DEF StoreInv, TypeOK, FilesInv, TaskInv, SubsInv, New
  <2>6. GotInv'
    BY <1>1 DEF StoreInv, TypeOK, FilesInv, SubsInv, GotInv, RestoredIsOneSession, New
  <2>7. CreditInv'
    BY <1>1 DEF StoreInv, TypeOK, FilesInv, CreditInv, EndsLast, New
  <2>8. KeptInv'
    BY <1>1 DEF StoreInv, TypeOK, FilesInv, TaskInv, KeptInv, Covered, Unrestorable, EndsLast, New
  <2> QED
    BY <2>1, <2>2, <2>3, <2>4, <2>5, <2>6, <2>7, <2>8 DEF StoreInv
<1>2. CASE Mkdir
  <2>1. TypeOK'
    BY <1>2 DEF StoreInv, TypeOK, Mkdir
  <2>2. FilesInv'
    BY <1>2 DEF StoreInv, TypeOK, FilesInv, TaskInv, Mkdir
  <2>3. TaskInv'
    BY <1>2 DEF StoreInv, TypeOK, FilesInv, TaskInv, Mkdir
  <2>4. PosInv'
    BY <1>2 DEF StoreInv, TypeOK, FilesInv, PosInv, Mkdir
  <2>5. SubsInv'
    BY <1>2 DEF StoreInv, TypeOK, FilesInv, TaskInv, SubsInv, Mkdir
  <2>6. GotInv'
    BY <1>2 DEF StoreInv, TypeOK, FilesInv, SubsInv, GotInv, RestoredIsOneSession, Mkdir
  <2>7. CreditInv'
    BY <1>2 DEF StoreInv, TypeOK, FilesInv, CreditInv, EndsLast, Mkdir
  <2>8. KeptInv'
    BY <1>2 DEF StoreInv, TypeOK, FilesInv, TaskInv, KeptInv, Covered, Unrestorable, EndsLast, Mkdir
  <2> QED
    BY <2>1, <2>2, <2>3, <2>4, <2>5, <2>6, <2>7, <2>8 DEF StoreInv
<1>3. CASE TruncSession
  <2>1. TypeOK'
    BY <1>3 DEF StoreInv, TypeOK, TruncSession
  <2>2. FilesInv'
    BY <1>3 DEF StoreInv, TypeOK, FilesInv, TaskInv, TruncSession
  <2>3. TaskInv'
    BY <1>3 DEF StoreInv, TypeOK, FilesInv, TaskInv, TruncSession
  <2>4. PosInv'
    BY <1>3 DEF StoreInv, TypeOK, FilesInv, PosInv, TruncSession
  <2>5. SubsInv'
    BY <1>3 DEF StoreInv, TypeOK, FilesInv, TaskInv, SubsInv, TruncSession
  <2>6. GotInv'
    BY <1>3 DEF StoreInv, TypeOK, FilesInv, SubsInv, GotInv, RestoredIsOneSession, TruncSession
  <2>7. CreditInv'
    BY <1>3 DEF StoreInv, TypeOK, FilesInv, CreditInv, EndsLast, TruncSession
  <2>8. KeptInv'
    BY <1>3 DEF StoreInv, TypeOK, FilesInv, TaskInv, KeptInv, Covered, Unrestorable, EndsLast, TruncSession
  <2> QED
    BY <2>1, <2>2, <2>3, <2>4, <2>5, <2>6, <2>7, <2>8 DEF StoreInv
<1>4. CASE TruncSubs
  <2>1. TypeOK'
    BY <1>4, EmptyFile DEF StoreInv, TypeOK, TruncSubs
  <2>2. FilesInv'
    BY <1>4, EmptyFile DEF StoreInv, TypeOK, FilesInv, TaskInv, TruncSubs
  <2>3. TaskInv'
    BY <1>4, EmptyFile DEF StoreInv, TypeOK, FilesInv, TaskInv, TruncSubs
  <2>4. PosInv'
    BY <1>4 DEF StoreInv, TypeOK, FilesInv, PosInv, TruncSubs
  <2>5. SubsInv'
    BY <1>4, EmptyFile DEF StoreInv, TypeOK, FilesInv, TaskInv, SubsInv, TruncSubs
  <2>6. GotInv'
    BY <1>4 DEF StoreInv, TypeOK, FilesInv, SubsInv, GotInv, RestoredIsOneSession, TruncSubs
  <2>7. CreditInv'
    BY <1>4 DEF StoreInv, TypeOK, FilesInv, CreditInv, EndsLast, TruncSubs
  <2>8. KeptInv'
    BY <1>4, EmptyFile DEF StoreInv, TypeOK, FilesInv, TaskInv, KeptInv, Covered, Unrestorable, EndsLast, TruncSubs
  <2> QED
    BY <2>1, <2>2, <2>3, <2>4, <2>5, <2>6, <2>7, <2>8 DEF StoreInv
<1>5. CASE TruncMeta
  <2>1. TypeOK'
    BY <1>5 DEF StoreInv, TypeOK, TruncMeta
  <2>2. FilesInv'
    BY <1>5 DEF StoreInv, TypeOK, FilesInv, TaskInv, TruncMeta
  <2>3. TaskInv'
    BY <1>5 DEF StoreInv, TypeOK, FilesInv, TaskInv, TruncMeta
  <2>4. PosInv'
    BY <1>5 DEF StoreInv, TypeOK, FilesInv, PosInv, TruncMeta
  <2>5. SubsInv'
    BY <1>5 DEF StoreInv, TypeOK, FilesInv, TaskInv, SubsInv, TruncMeta
  <2>6. GotInv'
    BY <1>5 DEF StoreInv, TypeOK, FilesInv, SubsInv, GotInv, RestoredIsOneSession, TruncMeta
  <2>7. CreditInv'
    BY <1>5 DEF StoreInv, TypeOK, FilesInv, CreditInv, EndsLast, TruncMeta
  <2>8. KeptInv'
    BY <1>5 DEF StoreInv, TypeOK, FilesInv, TaskInv, KeptInv, Covered, Unrestorable, EndsLast, TruncMeta
  <2> QED
    BY <2>1, <2>2, <2>3, <2>4, <2>5, <2>6, <2>7, <2>8 DEF StoreInv
<1>6. CASE WriteMeta
  <2>1. TypeOK'
    BY <1>6 DEF StoreInv, TypeOK, WriteMeta, Start, Editing
  <2>2. FilesInv'
    BY <1>6 DEF StoreInv, TypeOK, FilesInv, TaskInv, WriteMeta, Start, Editing
  <2>3. TaskInv'
    BY <1>6 DEF StoreInv, TypeOK, FilesInv, TaskInv, WriteMeta, Start, Editing
  <2>4. PosInv'
    BY <1>6 DEF StoreInv, TypeOK, FilesInv, PosInv, WriteMeta, Start, Editing
  <2>5. SubsInv'
    <3>1. PICK k \in Tasks : task[k] = "none" /\ task' = [task EXCEPT ![k] = "idle"] /\ of' = [of EXCEPT ![k] = session]
      BY <1>6 DEF WriteMeta, Start
    <3>2. \A i \in Tasks : task'[i] \in {"trunc", "write"} => task[i] # "none" /\ of'[i] = of[i]
      BY <3>1 DEF StoreInv, TypeOK
    <3>3. made < session /\ made \in Nat /\ session \in Nat /\ pc = "write_meta" /\ made' = session
      BY <1>6 DEF StoreInv, TypeOK, FilesInv, WriteMeta
    <3>4. \A i \in Tasks : task[i] # "none" => of[i] \in Nat /\ of[i] <= made
      BY DEF StoreInv, TaskInv
    <3>5. \A i \in Tasks : ~(task'[i] \in {"trunc", "write"} /\ of'[i] = made')
      BY <3>2, <3>3, <3>4
    <3> QED
      BY <1>6, <3>5 DEF StoreInv, SubsInv, WriteMeta
  <2>6. GotInv'
    BY <1>6 DEF StoreInv, TypeOK, FilesInv, SubsInv, GotInv, RestoredIsOneSession, WriteMeta, Start, Editing
  <2>7. CreditInv'
    BY <1>6 DEF StoreInv, TypeOK, FilesInv, CreditInv, EndsLast, WriteMeta, Start, Editing
  <2>8. KeptInv'
    BY <1>6 DEF StoreInv, TypeOK, FilesInv, TaskInv, KeptInv, Covered, Unrestorable, EndsLast, WriteMeta, Start, Editing
  <2> QED
    BY <2>1, <2>2, <2>3, <2>4, <2>5, <2>6, <2>7, <2>8 DEF StoreInv
<1> QED
  BY <1>1, <1>2, <1>3, <1>4, <1>5, <1>6

\* The lines that new and restore write, over the head of late ends.
LEMMA WriteInv ==
    ASSUME StoreInv, WriteCreated \/ WriteRestored
    PROVE  StoreInv'
<1> USE DEF fileVars, acceptVars, taskVars, subsHist, logHist, histVars, Goto, SessionIds, NewPCs, RestorePCs, LogPCs
<1>1. wall \in Seq(Lines) /\ pos \in Nat /\ pos <= Len(wall)
      /\ \A n \in pos + 1 .. Len(wall) : wall[n][3] = Size["Ended"]
  BY DEF StoreInv, TypeOK, FilesInv, PosInv, WriteCreated, WriteRestored
<1>2. PICK l \in Lines : wall' = WriteWall(wall, pos, l) /\ l[1] # "Ended" /\ l[3] <= Size["Ended"]
  <2>1. CASE WriteCreated
    BY <2>1, LineFacts DEF WriteCreated, StoreInv, PosInv, Events
  <2>2. CASE WriteRestored
    BY <2>2, LineFacts DEF WriteRestored, Events
  <2> QED
    BY <2>1, <2>2
<1>3. /\ wall' \in Seq(Lines)
      /\ wall' # <<>> /\ Last(wall')[1] = "Ended" =>
            pos + 1 < Len(wall) /\ wall # <<>> /\ Last(wall)[1] = "Ended"
  <2>1. \A n \in pos + 1 .. Len(wall) : wall[n][3] >= l[3]
    <3>1. Size["Ended"] \in Nat /\ l[3] \in Nat
      BY LineFacts DEF Events, Lines
    <3> QED
      BY <1>1, <1>2, <3>1
  <2> QED
    BY <1>1, <1>2, <2>1, WriteWallFacts
<1>4. EndsLast' => EndsLast /\ pos + 1 < Len(wall)
  BY <1>1, <1>3 DEF EndsLast
<1>5. /\ UNCHANGED <<now, dir, subs, meta, pos, got, session, taskVars, crashes, histVars>>
      /\ (pc = "write_created" /\ pc' = "trunc_subs") \/ (pc = "write_restored" /\ pc' = "read_meta")
  BY DEF WriteCreated, WriteRestored
<1>6. TypeOK' /\ FilesInv' /\ TaskInv'
  BY <1>3, <1>5 DEF StoreInv, TypeOK, FilesInv, TaskInv, Lines
<1>7. PosInv' /\ SubsInv' /\ GotInv'
  BY <1>5 DEF StoreInv, TypeOK, PosInv, SubsInv, GotInv, RestoredIsOneSession
<1>8. CreditInv'
  <2>1. Len(wall) \in Nat
    BY <1>1
  <2> QED
    BY <1>1, <1>4, <1>5, <2>1 DEF StoreInv, TypeOK, CreditInv
<1>9. KeptInv'
  BY <1>4, <1>5 DEF StoreInv, TypeOK, KeptInv, Covered, Unrestorable
<1> QED
  BY <1>6, <1>7, <1>8, <1>9 DEF StoreInv

\* The steps of restore that write nothing.
LEMMA RestoreInv ==
    ASSUME StoreInv, Restore \/ ReadWall \/ ReadMeta \/ ReadSubs \/ Fallback
    PROVE  StoreInv'
<1> USE BoundFacts DEF fileVars, acceptVars, taskVars, subsHist, logHist, histVars, Goto, SessionIds, NewPCs, RestorePCs, LogPCs
<1>1. CASE Restore
  <2>1. TypeOK'
    BY <1>1 DEF StoreInv, TypeOK, Restore
  <2>0. wall # NULL => wall \in Seq(Lines)
    BY DEF StoreInv, TypeOK
  <2>2. FilesInv'
    BY <1>1, <2>0 DEF StoreInv, TypeOK, FilesInv, TaskInv, Restore
  <2>3. TaskInv'
    BY <1>1 DEF StoreInv, TypeOK, FilesInv, TaskInv, Restore
  <2>4. PosInv'
    BY <1>1 DEF StoreInv, TypeOK, FilesInv, PosInv, Restore
  <2>5. SubsInv'
    BY <1>1 DEF StoreInv, TypeOK, FilesInv, TaskInv, SubsInv, Restore
  <2>6. GotInv'
    BY <1>1 DEF StoreInv, TypeOK, FilesInv, SubsInv, GotInv, RestoredIsOneSession, Restore
  <2>7. CreditInv'
    BY <1>1 DEF StoreInv, TypeOK, FilesInv, CreditInv, EndsLast, Restore
  <2>8. KeptInv'
    BY <1>1 DEF StoreInv, TypeOK, FilesInv, TaskInv, KeptInv, Covered, Unrestorable, EndsLast, Restore
  <2> QED
    BY <2>1, <2>2, <2>3, <2>4, <2>5, <2>6, <2>7, <2>8 DEF StoreInv
<1>2. CASE ReadWall
  <2>1. wall \in Seq(Lines) /\ Len(wall) \in Nat
    BY <1>2 DEF StoreInv, FilesInv, ReadWall
  <2>2. pc' = "write_restored" => EndsLast
    BY <1>2, <2>1 DEF ReadWall, EndsLast
  <2>3. /\ pc' \in {"panicked", "write_restored", "failed"} /\ pos' = Len(wall) /\ pc = "read_wall"
        /\ UNCHANGED <<now, fileVars, got, session, taskVars, crashes, histVars>>
    BY <1>2 DEF ReadWall
  <2>4. TypeOK' /\ FilesInv' /\ TaskInv' /\ SubsInv' /\ GotInv'
    BY <2>1, <2>3 DEF StoreInv, TypeOK, FilesInv, TaskInv, SubsInv, GotInv, RestoredIsOneSession
  <2>5. PosInv'
    BY <2>1, <2>3 DEF PosInv
  <2>6. CreditInv'
    BY <2>1, <2>2, <2>3 DEF StoreInv, TypeOK, CreditInv, EndsLast
  <2>7. KeptInv'
    BY <2>2, <2>3 DEF StoreInv, KeptInv, Covered, Unrestorable, EndsLast
  <2> QED
    BY <2>4, <2>5, <2>6, <2>7 DEF StoreInv
<1>3. CASE ReadMeta
  <2>1. TypeOK'
    BY <1>3 DEF StoreInv, TypeOK, ReadMeta
  <2>2. FilesInv'
    BY <1>3 DEF StoreInv, TypeOK, FilesInv, TaskInv, ReadMeta
  <2>3. TaskInv'
    BY <1>3 DEF StoreInv, TypeOK, FilesInv, TaskInv, ReadMeta
  <2>4. PosInv'
    BY <1>3 DEF StoreInv, TypeOK, FilesInv, PosInv, ReadMeta
  <2>5. SubsInv'
    BY <1>3 DEF StoreInv, TypeOK, FilesInv, TaskInv, SubsInv, ReadMeta
  <2>6. GotInv'
    BY <1>3 DEF StoreInv, TypeOK, FilesInv, SubsInv, GotInv, RestoredIsOneSession, ReadMeta
  <2>7. CreditInv'
    BY <1>3 DEF StoreInv, TypeOK, FilesInv, CreditInv, EndsLast, ReadMeta
  <2>8. KeptInv'
    BY <1>3 DEF StoreInv, TypeOK, FilesInv, TaskInv, KeptInv, Covered, Unrestorable, EndsLast, ReadMeta
  <2> QED
    BY <2>1, <2>2, <2>3, <2>4, <2>5, <2>6, <2>7, <2>8 DEF StoreInv
<1>4. CASE ReadSubs
  <2>0. /\ meta \in SessionIds /\ got = <<meta, {}>> /\ subs \in Seq(Topics)
        /\ meta = made /\ Range(subs) \subseteq asked[meta] \cup late
        /\ GetSubscribed(subs) \subseteq Range(subs) /\ Range(subs) \subseteq Topics
    BY <1>4, GetFacts, RangeFacts DEF ReadSubs, StoreInv, TypeOK, FilesInv, SubsInv, GotInv
  <2>1. TypeOK'
    BY <1>4, <2>0 DEF StoreInv, TypeOK, ReadSubs, Start, Emptied
  <2>2. FilesInv'
    BY <1>4 DEF StoreInv, TypeOK, FilesInv, TaskInv, ReadSubs, Start, Emptied
  <2>3. TaskInv'
    BY <1>4, <2>0 DEF StoreInv, TypeOK, FilesInv, TaskInv, ReadSubs, Start, Emptied
  <2>4. PosInv'
    BY <1>4 DEF StoreInv, TypeOK, FilesInv, PosInv, ReadSubs, Start, Emptied
  <2>5. SubsInv'
    BY <1>4, <2>0 DEF StoreInv, TypeOK, FilesInv, TaskInv, SubsInv, ReadSubs, Start, Emptied
  <2>6. GotInv'
    BY <1>4, <2>0 DEF StoreInv, TypeOK, FilesInv, SubsInv, GotInv, RestoredIsOneSession, ReadSubs, Start, Emptied
  <2>7. CreditInv'
    BY <1>4 DEF StoreInv, TypeOK, FilesInv, CreditInv, EndsLast, ReadSubs, Start, Emptied
  <2>8. KeptInv'
    BY <1>4 DEF StoreInv, TypeOK, FilesInv, TaskInv, KeptInv, Covered, Unrestorable, EndsLast, ReadSubs, Start, Emptied
  <2> QED
    BY <2>1, <2>2, <2>3, <2>4, <2>5, <2>6, <2>7, <2>8 DEF StoreInv
<1>5. CASE Fallback
  <2>1. TypeOK'
    BY <1>5 DEF StoreInv, TypeOK, Fallback
  <2>2. FilesInv'
    BY <1>5 DEF StoreInv, TypeOK, FilesInv, TaskInv, Fallback
  <2>3. TaskInv'
    BY <1>5 DEF StoreInv, TypeOK, FilesInv, TaskInv, Fallback
  <2>4. PosInv'
    BY <1>5 DEF StoreInv, TypeOK, FilesInv, PosInv, Fallback
  <2>5. SubsInv'
    BY <1>5 DEF StoreInv, TypeOK, FilesInv, TaskInv, SubsInv, Fallback
  <2>6. GotInv'
    BY <1>5 DEF StoreInv, TypeOK, FilesInv, SubsInv, GotInv, RestoredIsOneSession, Fallback
  <2>7. CreditInv'
    BY <1>5 DEF StoreInv, TypeOK, FilesInv, CreditInv, EndsLast, Fallback
  <2>8. KeptInv'
    BY <1>5 DEF StoreInv, TypeOK, FilesInv, TaskInv, KeptInv, Covered, Unrestorable, EndsLast, Fallback
  <2> QED
    BY <2>1, <2>2, <2>3, <2>4, <2>5, <2>6, <2>7, <2>8 DEF StoreInv
<1> QED
  BY <1>1, <1>2, <1>3, <1>4, <1>5

\* The steps of a task that reads, empties and writes the file of subscriptions.
LEMMA EditInv ==
    ASSUME StoreInv, NEW i \in Tasks,
           \/ \E t \in Topics : Subscribe(i, t) \/ Unsubscribe(i, t)
           \/ Follow(i) \/ EditTrunc(i) \/ WriteSubscribed(i)
    PROVE  StoreInv'
<1> USE BoundFacts DEF fileVars, acceptVars, taskVars, subsHist, logHist, histVars, Goto, Step, SessionIds, NewPCs, RestorePCs, LogPCs
<1>1. ASSUME NEW t \in Topics, Subscribe(i, t)
      PROVE  StoreInv'
  <2>0. /\ subs \in Seq(Topics) /\ GetSubscribed(subs) \subseteq Range(subs) /\ Range(subs) \subseteq Topics
        /\ Fits(subs) => GetSubscribed(subs) = Range(subs)
        /\ task[i] = "idle" /\ of[i] \in SessionIds
    BY <1>1, GetFacts, RangeFacts DEF Subscribe, Edit, StoreInv, TaskInv
  <2>1. TypeOK'
    BY <1>1, <2>0 DEF StoreInv, TypeOK, Subscribe, Edit, Editing
  <2>2. FilesInv'
    BY <1>1, <2>0 DEF StoreInv, TypeOK, FilesInv, TaskInv, Subscribe, Edit, Editing
  <2>3. TaskInv'
    BY <1>1, <2>0 DEF StoreInv, TypeOK, FilesInv, TaskInv, Subscribe, Edit, Editing
  <2>4. PosInv'
    BY <1>1, <2>0 DEF StoreInv, TypeOK, FilesInv, PosInv, Subscribe, Edit, Editing
  <2>5. SubsInv'
    BY <1>1, <2>0 DEF StoreInv, TypeOK, FilesInv, TaskInv, SubsInv, Subscribe, Edit, Editing
  <2>6. GotInv'
    BY <1>1, <2>0 DEF StoreInv, TypeOK, FilesInv, SubsInv, GotInv, RestoredIsOneSession, Subscribe, Edit, Editing
  <2>7. CreditInv'
    BY <1>1, <2>0 DEF StoreInv, TypeOK, FilesInv, CreditInv, EndsLast, Subscribe, Edit, Editing
  <2>8. KeptInv'
    <3>1. SUFFICES ASSUME ~torn' PROVE KeptInv'
      BY DEF KeptInv
    <3>2. /\ ~torn /\ (\A j \in Tasks : task[j] \notin {"trunc", "write"}) /\ GetSubscribed(subs) = Range(subs)
          /\ UNCHANGED <<fileVars, acceptVars>> /\ kept' = kept
          /\ task' = [task EXCEPT ![i] = "trunc"] /\ map' = [map EXCEPT ![i] = Range(subs) \cup {t}]
      BY <1>1, <2>0, <3>1 DEF Subscribe, Edit, Editing
    <3>3. /\ \A j \in Tasks : task'[j] \in {"trunc", "write"} => j = i
          /\ map'[i] = Range(subs) \cup {t} /\ \A j \in Tasks : task'[j] # "write"
      BY <3>2 DEF StoreInv, TypeOK
    <3>4. CASE Covered
      <4>1. \A x \in kept : x \in Range(subs)
        BY <3>2, <3>4 DEF Covered
      <4>2. kept' \subseteq map'[i] /\ \A x \in kept' : x \in Range(subs')
        BY <3>2, <3>3, <4>1
      <4>3. Covered'
        BY <3>3, <4>2 DEF Covered
      <4> QED
        BY <3>2, <3>3, <4>3 DEF StoreInv, KeptInv, EndsLast
    <3>5. CASE Unrestorable
      <4>1. pc \in {"trunc_meta", "write_meta"} /\ ~EndsLast
        BY <2>0, <3>5 DEF Unrestorable
      <4>2. Unrestorable'
        BY <3>2, <4>1 DEF Unrestorable, EndsLast
      <4> QED
        BY <3>2, <3>3, <4>2 DEF StoreInv, KeptInv, EndsLast
    <3> QED
      BY <3>2, <3>4, <3>5 DEF StoreInv, KeptInv
  <2> QED
    BY <2>1, <2>2, <2>3, <2>4, <2>5, <2>6, <2>7, <2>8 DEF StoreInv
<1>2. ASSUME NEW t \in Topics, Unsubscribe(i, t)
      PROVE  StoreInv'
  <2>0. /\ subs \in Seq(Topics) /\ GetSubscribed(subs) \subseteq Range(subs) /\ Range(subs) \subseteq Topics
        /\ Fits(subs) => GetSubscribed(subs) = Range(subs)
        /\ task[i] = "idle" /\ of[i] \in SessionIds
    BY <1>2, GetFacts, RangeFacts DEF Unsubscribe, Edit, StoreInv, TaskInv
  <2>1. TypeOK'
    BY <1>2, <2>0 DEF StoreInv, TypeOK, Unsubscribe, Edit, Editing
  <2>2. FilesInv'
    BY <1>2, <2>0 DEF StoreInv, TypeOK, FilesInv, TaskInv, Unsubscribe, Edit, Editing
  <2>3. TaskInv'
    BY <1>2, <2>0 DEF StoreInv, TypeOK, FilesInv, TaskInv, Unsubscribe, Edit, Editing
  <2>4. PosInv'
    BY <1>2, <2>0 DEF StoreInv, TypeOK, FilesInv, PosInv, Unsubscribe, Edit, Editing
  <2>5. SubsInv'
    BY <1>2, <2>0 DEF StoreInv, TypeOK, FilesInv, TaskInv, SubsInv, Unsubscribe, Edit, Editing
  <2>6. GotInv'
    BY <1>2, <2>0 DEF StoreInv, TypeOK, FilesInv, SubsInv, GotInv, RestoredIsOneSession, Unsubscribe, Edit, Editing
  <2>7. CreditInv'
    BY <1>2, <2>0 DEF StoreInv, TypeOK, FilesInv, CreditInv, EndsLast, Unsubscribe, Edit, Editing
  <2>8. KeptInv'
    <3>1. SUFFICES ASSUME ~torn' PROVE KeptInv'
      BY DEF KeptInv
    <3>2. /\ ~torn /\ (\A j \in Tasks : task[j] \notin {"trunc", "write"}) /\ GetSubscribed(subs) = Range(subs)
          /\ UNCHANGED <<fileVars, acceptVars>> /\ kept' = kept \ {t}
          /\ task' = [task EXCEPT ![i] = "trunc"] /\ map' = [map EXCEPT ![i] = Range(subs) \ {t}]
      BY <1>2, <2>0, <3>1 DEF Unsubscribe, Edit, Editing
    <3>3. /\ \A j \in Tasks : task'[j] \in {"trunc", "write"} => j = i
          /\ map'[i] = Range(subs) \ {t} /\ \A j \in Tasks : task'[j] # "write"
      BY <3>2 DEF StoreInv, TypeOK
    <3>4. CASE Covered
      <4>1. \A x \in kept : x \in Range(subs)
        BY <3>2, <3>4 DEF Covered
      <4>2. kept' \subseteq map'[i] /\ \A x \in kept' : x \in Range(subs')
        BY <3>2, <3>3, <4>1
      <4>3. Covered'
        BY <3>3, <4>2 DEF Covered
      <4> QED
        BY <3>2, <3>3, <4>3 DEF StoreInv, KeptInv, EndsLast
    <3>5. CASE Unrestorable
      <4>1. pc \in {"trunc_meta", "write_meta"} /\ ~EndsLast
        BY <2>0, <3>5 DEF Unrestorable
      <4>2. Unrestorable'
        BY <3>2, <4>1 DEF Unrestorable, EndsLast
      <4> QED
        BY <3>2, <3>3, <4>2 DEF StoreInv, KeptInv, EndsLast
    <3> QED
      BY <3>2, <3>4, <3>5 DEF StoreInv, KeptInv
  <2> QED
    BY <2>1, <2>2, <2>3, <2>4, <2>5, <2>6, <2>7, <2>8 DEF StoreInv
<1>3. CASE Follow(i)
  <2>1. TypeOK'
    <3>1. meta = made /\ task[i] = "idle"
      BY <1>3 DEF StoreInv, TaskInv, Follow
    <3> QED
      BY <1>3, <3>1 DEF StoreInv, TypeOK, Follow
  <2>2. FilesInv'
    BY <1>3 DEF StoreInv, TypeOK, FilesInv, TaskInv, Follow
  <2>3. TaskInv'
    BY <1>3 DEF StoreInv, TypeOK, FilesInv, TaskInv, Follow
  <2>4. PosInv'
    BY <1>3 DEF StoreInv, TypeOK, FilesInv, PosInv, Follow
  <2>5. SubsInv'
    BY <1>3 DEF StoreInv, TypeOK, FilesInv, TaskInv, SubsInv, Follow
  <2>6. GotInv'
    BY <1>3 DEF StoreInv, TypeOK, FilesInv, SubsInv, GotInv, RestoredIsOneSession, Follow
  <2>7. CreditInv'
    BY <1>3 DEF StoreInv, TypeOK, FilesInv, CreditInv, EndsLast, Follow
  <2>8. KeptInv'
    BY <1>3 DEF StoreInv, TypeOK, FilesInv, TaskInv, KeptInv, Covered, Unrestorable, EndsLast, Follow
  <2> QED
    BY <2>1, <2>2, <2>3, <2>4, <2>5, <2>6, <2>7, <2>8 DEF StoreInv
<1>4. CASE EditTrunc(i)
  <2>1. TypeOK'
    BY <1>4, EmptyFile DEF StoreInv, TypeOK, EditTrunc
  <2>2. FilesInv'
    BY <1>4, EmptyFile DEF StoreInv, TypeOK, FilesInv, TaskInv, EditTrunc
  <2>3. TaskInv'
    BY <1>4, EmptyFile DEF StoreInv, TypeOK, FilesInv, TaskInv, EditTrunc
  <2>4. PosInv'
    BY <1>4, EmptyFile DEF StoreInv, TypeOK, FilesInv, PosInv, EditTrunc
  <2>5. SubsInv'
    BY <1>4, EmptyFile DEF StoreInv, TypeOK, FilesInv, TaskInv, SubsInv, EditTrunc
  <2>6. GotInv'
    BY <1>4, EmptyFile DEF StoreInv, TypeOK, FilesInv, SubsInv, GotInv, RestoredIsOneSession, EditTrunc
  <2>7. CreditInv'
    BY <1>4, EmptyFile DEF StoreInv, TypeOK, FilesInv, CreditInv, EndsLast, EditTrunc
  <2>8. KeptInv'
    BY <1>4, EmptyFile DEF StoreInv, TypeOK, FilesInv, TaskInv, KeptInv, Covered, Unrestorable, EndsLast, EditTrunc
  <2> QED
    BY <2>1, <2>2, <2>3, <2>4, <2>5, <2>6, <2>7, <2>8 DEF StoreInv
<1>5. CASE WriteSubscribed(i)
  <2>a. PICK q \in Orders(map[i]) : subs' = subs \o q
    BY <1>5 DEF WriteSubscribed
  <2>b. map[i] \in SUBSET Topics /\ task[i] = "write" /\ subs \in Seq(Topics)
    BY <1>5 DEF WriteSubscribed, StoreInv, TypeOK, TaskInv
  <2>c. q \in Seq(Topics) /\ Range(q) = map[i]
    BY <2>b, OrdersFacts
  <2>d. subs \o q \in Seq(Topics) /\ Range(subs \o q) = Range(subs) \cup Range(q)
    BY <2>b, <2>c, RangeFacts
  <2>0. /\ map[i] \subseteq Topics /\ task[i] = "write"
        /\ subs \in Seq(Topics) /\ subs' \in Seq(Topics) /\ Range(subs') = Range(subs) \cup map[i]
    BY <2>a, <2>b, <2>c, <2>d
  <2>1. TypeOK'
    BY <1>5, <2>0 DEF StoreInv, TypeOK, WriteSubscribed, Owner
  <2>2. FilesInv'
    BY <1>5, <2>0 DEF StoreInv, TypeOK, FilesInv, TaskInv, WriteSubscribed, Owner
  <2>3. TaskInv'
    BY <1>5, <2>0 DEF StoreInv, TypeOK, FilesInv, TaskInv, WriteSubscribed, Owner
  <2>4. PosInv'
    BY <1>5, <2>0 DEF StoreInv, TypeOK, FilesInv, PosInv, WriteSubscribed, Owner
  <2>5. SubsInv'
    <3>1. /\ of[i] \in SessionIds /\ of[i] <= made /\ (pc \notin NewPCs => meta = made)
          /\ meta # NULL /\ meta # 0 => meta = made
          /\ pc \in NewPCs => made < session
          /\ made \in Nat /\ session \in Nat
      BY <2>0 DEF StoreInv, TypeOK, TaskInv, FilesInv
    <3>2. /\ UNCHANGED <<meta, pc, of, asked, made>>
          /\ task' = [task EXCEPT ![i] = "idle"] /\ map' = [map EXCEPT ![i] = {}]
          /\ of[i] = Owner => late' = late
          /\ of[i] # Owner => late' = late \cup map[i]
      BY <1>5 DEF WriteSubscribed
    <3>3. pc \in NewPCs => of[i] # Owner
      BY <3>1 DEF Owner
    <3>4. pc \notin NewPCs /\ of[i] = Owner => map[i] \subseteq asked[made] \cup late /\ of[i] = made
      BY <2>0, <3>1 DEF Owner, StoreInv, SubsInv
    <3>5. late \subseteq late'
      BY <3>2
    <3>6. meta # NULL /\ meta # 0 => Range(subs') \subseteq asked[meta] \cup late'
      <4>1. SUFFICES ASSUME meta # NULL, meta # 0 PROVE Range(subs') \subseteq asked[meta] \cup late'
        OBVIOUS
      <4>2. Range(subs) \subseteq asked[meta] \cup late /\ meta = made
        BY <3>1, <4>1 DEF StoreInv, SubsInv
      <4>3. map[i] \subseteq asked[meta] \cup late'
        BY <3>2, <3>3, <3>4, <4>2
      <4> QED
        BY <2>0, <3>5, <4>2, <4>3
    <3>7. pc \in {"trunc_meta", "write_meta"} => Range(subs') \subseteq late'
      BY <2>0, <3>2, <3>3 DEF StoreInv, SubsInv
    <3>8. \A j \in Tasks : task'[j] \in {"trunc", "write"} => task[j] = task'[j] /\ map'[j] = map[j]
      BY <3>2 DEF StoreInv, TypeOK
    <3> QED
      BY <3>2, <3>5, <3>6, <3>7, <3>8 DEF StoreInv, SubsInv
  <2>6. GotInv'
    BY <1>5, <2>0 DEF StoreInv, TypeOK, FilesInv, SubsInv, GotInv, RestoredIsOneSession, WriteSubscribed, Owner
  <2>7. CreditInv'
    BY <1>5, <2>0 DEF StoreInv, TypeOK, FilesInv, CreditInv, EndsLast, WriteSubscribed, Owner
  <2>8. KeptInv'
    BY <1>5, <2>0 DEF StoreInv, TypeOK, FilesInv, TaskInv, KeptInv, Covered, Unrestorable, EndsLast, WriteSubscribed, Owner
  <2> QED
    BY <2>1, <2>2, <2>3, <2>4, <2>5, <2>6, <2>7, <2>8 DEF StoreInv
<1> QED
  BY <1>1, <1>2, <1>3, <1>4, <1>5

\* What the invariant says about a log to which an end is appended.
LEMMA AppendEndFacts ==
    ASSUME StoreInv, NEW i \in Tasks, LogEnd(i)
    PROVE  /\ wall \in Seq(Lines) /\ wall' \in Seq(Lines)
           /\ Len(wall') = Len(wall) + 1 /\ Len(wall) \in Nat
           /\ wall'[Len(wall')][3] = Size["Ended"]
           /\ \A n \in 1 .. Len(wall) : wall'[n] = wall[n]
           /\ ends' = ends + 1
<1>1. wall \in Seq(Lines) /\ now + Expiry \in Nat
  BY BoundFacts DEF StoreInv, TypeOK, TaskInv, LogEnd, Step
<1>2. Line("Ended", now + Expiry) \in Lines /\ Line("Ended", now + Expiry)[3] = Size["Ended"]
  BY <1>1, LineFacts DEF Events
<1> QED
  BY <1>1, <1>2 DEF LogEnd

\* An end is logged, by whichever task.
LEMMA LogInv ==
    ASSUME StoreInv, NEW i \in Tasks, LogEnd(i)
    PROVE  StoreInv'
<1> USE BoundFacts DEF fileVars, acceptVars, taskVars, subsHist, logHist, histVars, Goto, Step, SessionIds, NewPCs, RestorePCs, LogPCs
<1>1. /\ wall \in Seq(Lines) /\ wall' \in Seq(Lines)
      /\ Len(wall') = Len(wall) + 1 /\ Len(wall) \in Nat
      /\ wall'[Len(wall')][3] = Size["Ended"]
      /\ \A n \in 1 .. Len(wall) : wall'[n] = wall[n]
      /\ ends' = ends + 1
  BY AppendEndFacts
<1>2. /\ UNCHANGED <<now, dir, subs, meta, acceptVars, map, crashes, made, asked, late, kept, restores>>
      /\ deadline' \in Nat /\ torn' = (torn \/ pc \in NewPCs)
      /\ task' = [task EXCEPT ![i] = "none"] /\ of' = [of EXCEPT ![i] = 0] /\ task[i] = "idle"
  BY DEF LogEnd, StoreInv, TypeOK
<1>3. TypeOK'
  BY <1>1, <1>2 DEF StoreInv, TypeOK
<1>4. FilesInv' /\ TaskInv'
  BY <1>1, <1>2 DEF StoreInv, TypeOK, FilesInv, TaskInv
<1>5. PosInv'
  <2>1. pos' = pos /\ pos \in Nat /\ pc' = pc
    BY <1>2 DEF StoreInv, TypeOK
  <2>2. SUFFICES ASSUME pc \in {"write_created", "write_restored"}
                 PROVE  (pc = "write_created" => pos = 0) /\ pos <= Len(wall')
                        /\ \A n \in pos + 1 .. Len(wall') : wall'[n][3] = Size["Ended"]
    BY <2>1 DEF PosInv
  <2>3. /\ pc = "write_created" => pos = 0
        /\ pos <= Len(wall)
        /\ \A n \in pos + 1 .. Len(wall) : wall[n][3] = Size["Ended"]
    BY <2>2 DEF StoreInv, PosInv
  <2>4. ASSUME NEW n \in pos + 1 .. Len(wall')
        PROVE  wall'[n][3] = Size["Ended"]
    <3>1. (n \in pos + 1 .. Len(wall) /\ n \in 1 .. Len(wall)) \/ n = Len(wall')
      BY <1>1, <2>1
    <3> QED
      BY <1>1, <2>3, <3>1
  <2> QED
    BY <1>1, <2>1, <2>3, <2>4
<1>6. SubsInv' /\ GotInv'
  BY <1>2 DEF StoreInv, TypeOK, SubsInv, GotInv, RestoredIsOneSession
<1>7. CreditInv'
  <2>1. restores' = restores /\ restores \in Nat /\ ends \in Nat /\ pos' = pos /\ pos \in Nat
    BY <1>2 DEF StoreInv, TypeOK
  <2>2. /\ restores <= ends
        /\ pc \in {"write_restored", "read_meta", "read_subs"} => restores < ends
    BY DEF StoreInv, CreditInv
  <2>3. ends' \in Nat /\ restores < ends' /\ (pc \in {"write_restored", "read_meta", "read_subs"} => restores + 1 < ends')
    BY <1>1, <2>1, <2>2
  <2> QED
    BY <1>2, <2>1, <2>3 DEF CreditInv
<1>8. KeptInv'
  <2>1. SUFFICES ASSUME ~torn' PROVE KeptInv'
    BY DEF KeptInv
  <2>2. ~torn /\ pc \notin NewPCs /\ pc' = pc
    BY <1>2, <2>1
  <2>3. Covered
    BY <1>2, <2>2 DEF StoreInv, KeptInv, Unrestorable
  <2>4. \A j \in Tasks : task'[j] = task[j] \/ (task'[j] = "none" /\ task[j] = "idle")
    BY <1>2 DEF StoreInv, TypeOK
  <2>5. Covered'
    BY <1>2, <2>3, <2>4 DEF Covered
  <2> QED
    BY <2>2, <2>4, <2>5 DEF StoreInv, KeptInv
<1> QED
  BY <1>3, <1>4, <1>5, <1>6, <1>7, <1>8 DEF StoreInv

\* A crash leaves the files, and with them the claims on restores.
LEMMA CrashInv ==
    ASSUME StoreInv, Crash \/ Tick
    PROVE  StoreInv'
<1> USE BoundFacts DEF fileVars, acceptVars, taskVars, subsHist, logHist, histVars, Goto, SessionIds, NewPCs, RestorePCs, LogPCs
<1>1. CASE Crash
  <2>1. TypeOK'
    BY <1>1 DEF StoreInv, TypeOK, Crash, Emptied
  <2>2. FilesInv'
    BY <1>1 DEF StoreInv, TypeOK, FilesInv, TaskInv, Crash, Emptied
  <2>3. TaskInv'
    BY <1>1 DEF StoreInv, TypeOK, FilesInv, TaskInv, Crash, Emptied
  <2>4. PosInv'
    BY <1>1 DEF StoreInv, TypeOK, FilesInv, PosInv, Crash, Emptied
  <2>5. SubsInv'
    BY <1>1 DEF StoreInv, TypeOK, FilesInv, TaskInv, SubsInv, Crash, Emptied
  <2>6. GotInv'
    BY <1>1 DEF StoreInv, TypeOK, FilesInv, SubsInv, GotInv, RestoredIsOneSession, Crash, Emptied
  <2>7. CreditInv'
    BY <1>1 DEF StoreInv, TypeOK, FilesInv, CreditInv, EndsLast, Crash, Emptied
  <2>8. KeptInv'
    BY <1>1 DEF StoreInv, TypeOK, FilesInv, TaskInv, KeptInv, Covered, Unrestorable, EndsLast, Crash, Emptied
  <2> QED
    BY <2>1, <2>2, <2>3, <2>4, <2>5, <2>6, <2>7, <2>8 DEF StoreInv
<1>2. CASE Tick
  <2>1. TypeOK'
    BY <1>2 DEF StoreInv, TypeOK, Tick
  <2>2. FilesInv'
    BY <1>2 DEF StoreInv, TypeOK, FilesInv, TaskInv, Tick
  <2>3. TaskInv'
    BY <1>2 DEF StoreInv, TypeOK, FilesInv, TaskInv, Tick
  <2>4. PosInv'
    BY <1>2 DEF StoreInv, TypeOK, FilesInv, PosInv, Tick
  <2>5. SubsInv'
    BY <1>2 DEF StoreInv, TypeOK, FilesInv, TaskInv, SubsInv, Tick
  <2>6. GotInv'
    BY <1>2 DEF StoreInv, TypeOK, FilesInv, SubsInv, GotInv, RestoredIsOneSession, Tick
  <2>7. CreditInv'
    BY <1>2 DEF StoreInv, TypeOK, FilesInv, CreditInv, EndsLast, Tick
  <2>8. KeptInv'
    BY <1>2 DEF StoreInv, TypeOK, FilesInv, TaskInv, KeptInv, Covered, Unrestorable, EndsLast, Tick
  <2> QED
    BY <2>1, <2>2, <2>3, <2>4, <2>5, <2>6, <2>7, <2>8 DEF StoreInv
<1> QED
  BY <1>1, <1>2

-----------------------------------------------------------------------------

\* The inductive invariant of the files: they agree with each other and with
\* the claims on restores, in every state of new, restore and the tasks.
THEOREM StoreInvariance == Spec => []StoreInv
<1>1. Init => StoreInv
  <2> SUFFICES ASSUME Init PROVE StoreInv
    OBVIOUS
  <2>1. ~EndsLast
    BY StoreAssumption DEF Init, EndsLast
  <2>2. TypeOK
    <3>1. asked \in [SessionIds -> SUBSET Topics] /\ dir \in BOOLEAN
      BY DEF Init
    <3>2. /\ task \in [Tasks -> {"none", "idle", "trunc", "write"}]
          /\ of \in [Tasks -> 0 .. MaxSessions] /\ map \in [Tasks -> SUBSET Topics]
      BY BoundFacts DEF Init
    <3>3. now \in 0 .. MaxTime /\ session \in 0 .. MaxSessions /\ made \in 0 .. MaxSessions
          /\ crashes \in 0 .. MaxCrashes /\ pos \in Nat /\ ends \in Nat /\ restores \in Nat /\ deadline \in Nat
      BY BoundFacts DEF Init
    <3>4. late \subseteq Topics /\ kept \subseteq Topics /\ torn \in BOOLEAN /\ pc \in {"idle", "panicked"}
          /\ got = NULL /\ wall = NULL /\ subs = NULL /\ meta = NULL
      BY DEF Init
    <3> QED
      BY <3>1, <3>2, <3>3, <3>4 DEF TypeOK
  <2>3. FilesInv /\ TaskInv /\ PosInv /\ SubsInv
    BY BoundFacts DEF Init, FilesInv, TaskInv, PosInv, SubsInv, LogPCs, NewPCs
  <2>4. GotInv /\ CreditInv
    BY <2>1 DEF Init, GotInv, CreditInv, RestoredIsOneSession, NewPCs, RestorePCs
  <2>5. KeptInv
    BY DEF Init, KeptInv, Covered
  <2> QED
    BY <2>2, <2>3, <2>4, <2>5 DEF StoreInv
<1>2. StoreInv /\ [Next]_cvars => StoreInv'
  <2> SUFFICES ASSUME StoreInv, [Next]_cvars PROVE StoreInv'
    OBVIOUS
  <2>1. CASE UNCHANGED cvars
    BY <2>1 DEF cvars, fileVars, acceptVars, taskVars, subsHist, logHist, histVars, StoreInv, TypeOK,
      FilesInv, TaskInv, PosInv, SubsInv, GotInv, CreditInv, EndsLast, RestoredIsOneSession, KeptInv,
      Covered, Unrestorable
  <2>2. CASE \E i \in Tasks :
          \/ \E t \in Topics : Subscribe(i, t) \/ Unsubscribe(i, t)
          \/ Follow(i) \/ EditTrunc(i) \/ WriteSubscribed(i) \/ LogEnd(i)
    BY <2>2, EditInv, LogInv
  <2> QED
    BY <2>1, <2>2, NewInv, WriteInv, RestoreInv, CrashInv DEF Next
<1> QED
  BY <1>1, <1>2, PTL DEF Spec

\* Every variable of the store keeps its type: among others, the rest of a line
\* that was overwritten has a length.
THEOREM TypeCorrect == Spec => []TypeOK
  BY StoreInvariance, PTL DEF StoreInv

\* restore never returns a session from before the last one made, nor a
\* subscription of another session, unless a task of that session has written
\* it after new had emptied the file.
THEOREM RestoresOneSession == Spec => []RestoredIsOneSession
<1>1. StoreInv => RestoredIsOneSession
  BY DEF StoreInv, GotInv
<1> QED
  BY <1>1, StoreInvariance, PTL

\* restore loses a subscription that subscribe has written in no way but those
\* that the property names.
THEOREM RestoresAllKept == Spec => RestoreLosesNothing
<1>1. StoreInv /\ [Next]_cvars => [restores' > restores /\ ~torn' => kept \subseteq got'[2]]_cvars
  <2> SUFFICES ASSUME StoreInv, Next, restores' > restores, ~torn' PROVE kept \subseteq got'[2]
    OBVIOUS
  <2> USE DEF histVars, logHist, subsHist
  <2>1. restores \in Nat
    BY DEF StoreInv, TypeOK
  <2>2. ReadSubs
    <3>1. restores' # restores
      BY <2>1
    <3>2. ~(New \/ Mkdir \/ TruncSession \/ WriteCreated \/ TruncSubs \/ TruncMeta \/ WriteMeta)
      BY <3>1 DEF New, Mkdir, TruncSession, WriteCreated, TruncSubs, TruncMeta, WriteMeta
    <3>3. ~(Restore \/ ReadWall \/ WriteRestored \/ ReadMeta \/ Fallback \/ Crash \/ Tick)
      BY <3>1 DEF Restore, ReadWall, WriteRestored, ReadMeta, Fallback, Crash, Tick
    <3>4. ASSUME NEW i \in Tasks
          PROVE  /\ \A t \in Topics : ~Subscribe(i, t) /\ ~Unsubscribe(i, t)
                 /\ ~(Follow(i) \/ EditTrunc(i) \/ WriteSubscribed(i) \/ LogEnd(i))
      BY <3>1 DEF Subscribe, Unsubscribe, Edit, Follow, EditTrunc, WriteSubscribed, LogEnd
    <3> QED
      BY <3>2, <3>3, <3>4 DEF Next
  <2>3. ~torn /\ ~Emptied /\ Fits(subs) /\ pc = "read_subs" /\ got' = <<got[1], GetSubscribed(subs)>>
    BY <2>2 DEF ReadSubs, Goto
  <2>4. subs \in Seq(Topics)
    BY <2>3, BoundFacts DEF StoreInv, FilesInv, SessionIds
  <2>5. Covered
    BY <2>3 DEF StoreInv, KeptInv, Unrestorable
  <2>6. kept \subseteq Range(subs)
    BY <2>3, <2>5 DEF Covered, Emptied
  <2>7. GetSubscribed(subs) = Range(subs)
    BY <2>3, <2>4, GetFacts
  <2> QED
    BY <2>3, <2>6, <2>7
<1> QED
  BY <1>1, StoreInvariance, PTL DEF Spec, RestoreLosesNothing

\* restore succeeds at most once for each end that log_session has written.
THEOREM RestoresAtMostOnce == Spec => []EachEndRestoresOnce
<1>1. StoreInv => EachEndRestoresOnce
  BY DEF StoreInv, CreditInv, EachEndRestoresOnce
<1> QED
  BY <1>1, StoreInvariance, PTL
=============================================================================
