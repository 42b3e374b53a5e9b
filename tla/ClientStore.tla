----------------------------- MODULE ClientStore -----------------------------
(***************************************************************************)
(* The files of one client (storage.rs): the log of its session, its       *)
(* subscriptions and its metadata, written by new and restore on behalf of *)
(* the accept task, by subscribe and log_session on behalf of the task of  *)
(* the client, with a crash of the broker between any two system calls.    *)
(*                                                                         *)
(* The task of a connection goes on when a CONNECT of the same client calls*)
(* new or restore: its next read, edit or end may fall between any two of  *)
(* their steps, and of those of the task that is started when they return. *)
(*                                                                         *)
(* A line of the log is <<event, expiration time, length>>.  A write of one*)
(* buffer is complete or did not happen.                                   *)
(***************************************************************************)
EXTENDS Integers, Sequences, FiniteSets, Functions

CONSTANTS
    Topics,
    Tasks,         \* bound on the number of client tasks that run at a time
    Size,          \* length of the line of each event: 25, 41 and 26 bytes
    WallBuf,       \* length of the buffer of read_wall: 512 bytes
    SubsBuf,       \* how many subscriptions fit into the buffer of get_subscribed
    Expiry,        \* session expiry interval
    MaxSessions,   \* bound on the number of calls of new
    MaxLines,      \* bound on the number of lines of the log
    MaxCrashes,    \* bound on the number of crashes
    MaxTime,       \* bound on the clock
    NULL

Events == {"Created", "Ended", "Restored"}

\* The rest of a line that was overwritten is garbage.
Lines == (Events \cup {"garbage"}) \X Nat \X Nat

ASSUME StoreAssumption ==
    /\ Size \in [Events -> Nat \ {0}]
    /\ Size["Created"] < Size["Ended"] /\ Size["Restored"] < Size["Ended"]
    /\ IsFiniteSet(Topics)
    /\ WallBuf \in Nat \ {0} /\ SubsBuf \in Nat /\ Expiry \in Nat
    /\ MaxSessions \in Nat /\ MaxLines \in Nat /\ MaxCrashes \in Nat /\ MaxTime \in Nat
    /\ NULL \notin Nat /\ NULL \notin Seq(Lines)

VARIABLES
    now,        \* sys_now()
    dir,        \* the directory of the client exists
    wall,       \* "session": its lines, or NULL
    subs,       \* "subscribed": its topics, or NULL
    meta,       \* "metadata": the session it is of, 0 if empty, or NULL
    pc,         \* where the accept task is, in new or restore
    pos,        \* lines of the log before the position of the file of restore
    got,        \* the session that restore has returned: <<metadata, subscriptions>>
    session,    \* number of calls of new
    task,       \* where each task of a client is: "none", "idle", "trunc" or "write"
    of,         \* the session of the client that each task reads from
    map,        \* the map of subscribe and unsubscribe of each task
    crashes,    \* number of crashes
    made,       \* history: the last session for which new has returned
    asked,      \* history: the topics for which each session has subscribed
    late,       \* history: what tasks of other sessions have put into the file
    kept,       \* history: the topics of the session for which subscribe has returned
    torn,       \* history: a task or a crash has come in between, see below
    ends,       \* history: number of ends logged
    restores,   \* history: number of sessions that restore has returned
    deadline    \* history: until when the session has to be kept

fileVars == <<dir, wall, subs, meta>>
acceptVars == <<pc, pos, got, session>>
taskVars == <<task, of, map>>
subsHist == <<asked, late, kept, torn>>
logHist  == <<ends, restores, deadline>>
histVars == <<made, subsHist, logHist>>
cvars == <<now, fileVars, acceptVars, taskVars, crashes, histVars>>

SessionIds == 1 .. MaxSessions
NewPCs == {"mkdir", "trunc_session", "write_created", "trunc_subs", "trunc_meta", "write_meta"}
RestorePCs == {"read_wall", "write_restored", "read_meta", "read_subs", "failed"}

\* Every variable holds a value of its type.
TypeOK ==
    /\ now \in 0 .. MaxTime
    /\ dir \in BOOLEAN
    /\ wall # NULL => wall \in Seq(Lines)
    /\ subs # NULL => subs \in Seq(Topics)
    /\ meta # NULL => meta \in 0 .. MaxSessions
    /\ pc \in {"idle", "panicked"} \cup NewPCs \cup RestorePCs
    /\ pos \in Nat
    /\ got \in {NULL} \cup (SessionIds \X SUBSET Topics)
    /\ session \in 0 .. MaxSessions /\ made \in 0 .. MaxSessions
    /\ task \in [Tasks -> {"none", "idle", "trunc", "write"}]
    /\ of \in [Tasks -> 0 .. MaxSessions]
    /\ map \in [Tasks -> SUBSET Topics]
    /\ crashes \in 0 .. MaxCrashes
    /\ asked \in [SessionIds -> SUBSET Topics]
    /\ late \subseteq Topics /\ kept \subseteq Topics /\ torn \in BOOLEAN
    /\ ends \in Nat /\ restores \in Nat /\ deadline \in Nat

Init ==
    /\ now = 0
    /\ dir = FALSE /\ wall = NULL /\ subs = NULL /\ meta = NULL
    /\ pc = "idle" /\ pos = 0 /\ got = NULL /\ session = 0
    /\ task = [i \in Tasks |-> "none"] /\ of = [i \in Tasks |-> 0] /\ map = [i \in Tasks |-> {}]
    /\ crashes = 0
    /\ made = 0 /\ asked = [s \in SessionIds |-> {}] /\ late = {} /\ kept = {} /\ torn = FALSE
    /\ ends = 0 /\ restores = 0 /\ deadline = 0

\* A subscribe or unsubscribe has read the file and not yet written it.
Editing == \E i \in Tasks : task[i] \in {"trunc", "write"}

\* One is between set_len(0) and the write.
Emptied == \E i \in Tasks : task[i] = "write"

\* The session whose files these are, or are to be.
Owner == IF pc \in NewPCs THEN session ELSE meta

Goto(a, b) == pc = a /\ pc' = b

-----------------------------------------------------------------------------
(* The session log *)

Line(e, u) == <<e, u, Size[e]>>

\* Bytes in the first n lines of the log w.
Bytes(w) ==
    LET sum[n \in 0 .. Len(w)] == IF n = 0 THEN 0 ELSE sum[n - 1] + w[n][3]
    IN  sum

\* deserialize unwraps the number with which a line begins.
Parses(line) == line[1] # "garbage"

\* read_wall splits each buffer into lines, and indexes beyond the end of a
\* buffer that does not end with a line.
Readable(w) ==
    /\ \A n \in 1 .. Len(w) : Parses(w[n])
    /\ \A k \in 1 .. Bytes(w)[Len(w)] \div WallBuf :
          \E n \in 0 .. Len(w) : Bytes(w)[n] = k * WallBuf

\* write_wall at position p of a file that is not open for appending: the head
\* of a line that was appended meanwhile is overwritten.
WriteWall(w, p, line) ==
    IF Len(w) = p
    THEN Append(w, line)
    ELSE SubSeq(w, 1, p) \o <<line, <<"garbage", 0, w[p + 1][3] - line[3]>> >> \o SubSeq(w, p + 2, Len(w))

Last(w) == w[Len(w)]

-----------------------------------------------------------------------------
(* ClientStore::new, by the accept task *)

\* A CONNECT with clean start, whatever earlier tasks of the client do.
New ==
    /\ Goto("idle", "mkdir") /\ session < MaxSessions
    /\ session' = session + 1
    /\ got' = NULL /\ deadline' = 0
    /\ UNCHANGED <<now, fileVars, pos, taskVars, crashes, made, subsHist, ends, restores>>

\* Mutant: the files of an earlier session are removed first, subscriptions before the log.
MkdirEmpties ==
    /\ Goto("mkdir", "trunc_session")
    /\ dir' = TRUE
    /\ subs' = IF subs = NULL THEN NULL ELSE <<>>
    /\ UNCHANGED <<now, wall, meta, pos, got, session, taskVars, crashes, histVars>>

Mkdir ==
    /\ Goto("mkdir", "trunc_session")
    /\ dir' = TRUE
    /\ UNCHANGED <<now, wall, subs, meta, pos, got, session, taskVars, crashes, histVars>>

\* open, set_len(0)
TruncSession ==
    /\ Goto("trunc_session", "write_created")
    /\ wall' = <<>>
    /\ pos' = 0
    /\ UNCHANGED <<now, dir, subs, meta, got, session, taskVars, crashes, histVars>>

WriteCreated ==
    /\ Goto("write_created", "trunc_subs")
    /\ wall' = WriteWall(wall, 0, Line("Created", 0))
    /\ UNCHANGED <<now, dir, subs, meta, pos, got, session, taskVars, crashes, histVars>>

\* Mutant: the subscriptions are left as they are.
TruncSubsNot ==
    /\ Goto("trunc_subs", "trunc_meta")
    /\ subs' = IF subs = NULL THEN <<>> ELSE subs
    /\ late' = {}
    /\ UNCHANGED <<now, dir, wall, meta, pos, got, session, taskVars, crashes, made, asked, kept, torn, logHist>>

TruncSubs ==
    /\ Goto("trunc_subs", "trunc_meta")
    /\ subs' = <<>>
    /\ late' = {}
    /\ UNCHANGED <<now, dir, wall, meta, pos, got, session, taskVars, crashes, made, asked, kept, torn, logHist>>

TruncMeta ==
    /\ Goto("trunc_meta", "write_meta")
    /\ meta' = 0
    /\ UNCHANGED <<now, dir, wall, subs, pos, got, session, taskVars, crashes, histVars>>

\* The client is registered, and a task is started for it.
Start(s) ==
    \E i \in Tasks :
        /\ task[i] = "none"
        /\ task' = [task EXCEPT ![i] = "idle"]
        /\ of' = [of EXCEPT ![i] = s]
        /\ map' = map

\* new returns.
WriteMeta ==
    /\ Goto("write_meta", "idle")
    /\ meta' = session
    /\ Start(session)
    /\ made' = session
    /\ kept' = {} /\ torn' = Editing
    /\ deadline' = MaxTime + 1
    /\ UNCHANGED <<now, dir, wall, subs, pos, got, session, crashes, asked, late, ends, restores>>

-----------------------------------------------------------------------------
(* ClientStore::restore, by the accept task *)

\* A CONNECT without clean start, whatever earlier tasks of the client do.
Restore ==
    /\ pc = "idle"
    /\ pc' = IF dir /\ wall # NULL THEN "read_wall" ELSE "failed"
    /\ got' = NULL
    /\ UNCHANGED <<now, fileVars, pos, session, taskVars, crashes, histVars>>

\* An empty log is indexed at len() - 1.
ReadWall ==
    /\ pc = "read_wall"
    /\ pc' = IF wall = <<>> \/ ~Readable(wall) THEN "panicked"
             ELSE IF Last(wall)[1] = "Ended" /\ now < Last(wall)[2] THEN "write_restored"
             ELSE "failed"
    /\ pos' = Len(wall)
    /\ UNCHANGED <<now, fileVars, got, session, taskVars, crashes, histVars>>

\* Mutant: the log is left as it is.
WriteRestoredNot ==
    /\ Goto("write_restored", "read_meta")
    /\ UNCHANGED <<now, fileVars, pos, got, session, taskVars, crashes, histVars>>

WriteRestored ==
    /\ pos < MaxLines
    /\ Goto("write_restored", "read_meta")
    /\ wall' = WriteWall(wall, pos, Line("Restored", 0))
    /\ UNCHANGED <<now, dir, subs, meta, pos, got, session, taskVars, crashes, histVars>>

\* Mutant: the length of the file is not checked.
ReadMetaUnchecked ==
    /\ pc = "read_meta"
    /\ pc' = IF meta = NULL THEN "failed" ELSE "read_subs"
    /\ got' = IF meta = NULL THEN NULL ELSE <<meta, {}>>
    /\ UNCHANGED <<now, fileVars, pos, session, taskVars, crashes, histVars>>

\* A file that is missing or too short is an error.
ReadMeta ==
    /\ pc = "read_meta"
    /\ pc' = IF meta \in {NULL, 0} THEN "failed" ELSE "read_subs"
    /\ got' = IF meta \in {NULL, 0} THEN NULL ELSE <<meta, {}>>
    /\ UNCHANGED <<now, fileVars, pos, session, taskVars, crashes, histVars>>

\* get_subscribed sees what fits into its buffer.
Fits(f) == Len(f) <= SubsBuf
GetSubscribed(f) == {f[n] : n \in {k \in DOMAIN f : k <= SubsBuf}}

\* restore returns.
ReadSubs ==
    /\ Goto("read_subs", "idle")
    /\ got' = <<got[1], GetSubscribed(subs)>>
    /\ Start(meta)
    /\ torn' = (torn \/ Emptied \/ ~Fits(subs))
    /\ restores' = restores + 1
    /\ deadline' = MaxTime + 1
    /\ UNCHANGED <<now, fileVars, pos, session, crashes, made, asked, late, kept, ends>>

\* start_session goes on with a new session.
Fallback ==
    /\ Goto("failed", "mkdir") /\ session < MaxSessions
    /\ session' = session + 1
    /\ deadline' = 0
    /\ UNCHANGED <<now, fileVars, pos, got, taskVars, crashes, made, subsHist, ends, restores>>

-----------------------------------------------------------------------------
(* The tasks of the client *)

Step(i, a, b) == task[i] = a /\ task' = [task EXCEPT ![i] = b]

\* An earlier task finds the client that has been swapped in, and reads from it.
Follow(i) ==
    /\ task[i] = "idle" /\ pc = "idle"
    /\ of' = [of EXCEPT ![i] = meta]
    /\ UNCHANGED <<now, fileVars, acceptVars, task, map, crashes, histVars>>

\* subscribe and unsubscribe read the file into a map and edit the map.
Edit(i, edited) ==
    /\ Step(i, "idle", "trunc")
    /\ map' = [map EXCEPT ![i] = edited]
    /\ torn' = (torn \/ Editing \/ ~Fits(subs))
    /\ UNCHANGED <<now, fileVars, acceptVars, of, crashes, made, late, logHist>>

Subscribe(i, t) ==
    /\ Edit(i, GetSubscribed(subs) \cup {t})
    /\ asked' = [asked EXCEPT ![of[i]] = @ \cup {t}]
    /\ kept' = kept

Unsubscribe(i, t) ==
    /\ Edit(i, GetSubscribed(subs) \ {t})
    /\ kept' = kept \ {t}
    /\ asked' = asked

EditTrunc(i) ==
    /\ Step(i, "trunc", "write")
    /\ subs' = <<>>
    /\ UNCHANGED <<now, dir, wall, meta, acceptVars, of, map, crashes, histVars>>

\* A HashMap is written in any order.
Orders(m) == {q \in [1 .. Cardinality(m) -> m] : Range(q) = m}

\* The file is open for appending.
WriteSubscribed(i) ==
    /\ Step(i, "write", "idle")
    /\ \E q \in Orders(map[i]) : subs' = subs \o q
    /\ map' = [map EXCEPT ![i] = {}]
    /\ IF of[i] = Owner
       THEN kept' = kept \cup map[i] /\ late' = late
       ELSE late' = late \cup map[i] /\ kept' = kept
    /\ UNCHANGED <<now, dir, wall, meta, acceptVars, of, crashes, made, asked, torn, logHist>>

\* log_session appends the end of the session.  A task that finds its client
\* dead, or fails to read, ends with it; Clients::clear does it at shutdown.
LogEnd(i) ==
    /\ Step(i, "idle", "none")
    /\ Len(wall) < MaxLines
    /\ wall' = Append(wall, Line("Ended", now + Expiry))
    /\ ends' = ends + 1
    /\ deadline' = IF of[i] = Owner THEN now + Expiry ELSE deadline
    /\ torn' = (torn \/ pc \in NewPCs)
    /\ of' = [of EXCEPT ![i] = 0]
    /\ UNCHANGED <<now, dir, subs, meta, acceptVars, map, crashes, made, asked, late, kept, restores>>

-----------------------------------------------------------------------------

\* The broker ends, for whatever reason, and is started again.
Crash ==
    /\ crashes < MaxCrashes
    /\ crashes' = crashes + 1
    /\ pc' = "idle" /\ pos' = 0 /\ got' = NULL
    /\ task' = [i \in Tasks |-> "none"] /\ of' = [i \in Tasks |-> 0] /\ map' = [i \in Tasks |-> {}]
    /\ torn' = (torn \/ Emptied)
    /\ deadline' = IF deadline > MaxTime THEN now + Expiry ELSE deadline
    /\ UNCHANGED <<now, fileVars, session, made, asked, late, kept, ends, restores>>

Tick ==
    /\ now < MaxTime
    /\ now' = now + 1
    /\ UNCHANGED <<fileVars, acceptVars, taskVars, crashes, histVars>>

Next ==
    \/ New \/ Mkdir \/ TruncSession \/ WriteCreated \/ TruncSubs \/ TruncMeta \/ WriteMeta
    \/ Restore \/ ReadWall \/ WriteRestored \/ ReadMeta \/ ReadSubs \/ Fallback
    \/ \E i \in Tasks :
          \/ \E t \in Topics : Subscribe(i, t) \/ Unsubscribe(i, t)
          \/ Follow(i) \/ EditTrunc(i) \/ WriteSubscribed(i) \/ LogEnd(i)
    \/ Crash \/ Tick

Spec == Init /\ [][Next]_cvars

-----------------------------------------------------------------------------

\* What restore returns is of the last session made, wherever an earlier call
\* of new was cut short.  A subscription for which that session has not asked
\* comes with its metadata only if a task of another session has written the
\* file after new had emptied it.
RestoredIsOneSession ==
    got # NULL => got[1] >= made /\ got[2] \subseteq asked[got[1]] \cup late

\* What subscribe has written is there when restore returns, wherever an
\* earlier call of new or subscribe was cut short, except for what the code
\* loses: the file was longer than its buffer, two tasks edited it at a time,
\* a crash or restore came between set_len(0) and the write, or new was cut short after
\* an earlier task had logged its end into the log of new.
RestoreLosesNothing ==
    [][restores' > restores /\ ~torn' => kept \subseteq got'[2]]_cvars

\* An end that was logged lets a session be restored once, although a crash may
\* come at any time after it.
EachEndRestoresOnce == restores <= ends

\* The log is kept "allowing for system recovery in case of failure": restore
\* returns, and after a crash it gives a client its session until it expires.
RecoversSession ==
    /\ pc # "panicked"
    /\ pc = "failed" /\ crashes > 0 => now >= deadline

=============================================================================
