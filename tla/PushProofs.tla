----------------------------- MODULE PushProofs -----------------------------
(***************************************************************************)
(* Proofs about PushClient for any number of processes, blobs, sessions    *)
(* and faults, any chunk size and any number of attempts.                  *)
(*                                                                         *)
(* A location is only as good as who passed it on: another task, another   *)
(* process by way of the file, or a request that is still on its way.      *)
(* ClientInv says of all of them that the location is of a session of the  *)
(* same blob, and of a task that is about to send a body that the position *)
(* it reads from is the one it announces, inside of the blob.  TableOK     *)
(* says what follows for the sessions, ProcInv for what is reported.       *)
(*                                                                         *)
(* FaultsAreSurvived needs more, and one process: OnCourse says that the   *)
(* session of an upload waits for exactly what the upload sends next, and  *)
(* that no attempt is used up without a fault.                             *)
(*                                                                         *)
(* What is said of a table of sessions is an operator on tables, so that   *)
(* it can be said of the table before, within and after a request.         *)
(***************************************************************************)
EXTENDS PushClient, TLAPS

\* Sessions as jcr leaves them.
TableOK(table) ==
    /\ table \in [Sessions -> SessionRows]
    /\ \A s \in Sessions :
          /\ table[s].offset <= Size[table[s].blob] /\ table[s].intact
          /\ table[s].status = "free" => table[s].offset = 0

\* A session keeps its blob.
Grows(table, after) ==
    \A s \in Sessions : table[s].status # "free" =>
        after[s].status # "free" /\ after[s].blob = table[s].blob

\* x can be taken for the location of an upload of b.
Located(table, x, b) == x # NoSession => table[x].status # "free" /\ table[x].blob = b

\* A body whose bytes are those that it announces.
Sound(table, q) ==
    /\ q \in BodyRequests /\ q.at = q.offset
    /\ table[q.session].status # "free" /\ q.offset + q.len <= Size[table[q.session].blob]
    /\ q.op = "patch" => q.len > 0

\* Where a task goes on, once the file is written.
Ahead(t) == IF t.pc = "write" THEN t.next ELSE t.pc

\* What a task relies on where it is.
Relies(stored, t, b) ==
    /\ t.pc = "write" => t.next \in {"done", "start", "patch", "put"}
    /\ t.pc = "status" => t.session # NoSession
    /\ Ahead(t) \in {"save", "patch", "check", "put", "verify"} =>
          t.session # NoSession /\ t.at = t.offset /\ t.offset <= Size[b]
    /\ Ahead(t) \in {"patch", "check"} => t.offset + Chunk <= Size[b]
    /\ Ahead(t) \in {"drop", "clear", "done"} => b \in stored

TaskOK(table, stored, t, b) ==
    /\ t \in Tasks /\ Relies(stored, t, b) /\ Located(table, t.session, b)
    /\ \A c \in Blobs : Located(table, t.bytes[c], c)

FileOK(table, f) == f \in Entries /\ \A b \in Blobs : Located(table, f[b], b)

ServerInv == TableOK(sessions) /\ held \subseteq Blobs /\ published \subseteq 1..Manifests

ClientInv ==
    /\ task \in [Procs -> [Blobs -> Tasks]]
    /\ \A p \in Procs, b \in Blobs : TaskOK(sessions, held, task[p][b], b)
    /\ memory \in [Procs -> Entries] /\ \A p \in Procs : FileOK(sessions, memory[p])
    /\ FileOK(sessions, disk)
    /\ \A q \in late : Sound(sessions, q)

ProcInv ==
    /\ proc \in [Procs -> Processes]
    /\ \A p \in Procs : /\ 1..(proc[p].manifest - 1) \subseteq published
                        /\ proc[p].state = "publishing" => held = Blobs
                        /\ proc[p].state = "pushed" => published = 1..Manifests

FaultInv == faults \in [count : 0..MaxFaults, grave : BOOLEAN]

IInv == ServerInv /\ ClientInv /\ ProcInv /\ FaultInv

-----------------------------------------------------------------------------
(* Requests *)

\* A request that is accepted adds the bytes that come next.
LEMMA AcceptedOK ==
    ASSUME TableOK(sessions), NEW q, Sound(sessions, q), Accepts(q)
    PROVE  /\ TableOK(Accepted(q)) /\ Grows(sessions, Accepted(q))
           /\ \A s \in Sessions : s # q.session => Accepted(q)[s] = sessions[s]
           /\ Accepted(q)[q.session].blob = sessions[q.session].blob
           /\ Accepted(q)[q.session].offset = sessions[q.session].offset + q.len
           /\ Accepted(q)[q.session].intact
           /\ Accepted(q)[q.session].status = IF q.op = "put" THEN "finalizing" ELSE "uploading"
<1> USE ClientAssumption
<1> DEFINE s == q.session
           row == sessions[s]
           new == [blob |-> row.blob, offset |-> row.offset + q.len, intact |-> TRUE,
                   status |-> IF q.op = "put" THEN "finalizing" ELSE "uploading"]
<1>1. /\ s \in Sessions /\ row \in SessionRows /\ q.len \in Nat /\ q.offset \in Nat
      /\ sessions \in [Sessions -> SessionRows] /\ row.intact = TRUE /\ row.status = "uploading"
    BY DEF Sound, BodyRequests, TableOK, Accepts, SessionRows
<1>2. row.offset + q.len <= Size[row.blob] /\ (q.len > 0 => q.at = row.offset)
    BY <1>1 DEF Sound, Accepts, TableOK, SessionRows
<1>3. new \in SessionRows
    BY <1>1 DEF SessionRows
<1>4. Accepted(q) = [sessions EXCEPT ![s] = new]
    <2>1. (row.intact /\ (q.len > 0 => q.at = row.offset)) = TRUE
        BY <1>1, <1>2
    <2> QED BY <1>1, <2>1 DEF Accepted
<1> HIDE DEF new
<1>5. /\ Accepted(q) \in [Sessions -> SessionRows] /\ Accepted(q)[s] = new
      /\ \A x \in Sessions : x # s => Accepted(q)[x] = sessions[x]
    BY <1>1, <1>3, <1>4
<1> USE DEF new
<1>6. TableOK(Accepted(q))
    BY <1>2, <1>5 DEF TableOK
<1>7. Grows(sessions, Accepted(q))
    BY <1>1, <1>5 DEF Grows
<1>8. new.blob = row.blob /\ new.offset = row.offset + q.len /\ new.intact = TRUE
    OBVIOUS
<1> QED BY <1>5, <1>6, <1>7, <1>8

\* The rest of a PUT.
LEMMA ConcludedOK ==
    ASSUME NEW table, TableOK(table), NEW s \in Sessions, table[s].status # "free", held \subseteq Blobs
    PROVE  /\ TableOK(Concluded(table, s)) /\ Grows(table, Concluded(table, s))
           /\ held \subseteq HeldAfter(table, s) /\ HeldAfter(table, s) \subseteq Blobs
           /\ \A x \in Sessions : x # s => Concluded(table, s)[x] = table[x]
           /\ Concluded(table, s)[s].blob = table[s].blob
           /\ Concluded(table, s)[s].offset = table[s].offset
           /\ Concluded(table, s)[s].intact = table[s].intact
           /\ Concluded(table, s)[s].status = IF DigestMatches(table[s]) THEN "committed" ELSE "failed"
<1> DEFINE end == IF DigestMatches(table[s]) THEN "committed" ELSE "failed"
<1>1. table \in [Sessions -> SessionRows] /\ table[s] \in SessionRows
    BY DEF TableOK
<1>2. [table[s] EXCEPT !.status = end] \in SessionRows
    BY <1>1 DEF SessionRows
<1>3. Concluded(table, s) = [table EXCEPT ![s] = [table[s] EXCEPT !.status = end]]
    BY <1>1 DEF Concluded
<1>4. /\ Concluded(table, s) \in [Sessions -> SessionRows]
      /\ Concluded(table, s)[s] = [table[s] EXCEPT !.status = end]
      /\ \A x \in Sessions : x # s => Concluded(table, s)[x] = table[x]
    BY <1>1, <1>2, <1>3
<1>5. /\ Concluded(table, s)[s].blob = table[s].blob
      /\ Concluded(table, s)[s].offset = table[s].offset
      /\ Concluded(table, s)[s].intact = table[s].intact
      /\ Concluded(table, s)[s].status = end
    BY <1>1, <1>4 DEF SessionRows
<1>6. TableOK(Concluded(table, s))
    BY <1>4, <1>5 DEF TableOK
<1>7. Grows(table, Concluded(table, s))
    BY <1>4, <1>5 DEF Grows
<1>8. held \subseteq HeldAfter(table, s) /\ HeldAfter(table, s) \subseteq Blobs
    BY <1>1 DEF HeldAfter, SessionRows
<1> QED BY <1>4, <1>5, <1>6, <1>7, <1>8

-----------------------------------------------------------------------------
(* The registry goes on *)

Progress ==
    /\ TableOK(sessions') /\ Grows(sessions, sessions')
    /\ held \subseteq held' /\ held' \subseteq Blobs
    /\ published \subseteq published' /\ published' \subseteq 1..Manifests

\* A step that leaves the registry alone.
LEMMA Unchanged ==
    ASSUME ServerInv, UNCHANGED serverVars
    PROVE  Progress
BY DEF ServerInv, Progress, Grows, serverVars

\* A request that runs to its end.
LEMMA ExecuteProgress ==
    ASSUME ServerInv, NEW q, Sound(sessions, q), Execute(q)
    PROVE  Progress
<1>1. CASE ~Accepts(q)
    BY <1>1, Unchanged DEF Execute
<1>2. CASE Accepts(q)
    <2>1. /\ TableOK(Accepted(q)) /\ Grows(sessions, Accepted(q)) /\ q.session \in Sessions
          /\ Accepted(q)[q.session].status # "free"
        <3>1. TableOK(sessions) /\ q.session \in Sessions
            BY DEF ServerInv, Sound, BodyRequests
        <3>2. /\ TableOK(Accepted(q)) /\ Grows(sessions, Accepted(q))
              /\ Accepted(q)[q.session].status = IF q.op = "put" THEN "finalizing" ELSE "uploading"
            BY <1>2, <3>1, AcceptedOK
        <3> QED BY <3>1, <3>2
    <2>2. /\ TableOK(Concluded(Accepted(q), q.session))
          /\ Grows(Accepted(q), Concluded(Accepted(q), q.session))
          /\ held \subseteq HeldAfter(Accepted(q), q.session) /\ HeldAfter(Accepted(q), q.session) \subseteq Blobs
        BY <2>1, ConcludedOK DEF ServerInv
    <2>3. Grows(sessions, Concluded(Accepted(q), q.session))
        BY <2>1, <2>2 DEF Grows
    <2> QED BY <1>2, <2>1, <2>2, <2>3 DEF Execute, Progress, ServerInv
<1> QED BY <1>1, <1>2

\* What jcrd does when no client waits: late requests, ends of PUTs, expiry.
LEMMA ServerProgress ==
    ASSUME ServerInv, ClientInv,
           \/ \E q \in late : ExecuteLate(q) \/ Lose(q)
           \/ \E s \in Sessions : Conclude(s) \/ Expire(s)
    PROVE  Progress
<1>1. ASSUME NEW q \in late, ExecuteLate(q)
      PROVE  Progress
    <2>1. Accepts(q) => TableOK(Accepted(q)) /\ Grows(sessions, Accepted(q))
        BY AcceptedOK DEF ClientInv, ServerInv
    <2>2. UNCHANGED <<held, published>> /\ sessions' = IF Accepts(q) THEN Accepted(q) ELSE sessions
        BY <1>1 DEF ExecuteLate
    <2> QED BY <2>1, <2>2, Unchanged DEF Progress, ServerInv, serverVars
<1>2. ASSUME NEW q \in late, Lose(q)
      PROVE  Progress
    BY <1>2, Unchanged DEF Lose
<1>3. ASSUME NEW s \in Sessions, Conclude(s)
      PROVE  Progress
    BY <1>3, ConcludedOK DEF Conclude, ServerInv, Progress
<1>4. ASSUME NEW s \in Sessions, Expire(s)
      PROVE  Progress
    <2>1. sessions \in [Sessions -> SessionRows] /\ sessions[s] \in SessionRows
        BY DEF ServerInv, TableOK
    <2>2. /\ sessions' = [sessions EXCEPT ![s] = [sessions[s] EXCEPT !.status = "failed"]]
          /\ UNCHANGED <<held, published>>
          /\ [sessions[s] EXCEPT !.status = "failed"] \in SessionRows
        BY <1>4, <2>1 DEF Expire, SessionRows
    <2>3. /\ sessions'[s].offset = sessions[s].offset /\ sessions'[s].blob = sessions[s].blob
          /\ sessions'[s].intact = sessions[s].intact /\ sessions'[s].status = "failed"
          /\ \A x \in Sessions : x # s => sessions'[x] = sessions[x]
        BY <2>1, <2>2 DEF SessionRows
    <2> QED BY <2>1, <2>2, <2>3 DEF Progress, TableOK, Grows, ServerInv
<1> QED BY <1>1, <1>2, <1>3, <1>4

\* A POST takes a session that nobody has been given.
LEMMA StartProgress ==
    ASSUME ServerInv, NEW p \in Procs, NEW b \in Blobs, NEW s \in Sessions, Start(p, b, s)
    PROVE  /\ Progress /\ sessions[s].status = "free"
           /\ sessions'[s].status = "uploading" /\ sessions'[s].blob = b
<1> USE ClientAssumption
<1>1. sessions \in [Sessions -> SessionRows] /\ UNCHANGED <<held, published>>
    BY DEF ServerInv, TableOK, Start
<1>2. s \in Free
    BY DEF Start
<1>3. sessions' = [sessions EXCEPT ![s] = [blob |-> b, offset |-> 0, intact |-> TRUE, status |-> "uploading"]]
    BY DEF Start
<1>4. [blob |-> b, offset |-> 0, intact |-> TRUE, status |-> "uploading"] \in SessionRows
    BY DEF SessionRows
<1> QED BY <1>1, <1>2, <1>3, <1>4 DEF Free, Progress, TableOK, Grows, ServerInv
-----------------------------------------------------------------------------
(* What was relied on can still be relied on *)

\* A task relies on nothing that a registry that goes on could take away.
LEMMA TaskKept ==
    ASSUME NEW table, NEW after, Grows(table, after), NEW stored, NEW more, stored \subseteq more,
           NEW t, NEW b, TaskOK(table, stored, t, b)
    PROVE  TaskOK(after, more, t, b)
<1>1. t \in Tasks /\ t.session \in Sessions \cup {NoSession} /\ t.bytes \in Entries
    BY DEF TaskOK, Tasks
<1>2. Relies(more, t, b)
    BY DEF TaskOK, Relies
<1>3. Located(after, t.session, b)
    BY <1>1 DEF TaskOK, Located, Grows
<1>4. \A c \in Blobs : Located(after, t.bytes[c], c)
    BY <1>1 DEF TaskOK, Located, Grows, Entries
<1> QED BY <1>1, <1>2, <1>3, <1>4 DEF TaskOK

\* Nor does a resume file.
LEMMA FileKept ==
    ASSUME NEW table, NEW after, Grows(table, after), NEW f, FileOK(table, f)
    PROVE  FileOK(after, f)
BY DEF FileOK, Located, Grows, Entries

\* Nor does a body under way.
LEMMA SoundKept ==
    ASSUME NEW table, NEW after, Grows(table, after), NEW q, Sound(table, q)
    PROVE  Sound(after, q)
BY DEF Sound, Grows, BodyRequests

\* Together, for a step of the registry.
LEMMA ClientKept ==
    ASSUME ClientInv, Progress
    PROVE  /\ \A p \in Procs, b \in Blobs : TaskOK(sessions', held', task[p][b], b)
           /\ \A p \in Procs : FileOK(sessions', memory[p])
           /\ FileOK(sessions', disk)
           /\ \A q \in late : Sound(sessions', q)
<1>1. Grows(sessions, sessions') /\ held \subseteq held'
    BY DEF Progress
<1>2. \A p \in Procs, b \in Blobs : TaskOK(sessions', held', task[p][b], b)
    BY <1>1, TaskKept DEF ClientInv
<1>3. (\A p \in Procs : FileOK(sessions', memory[p])) /\ FileOK(sessions', disk)
    BY <1>1, FileKept DEF ClientInv
<1>4. \A q \in late : Sound(sessions', q)
    BY <1>1, SoundKept DEF ClientInv
<1> QED BY <1>2, <1>3, <1>4

\* The body of a task is what it announces.
LEMMA BodySound ==
    ASSUME NEW table, TableOK(table), NEW stored, NEW b \in Blobs, NEW t, TaskOK(table, stored, t, b),
           t.pc \in {"patch", "put"}
    PROVE  Sound(table, Body(t, b))
<1> USE ClientAssumption
<1>1. /\ t \in Tasks /\ t.session \in Sessions /\ t.offset \in Nat /\ t.at = t.offset
      /\ t.offset <= Size[b] /\ (t.pc = "patch" => t.offset + Chunk <= Size[b])
      /\ Size[b] \in Nat
    BY DEF TaskOK, Relies, Ahead, Tasks
<1>2. Body(t, b).len \in Nat /\ t.offset + Body(t, b).len <= Size[b]
    BY <1>1 DEF Body
<1>3. /\ Body(t, b).op = t.pc /\ Body(t, b).session = t.session /\ Body(t, b).offset = t.offset
      /\ Body(t, b).at = t.at /\ (t.pc = "patch" => Body(t, b).len = Chunk)
    BY DEF Body
<1>4. Body(t, b) \in BodyRequests
    BY <1>1, <1>2 DEF Body, BodyRequests
<1>5. table[t.session].status # "free" /\ table[t.session].blob = b
    BY <1>1 DEF TaskOK, Located
<1> QED BY <1>1, <1>2, <1>3, <1>4, <1>5 DEF Sound
-----------------------------------------------------------------------------
(* What a task and its process do *)

\* What a process goes by.
OthersInv == ClientInv /\ ProcInv

\* An upload that has not begun relies on nothing.
LEMMA QueuedOK ==
    ASSUME NEW table, NEW stored, NEW b
    PROVE  TaskOK(table, stored, Queued, b)
<1> USE ClientAssumption
<1>1. NoEntries \in Entries
    BY DEF NoEntries, Entries
<1>2. Queued \in Tasks
    BY <1>1 DEF Queued, Tasks, Points, CallPoints
<1> QED BY <1>2 DEF TaskOK, Relies, Ahead, Located, Queued, NoEntries

\* What has been published, or is there to be, stays.
LEMMA ProcKept ==
    ASSUME ServerInv, ProcInv, Progress, UNCHANGED proc
    PROVE  ProcInv'
BY DEF ServerInv, ProcInv, Progress

\* A process that ends starts over with the first manifest.
LEMMA ProcStopped ==
    ASSUME ServerInv, ProcInv, Progress, NEW p \in Procs, Stop(p)
    PROVE  ProcInv'
<1> USE ClientAssumption
<1>1. proc' = [proc EXCEPT ![p] = [state |-> "failed", manifest |-> 1, tries |-> 0]]
    BY DEF Stop
<1>2. \A x \in Procs : x # p => proc'[x] = proc[x]
    BY <1>1 DEF ProcInv
<1>3. proc'[p].state = "failed" /\ proc'[p].manifest = 1
    BY <1>1 DEF ProcInv
<1>4. proc' \in [Procs -> Processes]
    BY <1>1 DEF ProcInv, Processes
<1>5. /\ held = Blobs => held' = Blobs
      /\ published = 1..Manifests => published' = 1..Manifests
      /\ published \subseteq published'
    BY DEF Progress
<1>6. ASSUME NEW x \in Procs
      PROVE  /\ 1..(proc'[x].manifest - 1) \subseteq published'
             /\ proc'[x].state = "publishing" => held' = Blobs
             /\ proc'[x].state = "pushed" => published' = 1..Manifests
    <2>1. CASE x = p
        <3>1. 1..(proc'[x].manifest - 1) = {}
            BY <1>3, <2>1
        <3> QED BY <1>3, <2>1, <3>1
    <2>2. CASE x # p
        BY <1>2, <1>5, <2>2 DEF ProcInv
    <2> QED BY <2>1, <2>2
<1> QED BY <1>4, <1>6 DEF ProcInv

\* A task that goes on.
LEMMA TaskMoves ==
    ASSUME ClientInv, Progress, NEW p \in Procs, NEW b \in Blobs, NEW t,
           TaskOK(sessions', held', t, b), Update(p, b, t)
    PROVE  /\ task' \in [Procs -> [Blobs -> Tasks]]
           /\ \A x \in Procs, c \in Blobs : TaskOK(sessions', held', task'[x][c], c)
<1>1. task \in [Procs -> [Blobs -> Tasks]] /\ t \in Tasks
    BY DEF ClientInv, TaskOK
<1>2. task' = [task EXCEPT ![p] = [task[p] EXCEPT ![b] = t]]
    BY <1>1 DEF Update
<1>3. /\ task' \in [Procs -> [Blobs -> Tasks]]
      /\ \A x \in Procs, c \in Blobs : task'[x][c] = IF x = p /\ c = b THEN t ELSE task[x][c]
    BY <1>1, <1>2
<1>4. \A x \in Procs, c \in Blobs : TaskOK(sessions', held', task[x][c], c)
    BY ClientKept
<1> QED BY <1>3, <1>4

\* An upload goes on, and nothing else changes at the client.
LEMMA ProceedOK ==
    ASSUME ServerInv, OthersInv, Progress, NEW p \in Procs, NEW b \in Blobs, NEW t,
           TaskOK(sessions', held', t, b), Proceed(p, b, t)
    PROVE  OthersInv'
<1>1. ProcInv'
    BY ProcKept DEF Proceed, OthersInv
<1>2. Update(p, b, t) /\ UNCHANGED <<memory, disk, late>>
    BY DEF Proceed
<1>3. ClientInv'
    BY <1>2, TaskMoves, ClientKept DEF OthersInv, ClientInv
<1> QED BY <1>1, <1>3 DEF OthersInv

\* A process ends: bodies under way may still arrive, and a rename be done.
LEMMA StopOK ==
    ASSUME ServerInv, OthersInv, Progress, NEW p \in Procs, Stop(p)
    PROVE  OthersInv'
<1>1. ProcInv'
    BY ProcStopped DEF OthersInv
<1> DEFINE started == [b \in Blobs |-> Queued]
<1>2. /\ task' \in [Procs -> [Blobs -> Tasks]]
      /\ \A x \in Procs, c \in Blobs : TaskOK(sessions', held', task'[x][c], c)
    <2>1. task \in [Procs -> [Blobs -> Tasks]] /\ Queued \in Tasks
        BY QueuedOK DEF OthersInv, ClientInv, TaskOK
    <2>2. task' = [task EXCEPT ![p] = started] /\ started \in [Blobs -> Tasks]
        BY <2>1 DEF Stop
    <2>3. /\ task' \in [Procs -> [Blobs -> Tasks]]
          /\ \A x \in Procs, c \in Blobs : task'[x][c] = IF x = p THEN Queued ELSE task[x][c]
        BY <2>1, <2>2
    <2> QED BY <2>3, QueuedOK, ClientKept DEF OthersInv
<1>3. memory' \in [Procs -> Entries] /\ \A x \in Procs : FileOK(sessions', memory'[x])
    <2>1. /\ memory \in [Procs -> Entries] /\ memory' = [memory EXCEPT ![p] = NoEntries]
          /\ NoEntries \in Entries /\ FileOK(sessions', NoEntries)
        BY DEF OthersInv, ClientInv, Stop, FileOK, NoEntries, Entries, Located
    <2> QED BY <2>1, ClientKept DEF OthersInv
<1>4. FileOK(sessions', disk')
    <2>1. disk' = disk \/ \E b \in Blobs : disk' = task[p][b].bytes
        BY DEF Stop
    <2>2. \A b \in Blobs : FileOK(sessions', task[p][b].bytes)
        <3>1. \A b \in Blobs : TaskOK(sessions', held', task[p][b], b)
            BY ClientKept DEF OthersInv
        <3> QED BY <3>1 DEF TaskOK, Tasks, FileOK
    <2> QED BY <2>1, <2>2, ClientKept DEF OthersInv
<1>5. \A q \in late' : Sound(sessions', q)
    <2>1. \A q \in late' : q \in late \/ \E b \in Blobs : q \in BodyRequest(task[p][b], b)
        BY DEF Stop
    <2>2. ASSUME NEW b \in Blobs, NEW q \in BodyRequest(task[p][b], b)
          PROVE  Sound(sessions', q)
        <3>1. task[p][b].pc \in {"patch", "put"} /\ q = Body(task[p][b], b)
            BY <2>2 DEF BodyRequest
        <3>2. TaskOK(sessions', held', task[p][b], b) /\ TableOK(sessions')
            BY ClientKept DEF OthersInv, Progress
        <3> QED BY <3>1, <3>2, BodySound
    <2> QED BY <2>1, <2>2, ClientKept DEF OthersInv
<1> QED BY <1>1, <1>2, <1>3, <1>4, <1>5 DEF OthersInv, ClientInv
\* The file, written by one task for all.
LEMMA SerialiseOK ==
    ASSUME ServerInv, OthersInv, NEW p \in Procs, NEW b \in Blobs,
           NEW entry \in Sessions \cup {NoSession}, Located(sessions, entry, b),
           NEW next \in {"done", "start", "patch", "put"},
           Relies(held, [task[p][b] EXCEPT !.pc = "write", !.next = next], b),
           Serialise(p, b, entry, next)
    PROVE  Progress /\ OthersInv'
<1> DEFINE t == task[p][b]
           file == [memory[p] EXCEPT ![b] = entry]
           new == [t EXCEPT !.pc = "write", !.next = next, !.bytes = file]
<1>1. Progress
    BY Unchanged DEF Serialise
<1>2. ProcInv'
    BY <1>1, ProcKept DEF Serialise, OthersInv
<1>3. /\ memory \in [Procs -> Entries] /\ FileOK(sessions, memory[p])
      /\ TaskOK(sessions, held, t, b) /\ t \in Tasks
    BY DEF OthersInv, ClientInv, TaskOK
<1>4. FileOK(sessions, file)
    <2>1. memory[p] \in [Blobs -> Sessions \cup {NoSession}]
        BY <1>3 DEF Entries
    <2>2. /\ file \in [Blobs -> Sessions \cup {NoSession}]
          /\ \A c \in Blobs : file[c] = IF c = b THEN entry ELSE memory[p][c]
        BY <2>1
    <2> QED BY <1>3, <2>2 DEF FileOK, Entries
<1>5. TaskOK(sessions', held', new, b)
    <2>1. new \in Tasks
        <3>1. file \in Entries
            BY <1>4 DEF FileOK
        <3> HIDE DEF file
        <3> QED BY <1>3, <3>1 DEF Tasks, Points, CallPoints
    <2>2. /\ new.pc = "write" /\ new.next = next /\ new.bytes = file
          /\ new.session = t.session /\ new.offset = t.offset /\ new.at = t.at
        BY <1>3 DEF Tasks
    <2>3. Relies(held, new, b)
        BY <1>3, <2>2 DEF Relies, Ahead, Tasks
    <2>4. Located(sessions, new.session, b) /\ \A c \in Blobs : Located(sessions, new.bytes[c], c)
        BY <1>3, <1>4, <2>2 DEF TaskOK, FileOK
    <2>5. TaskOK(sessions, held, new, b)
        BY <2>1, <2>3, <2>4 DEF TaskOK
    <2> QED BY <2>5 DEF Serialise, serverVars
<1>6. memory' \in [Procs -> Entries] /\ \A x \in Procs : FileOK(sessions', memory'[x])
    <2>1. memory' = [memory EXCEPT ![p] = file] /\ file \in Entries /\ FileOK(sessions', file)
        BY <1>3, <1>4 DEF Serialise, serverVars, FileOK
    <2> HIDE DEF file
    <2> QED BY <1>3, <2>1, <1>1, ClientKept DEF OthersInv
<1>7. Update(p, b, new)
    BY DEF Serialise
<1>8. ClientInv'
    <2> HIDE DEF new
    <2>1. UNCHANGED <<late, disk>>
        BY DEF Serialise
    <2> QED BY <1>1, <1>5, <1>6, <1>7, <2>1, TaskMoves, ClientKept DEF OthersInv, ClientInv
<1> QED BY <1>1, <1>2, <1>8 DEF OthersInv
-----------------------------------------------------------------------------
(* Where a task can go *)

\* Values a task takes, for the type of its record.
LEMMA Places ==
    /\ {"forget", "check", "verify", "patch", "put", "save", "clear", "exists", "drop", "start",
        "status", "queued", "done"} \subseteq Points
    /\ 0 \in 0..(MaxAttempts - 1)
    /\ NoEntries \in Entries /\ Queued \in Tasks
<1> USE ClientAssumption
<1>1. NoEntries \in Entries
    BY DEF NoEntries, Entries
<1> QED BY <1>1 DEF Points, CallPoints, Queued, Tasks

\* The loops of patch_upload and complete_upload go round.
LEMMA AgainBodyOK ==
    ASSUME NEW table, NEW stored, NEW b, NEW t, TaskOK(table, stored, t, b),
           NEW pc, \/ t.pc \in {"patch", "check"} /\ pc = "patch"
                   \/ t.pc \in {"put", "verify"} /\ pc = "put",
           t.tries + 1 < MaxAttempts
    PROVE  TaskOK(table, stored, AgainBody(t, pc), b)
<1> USE ClientAssumption
<1> DEFINE new == AgainBody(t, pc)
<1>1. t \in Tasks
    BY DEF TaskOK
<1>2. /\ new.pc = pc /\ new.next = t.next /\ new.session = t.session /\ new.offset = t.offset
      /\ new.at = t.at /\ new.bytes = t.bytes
    BY <1>1 DEF AgainBody, Tasks
<1>3. new \in Tasks
    <2>1. pc \in Points /\ 0 \in 0..(MaxAttempts - 1)
        BY Places
    <2>2. t.tries + 1 \in 0..(MaxAttempts - 1)
        BY <1>1 DEF Tasks
    <2> QED BY <1>1, <2>1, <2>2 DEF AgainBody, Tasks
<1>4. Relies(stored, new, b)
    BY <1>2 DEF TaskOK, Relies, Ahead
<1> QED BY <1>2, <1>3, <1>4 DEF TaskOK

\* The loops of the other calls go round.
LEMMA AgainInnerOK ==
    ASSUME NEW table, NEW stored, NEW b, NEW t, TaskOK(table, stored, t, b),
           t.inner + 1 < MaxAttempts
    PROVE  TaskOK(table, stored, AgainInner(t), b)
<1> USE ClientAssumption
<1> DEFINE new == AgainInner(t)
<1>1. t \in Tasks
    BY DEF TaskOK
<1>2. /\ new.pc = t.pc /\ new.next = t.next /\ new.session = t.session /\ new.offset = t.offset
      /\ new.at = t.at /\ new.bytes = t.bytes
    BY <1>1 DEF AgainInner, Tasks
<1>3. new \in Tasks
    BY <1>1 DEF AgainInner, Tasks
<1>4. Relies(stored, new, b)
    BY <1>2 DEF TaskOK, Relies, Ahead
<1> QED BY <1>2, <1>3, <1>4 DEF TaskOK

\* From a call to the one that looks what became of it.
LEMMA TurnsOK ==
    ASSUME NEW table, NEW stored, NEW b, NEW t, TaskOK(table, stored, t, b),
           NEW pc, \/ t.pc = "status" /\ pc = "forget"
                   \/ t.pc = "patch" /\ pc = "check"
                   \/ t.pc = "put" /\ pc = "verify"
    PROVE  /\ TaskOK(table, stored, [t EXCEPT !.pc = pc, !.inner = 0], b)
           /\ TaskOK(table, stored, [t EXCEPT !.pc = pc, !.inner = 0, !.refused = TRUE], b)
<1> USE ClientAssumption
<1>1. t \in Tasks
    BY DEF TaskOK
<1>2. ASSUME NEW new \in Tasks, new.pc = pc, new.next = t.next, new.session = t.session,
             new.offset = t.offset, new.at = t.at, new.bytes = t.bytes
      PROVE  TaskOK(table, stored, new, b)
    <2>1. Relies(stored, new, b)
        BY <1>2 DEF TaskOK, Relies, Ahead
    <2> QED BY <1>2, <2>1 DEF TaskOK
<1>3. pc \in Points /\ 0 \in 0..(MaxAttempts - 1)
    BY Places
<1> DEFINE one == [t EXCEPT !.pc = pc, !.inner = 0]
           two == [t EXCEPT !.pc = pc, !.inner = 0, !.refused = TRUE]
<1>4. TaskOK(table, stored, one, b)
    <2>1. /\ one.pc = pc /\ one.next = t.next /\ one.session = t.session /\ one.offset = t.offset
          /\ one.at = t.at /\ one.bytes = t.bytes
        BY <1>1 DEF Tasks
    <2>2. one \in Tasks
        BY <1>1, <1>3 DEF Tasks
    <2> HIDE DEF one
    <2> QED BY <1>2, <2>1, <2>2
<1>5. TaskOK(table, stored, two, b)
    <2>1. /\ two.pc = pc /\ two.next = t.next /\ two.session = t.session /\ two.offset = t.offset
          /\ two.at = t.at /\ two.bytes = t.bytes
        BY <1>1 DEF Tasks
    <2>2. two \in Tasks
        BY <1>1, <1>3 DEF Tasks
    <2> HIDE DEF two
    <2> QED BY <1>2, <2>1, <2>2
<1> QED BY <1>4, <1>5

\* An upload goes on at a position of a session of its blob.
LEMMA AtPositionOK ==
    ASSUME NEW table, NEW stored, NEW b \in Blobs, NEW s \in Sessions, Located(table, s, b),
           NEW offset \in Nat, offset <= Size[b]
    PROVE  TaskOK(table, stored, AtPosition(s, offset), b)
<1> USE ClientAssumption
<1> DEFINE new == AtPosition(s, offset)
<1>1. /\ new.pc = "save" /\ new.next = "queued" /\ new.session = s /\ new.offset = offset
      /\ new.at = offset /\ new.bytes = NoEntries
    BY DEF AtPosition, Queued
<1>2. new \in Tasks
    BY Places DEF AtPosition, Tasks
<1> HIDE DEF new
<1>3. Relies(stored, new, b)
    BY <1>1 DEF Relies, Ahead
<1>4. \A c \in Blobs : Located(table, new.bytes[c], c)
    BY <1>1 DEF Located, NoEntries
<1> QED BY <1>1, <1>2, <1>3, <1>4 DEF TaskOK, new

\* A blob that the repository has.
LEMMA ClearOK ==
    ASSUME NEW table, NEW stored, NEW b \in stored
    PROVE  TaskOK(table, stored, [Queued EXCEPT !.pc = "clear"], b)
<1> USE ClientAssumption
<1>1. [Queued EXCEPT !.pc = "clear"] \in Tasks
    BY Places DEF Tasks
<1> QED BY <1>1 DEF TaskOK, Relies, Ahead, Located, Queued, NoEntries

\* RetryBody, whether or not the loop goes on.
LEMMA RetryBodyOK ==
    ASSUME ServerInv, OthersInv, Progress, NEW p \in Procs, NEW b \in Blobs,
           task[p][b].pc \in {"patch", "check", "put", "verify"}, RetryBody(p, b)
    PROVE  OthersInv'
<1> DEFINE t == task[p][b]
           pc == IF t.pc \in {"patch", "check"} THEN "patch" ELSE "put"
<1>1. TaskOK(sessions', held', t, b)
    BY ClientKept DEF OthersInv
<1>2. CASE t.tries + 1 < MaxAttempts
    <2>1. TaskOK(sessions', held', AgainBody(t, pc), b)
        BY <1>1, <1>2, AgainBodyOK
    <2>2. Proceed(p, b, AgainBody(t, pc))
        BY <1>2 DEF RetryBody
    <2> QED BY <2>1, <2>2, ProceedOK
<1>3. CASE ~(t.tries + 1 < MaxAttempts)
    BY <1>3, StopOK DEF RetryBody
<1> QED BY <1>2, <1>3

\* A call that returns an error.
LEMMA FailsOK ==
    ASSUME ServerInv, OthersInv, Progress, NEW p \in Procs, NEW b \in Blobs, Fails(p, b)
    PROVE  OthersInv'
<1> DEFINE t == task[p][b]
<1>1. TaskOK(sessions', held', t, b)
    BY ClientKept DEF OthersInv
<1>2. CASE t.pc = "status"
    <2>1. Proceed(p, b, [t EXCEPT !.pc = "forget", !.inner = 0])
        BY <1>2 DEF Fails
    <2>2. TaskOK(sessions', held', [t EXCEPT !.pc = "forget", !.inner = 0], b)
        BY <1>1, <1>2, TurnsOK
    <2> QED BY <2>1, <2>2, ProceedOK
<1>3. CASE t.pc # "status"
    <2>1. Stop(p) \/ (t.pc \in {"check", "verify"} /\ RetryBody(p, b))
        BY <1>3 DEF Fails
    <2> QED BY <2>1, StopOK, RetryBodyOK
<1> QED BY <1>2, <1>3

\* RetryInner, whether or not the loop goes on.
LEMMA RetryInnerOK ==
    ASSUME ServerInv, OthersInv, Progress, NEW p \in Procs, NEW b \in Blobs, RetryInner(p, b)
    PROVE  OthersInv'
<1> DEFINE t == task[p][b]
<1>1. TaskOK(sessions', held', t, b)
    BY ClientKept DEF OthersInv
<1>2. CASE t.inner + 1 < MaxAttempts
    <2>1. TaskOK(sessions', held', AgainInner(t), b) /\ Proceed(p, b, AgainInner(t))
        BY <1>1, <1>2, AgainInnerOK DEF RetryInner
    <2> QED BY <2>1, ProceedOK
<1>3. CASE ~(t.inner + 1 < MaxAttempts)
    BY <1>3, FailsOK DEF RetryInner
<1> QED BY <1>2, <1>3

\* A call that is not answered.
LEMMA UnansweredOK ==
    ASSUME ServerInv, OthersInv, Progress, NEW p \in Procs, NEW b \in Blobs, Unanswered(p, b)
    PROVE  OthersInv'
<1> DEFINE t == task[p][b]
           to(pc) == [t EXCEPT !.pc = pc, !.inner = 0]
<1>1. TaskOK(sessions', held', t, b)
    BY ClientKept DEF OthersInv
<1>2. CASE t.pc = "patch"
    <2>1. Proceed(p, b, to("check")) /\ TaskOK(sessions', held', to("check"), b)
        BY <1>1, <1>2, TurnsOK DEF Unanswered
    <2> QED BY <2>1, ProceedOK
<1>3. CASE t.pc = "put"
    <2>1. Proceed(p, b, to("verify")) /\ TaskOK(sessions', held', to("verify"), b)
        BY <1>1, <1>3, TurnsOK DEF Unanswered
    <2> QED BY <2>1, ProceedOK
<1>4. CASE t.pc \notin {"patch", "put"}
    BY <1>4, RetryInnerOK DEF Unanswered
<1> QED BY <1>2, <1>3, <1>4

\* The position that a task goes on from is the end of the chunk it sent.
LEMMA AcknowledgedOK ==
    ASSUME ServerInv, OthersInv, Progress, NEW p \in Procs, NEW b \in Blobs,
           task[p][b].pc \in {"patch", "check"}, NEW offset, Acknowledged(p, b, offset)
    PROVE  OthersInv'
<1> USE ClientAssumption
<1> DEFINE t == task[p][b]
           new == [AtPosition(t.session, offset) EXCEPT !.at = t.at + Chunk]
<1>1. TaskOK(sessions', held', t, b)
    BY ClientKept DEF OthersInv
<1>2. /\ t.session \in Sessions /\ t.offset \in Nat /\ t.at = t.offset
      /\ t.offset + Chunk <= Size[b] /\ Located(sessions', t.session, b)
    BY <1>1 DEF TaskOK, Relies, Ahead, Tasks
<1>3. CASE offset = t.offset + Chunk
    <2>1. offset \in Nat /\ offset <= Size[b] /\ t.at + Chunk = offset
        BY <1>2, <1>3
    <2>2. TaskOK(sessions', held', AtPosition(t.session, offset), b)
        BY <1>2, <2>1, AtPositionOK
    <2>3. new = AtPosition(t.session, offset)
        BY <2>1 DEF AtPosition, Queued
    <2>4. Proceed(p, b, new)
        BY <1>3 DEF Acknowledged
    <2> HIDE DEF new
    <2> QED BY <2>2, <2>3, <2>4, ProceedOK
<1>4. CASE offset # t.offset + Chunk
    BY <1>4, StopOK DEF Acknowledged
<1> QED BY <1>3, <1>4
-----------------------------------------------------------------------------
(* upload_blob *)

\* A body that is being sent, in the state as it is.
LEMMA BodyOK ==
    ASSUME ServerInv, OthersInv, NEW p \in Procs, NEW b \in Blobs, task[p][b].pc \in {"patch", "put"}
    PROVE  Sound(sessions, Body(task[p][b], b))
BY BodySound DEF ServerInv, OthersInv, ClientInv

\* buffer_unordered starts an upload.
LEMMA BeginStep ==
    ASSUME ServerInv, OthersInv, NEW p \in Procs, NEW b \in Blobs, Begin(p, b)
    PROVE  Progress /\ OthersInv'
<1> DEFINE new == [Queued EXCEPT !.pc = "exists"]
<1>1. Progress /\ Proceed(p, b, new)
    BY Unchanged DEF Begin
<1>2. TaskOK(sessions', held', new, b)
    <2>1. new \in Tasks
        BY Places DEF Tasks
    <2> QED BY <2>1 DEF TaskOK, Relies, Ahead, Located, Queued, NoEntries
<1> HIDE DEF new
<1> QED BY <1>1, <1>2, ProceedOK

\* blob_exists: what is stored is done, what is saved is looked up.
LEMMA ExistsStep ==
    ASSUME ServerInv, OthersInv, NEW p \in Procs, NEW b \in Blobs, Exists(p, b)
    PROVE  Progress /\ OthersInv'
<1> DEFINE session == IF b \in held THEN NoSession ELSE memory[p][b]
           pc == IF b \in held THEN "drop" ELSE IF memory[p][b] = NoSession THEN "start" ELSE "status"
           new == [Queued EXCEPT !.session = session, !.pc = pc]
<1>1. Progress /\ Proceed(p, b, new)
    BY Unchanged DEF Exists
<1>2. UNCHANGED <<sessions, held>>
    BY DEF Exists, serverVars
<1>3. session \in Sessions \cup {NoSession} /\ Located(sessions, session, b)
    BY DEF OthersInv, ClientInv, FileOK, Entries, Located
<1>4. pc \in Points /\ (pc = "drop" => b \in held) /\ (pc = "status" => session # NoSession)
    BY Places
<1>5. pc \in {"drop", "start", "status"}
    OBVIOUS
<1> HIDE DEF session, pc
<1>6. TaskOK(sessions, held, new, b)
    <2>1. new \in Tasks
        BY <1>3, <1>4, Places DEF Tasks
    <2>2. new.pc = pc /\ new.session = session /\ new.bytes = NoEntries
        BY DEF Queued
    <2> HIDE DEF new
    <2> QED BY <1>3, <1>4, <1>5, <2>1, <2>2 DEF TaskOK, Relies, Ahead, Located, NoEntries
<1> HIDE DEF new
<1> QED BY <1>1, <1>2, <1>6, ProceedOK

\* upload_status of a saved location: only of the same blob's session.
LEMMA StatusStep ==
    ASSUME ServerInv, OthersInv, NEW p \in Procs, NEW b \in Blobs, Status(p, b)
    PROVE  Progress /\ OthersInv'
<1> USE ClientAssumption
<1> DEFINE t == task[p][b]
           row == sessions[t.session]
           readable == row.status = "uploading" /\ row.offset <= Size[b] /\ row.offset % Chunk = 0
<1>1. Progress /\ UNCHANGED <<sessions, held>>
    BY Unchanged DEF Status, serverVars
<1>2. t.session \in Sessions /\ Located(sessions, t.session, b)
    <2>1. TaskOK(sessions, held, t, b) /\ t.pc = "status"
        BY DEF OthersInv, ClientInv, Status, Running
    <2> QED BY <2>1 DEF TaskOK, Relies, Tasks
<1>3. row.offset \in Nat
    BY <1>2 DEF ServerInv, TableOK, SessionRows
<1>4. CASE readable
    <2>1. TaskOK(sessions, held, AtPosition(t.session, row.offset), b)
        BY <1>2, <1>3, <1>4, AtPositionOK
    <2>2. Proceed(p, b, AtPosition(t.session, row.offset))
        BY <1>4 DEF Status
    <2> QED BY <1>1, <2>1, <2>2, ProceedOK
<1>5. CASE ~readable
    BY <1>1, <1>5, FailsOK DEF Status
<1> QED BY <1>4, <1>5

\* start_upload.
LEMMA StartStep ==
    ASSUME ServerInv, OthersInv, NEW p \in Procs, NEW b \in Blobs, NEW s \in Sessions, Start(p, b, s)
    PROVE  Progress /\ OthersInv'
<1> USE ClientAssumption
<1>1. Progress /\ sessions'[s].status = "uploading" /\ sessions'[s].blob = b
    BY StartProgress
<1>2. TaskOK(sessions', held', AtPosition(s, 0), b)
    <2>1. Located(sessions', s, b) /\ 0 <= Size[b]
        BY <1>1 DEF Located
    <2> QED BY <2>1, AtPositionOK
<1>3. Proceed(p, b, AtPosition(s, 0))
    BY DEF Start
<1> QED BY <1>1, <1>2, <1>3, ProceedOK

\* patch_upload with its answer.
LEMMA PatchStep ==
    ASSUME ServerInv, OthersInv, NEW p \in Procs, NEW b \in Blobs, Patch(p, b)
    PROVE  Progress /\ OthersInv'
<1> DEFINE q == Body(task[p][b], b)
<1>1. task[p][b].pc = "patch" /\ Execute(q)
    BY DEF Patch, Running
<1>2. Progress
    BY <1>1, BodyOK, ExecuteProgress
<1>3. Acknowledged(p, b, q.offset + q.len) \/ Fails(p, b)
    BY DEF Patch
<1> QED BY <1>1, <1>2, <1>3, AcknowledgedOK, FailsOK

\* upload_status after a PATCH that was not answered.
LEMMA CheckStep ==
    ASSUME ServerInv, OthersInv, NEW p \in Procs, NEW b \in Blobs, Check(p, b)
    PROVE  Progress /\ OthersInv'
<1>1. Progress /\ task[p][b].pc = "check"
    BY Unchanged DEF Check, Running
<1>2. Acknowledged(p, b, sessions[task[p][b].session].offset) \/ RetryBody(p, b)
    BY DEF Check
<1> QED BY <1>1, <1>2, AcknowledgedOK, RetryBodyOK

\* complete_upload with its answer: a PUT that succeeds has stored the blob.
LEMMA CompleteStep ==
    ASSUME ServerInv, OthersInv, NEW p \in Procs, NEW b \in Blobs, Complete(p, b)
    PROVE  Progress /\ OthersInv'
<1> DEFINE t == task[p][b]
           q == Body(t, b)
           stored == Accepts(q) /\ DigestMatches(Accepted(q)[q.session])
<1>1. t.pc = "put" /\ Execute(q) /\ Sound(sessions, q)
    BY BodyOK DEF Complete, Running
<1>2. Progress
    BY <1>1, ExecuteProgress
<1>3. TaskOK(sessions', held', t, b)
    BY <1>2, ClientKept DEF OthersInv
<1>4. CASE stored
    <2>1. Accepted(q)[q.session].blob = b
        <3>1. q.session = t.session /\ q.session \in Sessions
            BY <1>1 DEF Sound, BodyRequests, Body
        <3>2. TaskOK(sessions, held, t, b)
            BY DEF OthersInv, ClientInv
        <3>3. sessions[q.session].blob = b
            BY <1>1, <3>1, <3>2 DEF TaskOK, Relies, Ahead, Located
        <3>4. TableOK(sessions)
            BY DEF ServerInv
        <3> HIDE DEF q
        <3> QED BY <1>1, <1>4, <3>3, <3>4, AcceptedOK
    <2>2. b \in held'
        <3>1. q.op = "put"
            BY <1>1 DEF Body
        <3> QED BY <1>1, <1>4, <2>1, <3>1 DEF Execute, HeldAfter
    <2>3. Proceed(p, b, [Queued EXCEPT !.pc = "clear"])
        BY <1>4 DEF Complete
    <2>4. TaskOK(sessions', held', [Queued EXCEPT !.pc = "clear"], b)
        BY <2>2, ClearOK
    <2> QED BY <1>2, <2>3, <2>4, ProceedOK
<1>5. CASE ~stored
    <2> DEFINE new == [t EXCEPT !.pc = "verify", !.inner = 0, !.refused = TRUE]
    <2>1. Proceed(p, b, new)
        BY <1>5 DEF Complete
    <2>2. TaskOK(sessions', held', new, b)
        BY <1>1, <1>3, TurnsOK
    <2> QED BY <1>2, <2>1, <2>2, ProceedOK
<1> QED BY <1>4, <1>5

\* blob_exists after a PUT that was refused or not answered.
LEMMA VerifyStep ==
    ASSUME ServerInv, OthersInv, NEW p \in Procs, NEW b \in Blobs, Verify(p, b)
    PROVE  Progress /\ OthersInv'
<1>1. Progress /\ UNCHANGED <<sessions, held>>
    BY Unchanged DEF Verify, serverVars
<1>2. CASE b \in held
    <2>1. TaskOK(sessions, held, [Queued EXCEPT !.pc = "clear"], b)
        BY <1>2, ClearOK
    <2>2. Proceed(p, b, [Queued EXCEPT !.pc = "clear"])
        BY <1>2 DEF Verify
    <2> QED BY <1>1, <2>1, <2>2, ProceedOK
<1>3. CASE b \notin held
    BY <1>1, <1>3, FailsOK DEF Verify
<1> QED BY <1>2, <1>3
-----------------------------------------------------------------------------
(* ResumeStore *)

\* What a task goes on with after the file is written is as good as before.
LEMMA WrittenRelies ==
    ASSUME ServerInv, OthersInv, NEW p \in Procs, NEW b \in Blobs, task[p][b].pc # "write",
           NEW next, \/ next = "done" /\ task[p][b].pc \in {"drop", "clear"}
                     \/ next = "start" /\ task[p][b].pc = "forget"
                     \/ /\ task[p][b].pc = "save"
                        /\ next = IF Size[b] - task[p][b].offset >= Chunk THEN "patch" ELSE "put"
    PROVE  /\ next \in {"done", "start", "patch", "put"}
           /\ Relies(held, [task[p][b] EXCEPT !.pc = "write", !.next = next], b)
<1> USE ClientAssumption
<1> DEFINE t == task[p][b]
           new == [t EXCEPT !.pc = "write", !.next = next]
<1>1. t \in Tasks /\ Relies(held, t, b) /\ Ahead(t) = t.pc
    BY DEF OthersInv, ClientInv, TaskOK, Ahead
<1>2. /\ new.pc = "write" /\ new.next = next /\ new.session = t.session
      /\ new.offset = t.offset /\ new.at = t.at
    BY <1>1 DEF Tasks
<1>3. /\ t.pc = "save" => t.session # NoSession /\ t.at = t.offset /\ t.offset <= Size[b]
      /\ t.pc \in {"drop", "clear"} => b \in held
      /\ t.offset \in Nat /\ Size[b] \in Nat
    BY <1>1 DEF Relies, Tasks
<1> HIDE DEF new
<1>4. Relies(held, new, b)
    BY <1>2, <1>3 DEF Relies, Ahead
<1> QED BY <1>4 DEF new

\* set and remove.
LEMMA FileStep ==
    ASSUME ServerInv, OthersInv, NEW p \in Procs, NEW b \in Blobs,
           Drop(p, b) \/ Forget(p, b) \/ Clear(p, b) \/ Save(p, b)
    PROVE  Progress /\ OthersInv'
<1> DEFINE t == task[p][b]
           ahead == IF Size[b] - t.offset >= Chunk THEN "patch" ELSE "put"
<1>1. Located(sessions, NoSession, b)
    BY DEF Located
<1>2. CASE Drop(p, b) \/ Clear(p, b)
    <2>1. t.pc \in {"drop", "clear"} /\ Serialise(p, b, NoSession, "done")
        BY <1>2 DEF Drop, Clear, Running
    <2>2. Relies(held, [t EXCEPT !.pc = "write", !.next = "done"], b)
        BY <2>1, WrittenRelies
    <2> QED BY <1>1, <2>1, <2>2, SerialiseOK
<1>3. CASE Forget(p, b)
    <2>1. t.pc = "forget" /\ Serialise(p, b, NoSession, "start")
        BY <1>3 DEF Forget, Running
    <2>2. Relies(held, [t EXCEPT !.pc = "write", !.next = "start"], b)
        BY <2>1, WrittenRelies
    <2> QED BY <1>1, <2>1, <2>2, SerialiseOK
<1>4. CASE Save(p, b)
    <2>1. t.pc = "save" /\ Serialise(p, b, t.session, ahead)
        BY <1>4 DEF Save, Running
    <2>2. /\ ahead \in {"done", "start", "patch", "put"}
          /\ Relies(held, [t EXCEPT !.pc = "write", !.next = ahead], b)
        BY <2>1, WrittenRelies
    <2>3. t.session \in Sessions \cup {NoSession} /\ Located(sessions, t.session, b)
        BY DEF OthersInv, ClientInv, TaskOK, Tasks
    <2> HIDE DEF ahead
    <2> QED BY <2>1, <2>2, <2>3, SerialiseOK
<1> QED BY <1>2, <1>3, <1>4

\* write_atomic: what one task wrote may be what another had saved before.
LEMMA WriteStep ==
    ASSUME ServerInv, OthersInv, NEW p \in Procs, NEW b \in Blobs, Write(p, b)
    PROVE  Progress /\ OthersInv'
<1> DEFINE t == task[p][b]
           new == [t EXCEPT !.pc = t.next, !.next = "queued", !.bytes = NoEntries]
<1>1. /\ Progress /\ t.pc = "write" /\ UNCHANGED <<sessions, held, late, proc, memory>>
      /\ disk' = t.bytes /\ Update(p, b, new)
    BY Unchanged DEF Write, Running, serverVars
<1>2. t \in Tasks /\ TaskOK(sessions, held, t, b) /\ t.next \in {"done", "start", "patch", "put"}
    BY <1>1 DEF OthersInv, ClientInv, TaskOK, Relies
<1>3. TaskOK(sessions, held, new, b)
    <2>1. new \in Tasks
        BY <1>2, Places DEF Tasks
    <2>2. /\ new.pc = t.next /\ new.bytes = NoEntries /\ new.session = t.session
          /\ new.offset = t.offset /\ new.at = t.at
        BY <1>2 DEF Tasks
    <2> HIDE DEF new
    <2>3. Relies(held, new, b)
        BY <1>1, <1>2, <2>2 DEF TaskOK, Relies, Ahead
    <2>4. \A c \in Blobs : Located(sessions, new.bytes[c], c)
        BY <2>2 DEF Located, NoEntries
    <2> QED BY <1>2, <2>1, <2>2, <2>3, <2>4 DEF TaskOK
<1>4. ProcInv'
    BY <1>1, ProcKept DEF OthersInv
<1>5. FileOK(sessions', disk')
    BY <1>1, <1>2 DEF TaskOK, FileOK, Tasks
<1>6. ClientInv'
    <2> HIDE DEF new
    <2> QED BY <1>1, <1>3, <1>5, TaskMoves, ClientKept DEF OthersInv, ClientInv
<1> QED BY <1>1, <1>4, <1>6 DEF OthersInv

\* Every step of an upload.
LEMMA TaskStepOK ==
    ASSUME ServerInv, OthersInv, NEW p \in Procs, NEW b \in Blobs, TaskStep(p, b)
    PROVE  Progress /\ OthersInv'
BY BeginStep, ExistsStep, StatusStep, StartStep, PatchStep, CheckStep, CompleteStep, VerifyStep,
   FileStep, WriteStep DEF TaskStep

-----------------------------------------------------------------------------
(* The processes *)

\* A process changes its state and its manifest.
LEMMA ProcMoves ==
    ASSUME ServerInv, ProcInv, Progress, NEW p \in Procs,
           NEW row \in Processes,
           proc' = [proc EXCEPT ![p] = row],
           1..(row.manifest - 1) \subseteq published', row.state = "publishing" => held' = Blobs,
           row.state = "pushed" => published' = 1..Manifests
    PROVE  ProcInv'
<1>1. /\ proc' \in [Procs -> Processes]
      /\ \A x \in Procs : proc'[x] = IF x = p THEN row ELSE proc[x]
    BY DEF ProcInv
<1>2. /\ held = Blobs => held' = Blobs
      /\ published = 1..Manifests => published' = 1..Manifests
      /\ published \subseteq published'
    BY DEF Progress
<1>3. ASSUME NEW x \in Procs
      PROVE  /\ 1..(proc'[x].manifest - 1) \subseteq published'
             /\ proc'[x].state = "publishing" => held' = Blobs
             /\ proc'[x].state = "pushed" => published' = 1..Manifests
    <2>1. CASE x = p
        BY <1>1, <2>1
    <2>2. CASE x # p
        BY <1>1, <1>2, <2>2 DEF ProcInv
    <2> QED BY <2>1, <2>2
<1> QED BY <1>1, <1>3 DEF ProcInv

\* The command is run; the file is read.
LEMMA RunStep ==
    ASSUME ServerInv, OthersInv, NEW p \in Procs, Run(p)
    PROVE  Progress /\ OthersInv'
<1>1. Progress /\ UNCHANGED <<sessions, held, late, task, disk>> /\ UNCHANGED published
    BY Unchanged DEF Run, serverVars
<1>2. ProcInv'
    <2> DEFINE row == [proc[p] EXCEPT !.state = "uploading"]
    <2>1. proc[p] \in Processes
        BY DEF OthersInv, ProcInv
    <2>2. /\ row \in Processes
          /\ row.state = "uploading" /\ row.manifest = proc[p].manifest
        BY <2>1 DEF Processes
    <2>3. proc' = [proc EXCEPT ![p] = row]
        BY DEF Run
    <2>4. 1..(row.manifest - 1) \subseteq published'
        BY <1>1, <2>2 DEF OthersInv, ProcInv
    <2> HIDE DEF row
    <2> QED BY <1>1, <2>2, <2>3, <2>4, ProcMoves DEF OthersInv
<1>3. ClientInv'
    <2>1. memory' = [memory EXCEPT ![p] = disk]
        BY DEF Run
    <2>2. /\ memory' \in [Procs -> Entries]
          /\ \A x \in Procs : FileOK(sessions', memory'[x])
        BY <1>1, <2>1 DEF OthersInv, ClientInv, FileOK
    <2> QED BY <1>1, <2>2 DEF OthersInv, ClientInv
<1> QED BY <1>1, <1>2, <1>3 DEF OthersInv

\* All uploads are done: the repository has all blobs.
LEMMA UploadedStep ==
    ASSUME ServerInv, OthersInv, NEW p \in Procs, Uploaded(p)
    PROVE  Progress /\ OthersInv'
<1>1. Progress /\ UNCHANGED <<sessions, held, published, late, task, memory, disk>>
    BY Unchanged DEF Uploaded, serverVars
<1>2. held' = Blobs
    <2>1. \A b \in Blobs : task[p][b].pc = "done" /\ TaskOK(sessions, held, task[p][b], b)
        BY DEF OthersInv, ClientInv, Uploaded
    <2>2. \A b \in Blobs : b \in held
        BY <2>1 DEF TaskOK, Relies, Ahead
    <2> QED BY <1>1, <2>2 DEF ServerInv
<1>3. ProcInv'
    <2> DEFINE row == [proc[p] EXCEPT !.state = "publishing"]
    <2>1. proc[p] \in Processes
        BY DEF OthersInv, ProcInv
    <2>2. /\ row \in Processes
          /\ row.state = "publishing" /\ row.manifest = proc[p].manifest
        BY <2>1 DEF Processes
    <2>3. proc' = [proc EXCEPT ![p] = row]
        BY DEF Uploaded
    <2>4. 1..(row.manifest - 1) \subseteq published'
        BY <1>1, <2>2 DEF OthersInv, ProcInv
    <2> HIDE DEF row
    <2> QED BY <1>1, <1>2, <2>2, <2>3, <2>4, ProcMoves DEF OthersInv
<1>4. ClientInv'
    BY <1>1 DEF OthersInv, ClientInv
<1> QED BY <1>1, <1>3, <1>4 DEF OthersInv

\* put_manifest: the manifests before the next one are published.
LEMMA PutManifestStep ==
    ASSUME ServerInv, OthersInv, NEW p \in Procs, PutManifest(p)
    PROVE  Progress /\ OthersInv'
<1> USE ClientAssumption
<1> DEFINE n == proc[p].manifest
           row == [state |-> IF n = Manifests THEN "pushed" ELSE "publishing",
                   manifest |-> IF n = Manifests THEN n ELSE n + 1, tries |-> 0]
<1>1. /\ UNCHANGED <<sessions, held>> /\ proc[p].state = "publishing" /\ n \in 1..Manifests
      /\ 1..(n - 1) \subseteq published
    BY DEF PutManifest, OthersInv, ProcInv, Processes
<1>2. CASE Publishable(n)
    <2>1. published' = published \cup {n} /\ UNCHANGED <<late, task, memory, disk>>
        BY <1>2 DEF PutManifest
    <2>2. Progress
        <3>1. Grows(sessions, sessions')
            BY <1>1 DEF Grows
        <3> QED BY <1>1, <2>1, <3>1 DEF Progress, ServerInv
    <2>3. ClientInv'
        BY <1>1, <2>1 DEF OthersInv, ClientInv
    <2>4. row \in Processes
        BY <1>1 DEF Processes
    <2>5. proc' = [proc EXCEPT ![p] = row]
        BY <1>2 DEF PutManifest
    <2>6. /\ row.state = IF n = Manifests THEN "pushed" ELSE "publishing"
          /\ row.manifest = IF n = Manifests THEN n ELSE n + 1
        OBVIOUS
    <2>7. 1..n \subseteq published' /\ held' = Blobs
        BY <1>1, <1>2, <2>1 DEF Publishable
    <2>8. row.state = "pushed" => published' = 1..Manifests
        BY <2>2, <2>6, <2>7 DEF Progress
    <2>9. 1..(row.manifest - 1) \subseteq published'
        BY <1>1, <2>6, <2>7
    <2> HIDE DEF row
    <2>10. ProcInv'
        BY <2>2, <2>4, <2>5, <2>7, <2>8, <2>9, ProcMoves DEF OthersInv
    <2> QED BY <2>2, <2>3, <2>10 DEF OthersInv
<1>3. CASE ~Publishable(n)
    <2>1. Stop(p) /\ UNCHANGED published
        BY <1>3 DEF PutManifest
    <2> QED BY <1>1, <2>1, Unchanged, StopOK DEF serverVars
<1> QED BY <1>2, <1>3

-----------------------------------------------------------------------------
(* Faults *)

\* A call whose answer is lost may have been executed.
LEMMA LostOrBroken ==
    ASSUME ServerInv, OthersInv, NEW p \in Procs, NEW b \in Blobs,
           UNCHANGED serverVars \/ \E q \in BodyRequest(task[p][b], b) : Execute(q)
    PROVE  Progress
<1>1. ASSUME NEW q \in BodyRequest(task[p][b], b), Execute(q)
      PROVE  Progress
    <2>1. task[p][b].pc \in {"patch", "put"} /\ q = Body(task[p][b], b)
        BY DEF BodyRequest
    <2> QED BY <1>1, <2>1, BodyOK, ExecuteProgress
<1> QED BY <1>1, Unchanged

\* A request that is still on its way is as good as when it was sent.
LEMMA DelayedStep ==
    ASSUME ServerInv, OthersInv, NEW p \in Procs, NEW b \in Blobs, Delayed(p, b)
    PROVE  Progress /\ OthersInv'
<1> DEFINE t == task[p][b]
           pc == IF t.pc = "patch" THEN "check" ELSE "verify"
           new == [t EXCEPT !.pc = pc, !.inner = 0]
<1>1. /\ Progress /\ UNCHANGED <<sessions, held, proc, memory, disk>>
      /\ late' = late \cup BodyRequest(t, b)
    BY Unchanged DEF Delayed, serverVars
<1>2. t.pc \in {"patch", "put"}
    BY DEF Delayed, BodyRequest
<1>3. TaskOK(sessions, held, t, b) /\ t \in Tasks
    BY DEF OthersInv, ClientInv, TaskOK
<1>4. Update(p, b, new)
    BY <1>3 DEF Delayed, Tasks
<1>5. TaskOK(sessions', held', new, b)
    BY <1>1, <1>2, <1>3, TurnsOK
<1>6. \A q \in late' : Sound(sessions', q)
    <2>1. \A q \in late' : q \in late \/ q = Body(t, b)
        BY <1>1 DEF BodyRequest
    <2> QED BY <1>1, <1>2, <2>1, BodyOK DEF OthersInv, ClientInv
<1>7. ProcInv'
    BY <1>1, ProcKept DEF OthersInv
<1>8. ClientInv'
    <2> HIDE DEF new
    <2> QED BY <1>1, <1>4, <1>5, <1>6, TaskMoves, ClientKept DEF OthersInv, ClientInv
<1> QED BY <1>1, <1>7, <1>8 DEF OthersInv

\* The answer to a manifest's PUT is lost.
LEMMA ManifestLostStep ==
    ASSUME ServerInv, OthersInv, NEW p \in Procs, ManifestLost(p)
    PROVE  Progress /\ OthersInv'
<1> USE ClientAssumption
<1> DEFINE n == proc[p].manifest
           row == [proc[p] EXCEPT !.tries = proc[p].tries + 1]
<1>1. /\ UNCHANGED <<sessions, held>> /\ proc[p].state = "publishing" /\ proc[p] \in Processes
      /\ n \in 1..Manifests /\ 1..(n - 1) \subseteq published /\ held = Blobs
    BY DEF ManifestLost, OthersInv, ProcInv, Processes
<1>2. published \subseteq published' /\ published' \subseteq 1..Manifests
    BY <1>1 DEF ManifestLost, ServerInv
<1>3. Progress
    <2>1. Grows(sessions, sessions')
        BY <1>1 DEF Grows
    <2> QED BY <1>1, <1>2, <2>1 DEF Progress, ServerInv
<1>4. CASE proc[p].tries + 1 < MaxAttempts
    <2>1. proc' = [proc EXCEPT ![p] = row] /\ UNCHANGED <<late, task, memory, disk>>
        BY <1>4 DEF ManifestLost
    <2>2. row \in Processes /\ row.state = "publishing" /\ row.manifest = n
        BY <1>1, <1>4 DEF Processes
    <2> HIDE DEF row
    <2>3. ProcInv'
        BY <1>1, <1>2, <1>3, <2>1, <2>2, ProcMoves DEF OthersInv
    <2>4. ClientInv'
        BY <1>1, <2>1 DEF OthersInv, ClientInv
    <2> QED BY <1>3, <2>3, <2>4 DEF OthersInv
<1>5. CASE ~(proc[p].tries + 1 < MaxAttempts)
    BY <1>3, <1>5, StopOK DEF ManifestLost
<1> QED BY <1>4, <1>5

\* Every fault at the client.
LEMMA MishapOK ==
    ASSUME ServerInv, OthersInv, Mishap
    PROVE  Progress /\ OthersInv'
<1>1. ASSUME NEW p \in Procs, NEW b \in Blobs, Lost(p, b) \/ Broken(p, b)
      PROVE  Progress /\ OthersInv'
    <2>1. Progress
        BY <1>1, LostOrBroken DEF Lost, Broken
    <2> QED BY <1>1, <2>1, UnansweredOK, FailsOK DEF Lost, Broken
<1>2. ASSUME NEW p \in Procs, NEW b \in Blobs, Unauthorized(p, b)
      PROVE  Progress /\ OthersInv'
    <2>1. Progress
        BY <1>2, Unchanged DEF Unauthorized
    <2>2. (task[p][b].pc \in {"patch", "put"} /\ RetryBody(p, b)) \/ RetryInner(p, b)
        BY <1>2 DEF Unauthorized
    <2> QED BY <2>1, <2>2, RetryBodyOK, RetryInnerOK
<1>3. ASSUME NEW p \in Procs, (\E b \in Blobs : WriteFails(p, b)) \/ Crash(p)
      PROVE  Progress /\ OthersInv'
    <2>1. Progress /\ Stop(p)
        BY <1>3, Unchanged DEF WriteFails, Crash
    <2> QED BY <2>1, StopOK
<1> QED BY <1>1, <1>2, <1>3, DelayedStep, ManifestLostStep DEF Mishap
-----------------------------------------------------------------------------
(* The invariant *)

\* Every step of jcrd for which no client waits.
LEMMA LateStep ==
    ASSUME ServerInv, OthersInv, ServerStep
    PROVE  Progress /\ OthersInv'
<1>1. /\ Progress /\ late' \subseteq late
      /\ UNCHANGED <<proc, task, memory, disk>>
    <2>1. Progress
        BY ServerProgress DEF ServerStep, OthersInv
    <2> QED BY <2>1 DEF ServerStep, ExecuteLate, Lose, Conclude, Expire
<1>2. ProcInv'
    BY <1>1, ProcKept DEF OthersInv
<1>3. ClientInv'
    BY <1>1, ClientKept DEF OthersInv, ClientInv
<1> QED BY <1>1, <1>2, <1>3 DEF OthersInv

\* A fault is counted.
LEMMA FaultStep ==
    ASSUME FaultInv, NEW kind, Fault(kind)
    PROVE  FaultInv'
<1> USE ClientAssumption
<1>1. faults.count \in 0..MaxFaults /\ faults.grave \in BOOLEAN /\ faults.count < MaxFaults
    BY DEF FaultInv, Fault
<1>2. (faults.grave \/ kind \notin {"lost", "unauthorized"}) \in BOOLEAN
    BY <1>1
<1>3. faults.count + 1 \in 0..MaxFaults
    BY <1>1
<1> QED BY <1>2, <1>3 DEF FaultInv, Fault

\* Every step is without a fault or with one.
LEMMA FaultOrNot ==
    ASSUME [Next]_vars
    PROVE  UNCHANGED faults \/ \E kind \in Kinds : Fault(kind)
<1>1. ASSUME NEW p \in Procs, NEW b \in Blobs, TaskStep(p, b)
      PROVE  UNCHANGED faults
    BY <1>1 DEF TaskStep, Begin, Exists, Status, Start, Patch, Check, Complete, Verify, Drop, Forget,
                Save, Clear, Serialise, Write
<1>2. ASSUME NEW p \in Procs, Run(p) \/ Uploaded(p) \/ PutManifest(p)
      PROVE  UNCHANGED faults
    BY <1>2 DEF Run, Uploaded, PutManifest
<1>3. ASSUME ServerStep
      PROVE  UNCHANGED faults \/ Fault("expire")
    BY <1>3 DEF ServerStep, ExecuteLate, Lose, Conclude, Expire
<1>4. ASSUME Mishap
      PROVE  \E kind \in Kinds : Fault(kind)
    BY <1>4 DEF Mishap, Lost, Delayed, Unauthorized, Broken, WriteFails, ManifestLost, Crash, Kinds
<1> QED BY <1>1, <1>2, <1>3, <1>4 DEF Next, Kinds, vars

LEMMA FaultNext ==
    ASSUME FaultInv, Next
    PROVE  FaultInv'
<1>1. CASE UNCHANGED faults
    BY <1>1 DEF FaultInv
<1> QED BY <1>1, FaultOrNot, FaultStep

\* The invariant holds at first.
LEMMA InitInv ==
    ASSUME Init
    PROVE  IInv
<1> USE ClientAssumption
<1>1. ServerInv
    <2>1. Unused \in SessionRows /\ Unused.offset = 0 /\ Unused.intact = TRUE /\ Size[Unused.blob] \in Nat
        BY DEF Unused, SessionRows
    <2>2. sessions = [s \in Sessions |-> Unused]
        BY DEF Init
    <2> HIDE DEF Unused
    <2>3. TableOK(sessions)
        BY <2>1, <2>2 DEF TableOK
    <2> QED BY <2>3 DEF Init, ServerInv
<1>2. ClientInv
    <2>1. task \in [Procs -> [Blobs -> Tasks]] /\ \A p \in Procs, b \in Blobs : task[p][b] = Queued
        BY Places DEF Init
    <2>2. FileOK(sessions, NoEntries)
        BY DEF FileOK, NoEntries, Entries, Located
    <2> QED BY <2>1, <2>2, QueuedOK DEF Init, ClientInv, FileOK
<1>3. ProcInv
    BY DEF Init, ProcInv, Processes
<1>4. FaultInv
    BY DEF Init, FaultInv
<1> QED BY <1>1, <1>2, <1>3, <1>4 DEF IInv

\* Every step keeps the invariant.
LEMMA NextInv ==
    ASSUME IInv, [Next]_vars
    PROVE  IInv'
<1>1. ServerInv /\ OthersInv /\ FaultInv
    BY DEF IInv, OthersInv
<1>2. CASE Next
    <2>1. Progress /\ OthersInv'
        BY <1>1, <1>2, TaskStepOK, RunStep, UploadedStep, PutManifestStep, LateStep, MishapOK DEF Next
    <2>2. ServerInv'
        BY <2>1 DEF Progress, ServerInv
    <2>3. FaultInv'
        BY <1>1, <1>2, FaultNext
    <2> QED BY <2>1, <2>2, <2>3 DEF IInv, OthersInv
<1>3. CASE UNCHANGED vars
    BY <1>1, <1>3 DEF vars, IInv, ServerInv, ClientInv, ProcInv, FaultInv
<1> QED BY <1>2, <1>3

\* The inductive invariant holds throughout.
THEOREM Invariance == Spec => []IInv
BY InitInv, NextInv, PTL DEF Spec

\* The state of jcr and of jcrd keeps its type, and no session holds more
\* than the file it is an upload of.
THEOREM TypeCorrect == Spec => []TypeOK
<1>1. IInv => TypeOK
    <2>1. ASSUME IInv
          PROVE  late \subseteq BodyRequests
        BY <2>1 DEF IInv, ClientInv, Sound
    <2>2. ASSUME IInv
          PROVE  memory \in [Procs -> Entries] /\ disk \in Entries
        BY <2>2 DEF IInv, ClientInv, FileOK
    <2> QED BY <2>1, <2>2 DEF IInv, ServerInv, TableOK, ClientInv, ProcInv, FaultInv, TypeOK
<1> QED BY <1>1, Invariance, PTL

\* An upload that upload_blob reports as done is in the repository, and a
\* push that reports success has published every manifest.
THEOREM UploadsAreReal == Spec => []SuccessIsReal
<1>1. ASSUME IInv
      PROVE  SuccessIsReal
    <2>1. \A p \in Procs, b \in Blobs : TaskOK(sessions, held, task[p][b], b)
        BY <1>1 DEF IInv, ClientInv
    <2>2. \A p \in Procs, b \in Blobs : task[p][b].pc \in {"drop", "clear", "done"} => b \in held
        BY <2>1 DEF TaskOK, Relies, Ahead
    <2> QED BY <1>1, <2>2 DEF IInv, ProcInv, SuccessIsReal
<1> QED BY <1>1, Invariance, PTL

\* What a session has accepted is a prefix of the file.
THEOREM PrefixesOnly == Spec => []SessionsHoldPrefixes
<1>1. IInv => SessionsHoldPrefixes
    BY DEF IInv, ServerInv, TableOK, SessionsHoldPrefixes
<1> QED BY <1>1, Invariance, PTL
-----------------------------------------------------------------------------
(* Each session is a chunked upload *)

\* What a request, the end of a PUT or the clock does to the sessions.
Transition ==
    \/ UNCHANGED sessions
    \/ \E q : /\ Sound(sessions, q) /\ Accepts(q)
              /\ sessions' \in {Accepted(q), Concluded(Accepted(q), q.session)}
              /\ sessions' # Accepted(q) => q.op = "put"
    \/ \E s \in Sessions : /\ sessions[s].status = "finalizing"
                           /\ sessions' = Concluded(sessions, s)
    \/ \E s \in Sessions : /\ sessions[s].status \in {"uploading", "finalizing"}
                           /\ sessions' = [sessions EXCEPT ![s].status = "failed"]
    \/ \E s \in Sessions, b \in Blobs :
          /\ sessions[s].status = "free"
          /\ sessions' = [sessions EXCEPT ![s] = [blob |-> b, offset |-> 0, intact |-> TRUE,
                                                  status |-> "uploading"]]

\* A request that runs to its end, seen from the sessions.
LEMMA ExecuteTransition ==
    ASSUME NEW q, Sound(sessions, q), Execute(q)
    PROVE  Transition
BY DEF Execute, Transition, serverVars

\* Nothing else happens to the sessions.
LEMMA NextTransition ==
    ASSUME IInv, [Next]_vars
    PROVE  Transition
<1>1. ServerInv /\ OthersInv
    BY DEF IInv, OthersInv
<1>2. ASSUME NEW p \in Procs, NEW b \in Blobs, TaskStep(p, b)
      PROVE  Transition
    <2>1. CASE Patch(p, b) \/ Complete(p, b)
        <3>1. task[p][b].pc \in {"patch", "put"} /\ Execute(Body(task[p][b], b))
            BY <2>1 DEF Patch, Complete, Running
        <3> QED BY <1>1, <3>1, BodyOK, ExecuteTransition
    <2>2. ASSUME NEW s \in Sessions, Start(p, b, s)
          PROVE  Transition
        BY <2>2 DEF Start, Free, Transition
    <2>3. CASE Begin(p, b) \/ Exists(p, b) \/ Status(p, b) \/ Check(p, b) \/ Verify(p, b)
               \/ Drop(p, b) \/ Forget(p, b) \/ Save(p, b) \/ Clear(p, b) \/ Write(p, b)
        BY <2>3 DEF Begin, Exists, Status, Check, Verify, Drop, Forget, Save, Clear, Write, Serialise,
                    serverVars, Transition
    <2> QED BY <1>2, <2>1, <2>2, <2>3 DEF TaskStep
<1>3. ASSUME NEW p \in Procs, Run(p) \/ Uploaded(p) \/ PutManifest(p)
      PROVE  Transition
    BY <1>3 DEF Run, Uploaded, PutManifest, serverVars, Transition
<1>4. ASSUME ServerStep
      PROVE  Transition
    <2>1. ASSUME NEW q \in late, ExecuteLate(q)
          PROVE  Transition
        BY <1>1, <2>1 DEF OthersInv, ClientInv, ExecuteLate, Transition
    <2>2. ASSUME NEW q \in late, Lose(q)
          PROVE  Transition
        BY <2>2 DEF Lose, serverVars, Transition
    <2>3. ASSUME NEW s \in Sessions, Conclude(s) \/ Expire(s)
          PROVE  Transition
        BY <2>3 DEF Conclude, Expire, Transition
    <2> QED BY <1>4, <2>1, <2>2, <2>3 DEF ServerStep
<1>5. ASSUME Mishap
      PROVE  Transition
    <2>1. ASSUME NEW p \in Procs, NEW b \in Blobs, Lost(p, b) \/ Broken(p, b)
          PROVE  Transition
        <3>1. ASSUME NEW q \in BodyRequest(task[p][b], b), Execute(q)
              PROVE  Transition
            <4>1. task[p][b].pc \in {"patch", "put"} /\ q = Body(task[p][b], b)
                BY DEF BodyRequest
            <4> QED BY <1>1, <3>1, <4>1, BodyOK, ExecuteTransition
        <3> QED BY <2>1, <3>1 DEF Lost, Broken, serverVars, Transition
    <2>2. ASSUME NEW p \in Procs,
                 \/ ManifestLost(p) \/ Crash(p)
                 \/ \E b \in Blobs : Delayed(p, b) \/ Unauthorized(p, b) \/ WriteFails(p, b)
          PROVE  Transition
        BY <2>2 DEF ManifestLost, Crash, Delayed, Unauthorized, WriteFails, serverVars, Transition
    <2> QED BY <1>5, <2>1, <2>2 DEF Mishap
<1>6. CASE UNCHANGED vars
    BY <1>6 DEF vars, Transition
<1> QED BY <1>2, <1>3, <1>4, <1>5, <1>6 DEF Next

\* A body that is accepted is a PATCH, or a PUT up to finalization.
LEMMA AcceptedUpload ==
    ASSUME ServerInv, NEW q, Sound(sessions, q), Accepts(q), sessions' = Accepted(q),
           NEW s \in Sessions
    PROVE  [Session(s)!Next]_(Session(s)!vars)
<1>1. /\ q.len \in Nat /\ q.session \in Sessions /\ q.op \in {"patch", "put"}
      /\ (q.op = "patch" => q.len > 0) /\ sessions[q.session].offset \in Nat
      /\ sessions[q.session].intact
      /\ sessions[q.session].status = "uploading"
    BY DEF Sound, BodyRequests, Accepts, ServerInv, TableOK, SessionRows
<1>2. CASE s # q.session
    <2>1. sessions'[s] = sessions[s]
        BY <1>2, AcceptedOK DEF ServerInv
    <2> QED BY <2>1 DEF Session!vars
<1>3. CASE s = q.session
    <2>1. /\ sessions'[s].offset = sessions[s].offset + q.len /\ sessions'[s].intact
          /\ sessions'[s].status = IF q.op = "put" THEN "finalizing" ELSE "uploading"
          /\ sessions' \in [Sessions -> SessionRows]
        <3>1. /\ Accepted(q)[s].offset = sessions[s].offset + q.len /\ Accepted(q)[s].intact
              /\ Accepted(q)[s].status = IF q.op = "put" THEN "finalizing" ELSE "uploading"
              /\ TableOK(Accepted(q))
            BY <1>3, AcceptedOK DEF ServerInv
        <3> QED BY <3>1 DEF TableOK
    <2>2. sessions'[s].intact = TRUE /\ sessions[s].intact = TRUE
        BY <1>1, <1>3, <2>1 DEF ServerInv, TableOK, SessionRows
    <2>3. CASE q.op = "patch"
        BY <1>1, <1>3, <2>1, <2>2, <2>3 DEF Session!Next, Session!Patch, Session!Take
    <2>4. CASE q.op = "put"
        <3>1. /\ sessions'[s].status = "finalizing" /\ sessions[s].status = "uploading"
              /\ \/ sessions'[s].offset > sessions[s].offset
                 \/ sessions'[s].offset = sessions[s].offset
            BY <1>1, <1>3, <2>1, <2>4
        <3> QED BY <2>2, <3>1 DEF Session!Next, Session!Put, Session!Take
    <2> QED BY <1>1, <2>3, <2>4
<1> QED BY <1>2, <1>3

\* A PUT that runs to its end is a PUT with its answer.
LEMMA ConcludedUpload ==
    ASSUME ServerInv, NEW q, Sound(sessions, q), Accepts(q), q.op = "put",
           sessions' = Concluded(Accepted(q), q.session), NEW s \in Sessions
    PROVE  [Session(s)!Next]_(Session(s)!vars)
<1> DEFINE table == Accepted(q)
<1>1. /\ q.len \in Nat /\ q.session \in Sessions /\ sessions[q.session].offset \in Nat
      /\ sessions[q.session].intact = TRUE /\ sessions[q.session].status = "uploading"
    BY DEF Sound, BodyRequests, Accepts, ServerInv, TableOK, SessionRows
<1>2. /\ TableOK(table) /\ \A x \in Sessions : x # q.session => table[x] = sessions[x]
      /\ table[q.session].offset = sessions[q.session].offset + q.len
      /\ table[q.session].status = "finalizing"
    BY AcceptedOK DEF ServerInv
<1> HIDE DEF table
<1>3. /\ TableOK(sessions') /\ \A x \in Sessions : x # q.session => sessions'[x] = sessions[x]
      /\ sessions'[q.session].offset = sessions[q.session].offset + q.len
      /\ sessions'[q.session].status \in {"committed", "failed"}
    BY <1>1, <1>2, ConcludedOK DEF ServerInv, table
<1>4. CASE s # q.session
    BY <1>3, <1>4 DEF Session!vars
<1>5. CASE s = q.session
    <2>1. sessions'[s].intact = TRUE
        BY <1>3 DEF TableOK, SessionRows
    <2>2. \/ sessions'[s].offset > sessions[s].offset
          \/ sessions'[s].offset = sessions[s].offset
        BY <1>1, <1>3, <1>5
    <2> QED BY <1>1, <1>3, <1>5, <2>1, <2>2 DEF Session!Next, Session!Put, Session!Take
<1> QED BY <1>4, <1>5

\* A request that was late, the end of a PUT, the clock and a POST.
LEMMA OtherUpload ==
    ASSUME ServerInv, NEW x \in Sessions,
           \/ /\ sessions[x].status = "finalizing"
              /\ sessions' = Concluded(sessions, x)
           \/ /\ sessions[x].status \in {"uploading", "finalizing"}
              /\ sessions' = [sessions EXCEPT ![x].status = "failed"]
           \/ /\ sessions[x].status = "free"
              /\ \E b \in Blobs : sessions' = [sessions EXCEPT ![x] =
                    [blob |-> b, offset |-> 0, intact |-> TRUE, status |-> "uploading"]],
           NEW s \in Sessions
    PROVE  [Session(s)!Next]_(Session(s)!vars)
<1>1. /\ sessions \in [Sessions -> SessionRows] /\ sessions[x].intact = TRUE
      /\ sessions[x].status = "free" => sessions[x].offset = 0
    BY DEF ServerInv, TableOK, SessionRows
<1>2. CASE /\ sessions[x].status = "finalizing"
           /\ sessions' = Concluded(sessions, x)
    <2>1. /\ TableOK(sessions') /\ \A y \in Sessions : y # x => sessions'[y] = sessions[y]
          /\ sessions'[x].offset = sessions[x].offset
          /\ sessions'[x].status \in {"committed", "failed"}
        BY <1>2, ConcludedOK DEF ServerInv
    <2>2. sessions'[x].intact = TRUE
        BY <2>1 DEF TableOK, SessionRows
    <2> QED BY <1>1, <1>2, <2>1, <2>2 DEF Session!vars, Session!Next, Session!Commit, Session!Fail
<1>3. CASE /\ sessions[x].status \in {"uploading", "finalizing"}
           /\ sessions' = [sessions EXCEPT ![x].status = "failed"]
    <2>1. /\ sessions'[x].offset = sessions[x].offset /\ sessions'[x].intact = sessions[x].intact
          /\ sessions'[x].status = "failed" /\ \A y \in Sessions : y # x => sessions'[y] = sessions[y]
        BY <1>1, <1>3 DEF SessionRows
    <2> QED BY <1>3, <2>1 DEF Session!vars, Session!Next, Session!Fail
<1>4. ASSUME NEW b \in Blobs, sessions[x].status = "free",
             sessions' = [sessions EXCEPT ![x] = [blob |-> b, offset |-> 0, intact |-> TRUE,
                                                  status |-> "uploading"]]
      PROVE  [Session(s)!Next]_(Session(s)!vars)
    <2>1. /\ sessions'[x].offset = 0 /\ sessions'[x].intact = TRUE
          /\ sessions'[x].status = "uploading" /\ \A y \in Sessions : y # x => sessions'[y] = sessions[y]
        BY <1>1, <1>4
    <2> QED BY <1>1, <1>4, <2>1 DEF Session!vars, Session!Next, Session!Open
<1> QED BY <1>2, <1>3, <1>4

\* The requests of jcr, retried, late and answered twice, take every session
\* only where ChunkedUpload lets an upload session go.
THEOREM SessionsAreUploads == Spec => UsesUploads
<1>1. Init => \A s \in Sessions : Session(s)!Init
    BY DEF Init, Unused, Session!Init
<1>2. IInv /\ [Next]_vars => [\A s \in Sessions : [Session(s)!Next]_(Session(s)!vars)]_vars
    <2> SUFFICES ASSUME IInv, [Next]_vars, NEW s \in Sessions
                 PROVE  [Session(s)!Next]_(Session(s)!vars)
        OBVIOUS
    <2>1. ServerInv /\ Transition
        BY NextTransition DEF IInv
    <2>2. CASE UNCHANGED sessions
        BY <2>2 DEF Session!vars
    <2>3. ASSUME NEW q, Sound(sessions, q), Accepts(q),
                 sessions' \in {Accepted(q), Concluded(Accepted(q), q.session)},
                 sessions' # Accepted(q) => q.op = "put"
          PROVE  [Session(s)!Next]_(Session(s)!vars)
        BY <2>1, <2>3, AcceptedUpload, ConcludedUpload
    <2> QED BY <2>1, <2>2, <2>3, OtherUpload DEF Transition
<1>3. Spec => [][\A s \in Sessions : [Session(s)!Next]_(Session(s)!vars)]_vars
    BY <1>2, Invariance, PTL DEF Spec
<1> QED BY <1>1, <1>3, PTL DEF Spec, UsesUploads

-----------------------------------------------------------------------------
(* A push of one process survives few lost answers *)

\* Few faults, and none that a push need not survive.
Calm == ~faults.grave /\ faults.count < MaxAttempts

\* The session of t takes the bytes at this offset next.
Awaits(table, t, offset) ==
    t.session # NoSession /\ table[t.session].status = "uploading" /\ table[t.session].offset = offset

\* Attempts used up, the one included whose outcome is being asked for.
Used(t) == t.tries + t.inner + (IF t.pc \in {"check", "verify"} THEN 1 ELSE 0)

\* An upload that uses up an attempt only for a fault, never starts over and
\* sends only what its session waits for; entry is what the map has of its blob.
OnCourse(table, stored, count, entry, t, b) ==
    /\ t.pc \notin {"status", "forget"} /\ (t.pc = "write" => t.next # "start")
    /\ t.pc \in {"queued", "exists", "start"} => entry = NoSession
    /\ Used(t) <= count /\ ~t.refused
    /\ Ahead(t) \in {"save", "patch", "put"} => Awaits(table, t, t.offset)
    /\ t.pc = "check" => Awaits(table, t, t.offset) \/ Awaits(table, t, t.offset + Chunk)
    /\ t.pc = "verify" => b \in stored \/ Awaits(table, t, t.offset)

\* The first run of a push goes on as if it were alone with jcrd.
Steady ==
    /\ late = {} /\ \A s \in Sessions : sessions[s].status # "finalizing"
    /\ \A p \in Procs : /\ proc[p].state # "failed" /\ proc[p].tries <= faults.count
                        /\ proc[p].state = "idle" => disk = NoEntries
    /\ \A p \in Procs, b \in Blobs :
          OnCourse(sessions, held, faults.count, memory[p][b], task[p][b], b)

Course(p, b) == OnCourse(sessions, held, faults.count, memory[p][b], task[p][b], b)

\* What a step of the upload of b leaves to the others.
ServesOnly(b) ==
    /\ held \subseteq held'
    /\ \A s \in Sessions : /\ sessions'[s].status # "finalizing"
                           /\ sessions[s].status # "free" /\ sessions[s].blob # b => sessions'[s] = sessions[s]
Aside(b) == UNCHANGED <<proc, late>> /\ faults.count <= faults'.count /\ ServesOnly(b)

\* An upload goes on that needs nothing else: those of other blobs have sessions of their own.
LEMMA OthersOnCourse ==
    ASSUME IInv, Steady, NEW q, Procs = {q}, NEW b \in Blobs, proc[q].state = "uploading",
           NEW t, Update(q, b, t), Aside(b), faults'.count \in Nat,
           \A c \in Blobs \ {b} : memory'[q][c] = memory[q][c],
           OnCourse(sessions', held', faults'.count, memory'[q][b], t, b)
    PROVE  Steady'
<1>1. /\ task \in [Procs -> [Blobs -> Tasks]] /\ faults.count \in Nat
      /\ \A c \in Blobs : TaskOK(sessions, held, task[q][c], c)
    BY DEF IInv, ClientInv, FaultInv
<1>2. task'[q][b] = t /\ \A c \in Blobs \ {b} : task'[q][c] = task[q][c]
    BY <1>1 DEF Update
<1>3. ASSUME NEW c \in Blobs \ {b}
      PROVE  Course(q, c)'
    <2> DEFINE u == task[q][c]
    <2>1. OnCourse(sessions, held, faults.count, memory[q][c], u, c)
        BY DEF Steady
    <2>2. u \in Tasks /\ TaskOK(sessions, held, u, c)
        BY <1>1
    <2>3. u.session # NoSession => sessions'[u.session] = sessions[u.session]
        BY <2>2 DEF TaskOK, Located, Tasks, Aside, ServesOnly
    <2>4. /\ Used(u) \in Nat /\ faults.count <= faults'.count /\ held \subseteq held'
        BY <2>2 DEF Aside, ServesOnly, Used, Tasks
    <2>5. Used(u) <= faults'.count
        BY <1>1, <2>1, <2>4 DEF OnCourse
    <2>6. \A x : Awaits(sessions, u, x) => Awaits(sessions', u, x)
        BY <2>3 DEF Awaits
    <2>7. OnCourse(sessions', held', faults'.count, memory[q][c], u, c)
        BY <2>1, <2>4, <2>5, <2>6 DEF OnCourse
    <2> QED BY <1>2, <2>7 DEF Course
<1>4. Course(q, b)'
    BY <1>2 DEF Course
<1>5. proc' = proc /\ late' = late
    BY DEF Aside
<1>6. /\ proc'[q].state # "failed" /\ proc'[q].tries <= faults'.count
      /\ proc'[q].state # "idle"
    <2>1. proc[q] \in Processes /\ proc[q].tries <= faults.count
        BY DEF IInv, ProcInv, Steady
    <2> QED BY <1>1, <1>5, <2>1 DEF Aside, Steady, Processes
<1> QED BY <1>3, <1>4, <1>5, <1>6 DEF Steady, Course, Aside, ServesOnly

\* A body on course is accepted; a PUT commits the blob.
LEMMA BodyOnCourse ==
    ASSUME IInv, Steady, NEW p \in Procs, NEW b \in Blobs, task[p][b].pc \in {"patch", "put"},
           Execute(Body(task[p][b], b))
    PROVE  /\ ServesOnly(b) /\ published' = published /\ Accepts(Body(task[p][b], b))
           /\ task[p][b].pc = "patch" => Awaits(sessions', task[p][b], task[p][b].offset + Chunk)
           /\ task[p][b].pc = "put" =>
                 b \in held' /\ DigestMatches(Accepted(Body(task[p][b], b))[task[p][b].session])
<1> USE ClientAssumption
<1> DEFINE t == task[p][b]
           q == Body(t, b)
<1>1. /\ ServerInv /\ OthersInv /\ t \in Tasks /\ TaskOK(sessions, held, t, b)
      /\ Sound(sessions, q) /\ TableOK(sessions)
    BY BodyOK DEF IInv, OthersInv, ServerInv, ClientInv
<1>2. /\ q.session = t.session /\ q.op = t.pc /\ q.offset = t.offset
      /\ q.len = IF t.pc = "patch" THEN Chunk ELSE Size[b] - t.offset
    BY DEF Body
<1>3. /\ t.session \in Sessions /\ sessions[t.session].status = "uploading"
      /\ sessions[t.session].offset = t.offset /\ sessions[t.session].blob = b
      /\ t.offset \in Nat /\ t.offset <= Size[b]
    <2>1. Awaits(sessions, t, t.offset)
        BY DEF Steady, OnCourse, Ahead
    <2> QED BY <1>1, <2>1 DEF Awaits, TaskOK, Relies, Ahead, Located, Tasks
<1> HIDE DEF q
<1>4. Accepts(q)
    BY <1>2, <1>3 DEF Accepts
<1>5. /\ TableOK(Accepted(q)) /\ Accepted(q)[t.session].blob = b
      /\ \A s \in Sessions : s # t.session => Accepted(q)[s] = sessions[s]
      /\ Accepted(q)[t.session].offset = t.offset + q.len /\ Accepted(q)[t.session].intact
      /\ Accepted(q)[t.session].status = IF t.pc = "put" THEN "finalizing" ELSE "uploading"
    BY <1>1, <1>2, <1>3, <1>4, AcceptedOK
<1>6. CASE t.pc = "patch"
    <2>1. sessions' = Accepted(q) /\ held' = held /\ published' = published
        BY <1>2, <1>4, <1>6 DEF Execute, q
    <2>2. ServesOnly(b)
        BY <1>3, <1>5, <1>6, <2>1 DEF ServesOnly, Steady
    <2> QED BY <1>2, <1>3, <1>4, <1>5, <1>6, <2>1, <2>2 DEF Awaits, q
<1>7. CASE t.pc = "put"
    <2> DEFINE table == Accepted(q)
    <2>1. sessions' = Concluded(table, t.session) /\ held' = HeldAfter(table, t.session) /\ published' = published
        BY <1>2, <1>4, <1>7 DEF Execute, q
    <2>2. DigestMatches(table[t.session])
        BY <1>2, <1>3, <1>5, <1>7 DEF DigestMatches, q
    <2>3. /\ \A s \in Sessions : s # t.session => sessions'[s] = table[s]
          /\ sessions'[t.session].status = "committed" /\ held \subseteq held'
        BY <1>1, <1>3, <1>5, <1>7, <2>1, <2>2, ConcludedOK DEF ServerInv
    <2>4. b \in held'
        BY <1>5, <2>1, <2>2 DEF HeldAfter
    <2>5. ServesOnly(b)
        BY <1>3, <1>5, <2>3 DEF ServesOnly, Steady
    <2> QED BY <1>4, <1>7, <2>1, <2>2, <2>4, <2>5 DEF q
<1> QED BY <1>6, <1>7

\* The registry is left alone.
LEMMA ServesNone ==
    ASSUME Steady, UNCHANGED <<sessions, held>>, NEW b
    PROVE  ServesOnly(b)
BY DEF Steady, ServesOnly

\* A fault that leaves the client calm is one that it retries.
LEMMA CalmFault ==
    ASSUME FaultInv, NEW kind, Fault(kind), Calm'
    PROVE  /\ kind \in {"lost", "unauthorized"} /\ Calm
           /\ faults'.count = faults.count + 1 /\ faults.count \in Nat
<1>1. faults.count \in Nat /\ faults.grave \in BOOLEAN
    BY DEF FaultInv
<1>2. /\ faults'.count = faults.count + 1
      /\ faults'.grave <=> (faults.grave \/ kind \notin {"lost", "unauthorized"})
    BY DEF Fault
<1> QED BY <1>1, <1>2, ClientAssumption DEF Calm

\* An upload of the only process goes on.
Alone(q, b) == Procs = {q} /\ b \in Blobs /\ proc[q].state = "uploading"

LEMMA ProceedOnCourse ==
    ASSUME IInv, Steady, NEW q, NEW b, Alone(q, b), NEW t, Proceed(q, b, t), ServesOnly(b),
           faults'.count \in Nat, faults.count <= faults'.count,
           OnCourse(sessions', held', faults'.count, memory[q][b], t, b)
    PROVE  Steady'
<1>1. Update(q, b, t) /\ UNCHANGED <<proc, memory, late>>
    BY DEF Proceed
<1>2. Aside(b)
    BY <1>1 DEF Aside
<1> QED BY <1>1, <1>2, OthersOnCourse DEF Alone

\* patch_upload and complete_upload go round their loop: no more often than answers were lost.
LEMMA RetryBodyOnCourse ==
    ASSUME IInv, Steady, NEW q, NEW b, Alone(q, b), RetryBody(q, b), ServesOnly(b),
           task[q][b].pc \in {"patch", "check", "put", "verify"},
           faults'.count \in Nat, faults.count <= faults'.count, faults'.count < MaxAttempts,
           task[q][b].tries + 1 <= faults'.count, Awaits(sessions', task[q][b], task[q][b].offset)
    PROVE  Steady'
<1> USE ClientAssumption
<1> DEFINE t == task[q][b]
           pc == IF t.pc \in {"patch", "check"} THEN "patch" ELSE "put"
           new == AgainBody(t, pc)
<1>1. t \in Tasks /\ q \in Procs /\ b \in Blobs
    BY DEF IInv, ClientInv, Alone
<1>2. Proceed(q, b, new)
    <2>1. t.tries + 1 < MaxAttempts
        BY <1>1 DEF Tasks
    <2> QED BY <2>1 DEF RetryBody
<1>3. /\ new.pc = pc /\ new.session = t.session /\ new.offset = t.offset
      /\ new.tries = t.tries + 1 /\ new.inner = 0 /\ new.refused = FALSE /\ t.tries \in Nat
    BY <1>1 DEF AgainBody, Tasks
<1> HIDE DEF new
<1>4. OnCourse(sessions', held', faults'.count, memory[q][b], new, b)
    BY <1>3 DEF OnCourse, Used, Ahead, Awaits
<1> QED BY <1>2, <1>4, ProceedOnCourse

\* The other calls go round their loop.
LEMMA RetryInnerOnCourse ==
    ASSUME IInv, Steady, NEW q, NEW b, Alone(q, b), RetryInner(q, b), UNCHANGED serverVars,
           task[q][b].pc \notin {"patch", "put"}, task[q][b].pc \in CallPoints,
           faults'.count = faults.count + 1, faults.count \in Nat, faults'.count < MaxAttempts
    PROVE  Steady'
<1> USE ClientAssumption
<1> DEFINE t == task[q][b]
           new == AgainInner(t)
<1>1. /\ t \in Tasks /\ q \in Procs /\ b \in Blobs
      /\ OnCourse(sessions, held, faults.count, memory[q][b], t, b)
    BY DEF IInv, ClientInv, Alone, Steady
<1>2. t.tries \in Nat /\ t.inner \in Nat
    BY <1>1 DEF Tasks
<1>3. Used(t) \in Nat /\ t.inner <= Used(t) /\ Used(t) <= faults.count
    BY <1>1, <1>2 DEF Used, OnCourse
<1>4. Proceed(q, b, new)
    BY <1>2, <1>3 DEF RetryInner
<1>5. /\ new.pc = t.pc /\ new.session = t.session /\ new.offset = t.offset /\ new.next = t.next
      /\ new.tries = t.tries /\ new.inner = t.inner + 1 /\ new.refused = t.refused
    BY <1>1 DEF AgainInner, Tasks
<1> HIDE DEF new
<1>6. Used(new) = Used(t) + 1
    BY <1>2, <1>5 DEF Used
<1>7. OnCourse(sessions', held', faults'.count, memory[q][b], new, b)
    <2>1. Used(new) <= faults'.count
        BY <1>3, <1>6
    <2>2. \A x : Awaits(sessions, t, x) => Awaits(sessions', new, x)
        BY <1>5 DEF Awaits, serverVars
    <2>3. Ahead(new) = Ahead(t) /\ held' = held
        BY <1>5 DEF Ahead, serverVars
    <2> QED BY <1>1, <1>5, <2>1, <2>2, <2>3 DEF OnCourse
<1>8. ServesOnly(b)
    BY ServesNone DEF serverVars
<1> QED BY <1>4, <1>7, <1>8, ProceedOnCourse

\* A session has taken the chunk that was sent.
LEMMA AcknowledgedOnCourse ==
    ASSUME IInv, Steady, NEW q, NEW b, Alone(q, b), ServesOnly(b), task[q][b].pc \in {"patch", "check"},
           Acknowledged(q, b, task[q][b].offset + Chunk), faults' = faults,
           Awaits(sessions', task[q][b], task[q][b].offset + Chunk)
    PROVE  Steady'
<1> USE ClientAssumption
<1> DEFINE t == task[q][b]
           new == [AtPosition(t.session, t.offset + Chunk) EXCEPT !.at = t.at + Chunk]
<1>1. Proceed(q, b, new) /\ faults.count \in Nat
    BY DEF Acknowledged, IInv, FaultInv
<1>2. /\ new.pc = "save" /\ new.session = t.session /\ new.offset = t.offset + Chunk
      /\ new.tries = 0 /\ new.inner = 0 /\ new.refused = FALSE
    BY DEF AtPosition, Queued
<1> HIDE DEF new
<1>3. OnCourse(sessions', held', faults'.count, memory[q][b], new, b)
    BY <1>1, <1>2 DEF OnCourse, Used, Ahead, Awaits
<1> QED BY <1>1, <1>3, ProceedOnCourse

-----------------------------------------------------------------------------
(* Steps of a push that is alone *)

\* An upload begins, or finds its blob there, or asks for a session.
LEMMA BeginOnCourse ==
    ASSUME IInv, Steady, NEW q, NEW b, Alone(q, b), Begin(q, b) \/ Exists(q, b), faults' = faults
    PROVE  Steady'
<1>1. /\ ServesOnly(b) /\ faults.count \in Nat /\ q \in Procs /\ UNCHANGED <<sessions, held>>
      /\ OnCourse(sessions, held, faults.count, memory[q][b], task[q][b], b)
    BY ServesNone DEF Begin, Exists, serverVars, IInv, FaultInv, Alone, Steady
<1>2. memory[q][b] = NoSession
    BY <1>1 DEF Begin, Exists, Running, OnCourse
<1>3. ASSUME NEW new, new.pc \in {"exists", "drop", "start"}, new.tries = 0, new.inner = 0, ~new.refused,
             Proceed(q, b, new)
      PROVE  Steady'
    <2>1. OnCourse(sessions', held', faults'.count, memory[q][b], new, b)
        BY <1>1, <1>2, <1>3 DEF OnCourse, Used, Ahead
    <2> QED BY <1>1, <1>3, <2>1, ProceedOnCourse
<1> DEFINE first == [Queued EXCEPT !.pc = "exists"]
           found == [Queued EXCEPT !.session = NoSession, !.pc = "drop"]
           missing == [Queued EXCEPT !.session = NoSession, !.pc = "start"]
<1>4. CASE Begin(q, b)
    <2>1. Proceed(q, b, first)
        BY <1>4 DEF Begin
    <2>2. first.pc = "exists" /\ first.tries = 0 /\ first.inner = 0 /\ ~first.refused
        BY DEF Queued
    <2> HIDE DEF first
    <2> QED BY <1>3, <2>1, <2>2
<1>5. CASE Exists(q, b)
    <2>1. Proceed(q, b, found) \/ Proceed(q, b, missing)
        BY <1>2, <1>5 DEF Exists
    <2>2. /\ found.pc = "drop" /\ found.tries = 0 /\ found.inner = 0 /\ ~found.refused
          /\ missing.pc = "start" /\ missing.tries = 0 /\ missing.inner = 0 /\ ~missing.refused
        BY DEF Queued
    <2> HIDE DEF found, missing
    <2> QED BY <1>3, <2>1, <2>2
<1> QED BY <1>4, <1>5

LEMMA StartOnCourse ==
    ASSUME IInv, Steady, NEW q, NEW b, Alone(q, b), NEW s \in Sessions, Start(q, b, s), faults' = faults
    PROVE  Steady'
<1> USE ClientAssumption
<1>1. /\ faults.count \in Nat /\ ServerInv /\ sessions \in [Sessions -> SessionRows] /\ q \in Procs
      /\ sessions[s].status = "free" /\ held' = held /\ Proceed(q, b, AtPosition(s, 0))
    BY DEF IInv, FaultInv, ServerInv, TableOK, Alone, Start, Free
<1>2. sessions' = [sessions EXCEPT ![s] = [blob |-> b, offset |-> 0, intact |-> TRUE, status |-> "uploading"]]
    BY DEF Start
<1>3. /\ sessions'[s].status = "uploading" /\ sessions'[s].offset = 0
      /\ \A x \in Sessions : x # s => sessions'[x] = sessions[x]
    BY <1>1, <1>2
<1>4. ServesOnly(b)
    BY <1>1, <1>3 DEF ServesOnly, Steady
<1> DEFINE new == AtPosition(s, 0)
<1>5. /\ new.pc = "save" /\ new.session = s /\ new.offset = 0
      /\ new.tries = 0 /\ new.inner = 0 /\ new.refused = FALSE
    BY DEF AtPosition, Queued
<1> HIDE DEF new
<1>6. OnCourse(sessions', held', faults'.count, memory[q][b], new, b)
    BY <1>1, <1>3, <1>5 DEF OnCourse, Used, Ahead, Awaits
<1> QED BY <1>1, <1>4, <1>6, ProceedOnCourse DEF new

\* The chunk is accepted, and the position acknowledged is its end.
LEMMA PatchOnCourse ==
    ASSUME IInv, Steady, NEW q, NEW b, Alone(q, b), Patch(q, b)
    PROVE  Steady'
<1> DEFINE t == task[q][b]
<1>1. t.pc = "patch" /\ Execute(Body(t, b)) /\ q \in Procs /\ b \in Blobs /\ faults' = faults
    BY DEF Patch, Running, Alone
<1>2. ServesOnly(b) /\ Accepts(Body(t, b)) /\ Awaits(sessions', t, t.offset + Chunk)
    BY <1>1, BodyOnCourse
<1>3. Acknowledged(q, b, t.offset + Chunk)
    <2>1. Body(t, b).offset = t.offset /\ Body(t, b).len = Chunk
        BY <1>1 DEF Body
    <2> QED BY <1>2, <2>1 DEF Patch
<1> QED BY <1>1, <1>2, <1>3, AcknowledgedOnCourse

\* The status tells whether the chunk has arrived.
LEMMA CheckOnCourse ==
    ASSUME IInv, Steady, Calm, NEW q, NEW b, Alone(q, b), Check(q, b)
    PROVE  Steady'
<1> USE ClientAssumption
<1> DEFINE t == task[q][b]
<1>1. /\ t.pc = "check" /\ UNCHANGED <<sessions, held>> /\ q \in Procs /\ b \in Blobs /\ faults' = faults
      /\ ServesOnly(b) /\ faults.count \in Nat /\ t \in Tasks
    BY ServesNone DEF Check, Running, Alone, serverVars, IInv, FaultInv, ClientInv
<1>2. OnCourse(sessions, held, faults.count, memory[q][b], t, b)
    BY <1>1 DEF Steady
<1>3. t.tries \in Nat /\ t.inner \in Nat /\ t.offset \in Nat
    BY <1>1 DEF Tasks
<1>4. CASE Awaits(sessions, t, t.offset + Chunk)
    <2>1. Acknowledged(q, b, t.offset + Chunk)
        BY <1>3, <1>4 DEF Check, Awaits
    <2>2. Awaits(sessions', t, t.offset + Chunk)
        BY <1>1, <1>4 DEF Awaits
    <2> QED BY <1>1, <2>1, <2>2, AcknowledgedOnCourse
<1>5. CASE Awaits(sessions, t, t.offset)
    <2>1. RetryBody(q, b)
        BY <1>3, <1>5 DEF Check, Awaits
    <2>2. t.tries + 1 <= faults'.count /\ faults'.count < MaxAttempts
        BY <1>1, <1>2, <1>3 DEF OnCourse, Used, Calm
    <2>3. Awaits(sessions', t, t.offset)
        BY <1>1, <1>5 DEF Awaits
    <2> QED BY <1>1, <2>1, <2>2, <2>3, RetryBodyOnCourse
<1> QED BY <1>1, <1>2, <1>4, <1>5 DEF OnCourse

\* A blob that is stored is taken out of the file.
LEMMA StoredOnCourse ==
    ASSUME IInv, Steady, NEW q, NEW b, Alone(q, b), Proceed(q, b, [Queued EXCEPT !.pc = "clear"]),
           ServesOnly(b), faults' = faults
    PROVE  Steady'
<1> DEFINE new == [Queued EXCEPT !.pc = "clear"]
<1>1. new.pc = "clear" /\ new.tries = 0 /\ new.inner = 0 /\ new.refused = FALSE
    BY DEF Queued
<1>2. faults.count \in Nat
    BY DEF IInv, FaultInv
<1> HIDE DEF new
<1>3. OnCourse(sessions', held', faults'.count, memory[q][b], new, b)
    BY <1>1, <1>2 DEF OnCourse, Used, Ahead
<1> QED BY <1>2, <1>3, ProceedOnCourse DEF new

\* The rest of the blob is accepted and its digest is right.
LEMMA CompleteOnCourse ==
    ASSUME IInv, Steady, NEW q, NEW b, Alone(q, b), Complete(q, b)
    PROVE  Steady'
<1> DEFINE t == task[q][b]
<1>1. t.pc = "put" /\ Execute(Body(t, b)) /\ q \in Procs /\ b \in Blobs /\ faults' = faults
    BY DEF Complete, Running, Alone
<1>2. ServesOnly(b) /\ Accepts(Body(t, b)) /\ DigestMatches(Accepted(Body(t, b))[t.session])
    BY <1>1, BodyOnCourse
<1>3. Proceed(q, b, [Queued EXCEPT !.pc = "clear"])
    <2>1. Body(t, b).session = t.session
        BY DEF Body
    <2> QED BY <1>2, <2>1 DEF Complete
<1> QED BY <1>1, <1>2, <1>3, StoredOnCourse

\* The blob is there, or the PUT has not arrived.
LEMMA VerifyOnCourse ==
    ASSUME IInv, Steady, Calm, NEW q, NEW b, Alone(q, b), Verify(q, b)
    PROVE  Steady'
<1> USE ClientAssumption
<1> DEFINE t == task[q][b]
<1>1. /\ t.pc = "verify" /\ UNCHANGED <<sessions, held>> /\ q \in Procs /\ b \in Blobs /\ faults' = faults
      /\ ServesOnly(b) /\ faults.count \in Nat /\ t \in Tasks
    BY ServesNone DEF Verify, Running, Alone, serverVars, IInv, FaultInv, ClientInv
<1>2. OnCourse(sessions, held, faults.count, memory[q][b], t, b)
    BY <1>1 DEF Steady
<1>3. t.tries \in Nat /\ t.inner \in Nat
    BY <1>1 DEF Tasks
<1>4. CASE b \in held
    <2>1. Proceed(q, b, [Queued EXCEPT !.pc = "clear"])
        BY <1>4 DEF Verify
    <2> QED BY <1>1, <2>1, StoredOnCourse
<1>5. CASE b \notin held
    <2>1. RetryBody(q, b)
        BY <1>1, <1>2, <1>5 DEF Verify, Fails, OnCourse
    <2>2. t.tries + 1 <= faults'.count /\ faults'.count < MaxAttempts
        BY <1>1, <1>2, <1>3 DEF OnCourse, Used, Calm
    <2>3. Awaits(sessions', t, t.offset)
        BY <1>1, <1>2, <1>5 DEF Awaits, OnCourse
    <2> QED BY <1>1, <2>1, <2>2, <2>3, RetryBodyOnCourse
<1> QED BY <1>4, <1>5

\* The map is written out.
LEMMA SerialiseOnCourse ==
    ASSUME IInv, Steady, NEW q, NEW b, Alone(q, b), NEW entry, NEW next, Serialise(q, b, entry, next),
           \/ task[q][b].pc \in {"drop", "clear"} /\ next = "done"
           \/ task[q][b].pc = "save" /\ next \in {"patch", "put"}
    PROVE  Steady'
<1> DEFINE t == task[q][b]
           new == [t EXCEPT !.pc = "write", !.next = next, !.bytes = [memory[q] EXCEPT ![b] = entry]]
<1>1. /\ faults.count \in Nat /\ faults' = faults /\ q \in Procs /\ b \in Blobs /\ t \in Tasks
      /\ memory \in [Procs -> Entries] /\ UNCHANGED <<sessions, held, late, proc>>
      /\ ServesOnly(b) /\ Update(q, b, new)
    BY ServesNone DEF Serialise, IInv, FaultInv, ClientInv, Alone, serverVars
<1>2. OnCourse(sessions, held, faults.count, memory[q][b], t, b)
    BY <1>1 DEF Steady
<1>3. /\ new.pc = "write" /\ new.next = next /\ new.session = t.session /\ new.offset = t.offset
      /\ new.tries = t.tries /\ new.inner = t.inner /\ new.refused = t.refused
      /\ t.tries \in Nat /\ t.inner \in Nat
    BY <1>1 DEF Tasks
<1>4. \A c \in Blobs \ {b} : memory'[q][c] = memory[q][c]
    BY <1>1 DEF Serialise, Entries
<1> HIDE DEF new
<1>5. OnCourse(sessions', held', faults'.count, memory'[q][b], new, b)
    BY <1>1, <1>2, <1>3 DEF OnCourse, Used, Ahead, Awaits
<1>6. Aside(b) /\ Procs = {q} /\ proc[q].state = "uploading"
    BY <1>1 DEF Aside, Alone
<1> QED BY <1>1, <1>4, <1>5, <1>6, OthersOnCourse

LEMMA FileOnCourse ==
    ASSUME IInv, Steady, NEW q, NEW b, Alone(q, b), Drop(q, b) \/ Clear(q, b) \/ Save(q, b) \/ Write(q, b)
    PROVE  Steady'
<1>1. CASE Drop(q, b) \/ Clear(q, b)
    BY <1>1, SerialiseOnCourse DEF Drop, Clear, Running
<1>2. CASE Save(q, b)
    <2>1. \E next \in {"patch", "put"} : Serialise(q, b, task[q][b].session, next)
        BY <1>2 DEF Save
    <2> QED BY <1>2, <2>1, SerialiseOnCourse DEF Save, Running
<1>3. CASE Write(q, b)
    <2> DEFINE t == task[q][b]
               new == [t EXCEPT !.pc = t.next, !.next = "queued", !.bytes = NoEntries]
    <2>1. /\ faults.count \in Nat /\ faults' = faults /\ q \in Procs /\ b \in Blobs /\ t \in Tasks
          /\ TaskOK(sessions, held, t, b) /\ UNCHANGED <<sessions, held, late, proc, memory>>
          /\ ServesOnly(b) /\ Update(q, b, new) /\ t.pc = "write"
        BY <1>3, ServesNone DEF Write, IInv, FaultInv, ClientInv, Alone, serverVars, Running
    <2>2. OnCourse(sessions, held, faults.count, memory[q][b], t, b) /\ t.next \in {"done", "patch", "put"}
        BY <2>1 DEF Steady, TaskOK, Relies, OnCourse
    <2>3. /\ new.pc = t.next /\ new.session = t.session /\ new.offset = t.offset
          /\ new.tries = t.tries /\ new.inner = t.inner /\ new.refused = t.refused
          /\ t.tries \in Nat /\ t.inner \in Nat
        BY <2>1 DEF Tasks
    <2> HIDE DEF new
    <2>4. OnCourse(sessions', held', faults'.count, memory'[q][b], new, b)
        BY <2>1, <2>2, <2>3 DEF OnCourse, Used, Ahead, Awaits
    <2>5. Aside(b) /\ Procs = {q} /\ proc[q].state = "uploading" /\ \A c \in Blobs \ {b} : memory'[q][c] = memory[q][c]
        BY <2>1 DEF Aside, Alone
    <2> QED BY <2>1, <2>4, <2>5, OthersOnCourse
<1> QED BY <1>1, <1>2, <1>3

\* Every step of an upload; a saved location is never looked up.
LEMMA TaskOnCourse ==
    ASSUME IInv, Steady, Calm, NEW q, Procs = {q}, NEW b \in Blobs, TaskStep(q, b)
    PROVE  Steady'
<1>1. Alone(q, b) /\ faults' = faults
    BY DEF Alone, TaskStep, Begin, Exists, Status, Start, Patch, Check, Complete, Verify, Drop, Forget,
           Save, Clear, Serialise, Write, Running
<1>2. OnCourse(sessions, held, faults.count, memory[q][b], task[q][b], b)
    BY DEF Steady
<1>3. ~Status(q, b) /\ ~Forget(q, b)
    BY <1>2 DEF Status, Forget, Running, OnCourse
<1> QED BY <1>1, <1>3, BeginOnCourse, StartOnCourse, PatchOnCourse, CheckOnCourse, CompleteOnCourse,
           VerifyOnCourse, FileOnCourse DEF TaskStep

-----------------------------------------------------------------------------
(* The process of a push that is alone, and its faults *)

\* The process goes on, and the uploads stay where they are.
LEMMA ProcessOnCourse ==
    ASSUME IInv, Steady, NEW q, Procs = {q}, UNCHANGED <<sessions, held, late, task>>,
           faults'.count \in Nat, faults.count <= faults'.count,
           proc'[q].state \notin {"idle", "failed"}, proc'[q].tries <= faults'.count,
           \A b \in Blobs : memory'[q][b] = memory[q][b] \/ memory'[q][b] = NoSession
    PROVE  Steady'
<1>1. task \in [Procs -> [Blobs -> Tasks]] /\ faults.count \in Nat
    BY DEF IInv, ClientInv, FaultInv
<1>2. ASSUME NEW b \in Blobs
      PROVE  Course(q, b)'
    <2> DEFINE t == task[q][b]
    <2>1. OnCourse(sessions, held, faults.count, memory[q][b], t, b) /\ Used(t) \in Nat
        BY <1>1 DEF Steady, Used, Tasks
    <2>2. Used(t) <= faults'.count
        BY <1>1, <2>1 DEF OnCourse
    <2>3. OnCourse(sessions, held, faults'.count, memory'[q][b], t, b)
        BY <2>1, <2>2 DEF OnCourse
    <2> QED BY <2>3 DEF Course
<1> QED BY <1>2 DEF Steady, Course

\* The command is run once; the file is empty.
LEMMA RunOnCourse ==
    ASSUME IInv, Steady, NEW q, Procs = {q}, Run(q)
    PROVE  Steady'
<1>1. /\ proc \in [Procs -> Processes] /\ memory \in [Procs -> Entries] /\ faults.count \in Nat
      /\ proc[q].tries <= faults.count /\ proc[q].state = "idle" /\ disk = NoEntries
    BY DEF IInv, ProcInv, ClientInv, FaultInv, Steady, Run
<1>2. proc'[q].state = "uploading" /\ proc'[q].tries = proc[q].tries
    BY <1>1 DEF Run, Processes
<1>3. \A b \in Blobs : memory'[q][b] = NoSession
    BY <1>1 DEF Run, NoEntries
<1> QED BY <1>1, <1>2, <1>3, ProcessOnCourse DEF Run, serverVars

LEMMA UploadedOnCourse ==
    ASSUME IInv, Steady, NEW q, Procs = {q}, Uploaded(q)
    PROVE  Steady'
<1>1. proc \in [Procs -> Processes] /\ faults.count \in Nat /\ proc[q].tries <= faults.count
    BY DEF IInv, ProcInv, FaultInv, Steady
<1>2. proc'[q].state = "publishing" /\ proc'[q].tries = proc[q].tries
    BY <1>1 DEF Uploaded, Processes
<1> QED BY <1>1, <1>2, ProcessOnCourse DEF Uploaded, serverVars

\* Every blob is there, and every manifest before the one that is put.
LEMMA PutManifestOnCourse ==
    ASSUME IInv, Steady, NEW q, Procs = {q}, PutManifest(q)
    PROVE  Steady'
<1> DEFINE n == proc[q].manifest
           row == [state |-> IF n = Manifests THEN "pushed" ELSE "publishing",
                   manifest |-> IF n = Manifests THEN n ELSE n + 1, tries |-> 0]
<1>1. proc \in [Procs -> Processes] /\ faults.count \in Nat
    BY DEF IInv, ProcInv, FaultInv
<1>2. Publishable(n)
    BY DEF IInv, ProcInv, PutManifest, Publishable
<1>3. proc' = [proc EXCEPT ![q] = row] /\ UNCHANGED <<sessions, held, late, task, memory, faults>>
    BY <1>2 DEF PutManifest
<1>4. proc'[q] = row
    BY <1>1, <1>3
<1>5. proc'[q].state \in {"pushed", "publishing"} /\ proc'[q].tries = 0
    BY <1>4
<1> QED BY <1>1, <1>3, <1>5, ProcessOnCourse

\* The PUT of a manifest is repeated no more often than answers were lost.
LEMMA ManifestLostOnCourse ==
    ASSUME IInv, Steady, Calm', NEW q, Procs = {q}, ManifestLost(q)
    PROVE  Steady'
<1> USE ClientAssumption
<1>1. proc \in [Procs -> Processes] /\ proc[q].tries <= faults.count /\ proc[q].tries \in Nat
    BY DEF IInv, ProcInv, Steady, Processes
<1>2. faults'.count = faults.count + 1 /\ faults.count \in Nat /\ faults'.count < MaxAttempts
    BY CalmFault DEF ManifestLost, IInv, Calm
<1>3. proc[q].tries + 1 < MaxAttempts
    BY <1>1, <1>2
<1>4. /\ proc' = [proc EXCEPT ![q].tries = @ + 1]
      /\ UNCHANGED <<sessions, held, late, task, memory>> /\ proc[q].state = "publishing"
    BY <1>3 DEF ManifestLost
<1>5. proc'[q].state = "publishing" /\ proc'[q].tries = proc[q].tries + 1
    BY <1>1, <1>4 DEF Processes
<1>6. /\ proc'[q].tries <= faults'.count /\ faults'.count \in Nat /\ faults.count <= faults'.count
      /\ proc'[q].state \notin {"idle", "failed"}
    BY <1>1, <1>2, <1>5
<1>7. \A b \in Blobs : memory'[q][b] = memory[q][b]
    BY <1>4
<1> QED BY <1>4, <1>6, <1>7, ProcessOnCourse

\* The answer to a call is lost, before or after jcrd has executed it.
LEMMA LostOnCourse ==
    ASSUME IInv, Steady, Calm', NEW q, Procs = {q}, NEW b \in Blobs, Lost(q, b)
    PROVE  Steady'
<1> USE ClientAssumption
<1> DEFINE t == task[q][b]
           to(pc) == [t EXCEPT !.pc = pc, !.inner = 0]
<1>1. /\ Alone(q, b) /\ t \in Tasks /\ q \in Procs /\ t.pc \in CallPoints
      /\ OnCourse(sessions, held, faults.count, memory[q][b], t, b)
    BY DEF Lost, Calling, Alone, IInv, ClientInv, Steady
<1>2. faults'.count = faults.count + 1 /\ faults.count \in Nat /\ faults'.count < MaxAttempts
    BY CalmFault DEF Lost, IInv, Calm
<1>3. CASE t.pc \notin {"patch", "put"}
    <2>1. RetryInner(q, b) /\ UNCHANGED serverVars
        BY <1>3 DEF Lost, Unanswered, BodyRequest
    <2> QED BY <1>1, <1>2, <1>3, <2>1, RetryInnerOnCourse
<1>4. ASSUME NEW pc, ServesOnly(b),
             \/ t.pc = "patch" /\ pc = "check"
             \/ t.pc = "put" /\ pc = "verify",
             Proceed(q, b, to(pc)),
             pc = "check" => Awaits(sessions', t, t.offset) \/ Awaits(sessions', t, t.offset + Chunk),
             pc = "verify" => b \in held' \/ Awaits(sessions', t, t.offset)
      PROVE  Steady'
    <2> DEFINE new == to(pc)
    <2>1. /\ new.pc = pc /\ new.session = t.session /\ new.offset = t.offset
          /\ new.tries = t.tries /\ new.inner = 0 /\ new.refused = t.refused
          /\ t.tries \in Nat /\ t.inner \in Nat
        BY <1>1 DEF Tasks
    <2>2. Proceed(q, b, new)
        BY <1>4
    <2> HIDE DEF new
    <2>3. Used(new) <= faults'.count
        BY <1>1, <1>2, <1>4, <2>1 DEF Used, OnCourse
    <2>4. \A x : Awaits(sessions', t, x) => Awaits(sessions', new, x)
        BY <2>1 DEF Awaits
    <2>5. OnCourse(sessions', held', faults'.count, memory[q][b], new, b)
        BY <1>1, <1>4, <2>1, <2>3, <2>4 DEF OnCourse, Ahead
    <2>6. faults'.count \in Nat /\ faults.count <= faults'.count
        BY <1>2
    <2> QED BY <1>1, <1>4, <2>2, <2>5, <2>6, ProceedOnCourse
<1>5. CASE t.pc \in {"patch", "put"}
    <2>1. Awaits(sessions, t, t.offset)
        BY <1>1, <1>5 DEF OnCourse, Ahead
    <2>2. CASE UNCHANGED serverVars
        <3>1. ServesOnly(b) /\ Awaits(sessions', t, t.offset)
            BY <2>1, <2>2, ServesNone DEF serverVars, Awaits
        <3> QED BY <1>4, <1>5, <3>1 DEF Lost, Unanswered
    <2>3. CASE Execute(Body(t, b))
        <3>1. /\ ServesOnly(b)
              /\ t.pc = "patch" => Awaits(sessions', t, t.offset + Chunk)
              /\ t.pc = "put" => b \in held'
            BY <1>1, <1>5, <2>3, BodyOnCourse
        <3> QED BY <1>4, <1>5, <3>1 DEF Lost, Unanswered
    <2> QED BY <1>5, <2>2, <2>3 DEF Lost, BodyRequest
<1> QED BY <1>3, <1>5

\* A token has expired.
LEMMA UnauthorizedOnCourse ==
    ASSUME IInv, Steady, Calm', NEW q, Procs = {q}, NEW b \in Blobs, Unauthorized(q, b)
    PROVE  Steady'
<1> USE ClientAssumption
<1> DEFINE t == task[q][b]
<1>1. /\ Alone(q, b) /\ t \in Tasks /\ q \in Procs /\ t.pc \in CallPoints /\ UNCHANGED serverVars
      /\ OnCourse(sessions, held, faults.count, memory[q][b], t, b) /\ ServesOnly(b)
    BY ServesNone DEF Unauthorized, Calling, Alone, IInv, ClientInv, Steady, serverVars
<1>2. faults'.count = faults.count + 1 /\ faults.count \in Nat /\ faults'.count < MaxAttempts
    BY CalmFault DEF Unauthorized, IInv, Calm
<1>3. CASE t.pc \notin {"patch", "put"}
    BY <1>1, <1>2, <1>3, RetryInnerOnCourse DEF Unauthorized
<1>4. CASE t.pc \in {"patch", "put"}
    <2>1. t.tries \in Nat /\ t.inner \in Nat
        BY <1>1 DEF Tasks
    <2>2. t.tries + 1 <= faults'.count
        BY <1>1, <1>2, <2>1 DEF OnCourse, Used
    <2>3. Awaits(sessions', t, t.offset)
        BY <1>1, <1>4 DEF OnCourse, Ahead, Awaits, serverVars
    <2> QED BY <1>1, <1>2, <1>4, <2>2, <2>3, RetryBodyOnCourse DEF Unauthorized
<1> QED BY <1>3, <1>4

\* As long as its client is calm, a push of one process stays on course.
CalmInv == IInv /\ (Calm => Steady)

LEMMA NextCalm ==
    ASSUME CalmInv, [Next]_vars, NEW q, Procs = {q}
    PROVE  CalmInv'
<1>1. IInv /\ FaultInv /\ IInv'
    BY NextInv DEF CalmInv, IInv
<1>2. Calm' => Calm /\ Steady
    <2>1. UNCHANGED faults \/ \E kind \in Kinds : Fault(kind)
        BY FaultOrNot
    <2> QED BY <1>1, <2>1, CalmFault DEF CalmInv, Calm
<1>3. ASSUME Calm'
      PROVE  Steady'
    <2> USE <1>1, <1>2, <1>3
    <2>1. ASSUME ServerStep
          PROVE  FALSE
        <3>1. ~Fault("expire")
            BY CalmFault
        <3>2. PICK s \in Sessions : Conclude(s)
            BY <2>1, <3>1 DEF ServerStep, Steady, Expire
        <3> QED BY <3>2 DEF Conclude, Steady
    <2>2. ASSUME Mishap
          PROVE  \/ \E b \in Blobs : Lost(q, b) \/ Unauthorized(q, b)
                 \/ ManifestLost(q)
        <3>1. ~Fault("late") /\ ~Fault("broken") /\ ~Fault("disk") /\ ~Fault("crash")
            BY CalmFault
        <3> QED BY <2>2, <3>1 DEF Mishap, Delayed, Broken, WriteFails, Crash
    <2>3. CASE UNCHANGED vars
        BY <2>3 DEF vars, Steady
    <2> QED BY <2>1, <2>2, <2>3, TaskOnCourse, RunOnCourse, UploadedOnCourse, PutManifestOnCourse,
               LostOnCourse, UnauthorizedOnCourse, ManifestLostOnCourse DEF Next
<1> QED BY <1>1, <1>3 DEF CalmInv

LEMMA InitCalm ==
    ASSUME Init
    PROVE  CalmInv
<1> USE ClientAssumption
<1>1. Steady
    <2>1. Queued.pc = "queued" /\ Queued.tries = 0 /\ Queued.inner = 0 /\ Queued.refused = FALSE
        BY DEF Queued
    <2>2. \A p \in Procs, b \in Blobs : task[p][b] = Queued /\ memory[p][b] = NoSession
        BY DEF Init, NoEntries
    <2>3. \A p \in Procs, b \in Blobs : OnCourse(sessions, held, faults.count, memory[p][b], task[p][b], b)
        BY <2>1, <2>2 DEF Init, OnCourse, Used, Ahead
    <2>4. \A s \in Sessions : sessions[s].status = "free"
        BY DEF Init, Unused
    <2>5. \A p \in Procs : proc[p].state = "idle" /\ proc[p].tries = 0
        BY DEF Init
    <2>6. late = {} /\ disk = NoEntries /\ faults.count = 0
        BY DEF Init
    <2> QED BY <2>3, <2>4, <2>5, <2>6 DEF Steady
<1> QED BY <1>1, InitInv DEF CalmInv

\* Fewer than MAX_ATTEMPTS lost answers and expired tokens, spread in any way
\* over the nested retry loops, do not make a push of one process fail, for
\* any number of blobs, manifests and chunks.
THEOREM FaultsSurvived ==
    ASSUME NEW q, Procs = {q}
    PROVE  Spec => []FaultsAreSurvived
<1>1. Init => CalmInv
    BY InitCalm
<1>2. CalmInv /\ [Next]_vars => CalmInv'
    BY NextCalm
<1>3. CalmInv => FaultsAreSurvived
    BY DEF CalmInv, Calm, Steady, FaultsAreSurvived
<1> QED BY <1>1, <1>2, <1>3, PTL DEF Spec

=============================================================================
