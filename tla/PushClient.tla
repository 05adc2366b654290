---------------------------- MODULE PushClient ----------------------------
(***************************************************************************)
(* jcr push: RegistryClient of crates/jcr/src/registry.rs and ResumeStore  *)
(* of crates/jcr/src/resume.rs, run against the upload sessions of jcrd    *)
(* over a network that loses, delays and refuses requests.  A process      *)
(* uploads its blobs side by side, keeps the location of each upload in a  *)
(* file that it shares with every other jcr process of the user, and then  *)
(* puts the manifests.  A user whose push failed runs it again.            *)
(*                                                                         *)
(* The registry is what UploadSession promises its clients: a chunk is     *)
(* accepted only at the accepted offset, a completed session takes no      *)
(* more, and a blob is stored only if its bytes have the right digest.     *)
(* Lengths are in units of the model's choice; the bytes of a body are     *)
(* known by the position of the local file they were read from.            *)
(***************************************************************************)
EXTENDS Integers, FiniteSets

CONSTANTS
    Procs,        \* jcr processes of the user
    Blobs,        \* blobs of the image
    Size,         \* Size[b]: the length of blob b
    Chunk,        \* CHUNK_SIZE
    MaxAttempts,  \* MAX_ATTEMPTS
    Jobs,         \* --jobs
    Manifests,    \* number of manifests, put in order, the root last
    Sessions,     \* upload session ids the registry can hand out
    NoSession,    \* no upload location
    FaultKinds,   \* the faults a behaviour may meet
    MaxFaults     \* bound: faults in a behaviour

VARIABLES
    sessions,   \* jcrd: upload_sessions
    held,       \* jcrd: blobs of the repository
    published,  \* jcrd: manifests of the repository
    late,       \* requests whose client has given up and jcrd has not seen
    proc,       \* the processes
    task,       \* the uploads of each process
    memory,     \* ResumeStore.data of each process
    disk,       \* uploads.json
    faults      \* faults injected so far, and whether a push need not survive one of them

serverVars == <<sessions, held, published>>
vars == <<sessions, held, published, late, proc, task, memory, disk, faults>>

-----------------------------------------------------------------------------
(* Types *)

Kinds == {"lost", "late", "unauthorized", "broken", "disk", "crash", "expire"}

Entries == [Blobs -> Sessions \cup {NoSession}]
NoEntries == [b \in Blobs |-> NoSession]

ASSUME ClientAssumption ==
    /\ Blobs # {} /\ Size \in [Blobs -> Nat]
    /\ Chunk \in Nat \ {0}
    /\ MaxAttempts \in Nat \ {0}
    /\ Jobs \in 1..16
    /\ Manifests \in Nat \ {0}
    /\ NoSession \notin Sessions
    /\ FaultKinds \subseteq Kinds
    /\ MaxFaults \in Nat

SessionRows == [blob : Blobs, offset : Nat, intact : BOOLEAN,
                status : {"free", "uploading", "finalizing", "committed", "failed"}]

\* A session id that has not been handed out.
Free == {s \in Sessions : sessions[s].status = "free"}
Unused == [blob |-> CHOOSE b \in Blobs : TRUE, offset |-> 0, intact |-> TRUE, status |-> "free"]

\* A PATCH or PUT: offset is its Content-Range, at the position in the file
\* its bytes were read from.
BodyRequests == [op : {"patch", "put"}, session : Sessions, offset : Nat, at : Nat,
                 len : Nat]

\* Program points of upload_blob, named after the call or write to come;
\* check and verify are the queries inside patch_upload and complete_upload.
CallPoints == {"exists", "status", "start", "patch", "check", "put", "verify"}
Points == CallPoints \cup {"queued", "drop", "forget", "save", "clear", "write", "done"}

\* tries counts the attempts of patch_upload and complete_upload, inner those
\* of the other calls; at is the position of the file that is read next;
\* bytes is the image of the resume file that is being written.
Tasks == [pc : Points, next : Points, session : Sessions \cup {NoSession},
          offset : Nat, at : Nat,
          tries : 0..(MaxAttempts - 1), inner : 0..(MaxAttempts - 1),
          refused : BOOLEAN, bytes : Entries]

\* manifest is the one that is put next, tries the attempts at it so far.
Processes == [state : {"idle", "uploading", "publishing", "pushed", "failed"},
              manifest : 1..Manifests, tries : 0..(MaxAttempts - 1)]

Queued == [pc |-> "queued", next |-> "queued", session |-> NoSession, offset |-> 0, at |-> 0,
           tries |-> 0, inner |-> 0, refused |-> FALSE, bytes |-> NoEntries]

-----------------------------------------------------------------------------
(* jcrd, as its clients see it *)

\* Variant: the status is not looked at.
AcceptsAnyStatus(q) == q.len > 0 => q.offset = sessions[q.session].offset

\* lock_upload, validate_upload, validate_content_range; an empty PUT has no
\* Content-Range.
Accepts(q) ==
    /\ sessions[q.session].status = "uploading"
    /\ q.len > 0 => q.offset = sessions[q.session].offset

\* patch_upload, and complete_upload up to 'finalizing'.
Accepted(q) ==
    LET row == sessions[q.session] IN
    [sessions EXCEPT ![q.session] =
        [blob |-> row.blob,
         offset |-> row.offset + q.len,
         intact |-> row.intact /\ (q.len > 0 => q.at = row.offset),
         status |-> IF q.op = "put" THEN "finalizing" ELSE row.status]]

\* The digest of what the session holds is the digest of its blob.
DigestMatches(row) == row.intact /\ row.offset = Size[row.blob]

\* The rest of complete_upload: the blob is committed or the session fails.
Concluded(table, s) ==
    [table EXCEPT ![s].status = IF DigestMatches(table[s]) THEN "committed" ELSE "failed"]
HeldAfter(table, s) ==
    IF DigestMatches(table[s]) THEN held \cup {table[s].blob} ELSE held

\* A request runs to its end.
Execute(q) ==
    IF ~Accepts(q) THEN UNCHANGED serverVars
    ELSE /\ sessions' = IF q.op = "put" THEN Concluded(Accepted(q), q.session) ELSE Accepted(q)
         /\ held' = IF q.op = "put" THEN HeldAfter(Accepted(q), q.session) ELSE held
         /\ UNCHANGED published

\* A PUT whose client has given up stops at 'finalizing' and concludes later
\* or, if jcrd stops, never.
ExecuteLate(q) ==
    /\ q \in late
    /\ late' = late \ {q}
    /\ sessions' = IF Accepts(q) THEN Accepted(q) ELSE sessions
    /\ UNCHANGED <<held, published, proc, task, memory, disk, faults>>

Conclude(s) ==
    /\ sessions[s].status = "finalizing"
    /\ sessions' = Concluded(sessions, s)
    /\ held' = HeldAfter(sessions, s)
    /\ UNCHANGED <<published, late, proc, task, memory, disk, faults>>

\* The client retries what was lost and what a new token cures.
Fault(kind) ==
    /\ kind \in FaultKinds /\ faults.count < MaxFaults
    /\ faults' = [count |-> faults.count + 1,
                  grave |-> faults.grave \/ kind \notin {"lost", "unauthorized"}]

\* The session expires, or the collector fails it.
Expire(s) ==
    /\ Fault("expire")
    /\ sessions[s].status \in {"uploading", "finalizing"}
    /\ sessions' = [sessions EXCEPT ![s].status = "failed"]
    /\ UNCHANGED <<held, published, late, proc, task, memory, disk>>

-----------------------------------------------------------------------------
(* Tasks and processes *)

Running(p, b, pc) == proc[p].state = "uploading" /\ task[p][b].pc = pc

Update(p, b, t) == task' = [task EXCEPT ![p][b] = t]

\* The body that a task is sending.
Body(t, b) ==
    [op |-> t.pc, session |-> t.session, offset |-> t.offset, at |-> t.at,
     len |-> IF t.pc = "patch" THEN Chunk ELSE Size[b] - t.offset]

BodyRequest(t, b) == IF t.pc \in {"patch", "put"} THEN {Body(t, b)} ELSE {}

\* The process ends, by an error of one upload, which drops the others, or
\* because it is killed.  Requests under way may still reach jcrd, and a
\* rename that has been handed to the system may still happen.
Stop(p) ==
    /\ proc' = [proc EXCEPT ![p] = [state |-> "failed", manifest |-> 1, tries |-> 0]]
    /\ task' = [task EXCEPT ![p] = [b \in Blobs |-> Queued]]
    /\ memory' = [memory EXCEPT ![p] = NoEntries]
    /\ \E sent \in SUBSET UNION {BodyRequest(task[p][b], b) : b \in Blobs} :
          /\ sent = {} \/ "late" \in FaultKinds
          /\ late' = late \cup sent
    /\ disk' \in {disk} \cup {task[p][b].bytes : b \in {c \in Blobs : task[p][c].pc = "write"}}

Proceed(p, b, t) == Update(p, b, t) /\ UNCHANGED <<proc, memory, disk, late>>

\* One more attempt of a call, counted in inner or, for the bodies, in tries.
AgainInner(t) == [t EXCEPT !.inner = @ + 1]
AgainBody(t, pc) == [t EXCEPT !.pc = pc, !.tries = @ + 1, !.inner = 0, !.refused = FALSE]

\* Variant: the loop runs once too often.
RetryBodyOnceMore(p, b) ==
    LET t == task[p][b] IN
    IF t.tries < MaxAttempts
    THEN Proceed(p, b, AgainBody(t, IF t.pc \in {"patch", "check"} THEN "patch" ELSE "put"))
    ELSE Stop(p)

\* patch_upload and complete_upload go round their loop or run out of it.
RetryBody(p, b) ==
    LET t == task[p][b] IN
    IF t.tries + 1 < MaxAttempts
    THEN Proceed(p, b, AgainBody(t, IF t.pc \in {"patch", "check"} THEN "patch" ELSE "put"))
    ELSE Stop(p)

\* A call returns an error.  upload_blob gives up a saved location whose
\* status cannot be read; patch_upload and complete_upload take a failed
\* query for a no.
Fails(p, b) ==
    LET t == task[p][b] IN
    CASE t.pc = "status" -> Proceed(p, b, [t EXCEPT !.pc = "forget", !.inner = 0])
      [] t.pc = "check" -> RetryBody(p, b)
      [] t.pc = "verify" -> IF t.refused THEN Stop(p) ELSE RetryBody(p, b)
      [] OTHER -> Stop(p)

RetryInner(p, b) ==
    LET t == task[p][b] IN
    IF t.inner + 1 < MaxAttempts THEN Proceed(p, b, AgainInner(t)) ELSE Fails(p, b)

\* What follows a 5xx or 429 answer, a timeout or a refused connection.
Unanswered(p, b) ==
    LET t == task[p][b] IN
    CASE t.pc = "patch" -> Proceed(p, b, [t EXCEPT !.pc = "check", !.inner = 0])
      [] t.pc = "put" -> Proceed(p, b, [t EXCEPT !.pc = "verify", !.inner = 0])
      [] OTHER -> RetryInner(p, b)

-----------------------------------------------------------------------------
(* ResumeStore *)

\* set and remove: the map is changed and serialised under the mutex, and
\* the bytes are written after it is released.
Serialise(p, b, entry, next) ==
    /\ memory' = [memory EXCEPT ![p][b] = entry]
    /\ Update(p, b, [task[p][b] EXCEPT !.pc = "write", !.next = next,
                                       !.bytes = [memory[p] EXCEPT ![b] = entry]])
    /\ UNCHANGED <<serverVars, late, proc, disk, faults>>

\* write_atomic: a temporary file is renamed over uploads.json.
Write(p, b) ==
    /\ Running(p, b, "write")
    /\ disk' = task[p][b].bytes
    /\ Update(p, b, [task[p][b] EXCEPT !.pc = task[p][b].next, !.next = "queued",
                                       !.bytes = NoEntries])
    /\ UNCHANGED <<serverVars, late, proc, memory, faults>>

\* resume.remove after blob_exists, before a fresh start, and after the PUT;
\* resume.set with every new position.
Drop(p, b) == Running(p, b, "drop") /\ Serialise(p, b, NoSession, "done")
Forget(p, b) == Running(p, b, "forget") /\ Serialise(p, b, NoSession, "start")
Clear(p, b) == Running(p, b, "clear") /\ Serialise(p, b, NoSession, "done")
Save(p, b) ==
    /\ Running(p, b, "save")
    /\ Serialise(p, b, task[p][b].session,
                 IF Size[b] - task[p][b].offset >= Chunk THEN "patch" ELSE "put")

-----------------------------------------------------------------------------
(* upload_blob, call by call *)

\* buffer_unordered(jobs)
Begin(p, b) ==
    /\ Running(p, b, "queued")
    /\ Cardinality({c \in Blobs : task[p][c].pc \notin {"queued", "done"}}) < Jobs
    /\ Proceed(p, b, [Queued EXCEPT !.pc = "exists"])
    /\ UNCHANGED <<serverVars, faults>>

\* blob_exists, and the lookup of a saved location.
Exists(p, b) ==
    /\ Running(p, b, "exists")
    /\ Proceed(p, b, [Queued EXCEPT !.session = IF b \in held THEN NoSession ELSE memory[p][b],
                                    !.pc = IF b \in held THEN "drop"
                                           ELSE IF memory[p][b] = NoSession THEN "start"
                                           ELSE "status"])
    /\ UNCHANGED <<serverVars, faults>>

\* The upload goes on at a position of session s.
AtPosition(s, offset) ==
    [Queued EXCEPT !.pc = "save", !.session = s, !.offset = offset, !.at = offset]

\* Variant: a saved upload goes on from its beginning.
StatusFromStart(p, b) ==
    LET row == sessions[task[p][b].session] IN
    /\ Running(p, b, "status")
    /\ IF row.status = "uploading"
       THEN Proceed(p, b, AtPosition(task[p][b].session, 0))
       ELSE Fails(p, b)
    /\ UNCHANGED <<serverVars, faults>>

\* upload_status of a saved location: its offset must be a whole number of
\* chunks inside the blob.
Status(p, b) ==
    LET row == sessions[task[p][b].session] IN
    /\ Running(p, b, "status")
    /\ IF row.status = "uploading" /\ row.offset <= Size[b] /\ row.offset % Chunk = 0
       THEN Proceed(p, b, AtPosition(task[p][b].session, row.offset))
       ELSE Fails(p, b)
    /\ UNCHANGED <<serverVars, faults>>

\* Session ids are random: any one that is free will do.
Start(p, b, s) ==
    /\ Running(p, b, "start")
    /\ Free # {} /\ s = CHOOSE x \in Free : TRUE
    /\ sessions' = [sessions EXCEPT ![s] = [blob |-> b, offset |-> 0, intact |-> TRUE,
                                            status |-> "uploading"]]
    /\ Proceed(p, b, AtPosition(s, 0))
    /\ UNCHANGED <<held, published, faults>>

\* Variant: the acknowledged offset is not compared with the expected one.
AcknowledgedUnchecked(p, b, offset) ==
    Proceed(p, b, [AtPosition(task[p][b].session, offset) EXCEPT !.at = task[p][b].at + Chunk])

\* patch_upload returns a position: upload_blob goes on only if it is the
\* end of the chunk it has just read.
Acknowledged(p, b, offset) ==
    IF offset = task[p][b].offset + Chunk
    THEN Proceed(p, b, [AtPosition(task[p][b].session, offset) EXCEPT !.at = task[p][b].at + Chunk])
    ELSE Stop(p)

Patch(p, b) ==
    LET q == Body(task[p][b], b) IN
    /\ Running(p, b, "patch")
    /\ Execute(q)
    /\ IF Accepts(q) THEN Acknowledged(p, b, q.offset + q.len) ELSE Fails(p, b)
    /\ UNCHANGED faults

\* Variant: the chunk is sent again without looking at the status.
CheckNothing(p, b) ==
    /\ Running(p, b, "check")
    /\ RetryBody(p, b)
    /\ UNCHANGED <<serverVars, faults>>

\* upload_status after a PATCH that was not answered.
Check(p, b) ==
    LET t == task[p][b]  row == sessions[t.session] IN
    /\ Running(p, b, "check")
    /\ IF row.status = "uploading" /\ row.offset >= t.offset + Chunk
       THEN Acknowledged(p, b, row.offset)
       ELSE RetryBody(p, b)
    /\ UNCHANGED <<serverVars, faults>>

\* The PUT with the rest of the blob.  A refusal may mean that an earlier
\* attempt is finalizing the session.
Complete(p, b) ==
    LET t == task[p][b]  q == Body(t, b) IN
    /\ Running(p, b, "put")
    /\ Execute(q)
    /\ Proceed(p, b, IF Accepts(q) /\ DigestMatches(Accepted(q)[q.session])
                     THEN [Queued EXCEPT !.pc = "clear"]
                     ELSE [t EXCEPT !.pc = "verify", !.inner = 0, !.refused = TRUE])
    /\ UNCHANGED faults

\* Variant: any answer to the HEAD counts as success.
VerifyAnswered(p, b) ==
    /\ Running(p, b, "verify")
    /\ Proceed(p, b, [Queued EXCEPT !.pc = "clear"])
    /\ UNCHANGED <<serverVars, faults>>

\* blob_exists after a PUT that was refused or not answered.
Verify(p, b) ==
    /\ Running(p, b, "verify")
    /\ IF b \in held THEN Proceed(p, b, [Queued EXCEPT !.pc = "clear"]) ELSE Fails(p, b)
    /\ UNCHANGED <<serverVars, faults>>

-----------------------------------------------------------------------------
(* push *)

\* The command is run, or run again after a failure; ResumeStore::load.
Run(p) ==
    /\ proc[p].state \in {"idle", "failed"}
    /\ proc' = [proc EXCEPT ![p].state = "uploading"]
    /\ memory' = [memory EXCEPT ![p] = disk]
    /\ UNCHANGED <<serverVars, late, task, disk, faults>>

\* try_collect: every upload has returned Ok.
Uploaded(p) ==
    /\ proc[p].state = "uploading"
    /\ \A b \in Blobs : task[p][b].pc = "done"
    /\ proc' = [proc EXCEPT ![p].state = "publishing"]
    /\ UNCHANGED <<serverVars, late, task, memory, disk, faults>>

\* jcrd takes a manifest whose blobs and child manifests the repository has.
Publishable(n) == held = Blobs /\ (n = Manifests => 1..(n - 1) \subseteq published)

PutManifest(p) ==
    LET n == proc[p].manifest IN
    /\ proc[p].state = "publishing"
    /\ IF Publishable(n)
       THEN /\ published' = published \cup {n}
            /\ proc' = [proc EXCEPT ![p] = [state |-> IF n = Manifests THEN "pushed"
                                                      ELSE "publishing",
                                            manifest |-> IF n = Manifests THEN n ELSE n + 1,
                                            tries |-> 0]]
            /\ UNCHANGED <<late, task, memory, disk>>
       ELSE Stop(p) /\ UNCHANGED published
    /\ UNCHANGED <<sessions, held, faults>>

-----------------------------------------------------------------------------
(* Faults *)

Calling(p, b) == proc[p].state = "uploading" /\ task[p][b].pc \in CallPoints

\* jcrd has executed the request or never sees it, and the answer is a 5xx,
\* a 429 or a timeout.  (A POST that has run leaves a session that nobody
\* knows; it is not recorded.)
Lost(p, b) ==
    /\ Calling(p, b)
    /\ Fault("lost")
    /\ \/ UNCHANGED serverVars
       \/ \E q \in BodyRequest(task[p][b], b) : Execute(q)
    /\ Unanswered(p, b)

\* The answer is a 5xx or a timeout, and the request is still on its way.
Delayed(p, b) ==
    /\ Calling(p, b)
    /\ Fault("late")
    /\ BodyRequest(task[p][b], b) # {}
    /\ Update(p, b, [task[p][b] EXCEPT !.pc = IF @ = "patch" THEN "check" ELSE "verify",
                                       !.inner = 0])
    /\ late' = late \cup BodyRequest(task[p][b], b)
    /\ UNCHANGED <<serverVars, proc, memory, disk>>

\* The token has expired: refresh_token gets another one.
Unauthorized(p, b) ==
    /\ Calling(p, b)
    /\ Fault("unauthorized")
    /\ IF task[p][b].pc \in {"patch", "put"} THEN RetryBody(p, b) ELSE RetryInner(p, b)
    /\ UNCHANGED serverVars

\* The connection is reset under the request, or refresh_token fails: an
\* error that is neither a timeout nor a refused connection.
Broken(p, b) ==
    /\ Calling(p, b)
    /\ Fault("broken")
    /\ \/ UNCHANGED serverVars
       \/ \E q \in BodyRequest(task[p][b], b) : Execute(q)
    /\ Fails(p, b)

\* write_atomic fails.
WriteFails(p, b) ==
    /\ Running(p, b, "write")
    /\ Fault("disk")
    /\ Stop(p)
    /\ UNCHANGED serverVars

\* The answer to the PUT of a manifest is lost, before or after it took
\* effect.
ManifestLost(p) ==
    LET n == proc[p].manifest IN
    /\ proc[p].state = "publishing"
    /\ Fault("lost")
    /\ published' \in {published, IF Publishable(n) THEN published \cup {n} ELSE published}
    /\ IF proc[p].tries + 1 < MaxAttempts
       THEN /\ proc' = [proc EXCEPT ![p].tries = @ + 1]
            /\ UNCHANGED <<late, task, memory, disk>>
       ELSE Stop(p)
    /\ UNCHANGED <<sessions, held>>

Crash(p) ==
    /\ proc[p].state \in {"uploading", "publishing"}
    /\ Fault("crash")
    /\ Stop(p)
    /\ UNCHANGED serverVars

Lose(q) ==
    /\ q \in late
    /\ late' = late \ {q}
    /\ UNCHANGED <<serverVars, proc, task, memory, disk, faults>>

-----------------------------------------------------------------------------
(* Specification *)

Init ==
    /\ sessions = [s \in Sessions |-> Unused]
    /\ held = {}
    /\ published = {}
    /\ late = {}
    /\ proc = [p \in Procs |-> [state |-> "idle", manifest |-> 1, tries |-> 0]]
    /\ task = [p \in Procs |-> [b \in Blobs |-> Queued]]
    /\ memory = [p \in Procs |-> NoEntries]
    /\ disk = NoEntries
    /\ faults = [count |-> 0, grave |-> FALSE]

\* A process goes on with one of its uploads.
TaskStep(p, b) ==
    \/ Begin(p, b) \/ Exists(p, b) \/ Status(p, b) \/ (\E s \in Sessions : Start(p, b, s))
    \/ Patch(p, b) \/ Check(p, b) \/ Complete(p, b) \/ Verify(p, b)
    \/ Drop(p, b) \/ Forget(p, b) \/ Save(p, b) \/ Clear(p, b) \/ Write(p, b)

ServerStep ==
    \/ \E q \in late : ExecuteLate(q) \/ Lose(q)
    \/ \E s \in Sessions : Conclude(s) \/ Expire(s)

Mishap ==
    \/ \E p \in Procs, b \in Blobs :
          Lost(p, b) \/ Delayed(p, b) \/ Unauthorized(p, b) \/ Broken(p, b) \/ WriteFails(p, b)
    \/ \E p \in Procs : ManifestLost(p) \/ Crash(p)

Next ==
    \/ \E p \in Procs, b \in Blobs : TaskStep(p, b)
    \/ \E p \in Procs : Run(p) \/ Uploaded(p) \/ PutManifest(p)
    \/ ServerStep
    \/ Mishap

\* A process that runs goes on running, and the user runs a failed push
\* again.  Nothing is assumed of jcrd beyond its answering a request that
\* reaches it and whose answer is not lost.
Fairness ==
    /\ \A p \in Procs, b \in Blobs : WF_vars(TaskStep(p, b))
    /\ \A p \in Procs : WF_vars(Run(p)) /\ WF_vars(Uploaded(p)) /\ WF_vars(PutManifest(p))

Spec == Init /\ [][Next]_vars
FairSpec == Spec /\ Fairness

-----------------------------------------------------------------------------
(* Properties *)

TypeOK ==
    /\ sessions \in [Sessions -> SessionRows]
    /\ \A s \in Sessions : sessions[s].offset <= Size[sessions[s].blob]
    /\ held \subseteq Blobs
    /\ published \subseteq 1..Manifests
    /\ late \subseteq BodyRequests
    /\ proc \in [Procs -> Processes]
    /\ task \in [Procs -> [Blobs -> Tasks]]
    /\ memory \in [Procs -> Entries]
    /\ disk \in Entries
    /\ faults \in [count : 0..MaxFaults, grave : BOOLEAN]

\* An upload that upload_blob reports as done is in the repository, and a
\* push that reports success has published every manifest: whatever answer
\* was lost, delayed or came from an earlier attempt.
SuccessIsReal ==
    /\ \A p \in Procs, b \in Blobs : task[p][b].pc \in {"drop", "clear", "done"} => b \in held
    /\ \A p \in Procs : proc[p].state = "publishing" => held = Blobs
    /\ \A p \in Procs : proc[p].state = "pushed" => published = 1..Manifests

\* What an upload session has accepted is a prefix of the file: no replayed,
\* late or resumed chunk, and no other process that resumes the same
\* session, makes upload_blob send bytes under the Content-Range of others.
SessionsHoldPrefixes ==
    \A s \in Sessions : sessions[s].intact

\* Fewer than MAX_ATTEMPTS lost answers and expired tokens, spread in any
\* way over the nested retry loops of a push, do not make it fail.  (It is
\* about one process: another that resumes the same session takes its
\* position away.)
FaultsAreSurvived ==
    ~faults.grave /\ faults.count < MaxAttempts => \A p \in Procs : proc[p].state # "failed"

\* However it is interrupted, a push that its user keeps running again is
\* done after all: no saved location, half-finished session or stale resume
\* file makes every new run fail.
PushEnds ==
    \A p \in Procs : <>(proc[p].state = "pushed")

\* patch_upload never sends a chunk that jcrd has already accepted.
NoReplay ==
    \A p \in Procs, b \in Blobs :
        LET t == task[p][b] IN
        t.pc = "patch" /\ sessions[t.session].status = "uploading" =>
            sessions[t.session].offset <= t.offset

\* A new session is started for a blob only if no session that is still
\* open has acknowledged a chunk of it.
ResumesAcknowledged ==
    [][\A s \in Sessions : sessions[s].status = "free" /\ sessions'[s].status = "uploading" =>
          ~ \E o \in Sessions : /\ sessions[o].status = "uploading"
                                /\ sessions[o].blob = sessions'[s].blob
                                /\ sessions[o].offset > 0]_vars

\* A session of jcrd, as UploadSession has been shown to implement it.
Session(s) == INSTANCE ChunkedUpload WITH
    status <- IF sessions[s].status = "free" THEN "absent" ELSE sessions[s].status,
    offset <- sessions[s].offset,
    intact <- sessions[s].intact

\* The requests of jcr, retried, late and answered twice, take every session
\* only where an upload session can go: this is the registry that
\* UploadSession implements.
UsesUploads ==
    /\ \A s \in Sessions : Session(s)!Init
    /\ [][\A s \in Sessions : [Session(s)!Next]_(Session(s)!vars)]_vars

=============================================================================
