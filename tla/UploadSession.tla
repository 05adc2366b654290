--------------------------- MODULE UploadSession ---------------------------
(***************************************************************************)
(* One OCI blob upload session of jcrd: the POST, PATCH, PUT and DELETE    *)
(* handlers of crates/jcrd/src/registry.rs working on one row of           *)
(* upload_sessions and its upload_parts, the hourly clean_expired_uploads  *)
(* pass of gc.rs, and the S3 multipart upload behind storage/bucket.rs.    *)
(*                                                                         *)
(* A step is one SQL statement (or one short transaction) or one call to   *)
(* the store: the points where handlers of different requests interleave.  *)
(* Byte contents are intervals of the file the client uploads: the chunk   *)
(* [from |-> f, size |-> s] holds the bytes f .. f+s-1, and an ETag is the *)
(* chunk itself.  The digest a PUT expects names a prefix of the file by   *)
(* its length (0 is the empty blob).                                       *)
(***************************************************************************)
EXTENDS Integers, Sequences

CONSTANTS
    Requests,     \* slots for concurrently running HTTP handlers
    NoRequest,    \* nobody holds the row lock
    NoObject,     \* nothing is stored under the session's key
    FileSize,     \* bytes in the file being uploaded
    ChunkLimit,   \* state.config.upload_chunk_limit
    Inputs,       \* bodies, with or without a Content-Range, that clients send
    Digests,      \* digests that PUTs expect, as lengths of file prefixes
    MaxParts,     \* part numbers the object store takes (10000 in S3)
    MaxFaults     \* bound: dropped handlers and failed calls in a behaviour

VARIABLES
    session,   \* the upload_sessions row
    expired,   \* expires_at <= now
    parts,     \* upload_parts: part_number -> row
    lock,      \* holder of the row's FOR UPDATE lock
    mpu,       \* S3 multipart upload: state
    stored,    \* S3 multipart upload: part number -> chunk last written
    object,    \* S3 object at the session's key
    stray,     \* S3 calls whose caller is gone and that may still land
    req,       \* local state of each running handler
    gc,        \* local state of clean_expired_uploads
    faults     \* faults injected so far

storeVars == <<mpu, stored, object>>
vars == <<session, expired, parts, lock, mpu, stored, object, stray, req, gc, faults>>

-----------------------------------------------------------------------------
(* Types *)

NoSize == -1

Statuses == {"absent", "uploading", "finalizing", "committed", "failed", "cancelled"}

\* The bytes of a request body; PUT and monolithic POST may carry none.
Chunks == {c \in [from : 0..FileSize, size : 0..ChunkLimit] : c.from + c.size <= FileSize}
NoChunk == [from |-> 0, size |-> 0]

ASSUME SessionAssumption ==
    /\ NoRequest \notin Requests
    /\ FileSize \in Nat
    /\ ChunkLimit \in Nat
    /\ Inputs \subseteq [chunk : Chunks, ranged : BOOLEAN]
    /\ Digests \subseteq 0..FileSize
    /\ MaxParts \in Nat
    /\ MaxFaults \in Nat

\* An upload_parts row.  at and ranged are history: the accepted_offset the
\* chunk was validated against, and whether it carried a Content-Range.
PartRows == {p \in [from : 0..FileSize, size : 0..ChunkLimit, at : Nat, ranged : BOOLEAN] :
                p.from + p.size <= FileSize}

Calls == [op : {"create", "part", "complete", "abort", "put", "delete"},
          n : Nat, chunk : Chunks, list : Seq(Chunks)]

Row == [status : Statuses, offset : Nat, next : Nat \ {0}, uniform : Nat \cup {NoSize}]

\* Program points of a handler, named after the statement or call to come.
Points == {"idle", "initiate", "insert", "unstart", "select", "lock", "store", "persist",
           "finalize", "parts", "complete", "empty", "put", "hash", "discard",
           "fail", "commit", "dedup", "fetch", "abort", "cancel"}

Locals == [op : {"none", "post", "patch", "put", "delete"}, pc : Points,
           chunk : Chunks, ranged : BOOLEAN, expected : 0..FileSize, monolithic : BOOLEAN,
           last : Nat \cup {NoSize}, n : Nat, at : Nat,
           list : Seq(Chunks)]

Idle == [op |-> "none", pc |-> "idle", chunk |-> NoChunk, ranged |-> FALSE,
         expected |-> 0, monolithic |-> FALSE, last |-> NoSize, n |-> 0, at |-> 0,
         list |-> << >>]

-----------------------------------------------------------------------------
(* Contents *)

\* The bytes that the parts of an upload hold, in part order.
Contents(p) == [n \in DOMAIN p |-> [from |-> p[n].from, size |-> p[n].size]]

\* The chunks c[1], c[2], ... put together are the first len bytes of the file.
Tiles(c, len) ==
    /\ \A n \in DOMAIN c : c[n].from = IF n = 1 THEN 0 ELSE c[n - 1].from + c[n - 1].size
    /\ len = IF c = << >> THEN 0
             ELSE c[Len(c)].from + c[Len(c)].size

\* accepted_offset as the accepted parts define it.
PartsEnd == IF session.next = 1 THEN 0
            ELSE parts[session.next - 1].at + parts[session.next - 1].size

-----------------------------------------------------------------------------
(* The object store (external): what S3 does with the calls of BlobStore *)

Call(op) == [op |-> op, n |-> 0, chunk |-> NoChunk, list |-> << >>]
PartCall(n, c) == [Call("part") EXCEPT !.n = n, !.chunk = c]
CompleteCall(l) == [Call("complete") EXCEPT !.list = l]

\* S3 takes the call: parts need an open upload, and a completion needs
\* every listed part to be there with the listed ETag.
Accepts(c) ==
    CASE c.op = "create"   -> mpu = "none"
      [] c.op = "part"     -> mpu = "open" /\ c.n <= MaxParts
      [] c.op = "complete" -> /\ mpu = "open"
                              /\ \A n \in DOMAIN c.list : /\ n \in DOMAIN stored
                                                          /\ stored[n] = c.list[n]
      [] c.op = "abort"    -> mpu = "open"
      [] OTHER             -> TRUE

Put(f, n, v) == [m \in DOMAIN f \cup {n} |-> IF m = n THEN v ELSE f[m]]

\* The effect of a call that S3 takes.
Apply(c) ==
    /\ mpu' = CASE c.op = "create" -> "open"
                [] c.op = "complete" -> "completed"
                [] c.op = "abort" -> "aborted"
                [] OTHER -> mpu
    /\ stored' = CASE c.op = "part" -> Put(stored, c.n, c.chunk)
                   [] c.op \in {"complete", "abort"} -> << >>
                   [] OTHER -> stored
    /\ object' = CASE c.op = "complete" -> c.list
                   [] c.op = "put" -> << >>
                   [] c.op = "delete" -> NoObject
                   [] OTHER -> object

-----------------------------------------------------------------------------
(* Handler plumbing *)

Goto(r, p) == req' = [req EXCEPT ![r].pc = p]

\* Variant: a handler that returns early keeps its transaction open.
FinishKeepsLock(r) ==
    /\ req' = [req EXCEPT ![r] = Idle]
    /\ UNCHANGED lock

\* The handler returns; a transaction it leaves open is rolled back.
Finish(r) ==
    /\ req' = [req EXCEPT ![r] = Idle]
    /\ lock' = IF lock = r THEN NoRequest ELSE lock

\* The handler awaits one call to the store and goes on at point p; an
\* error answer ends it through the ? operator.
Await(r, c, p) ==
    /\ IF Accepts(c) THEN Apply(c) /\ Goto(r, p) /\ UNCHANGED lock
                     ELSE Finish(r) /\ UNCHANGED storeVars
    /\ UNCHANGED <<session, expired, parts, stray, gc, faults>>

\* An abort of an upload that is no longer open is answered either with
\* success or with NoSuchUpload, depending on the provider.
AwaitAbort(r, p) ==
    /\ \/ Accepts(Call("abort")) /\ Apply(Call("abort")) /\ Goto(r, p) /\ UNCHANGED lock
       \/ ~Accepts(Call("abort")) /\ Goto(r, p) /\ UNCHANGED <<lock, storeVars>>
       \/ ~Accepts(Call("abort")) /\ Finish(r) /\ UNCHANGED storeVars
    /\ UNCHANGED <<session, expired, parts, stray, gc, faults>>

Receive(r, locals) ==
    /\ req[r].pc = "idle"
    /\ req' = [req EXCEPT ![r] = locals]
    /\ UNCHANGED <<session, expired, parts, lock, storeVars, stray, gc, faults>>

-----------------------------------------------------------------------------
(* Row operations *)

\* The subselect of lock_upload and fetch_upload: the newest part's size.
LastPartSize ==
    IF DOMAIN parts = {} THEN NoSize
    ELSE parts[CHOOSE n \in DOMAIN parts : \A m \in DOMAIN parts : m <= n].size

\* validate_upload
Available == session.status = "uploading" /\ ~expired

\* validate_content_range: only a request with the header is checked.
RangeFits(q) == q.ranged => q.chunk.from = session.offset

\* The size rules PATCH and PUT apply to a body: nothing follows a short
\* part, and no part is larger than the first.  q.last comes from the
\* statement's snapshot, uniform_part_size from the locked row.
SizeFits(q) ==
    q.chunk.size > 0 /\ session.uniform # NoSize =>
        /\ ~(q.last # NoSize /\ q.last < session.uniform)
        /\ q.chunk.size <= session.uniform

Admissible(q) == Available /\ RangeFits(q) /\ SizeFits(q)

\* Variant: the chunk a PUT carries is not added to accepted_offset.
PersistPartSkipsOffset(q, establish, status) ==
    /\ parts' = Put(parts, q.n, [from |-> q.chunk.from, size |-> q.chunk.size,
                                 at |-> q.at, ranged |-> q.ranged])
    /\ session' = [session EXCEPT !.offset = IF establish THEN @ + q.chunk.size ELSE @,
                                  !.next = @ + 1, !.status = status]

\* persist_part: the row keyed (upload_id, next_part_number), then the
\* session's counters; establish is establish_uniform_size.
PersistPart(q, establish, status) ==
    /\ parts' = Put(parts, q.n, [from |-> q.chunk.from, size |-> q.chunk.size,
                                 at |-> q.at, ranged |-> q.ranged])
    /\ session' = [session EXCEPT !.offset = @ + q.chunk.size,
                                  !.next = @ + 1,
                                  !.uniform = IF establish /\ @ = NoSize
                                              THEN q.chunk.size ELSE @,
                                  !.status = status]

-----------------------------------------------------------------------------
(* POST: start_upload *)

ReceivePost(r, i, e, mono) ==
    /\ session.status = "absent" /\ mpu = "none" /\ stray = {}
    /\ \A q \in Requests : req[q].op # "post"
    /\ mono \/ i.chunk = NoChunk
    /\ Receive(r, [Idle EXCEPT !.op = "post", !.pc = "initiate", !.chunk = i.chunk,
                               !.ranged = i.ranged, !.expected = e, !.monolithic = mono])

Initiate(r) ==
    /\ req[r].pc = "initiate"
    /\ Await(r, Call("create"), "insert")

\* The INSERT of the session row; with ?digest= the same handler goes on as
\* complete_upload.
InsertSession(r) ==
    /\ req[r].pc = "insert"
    /\ session' = [session EXCEPT !.status = "uploading"]
    /\ req' = [req EXCEPT ![r] = IF @.monolithic
                                 THEN [@ EXCEPT !.op = "put", !.pc = "select", !.monolithic = FALSE]
                                 ELSE Idle]
    /\ UNCHANGED <<expired, parts, lock, storeVars, stray, gc, faults>>

\* The INSERT fails: the multipart upload is aborted, whatever that answers.
InsertFails(r) ==
    /\ req[r].pc = "insert"
    /\ faults < MaxFaults
    /\ faults' = faults + 1
    /\ Goto(r, "unstart")
    /\ UNCHANGED <<session, expired, parts, lock, storeVars, stray, gc>>

Unstart(r) ==
    /\ req[r].pc = "unstart"
    /\ IF Accepts(Call("abort")) THEN Apply(Call("abort")) ELSE UNCHANGED storeVars
    /\ Finish(r)
    /\ UNCHANGED <<session, expired, parts, stray, gc, faults>>

-----------------------------------------------------------------------------
(* PATCH and PUT up to the store: patch_upload, complete_upload *)

ReceivePatch(r, i) ==
    /\ session.status # "absent"
    /\ i.chunk.size > 0
    /\ Receive(r, [Idle EXCEPT !.op = "patch", !.pc = "select", !.chunk = i.chunk,
                               !.ranged = i.ranged])

ReceivePut(r, i, e) ==
    /\ session.status # "absent"
    /\ Receive(r, [Idle EXCEPT !.op = "put", !.pc = "select", !.chunk = i.chunk,
                               !.ranged = i.ranged, !.expected = e])

\* lock_upload starts: PostgreSQL takes the statement's snapshot, which is
\* all the subselect on upload_parts will ever see (READ COMMITTED).
SelectForUpdate(r) ==
    /\ req[r].pc = "select"
    /\ req' = [req EXCEPT ![r].pc = "lock", ![r].last = LastPartSize]
    /\ UNCHANGED <<session, expired, parts, lock, storeVars, stray, gc, faults>>

\* Variant: lock_upload without FOR UPDATE.
AdmitUnlocked(r) ==
    /\ req[r].pc = "lock"
    /\ Admissible(req[r])
    /\ lock' = r
    /\ req' = [req EXCEPT ![r].pc = IF req[r].chunk.size > 0 THEN "store" ELSE "finalize",
                          ![r].n = session.next, ![r].at = session.offset,
                          ![r].last = NoSize]
    /\ UNCHANGED <<session, expired, parts, storeVars, stray, gc, faults>>

\* lock_upload returns with the lock and the row as it is now.  (Locals that
\* are not read again are reset, here and in Finalize.)
Admit(r) ==
    /\ req[r].pc = "lock"
    /\ lock = NoRequest
    /\ Admissible(req[r])
    /\ lock' = r
    /\ req' = [req EXCEPT ![r].pc = IF req[r].chunk.size > 0 THEN "store" ELSE "finalize",
                          ![r].n = session.next, ![r].at = session.offset,
                          ![r].last = NoSize]
    /\ UNCHANGED <<session, expired, parts, storeVars, stray, gc, faults>>

Reject(r) ==
    /\ req[r].pc = "lock"
    /\ lock = NoRequest
    /\ ~Admissible(req[r])
    /\ Finish(r)
    /\ UNCHANGED <<session, expired, parts, storeVars, stray, gc, faults>>

StorePart(r) ==
    /\ req[r].pc = "store"
    /\ Await(r, PartCall(req[r].n, req[r].chunk),
             IF req[r].op = "patch" THEN "persist" ELSE "finalize")

\* PATCH: persist_part and COMMIT.  A part number already taken violates the
\* primary key and rolls the transaction back.
PersistPatch(r) ==
    /\ req[r].pc = "persist"
    /\ IF req[r].n \in DOMAIN parts THEN UNCHANGED <<session, parts>>
       ELSE PersistPart(req[r], TRUE, session.status)
    /\ Finish(r)
    /\ UNCHANGED <<expired, storeVars, stray, gc, faults>>

-----------------------------------------------------------------------------
(* PUT after the store: the rest of complete_upload *)

\* persist_part if there was a body, status = 'finalizing', COMMIT.
Finalize(r) ==
    /\ req[r].pc = "finalize"
    /\ IF req[r].chunk.size > 0 THEN PersistPart(req[r], FALSE, "finalizing")
       ELSE session' = [session EXCEPT !.status = "finalizing"] /\ UNCHANGED parts
    /\ lock' = NoRequest
    /\ req' = [req EXCEPT ![r] = [Idle EXCEPT !.op = "put", !.pc = "parts",
                                              !.expected = req[r].expected]]
    /\ UNCHANGED <<expired, storeVars, stray, gc, faults>>

\* upload_parts
ReadParts(r) ==
    /\ req[r].pc = "parts"
    /\ req' = [req EXCEPT ![r].list = Contents(parts),
                          ![r].pc = IF DOMAIN parts = {} THEN "empty" ELSE "complete"]
    /\ UNCHANGED <<session, expired, parts, lock, storeVars, stray, gc, faults>>

CompleteMultipart(r) ==
    /\ req[r].pc = "complete"
    /\ Await(r, CompleteCall(req[r].list), "hash")

\* No part was accepted: the empty blob is put under the key instead.
AbortEmpty(r) ==
    /\ req[r].pc = "empty"
    /\ AwaitAbort(r, "put")

PutEmpty(r) ==
    /\ req[r].pc = "put"
    /\ Await(r, Call("put"), "hash")

\* Variant: only the size of the stored object is compared.
HashSizeOnly(r) ==
    /\ req[r].pc = "hash"
    /\ Goto(r, IF PartsEnd = req[r].expected THEN "commit" ELSE "discard")
    /\ UNCHANGED <<session, expired, parts, lock, storeVars, stray, gc, faults>>

\* hash_stored_blob and the comparison with the expected digest.
Hash(r) ==
    /\ req[r].pc = "hash"
    /\ IF object = NoObject THEN Finish(r)
       ELSE /\ Goto(r, IF Tiles(object, req[r].expected) THEN "commit" ELSE "discard")
            /\ UNCHANGED lock
    /\ UNCHANGED <<session, expired, parts, storeVars, stray, gc, faults>>

Discard(r) ==
    /\ req[r].pc = "discard"
    /\ Await(r, Call("delete"), "fail")

\* mark_upload_failed: the UPDATE has no condition on the status.
MarkFailed(r) ==
    /\ req[r].pc = "fail"
    /\ lock = NoRequest
    /\ session' = [session EXCEPT !.status = "failed"]
    /\ Finish(r)
    /\ UNCHANGED <<expired, parts, storeVars, stray, gc, faults>>

\* Variant: the size comes from a Content-Length that may be missing (-1).
CommitBlobUnknownSize(r, duplicate) ==
    /\ req[r].pc = "commit"
    /\ lock = NoRequest
    /\ \E size \in {req[r].expected, NoSize} :
          session' = [session EXCEPT !.status = "committed", !.offset = size]
    /\ req' = [req EXCEPT ![r] = IF duplicate THEN [@ EXCEPT !.pc = "dedup"] ELSE Idle]
    /\ UNCHANGED <<expired, parts, lock, storeVars, stray, gc, faults>>

\* commit_blob, as far as the session goes: no condition on the status, and
\* accepted_offset becomes the size that was hashed.  Whether the digest is
\* already stored under another key is decided by the blobs table.
CommitBlob(r, duplicate) ==
    /\ req[r].pc = "commit"
    /\ lock = NoRequest
    /\ session' = [session EXCEPT !.status = "committed", !.offset = req[r].expected]
    /\ req' = [req EXCEPT ![r] = IF duplicate THEN [@ EXCEPT !.pc = "dedup"] ELSE Idle]
    /\ UNCHANGED <<expired, parts, lock, storeVars, stray, gc, faults>>

DeleteDuplicate(r) ==
    /\ req[r].pc = "dedup"
    /\ Apply(Call("delete"))
    /\ Finish(r)
    /\ UNCHANGED <<session, expired, parts, stray, gc, faults>>

-----------------------------------------------------------------------------
(* DELETE: cancel_upload *)

ReceiveDelete(r) ==
    /\ session.status # "absent"
    /\ Receive(r, [Idle EXCEPT !.op = "delete", !.pc = "fetch"])

\* fetch_upload takes no lock.
Fetch(r) ==
    /\ req[r].pc = "fetch"
    /\ IF Available THEN Goto(r, "abort") /\ UNCHANGED lock ELSE Finish(r)
    /\ UNCHANGED <<session, expired, parts, storeVars, stray, gc, faults>>

AbortCancelled(r) ==
    /\ req[r].pc = "abort"
    /\ AwaitAbort(r, "cancel")

\* Variant: the UPDATE has no condition on the status.
MarkCancelledAlways(r) ==
    /\ req[r].pc = "cancel"
    /\ lock = NoRequest
    /\ session' = [session EXCEPT !.status = "cancelled"]
    /\ Finish(r)
    /\ UNCHANGED <<expired, parts, storeVars, stray, gc, faults>>

\* UPDATE ... SET status = 'cancelled' WHERE status = 'uploading'
MarkCancelled(r) ==
    /\ req[r].pc = "cancel"
    /\ lock = NoRequest
    /\ session' = IF session.status = "uploading"
                  THEN [session EXCEPT !.status = "cancelled"] ELSE session
    /\ Finish(r)
    /\ UNCHANGED <<expired, parts, storeVars, stray, gc, faults>>

-----------------------------------------------------------------------------
(* Garbage collection of expired sessions: clean_expired_uploads *)

\* Variant: sessions left in 'finalizing' are not selected.
GcSelectUploading ==
    /\ gc = "idle"
    /\ session.status = "uploading" /\ expired
    /\ gc' = "abort"
    /\ UNCHANGED <<session, expired, parts, lock, storeVars, stray, req, faults>>

GcSelect ==
    /\ gc = "idle"
    /\ session.status \in {"uploading", "finalizing"} /\ expired
    /\ gc' = "abort"
    /\ UNCHANGED <<session, expired, parts, lock, storeVars, stray, req, faults>>

\* The answer to the abort is only logged.
GcAbort ==
    /\ gc = "abort"
    /\ gc' = "update"
    /\ IF Accepts(Call("abort")) THEN Apply(Call("abort")) ELSE UNCHANGED storeVars
    /\ UNCHANGED <<session, expired, parts, lock, stray, req, faults>>

\* Variant: the UPDATE has no condition on the status.
GcFailAlways ==
    /\ gc = "update"
    /\ lock = NoRequest
    /\ gc' = "idle"
    /\ session' = [session EXCEPT !.status = "failed"]
    /\ UNCHANGED <<expired, parts, lock, storeVars, stray, req, faults>>

GcFail ==
    /\ gc = "update"
    /\ lock = NoRequest
    /\ gc' = "idle"
    /\ session' = IF session.status \in {"uploading", "finalizing"}
                  THEN [session EXCEPT !.status = "failed"] ELSE session
    /\ UNCHANGED <<expired, parts, lock, storeVars, stray, req, faults>>

-----------------------------------------------------------------------------
(* Environment *)

Expire ==
    /\ session.status # "absent" /\ ~expired
    /\ expired' = TRUE
    /\ UNCHANGED <<session, parts, lock, storeVars, stray, req, gc, faults>>

\* The store call a handler is awaiting, if it is awaiting one.
Pending(q) ==
    CASE q.pc = "initiate" -> {Call("create")}
      [] q.pc = "store"    -> {PartCall(q.n, q.chunk)}
      [] q.pc = "complete" -> {CompleteCall(q.list)}
      [] q.pc \in {"empty", "abort", "unstart"} -> {Call("abort")}
      [] q.pc = "put"      -> {Call("put")}
      [] q.pc \in {"discard", "dedup"} -> {Call("delete")}
      [] OTHER -> {}

\* The handler ends early: its client went away and axum dropped the future,
\* jcrd stopped, or PostgreSQL or the store answered with an error or not at
\* all.  The transaction rolls back; a call under way may land later or never.
Abandon(r) ==
    /\ req[r].pc # "idle"
    /\ faults < MaxFaults
    /\ faults' = faults + 1
    /\ stray' = stray \cup Pending(req[r])
    /\ Finish(r)
    /\ UNCHANGED <<session, expired, parts, storeVars, gc>>

\* The garbage collector loses its call (goes on) or its process (starts over).
GcAbandon(p) ==
    /\ gc # "idle"
    /\ p = "idle" \/ (gc = "abort" /\ p = "update")
    /\ faults < MaxFaults
    /\ faults' = faults + 1
    /\ gc' = p
    /\ stray' = IF gc = "abort" THEN stray \cup {Call("abort")} ELSE stray
    /\ UNCHANGED <<session, expired, parts, lock, storeVars, req>>

Land(c) ==
    /\ c \in stray
    /\ stray' = stray \ {c}
    /\ IF Accepts(c) THEN Apply(c) ELSE UNCHANGED storeVars
    /\ UNCHANGED <<session, expired, parts, lock, req, gc, faults>>

Lose(c) ==
    /\ c \in stray
    /\ stray' = stray \ {c}
    /\ UNCHANGED <<session, expired, parts, lock, storeVars, req, gc, faults>>

-----------------------------------------------------------------------------
(* Specification *)

Init ==
    /\ session = [status |-> "absent", offset |-> 0, next |-> 1, uniform |-> NoSize]
    /\ expired = FALSE
    /\ parts = << >>
    /\ lock = NoRequest
    /\ mpu = "none"
    /\ stored = << >>
    /\ object = NoObject
    /\ stray = {}
    /\ req = [r \in Requests |-> Idle]
    /\ gc = "idle"
    /\ faults = 0

\* A request arrives.
Arrive(r) ==
    \/ \E i \in Inputs, e \in Digests, mono \in BOOLEAN : ReceivePost(r, i, e, mono)
    \/ \E i \in Inputs : ReceivePatch(r, i)
    \/ \E i \in Inputs, e \in Digests : ReceivePut(r, i, e)
    \/ ReceiveDelete(r)

\* A running handler goes on.
Step(r) ==
    \/ Initiate(r) \/ InsertSession(r) \/ Unstart(r)
    \/ SelectForUpdate(r) \/ Admit(r) \/ Reject(r) \/ StorePart(r) \/ PersistPatch(r)
    \/ Finalize(r) \/ ReadParts(r) \/ CompleteMultipart(r) \/ AbortEmpty(r) \/ PutEmpty(r)
    \/ Hash(r) \/ Discard(r) \/ MarkFailed(r)
    \/ (\E duplicate \in BOOLEAN : CommitBlob(r, duplicate)) \/ DeleteDuplicate(r)
    \/ Fetch(r) \/ AbortCancelled(r) \/ MarkCancelled(r)

GcStep == GcSelect \/ GcAbort \/ GcFail

Fault ==
    \/ \E r \in Requests : InsertFails(r) \/ Abandon(r)
    \/ \E p \in {"idle", "update"} : GcAbandon(p)
    \/ \E c \in stray : Land(c) \/ Lose(c)

Next ==
    \/ \E r \in Requests : Arrive(r) \/ Step(r)
    \/ GcStep
    \/ Expire
    \/ Fault

\* jcrd runs every handler it has started and runs the collector every hour;
\* time passes.  PostgreSQL grants a row lock in the order of the queue.
Fairness ==
    /\ \A r \in Requests : WF_vars(Step(r)) /\ SF_vars(Admit(r) \/ Reject(r) \/ MarkCancelled(r))
    /\ WF_vars(GcSelect \/ GcAbort) /\ SF_vars(GcFail)
    /\ WF_vars(Expire)

Spec == Init /\ [][Next]_vars
FairSpec == Spec /\ Fairness

-----------------------------------------------------------------------------
(* Properties *)

TypeOK ==
    /\ session \in Row
    /\ expired \in BOOLEAN
    /\ parts \in Seq(PartRows)
    /\ lock \in Requests \cup {NoRequest}
    /\ mpu \in {"none", "open", "completed", "aborted"}
    /\ DOMAIN stored \subseteq 0..MaxParts
    /\ stored \in [DOMAIN stored -> Chunks]
    /\ object \in Seq(Chunks) \cup {NoObject}
    /\ stray \subseteq Calls
    /\ req \in [Requests -> Locals]
    /\ gc \in {"idle", "abort", "update"}
    /\ faults \in 0..MaxFaults

\* The accepted parts are numbered without a gap, each was validated against
\* the offset where the previous one ends, one that carried a Content-Range
\* holds exactly those bytes of the file, and accepted_offset, which clients
\* resume from, is the end of the last part: whatever PATCH and PUT requests
\* run side by side, fail or are dropped (lock_upload, persist_part).
PartsTile ==
    /\ DOMAIN parts = 1..(session.next - 1)
    /\ \A n \in DOMAIN parts :
          /\ parts[n].at = IF n = 1 THEN 0 ELSE parts[n - 1].at + parts[n - 1].size
          /\ parts[n].ranged => parts[n].from = parts[n].at
    /\ session.status # "committed" => session.offset = PartsEnd

\* Points of complete_upload after the session has been marked finalizing.
FinalizerPoints == {"parts", "complete", "empty", "put", "hash", "discard", "fail", "commit"}
Finalizing(q) == q.pc \in FinalizerPoints

\* At most one PUT ever gets past 'finalizing', and until it has decided the
\* session is finalizing or, if the collector was faster, failed: so the
\* UPDATEs of commit_blob and mark_upload_failed, which do not look at the
\* status, cannot overwrite another PUT's outcome.
SingleFinalizer ==
    /\ \A q, r \in Requests : Finalizing(req[q]) /\ Finalizing(req[r]) => q = r
    /\ \A r \in Requests : Finalizing(req[r]) => session.status \in {"finalizing", "failed"}

\* When a PUT is about to record the blob, the object under its key is still
\* there, holds the parts the session accepted and has the expected digest:
\* nothing that runs between hash_stored_blob and commit_blob, a call of an
\* abandoned request landing late included, can replace or remove it.
CommitsWhatItHashed ==
    \A r \in Requests : req[r].pc = "commit" =>
        /\ object # NoObject
        /\ object = Contents(parts)
        /\ Tiles(object, req[r].expected)

\* A session that is cancelled, or has not been finalized, has no object: a
\* DELETE that races a PUT (cancel_upload reads the row without a lock)
\* never marks a session cancelled whose object has been assembled.
NoObjectUnlessFinalized ==
    session.status \in {"absent", "uploading", "cancelled"} => object = NoObject

\* The changes of upload_sessions.status that may ever happen.  Outcomes are
\* final except that a PUT the collector took for dead may still commit.
StatusSteps ==
    {<<"absent", "uploading">>, <<"uploading", "finalizing">>, <<"uploading", "cancelled">>,
     <<"uploading", "failed">>, <<"finalizing", "committed">>, <<"finalizing", "failed">>,
     <<"failed", "committed">>}

\* committed and cancelled are final, and no step of any handler or of the
\* collector takes the session back or skips 'finalizing' on its way to
\* committed.
OutcomeIsFinal ==
    [][session.status' # session.status =>
         <<session.status, session.status'>> \in StatusSteps]_vars

\* Every session ends committed, failed or cancelled: one whose client goes
\* away or whose PUT is dropped half way is failed by the collector once it
\* has expired.
SessionSettles ==
    session.status \in {"uploading", "finalizing"} ~>
        session.status \in {"committed", "failed", "cancelled"}

\* Every request is answered: no handler waits for the row lock for ever, so
\* every early return and dropped handler gives the lock back.
RequestsAnswered ==
    \A r \in Requests : req[r].pc # "idle" ~> req[r].pc = "idle"

\* After a part smaller than uniform_part_size no further part is accepted:
\* the rule behind the answer "a short final PATCH was already accepted".
ShortPartIsLast ==
    \A n \in DOMAIN parts : session.uniform # NoSize /\ n < session.next - 1 =>
        parts[n].size >= session.uniform

\* The session its clients see: every chunk holds the bytes of the file that
\* belong where it was accepted.
Session == INSTANCE ChunkedUpload WITH
    status <- session.status,
    offset <- session.offset,
    intact <- \A n \in DOMAIN parts : parts[n].from = parts[n].at

\* The rows, the row lock and the multipart upload together behave as one
\* session that is appended to and concluded in single steps: what is
\* committed is the file, whatever handlers, dropped ones included, did on
\* the way (start_upload, patch_upload, complete_upload, cancel_upload).
ImplementsUpload == Session!Spec

=============================================================================
