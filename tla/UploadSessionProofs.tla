------------------------ MODULE UploadSessionProofs ------------------------
(***************************************************************************)
(* Proofs about UploadSession for any number of concurrent requests, any   *)
(* file, chunk and part limits and any number of faults.                   *)
(*                                                                         *)
(* The accepted parts tile the accepted bytes because the row lock is held *)
(* from the moment a chunk is validated until its part row is committed:   *)
(* LockInv says what a lock holder may rely on.  At most one PUT finalizes *)
(* because 'finalizing' is set under that lock and never turns back into   *)
(* 'uploading'; PostInv is needed for that, since the INSERT of the row is *)
(* the one step that sets 'uploading'.                                     *)
(***************************************************************************)
EXTENDS UploadSession, SequenceTheorems, TLAPS

LockedPoints == {"store", "persist", "finalize"}
PostPoints == {"initiate", "insert", "unstart"}

Locked(q) == q.pc \in LockedPoints
Posting(q) == q.pc \in PostPoints

\* Handler q moving to point p neither takes nor gives back the lock, and
\* does not become a finalizer or a POST.
SameKind(q, p) ==
    /\ p \in LockedPoints <=> Locked(q)
    /\ p \in FinalizerPoints => Finalizing(q)
    /\ p \in PostPoints => Posting(q)

\* A handler holds the row lock exactly between Admit and its COMMIT, and as
\* long as it does the row it has read is the row in the table.
LockInv ==
    \A r \in Requests :
        /\ Locked(req[r]) <=> lock = r
        /\ Locked(req[r]) =>
              /\ session.status = "uploading"
              /\ req[r].n = session.next
              /\ req[r].at = session.offset
              /\ req[r].ranged => req[r].chunk.from = req[r].at

\* A session is inserted once, by the only POST that was given its id.
PostInv ==
    /\ \A r \in Requests :
          /\ Posting(req[r]) => req[r].op = "post"
          /\ req[r].op = "post" => session.status = "absent"
    /\ \A q, r \in Requests : req[q].op = "post" /\ req[r].op = "post" => q = r

Inv == LockInv /\ PartsTile /\ SingleFinalizer /\ PostInv
IInv == TypeOK /\ Inv

-----------------------------------------------------------------------------
(* The object store *)

\* The calls that handlers and the collector make are well formed.
LEMMA CallTyped ==
    /\ \A op \in {"create", "abort", "put", "delete"} : Call(op) \in Calls
    /\ \A n \in Nat, c \in Chunks : PartCall(n, c) \in Calls
    /\ \A l \in Seq(Chunks) : CompleteCall(l) \in Calls
<1> NoChunk \in Chunks
    BY SessionAssumption DEF NoChunk, Chunks
<1> << >> \in Seq(Chunks)
    OBVIOUS
<1> QED
    BY DEF Call, PartCall, CompleteCall, Calls

\* A call that S3 takes leaves the store well formed.
LEMMA ApplyTyped ==
    ASSUME TypeOK, NEW c \in Calls, Accepts(c), Apply(c)
    PROVE  /\ mpu' \in {"none", "open", "completed", "aborted"}
           /\ DOMAIN stored' \subseteq 0..MaxParts
           /\ stored' \in [DOMAIN stored' -> Chunks]
           /\ object' \in Seq(Chunks) \cup {NoObject}
<1>1. mpu' \in {"none", "open", "completed", "aborted"}
    BY DEF Apply, TypeOK, Calls
<1>2. /\ DOMAIN stored' \subseteq 0..MaxParts
      /\ stored' \in [DOMAIN stored' -> Chunks]
    <2>1. CASE c.op = "part"
        <3>1. c.n \in 0..MaxParts /\ c.chunk \in Chunks
            BY <2>1, SessionAssumption DEF Accepts, Calls
        <3>2. stored' = [m \in DOMAIN stored \cup {c.n} |->
                            IF m = c.n THEN c.chunk ELSE stored[m]]
            BY <2>1 DEF Apply, Put
        <3> QED BY <3>1, <3>2 DEF TypeOK
    <2>2. CASE c.op \in {"complete", "abort"}
        <3>1. stored' = << >>
            BY <2>2 DEF Apply
        <3>2. DOMAIN << >> = {}
            OBVIOUS
        <3> QED BY <3>1, <3>2
    <2>3. CASE c.op \notin {"part", "complete", "abort"}
        <3>1. stored' = stored
            BY <2>3 DEF Apply
        <3> QED BY <3>1 DEF TypeOK
    <2> QED BY <2>1, <2>2, <2>3
<1>3. object' \in Seq(Chunks) \cup {NoObject}
    <2>1. << >> \in Seq(Chunks)
        OBVIOUS
    <2> QED BY <2>1 DEF Apply, TypeOK, Calls
<1> QED BY <1>1, <1>2, <1>3

\* A handler slot without a request is well formed.
LEMMA IdleTyped == Idle \in Locals /\ NoChunk \in Chunks /\ << >> \in Seq(Chunks)
<1> NoChunk \in Chunks /\ << >> \in Seq(Chunks) /\ 0 \in 0..FileSize
    BY SessionAssumption DEF NoChunk, Chunks
<1> QED BY DEF Idle, Locals, Points, NoSize

-----------------------------------------------------------------------------
(* Steps that change the local state of one handler and no row *)

\* Such a step keeps the invariant if it neither enters a locked section nor
\* becomes a finalizer or a POST by itself.
LEMMA LocalStep ==
    ASSUME IInv, NEW r \in Requests, NEW new \in Locals,
           req' = [req EXCEPT ![r] = new],
           session' = session, parts' = parts,
           \/ ~Locked(new) /\ lock' = IF lock = r THEN NoRequest ELSE lock
           \/ /\ lock' = lock
              /\ Locked(new) <=> Locked(req[r])
              /\ new.n = req[r].n /\ new.at = req[r].at
              /\ new.ranged = req[r].ranged /\ new.chunk = req[r].chunk
           \/ lock' = lock /\ ~Locked(new) /\ ~Locked(req[r]),
           Finalizing(new) => Finalizing(req[r]),
           new.op = "post" => req[r].op = "post",
           Posting(new) => new.op = "post"
    PROVE  Inv'
<1> USE DEF IInv, Inv
<1> req \in [Requests -> Locals] /\ lock \in Requests \cup {NoRequest} /\ NoRequest \notin Requests
    BY SessionAssumption DEF TypeOK
<1>0. \A q \in Requests : req'[q] = IF q = r THEN new ELSE req[q]
    OBVIOUS
<1>1. LockInv'
    <2> SUFFICES ASSUME NEW q \in Requests
                 PROVE  /\ Locked(req'[q]) <=> lock' = q
                        /\ Locked(req'[q]) =>
                              /\ session'.status = "uploading"
                              /\ req'[q].n = session'.next
                              /\ req'[q].at = session'.offset
                              /\ req'[q].ranged => req'[q].chunk.from = req'[q].at
        BY DEF LockInv, Locked, LockedPoints
    <2>1. CASE q = r
        BY <1>0, <2>1 DEF LockInv
    <2>2. CASE q # r
        BY <1>0, <2>2 DEF LockInv
    <2> QED BY <2>1, <2>2
<1>2. PartsTile'
    BY DEF PartsTile, PartsEnd
<1>3. SingleFinalizer'
    BY <1>0 DEF SingleFinalizer, Finalizing
<1>4. PostInv'
    BY <1>0 DEF PostInv, Posting, PostPoints
<1> QED BY <1>1, <1>2, <1>3, <1>4

\* Returning from a handler is such a step.
LEMMA FinishStep ==
    ASSUME IInv, NEW r \in Requests, Finish(r), session' = session, parts' = parts
    PROVE  /\ Inv'
           /\ req' \in [Requests -> Locals]
           /\ lock' \in Requests \cup {NoRequest}
<1>1. Idle \in Locals /\ ~Locked(Idle) /\ ~Finalizing(Idle) /\ ~Posting(Idle) /\ Idle.op # "post"
    BY IdleTyped DEF Idle, Locked, LockedPoints, Finalizing, FinalizerPoints, Posting, PostPoints
<1>2. /\ req' = [req EXCEPT ![r] = Idle]
      /\ lock' = IF lock = r THEN NoRequest ELSE lock
    BY DEF Finish
<1>3. Inv'
    BY <1>1, <1>2, LocalStep
<1> QED BY <1>1, <1>2, <1>3 DEF IInv, TypeOK

\* So is going on at another point of the same kind.
LEMMA GotoStep ==
    ASSUME IInv, NEW r \in Requests, NEW p \in Points, Goto(r, p),
           session' = session, parts' = parts, lock' = lock,
           SameKind(req[r], p)
    PROVE  Inv' /\ req' \in [Requests -> Locals]
<1> DEFINE new == [req[r] EXCEPT !.pc = p]
<1>1. req[r] \in Locals
    BY DEF IInv, TypeOK
<1>2. /\ new \in Locals /\ new.pc = p
      /\ new.n = req[r].n /\ new.at = req[r].at /\ new.op = req[r].op
      /\ new.ranged = req[r].ranged /\ new.chunk = req[r].chunk
    BY <1>1 DEF Locals
<1>3. req' = [req EXCEPT ![r] = new]
    BY DEF Goto
<1>4. Posting(new) => new.op = "post"
    BY <1>2 DEF SameKind, Posting, IInv, Inv, PostInv
<1>5. /\ Locked(new) <=> Locked(req[r])
      /\ Finalizing(new) => Finalizing(req[r])
    BY <1>2 DEF SameKind, Locked, Finalizing
<1>6. new.op = "post" => req[r].op = "post"
    BY <1>2
<1>7. Inv'
    <2> HIDE DEF new
    <2> QED BY <1>2, <1>3, <1>4, <1>5, <1>6, LocalStep
<1>8. req' \in [Requests -> Locals]
    BY <1>2, <1>3 DEF IInv, TypeOK
<1> QED BY <1>7, <1>8

\* And so is a call to the store, answered or failed.
LEMMA AwaitStep ==
    ASSUME IInv, NEW r \in Requests, NEW c \in Calls, NEW p \in Points, Await(r, c, p),
           SameKind(req[r], p)
    PROVE  IInv'
<1>1. session' = session /\ parts' = parts
    BY DEF Await
<1>2. CASE Accepts(c) /\ Apply(c) /\ Goto(r, p) /\ lock' = lock
    BY <1>1, <1>2, GotoStep, ApplyTyped DEF Await, IInv, TypeOK
<1>3. CASE ~Accepts(c) /\ Finish(r) /\ UNCHANGED storeVars
    BY <1>1, <1>3, FinishStep DEF Await, IInv, TypeOK, storeVars
<1> QED BY <1>2, <1>3 DEF Await

\* An abort of the multipart upload, however it is answered, is too.
LEMMA AwaitAbortStep ==
    ASSUME IInv, NEW r \in Requests, NEW p \in Points, AwaitAbort(r, p),
           SameKind(req[r], p)
    PROVE  IInv'
<1>1. session' = session /\ parts' = parts
    BY DEF AwaitAbort
<1>2. CASE Accepts(Call("abort")) /\ Apply(Call("abort")) /\ Goto(r, p) /\ lock' = lock
    BY <1>1, <1>2, GotoStep, CallTyped, ApplyTyped DEF AwaitAbort, IInv, TypeOK
<1>3. CASE Goto(r, p) /\ UNCHANGED <<lock, storeVars>>
    BY <1>1, <1>3, GotoStep DEF AwaitAbort, IInv, TypeOK, storeVars
<1>4. CASE Finish(r) /\ UNCHANGED storeVars
    BY <1>1, <1>4, FinishStep DEF AwaitAbort, IInv, TypeOK, storeVars
<1> QED BY <1>2, <1>3, <1>4 DEF AwaitAbort

-----------------------------------------------------------------------------
(* POST *)

\* A POST is given a session id that no other request has.
LEMMA ReceivePostStep ==
    ASSUME IInv, NEW r \in Requests, NEW i \in Inputs, NEW e \in Digests, NEW mono \in BOOLEAN,
           ReceivePost(r, i, e, mono)
    PROVE  IInv'
<1> DEFINE new == [Idle EXCEPT !.op = "post", !.pc = "initiate", !.chunk = i.chunk,
                               !.ranged = i.ranged, !.expected = e, !.monolithic = mono]
<1>1. new \in Locals /\ new.op = "post" /\ new.pc = "initiate"
    BY IdleTyped, SessionAssumption DEF Idle, Locals, Points
<1>2. /\ req[r].pc = "idle" /\ session.status = "absent"
      /\ \A q \in Requests : req[q].op # "post"
      /\ req' = [req EXCEPT ![r] = new]
      /\ UNCHANGED <<session, expired, parts, lock, storeVars, stray, gc, faults>>
    BY DEF ReceivePost, Receive
<1> HIDE DEF new
<1>3. TypeOK'
    BY <1>1, <1>2 DEF IInv, TypeOK, storeVars
<1>4. \A q \in Requests : req'[q] = IF q = r THEN new ELSE req[q]
    BY <1>2 DEF IInv, TypeOK
<1>5. LockInv'
    BY <1>1, <1>2, <1>4 DEF IInv, Inv, LockInv, Locked, LockedPoints
<1>6. PartsTile'
    BY <1>2 DEF IInv, Inv, PartsTile, PartsEnd
<1>7. SingleFinalizer'
    BY <1>1, <1>2, <1>4 DEF IInv, Inv, SingleFinalizer, Finalizing, FinalizerPoints
<1>8. PostInv'
    BY <1>1, <1>2, <1>4 DEF IInv, Inv, PostInv, Posting, PostPoints
<1> QED BY <1>3, <1>5, <1>6, <1>7, <1>8 DEF IInv, Inv

\* create_multipart_upload is answered or fails.
LEMMA InitiateStep ==
    ASSUME IInv, NEW r \in Requests, Initiate(r)
    PROVE  IInv'
<1>1. Call("create") \in Calls
    BY CallTyped
<1>2. req[r] \in Locals /\ req[r].pc = "initiate" /\ Await(r, Call("create"), "insert")
    BY DEF Initiate, IInv, TypeOK
<1>3. SameKind(req[r], "insert")
    BY <1>2 DEF SameKind, Locked, LockedPoints, FinalizerPoints, Posting, PostPoints
<1>4. "insert" \in Points
    BY DEF Points
<1> QED BY <1>1, <1>2, <1>3, <1>4, AwaitStep

\* The row appears, before any part and any other request of the session.
LEMMA InsertSessionStep ==
    ASSUME IInv, NEW r \in Requests, InsertSession(r)
    PROVE  IInv'
<1> DEFINE new == IF req[r].monolithic
                  THEN [req[r] EXCEPT !.op = "put", !.pc = "select", !.monolithic = FALSE]
                  ELSE Idle
<1>1. req[r] \in Locals /\ session \in Row
    BY DEF IInv, TypeOK
<1>2. new \in Locals /\ new.op \in {"put", "none"} /\ new.pc \in {"select", "idle"}
    BY <1>1, IdleTyped DEF Idle, Locals, Points
<1>3. /\ req' = [req EXCEPT ![r] = new]
      /\ session' = [session EXCEPT !.status = "uploading"]
      /\ UNCHANGED <<expired, parts, lock, storeVars, stray, gc, faults>>
    BY DEF InsertSession
<1>4. req[r].op = "post" /\ session.status = "absent"
    BY DEF InsertSession, IInv, Inv, PostInv, Posting, PostPoints
<1> HIDE DEF new
<1>5. TypeOK'
    BY <1>1, <1>2, <1>3 DEF IInv, TypeOK, storeVars, Row, Statuses
<1>6. \A q \in Requests : req'[q] = IF q = r THEN new ELSE req[q]
    BY <1>3 DEF IInv, TypeOK
<1>7. LockInv'
    BY <1>2, <1>3, <1>4, <1>6 DEF IInv, Inv, LockInv, Locked, LockedPoints
<1>8. PartsTile'
    BY <1>1, <1>3, <1>4 DEF IInv, Inv, PartsTile, PartsEnd, Row
<1>9. SingleFinalizer'
    BY <1>2, <1>3, <1>4, <1>6 DEF IInv, Inv, SingleFinalizer, Finalizing, FinalizerPoints
<1>10. PostInv'
    BY <1>2, <1>3, <1>4, <1>6 DEF IInv, Inv, PostInv, Posting, PostPoints
<1> QED BY <1>5, <1>7, <1>8, <1>9, <1>10 DEF IInv, Inv

\* The INSERT fails and the POST turns to its clean-up.
LEMMA InsertFailsStep ==
    ASSUME IInv, NEW r \in Requests, InsertFails(r)
    PROVE  IInv'
<1>1. /\ req[r] \in Locals /\ req[r].pc = "insert" /\ Goto(r, "unstart")
      /\ UNCHANGED <<session, expired, parts, lock, storeVars, stray, gc>>
      /\ faults' \in 0..MaxFaults
    BY SessionAssumption DEF InsertFails, IInv, TypeOK
<1>2. Inv' /\ req' \in [Requests -> Locals]
    BY <1>1, GotoStep DEF Points, SameKind, Locked, LockedPoints, FinalizerPoints, Posting, PostPoints
<1> QED BY <1>1, <1>2 DEF IInv, TypeOK, storeVars

\* The clean-up of a POST touches the store only.
LEMMA UnstartStep ==
    ASSUME IInv, NEW r \in Requests, Unstart(r)
    PROVE  IInv'
<1>1. /\ Finish(r)
      /\ UNCHANGED <<session, expired, parts, stray, gc, faults>>
      /\ \/ Accepts(Call("abort")) /\ Apply(Call("abort"))
         \/ UNCHANGED storeVars
    BY DEF Unstart
<1>2. /\ mpu' \in {"none", "open", "completed", "aborted"}
      /\ DOMAIN stored' \subseteq 0..MaxParts
      /\ stored' \in [DOMAIN stored' -> Chunks]
      /\ object' \in Seq(Chunks) \cup {NoObject}
    BY <1>1, CallTyped, ApplyTyped DEF storeVars, IInv, TypeOK
<1> QED BY <1>1, <1>2, FinishStep DEF IInv, TypeOK

-----------------------------------------------------------------------------
(* PATCH and PUT up to the store *)

\* A PATCH, PUT or DELETE arrives.
LEMMA ReceiveStep ==
    ASSUME IInv, NEW r \in Requests, NEW new \in Locals, Receive(r, new),
           new.op # "post", new.pc \in {"select", "fetch"}
    PROVE  IInv'
<1>1. /\ req[r].pc = "idle"
      /\ req' = [req EXCEPT ![r] = new]
      /\ UNCHANGED <<session, expired, parts, lock, storeVars, stray, gc, faults>>
    BY DEF Receive
<1>2. Inv'
    BY <1>1, LocalStep DEF Locked, LockedPoints, Finalizing, FinalizerPoints, Posting, PostPoints
<1> QED BY <1>1, <1>2 DEF IInv, TypeOK, storeVars

\* PATCH, PUT and DELETE start at a point that holds nothing.
LEMMA ReceivePatchPutDeleteStep ==
    ASSUME IInv, NEW r \in Requests,
           \/ \E i \in Inputs : ReceivePatch(r, i)
           \/ \E i \in Inputs, e \in Digests : ReceivePut(r, i, e)
           \/ ReceiveDelete(r)
    PROVE  IInv'
<1>1. ASSUME NEW i \in Inputs, ReceivePatch(r, i)
      PROVE  IInv'
    <2> DEFINE new == [Idle EXCEPT !.op = "patch", !.pc = "select", !.chunk = i.chunk,
                                   !.ranged = i.ranged]
    <2>1. new \in Locals /\ new.op # "post" /\ new.pc = "select"
        BY IdleTyped, SessionAssumption DEF Idle, Locals, Points
    <2>2. Receive(r, new)
        BY <1>1 DEF ReceivePatch
    <2> HIDE DEF new
    <2> QED BY <2>1, <2>2, ReceiveStep
<1>2. ASSUME NEW i \in Inputs, NEW e \in Digests, ReceivePut(r, i, e)
      PROVE  IInv'
    <2> DEFINE new == [Idle EXCEPT !.op = "put", !.pc = "select", !.chunk = i.chunk,
                                   !.ranged = i.ranged, !.expected = e]
    <2>1. new \in Locals /\ new.op # "post" /\ new.pc = "select"
        BY IdleTyped, SessionAssumption DEF Idle, Locals, Points
    <2>2. Receive(r, new)
        BY <1>2 DEF ReceivePut
    <2> HIDE DEF new
    <2> QED BY <2>1, <2>2, ReceiveStep
<1>3. ASSUME ReceiveDelete(r)
      PROVE  IInv'
    <2> DEFINE new == [Idle EXCEPT !.op = "delete", !.pc = "fetch"]
    <2>1. new \in Locals /\ new.op # "post" /\ new.pc = "fetch"
        BY IdleTyped, SessionAssumption DEF Idle, Locals, Points
    <2>2. Receive(r, new)
        BY <1>3 DEF ReceiveDelete
    <2> HIDE DEF new
    <2> QED BY <2>1, <2>2, ReceiveStep
<1> QED BY <1>1, <1>2, <1>3

\* The snapshot read changes the handler's own state only.
LEMMA SelectForUpdateStep ==
    ASSUME IInv, NEW r \in Requests, SelectForUpdate(r)
    PROVE  IInv'
<1> DEFINE new == [req[r] EXCEPT !.pc = "lock", !.last = LastPartSize]
<1>1. LastPartSize \in Nat \cup {NoSize}
    <2>1. CASE DOMAIN parts = {}
        BY <2>1 DEF LastPartSize
    <2>2. CASE DOMAIN parts # {}
        <3>1. parts \in Seq(PartRows) /\ Len(parts) \in Nat /\ DOMAIN parts = 1..Len(parts)
            BY DEF IInv, TypeOK
        <3>2. Len(parts) \in DOMAIN parts /\ \A m \in DOMAIN parts : m <= Len(parts)
            BY <2>2, <3>1
        <3>3. (CHOOSE n \in DOMAIN parts : \A m \in DOMAIN parts : m <= n) \in DOMAIN parts
            BY <3>2
        <3>4. \A n \in DOMAIN parts : parts[n] \in PartRows
            BY <3>1
        <3>5. \A row \in PartRows : row.size \in Nat
            BY SessionAssumption DEF PartRows
        <3> QED BY <2>2, <3>3, <3>4, <3>5 DEF LastPartSize
    <2> QED BY <2>1, <2>2
<1>2. req[r] \in Locals /\ req[r].pc = "select"
    BY DEF SelectForUpdate, IInv, TypeOK
<1>3. /\ new \in Locals /\ new.pc = "lock"
      /\ new.op = req[r].op
    BY <1>1, <1>2 DEF Locals, Points
<1>4. /\ req' = [req EXCEPT ![r] = new]
      /\ UNCHANGED <<session, expired, parts, lock, storeVars, stray, gc, faults>>
    BY DEF SelectForUpdate
<1> HIDE DEF new
<1>5. Inv'
    BY <1>2, <1>3, <1>4, LocalStep
    DEF Locked, LockedPoints, Finalizing, FinalizerPoints, Posting, PostPoints
<1> QED BY <1>3, <1>4, <1>5 DEF IInv, TypeOK, storeVars

\* The lock is granted: this is where LockInv comes to hold for r.
LEMMA AdmitStep ==
    ASSUME IInv, NEW r \in Requests, Admit(r)
    PROVE  IInv'
<1> DEFINE new == [req[r] EXCEPT !.pc = IF req[r].chunk.size > 0 THEN "store" ELSE "finalize",
                                 !.n = session.next, !.at = session.offset, !.last = NoSize]
<1>1. req[r] \in Locals /\ session \in Row
    BY DEF IInv, TypeOK
<1>2. /\ new \in Locals /\ new.pc \in {"store", "finalize"}
      /\ new.op = req[r].op /\ new.n = session.next /\ new.at = session.offset
      /\ new.ranged = req[r].ranged /\ new.chunk = req[r].chunk
    BY <1>1 DEF Locals, Points, Row
<1>3. /\ req[r].pc = "lock" /\ lock = NoRequest /\ lock' = r
      /\ session.status = "uploading"
      /\ req[r].ranged => req[r].chunk.from = session.offset
      /\ req' = [req EXCEPT ![r] = new]
      /\ UNCHANGED <<session, expired, parts, storeVars, stray, gc, faults>>
    BY DEF Admit, Admissible, Available, RangeFits
<1> HIDE DEF new
<1>4. TypeOK'
    BY <1>2, <1>3 DEF IInv, TypeOK, storeVars
<1>5. \A q \in Requests : req'[q] = IF q = r THEN new ELSE req[q]
    BY <1>3 DEF IInv, TypeOK
<1>6. LockInv'
    BY <1>2, <1>3, <1>5, SessionAssumption DEF IInv, Inv, LockInv, Locked, LockedPoints
<1>7. PartsTile'
    BY <1>3 DEF IInv, Inv, PartsTile, PartsEnd
<1>8. SingleFinalizer'
    BY <1>2, <1>3, <1>5 DEF IInv, Inv, SingleFinalizer, Finalizing, FinalizerPoints
<1>9. PostInv'
    BY <1>2, <1>3, <1>5 DEF IInv, Inv, PostInv, Posting, PostPoints
<1> QED BY <1>4, <1>6, <1>7, <1>8, <1>9 DEF IInv, Inv

\* A rejected request returns without having touched the row.
LEMMA RejectStep ==
    ASSUME IInv, NEW r \in Requests, Reject(r)
    PROVE  IInv'
BY FinishStep DEF Reject, IInv, TypeOK, storeVars

\* The part is uploaded while the lock is held.
LEMMA StorePartStep ==
    ASSUME IInv, NEW r \in Requests, StorePart(r)
    PROVE  IInv'
<1> DEFINE p == IF req[r].op = "patch" THEN "persist" ELSE "finalize"
<1>1. req[r] \in Locals /\ req[r].pc = "store"
    BY DEF StorePart, IInv, TypeOK
<1>2. PartCall(req[r].n, req[r].chunk) \in Calls
    BY <1>1, CallTyped DEF Locals
<1>3. p \in Points /\ SameKind(req[r], p)
    BY <1>1 DEF Points, SameKind, Locked, LockedPoints, FinalizerPoints, PostPoints
<1>4. Await(r, PartCall(req[r].n, req[r].chunk), p)
    BY DEF StorePart
<1> HIDE DEF p
<1> QED BY <1>2, <1>3, <1>4, AwaitStep

\* Under the lock, persist_part appends one part and the tiling goes on.
LEMMA PersistPartTiles ==
    ASSUME IInv, NEW r \in Requests, Locked(req[r]),
           NEW establish \in BOOLEAN, NEW status \in {"uploading", "finalizing"},
           PersistPart(req[r], establish, status)
    PROVE  /\ session' \in Row /\ session'.status = status
           /\ parts' \in Seq(PartRows)
           /\ PartsTile'
<1> DEFINE k == session.next
           row == [from |-> req[r].chunk.from, size |-> req[r].chunk.size,
                   at |-> req[r].at, ranged |-> req[r].ranged]
<1>1. /\ req[r] \in Locals /\ session \in Row /\ parts \in Seq(PartRows)
      /\ DOMAIN parts = 1..(k - 1)
    BY DEF IInv, Inv, TypeOK, PartsTile
<1>2. /\ req[r].n = k /\ req[r].at = session.offset
      /\ req[r].ranged => req[r].chunk.from = req[r].at
      /\ session.status = "uploading"
    BY DEF IInv, Inv, LockInv
<1>3. /\ req[r].chunk \in [from : 0..FileSize, size : 0..ChunkLimit]
      /\ req[r].chunk.from + req[r].chunk.size <= FileSize
      /\ req[r].chunk.size \in Nat
    BY <1>1, SessionAssumption DEF Locals, Chunks
<1>4. row \in PartRows
    BY <1>1, <1>3 DEF PartRows, Locals
<1>5. k \in Nat /\ k >= 1
    BY <1>1 DEF Row
<1>6. parts' = [m \in 1..k |-> IF m = k THEN row ELSE parts[m]]
    <2>1. DOMAIN parts \cup {k} = 1..k
        BY <1>1, <1>5
    <2> QED BY <1>2, <2>1 DEF PersistPart, Put
<1>7. /\ session'.offset = session.offset + req[r].chunk.size
      /\ session'.next = k + 1 /\ session'.status = status
      /\ session' \in Row
    <2> DEFINE u == IF establish /\ session.uniform = NoSize
                    THEN req[r].chunk.size ELSE session.uniform
    <2>1. session' = [session EXCEPT !.offset = @ + req[r].chunk.size, !.next = @ + 1,
                                     !.uniform = u, !.status = status]
        BY DEF PersistPart
    <2>2. u \in Nat \cup {NoSize}
        BY <1>1, <1>3 DEF Row
    <2>3. /\ session.offset + req[r].chunk.size \in Nat
          /\ session.next + 1 \in Nat \ {0}
          /\ status \in Statuses
        BY <1>1, <1>3 DEF Row, Statuses
    <2> HIDE DEF u
    <2> QED BY <1>1, <2>1, <2>2, <2>3 DEF Row
<1>8. parts' \in Seq(PartRows)
    <2>1. \A m \in 1..(k - 1) : parts[m] \in PartRows
        <3>1. DOMAIN parts = 1..Len(parts)
            BY <1>1
        <3>2. \A m \in 1..Len(parts) : parts[m] \in PartRows
            BY <1>1, ElementOfSeq
        <3> QED BY <1>1, <3>1, <3>2
    <2> HIDE DEF row, k
    <2>2. \A m \in 1..k : (IF m = k THEN row ELSE parts[m]) \in PartRows
        BY <1>4, <1>5, <2>1
    <2>3. parts' \in [1..k -> PartRows]
        BY <1>6, <2>2
    <2> QED BY <1>5, <2>3, SeqDef
<1>9. PartsTile'
    <2>1. /\ DOMAIN parts' = 1..k
          /\ parts'[k] = row
          /\ \A m \in 1..(k - 1) : parts'[m] = parts[m]
        BY <1>5, <1>6
    <2>2. session.offset = IF k = 1 THEN 0 ELSE parts[k - 1].at + parts[k - 1].size
        BY <1>2 DEF IInv, Inv, PartsTile, PartsEnd
    <2>3. DOMAIN parts' = 1..(session'.next - 1)
        BY <1>5, <1>7, <2>1
    <2>4. ASSUME NEW n \in DOMAIN parts'
          PROVE  /\ parts'[n].at = IF n = 1 THEN 0 ELSE parts'[n - 1].at + parts'[n - 1].size
                 /\ parts'[n].ranged => parts'[n].from = parts'[n].at
        <3>1. CASE n = k
            BY <1>2, <1>5, <2>1, <2>2, <3>1
        <3>2. CASE n \in 1..(k - 1)
            BY <1>1, <1>5, <2>1, <3>2 DEF IInv, Inv, PartsTile
        <3> QED BY <1>5, <2>1, <3>1, <3>2
    <2>5. session'.offset = PartsEnd'
        BY <1>2, <1>5, <1>7, <2>1 DEF PartsEnd
    <2> QED BY <2>3, <2>4, <2>5 DEF PartsTile
<1> QED BY <1>7, <1>8, <1>9

\* A PATCH records its part and gives the lock back.
LEMMA PersistPatchStep ==
    ASSUME IInv, NEW r \in Requests, PersistPatch(r)
    PROVE  IInv'
<1>1. /\ req[r] \in Locals /\ Locked(req[r]) /\ session \in Row
      /\ Finish(r) /\ UNCHANGED <<expired, storeVars, stray, gc, faults>>
    BY DEF PersistPatch, Locked, LockedPoints, IInv, TypeOK
<1>2. /\ req[r].n = session.next /\ session.status = "uploading" /\ lock = r
      /\ req[r].n \notin DOMAIN parts
    BY <1>1 DEF IInv, Inv, LockInv, PartsTile, Row
<1>3. PersistPart(req[r], TRUE, "uploading")
    BY <1>2 DEF PersistPatch
<1>4. /\ session' \in Row /\ session'.status = "uploading"
      /\ parts' \in Seq(PartRows) /\ PartsTile'
    BY <1>1, <1>3, PersistPartTiles
<1>5. /\ lock' = NoRequest /\ req' = [req EXCEPT ![r] = Idle]
      /\ Idle \in Locals /\ Idle.pc = "idle" /\ Idle.op = "none"
    BY <1>1, <1>2, IdleTyped DEF Finish, Idle
<1>6. TypeOK'
    BY <1>1, <1>4, <1>5 DEF IInv, TypeOK, storeVars
<1>7. \A q \in Requests : req'[q] = IF q = r THEN Idle ELSE req[q]
    BY <1>5 DEF IInv, TypeOK
<1>8. LockInv'
    BY <1>2, <1>5, <1>7, SessionAssumption DEF IInv, Inv, LockInv, Locked, LockedPoints
<1>9. SingleFinalizer'
    BY <1>2, <1>5, <1>7 DEF IInv, Inv, SingleFinalizer, Finalizing, FinalizerPoints
<1>10. PostInv'
    BY <1>2, <1>5, <1>7 DEF IInv, Inv, PostInv, Posting, PostPoints
<1> QED BY <1>4, <1>6, <1>8, <1>9, <1>10 DEF IInv, Inv

-----------------------------------------------------------------------------
(* PUT after the store *)

\* 'finalizing' is set under the lock, while nobody else is finalizing.
LEMMA FinalizeStep ==
    ASSUME IInv, NEW r \in Requests, Finalize(r)
    PROVE  IInv'
<1> DEFINE new == [Idle EXCEPT !.op = "put", !.pc = "parts", !.expected = req[r].expected]
<1>1. /\ req[r] \in Locals /\ Locked(req[r]) /\ session \in Row
      /\ lock' = NoRequest /\ req' = [req EXCEPT ![r] = new]
      /\ UNCHANGED <<expired, storeVars, stray, gc, faults>>
    BY DEF Finalize, Locked, LockedPoints, IInv, TypeOK
<1>2. session.status = "uploading" /\ lock = r
    BY <1>1 DEF IInv, Inv, LockInv
<1>3. new \in Locals /\ new.pc = "parts" /\ new.op = "put"
    BY <1>1, IdleTyped DEF Idle, Locals, Points
<1> HIDE DEF new
<1>4. /\ session' \in Row /\ session'.status = "finalizing"
      /\ parts' \in Seq(PartRows) /\ PartsTile'
    <2>1. CASE PersistPart(req[r], FALSE, "finalizing")
        BY <1>1, <2>1, PersistPartTiles
    <2>2. CASE session' = [session EXCEPT !.status = "finalizing"] /\ UNCHANGED parts
        <3>1. /\ session' \in Row /\ session'.status = "finalizing"
              /\ session'.next = session.next /\ session'.offset = session.offset
            BY <1>1, <2>2 DEF Row, Statuses
        <3> QED BY <1>2, <2>2, <3>1 DEF IInv, Inv, TypeOK, PartsTile, PartsEnd
    <2> QED BY <2>1, <2>2 DEF Finalize
<1>5. TypeOK'
    BY <1>1, <1>3, <1>4 DEF IInv, TypeOK, storeVars
<1>6. \A q \in Requests : req'[q] = IF q = r THEN new ELSE req[q]
    BY <1>1 DEF IInv, TypeOK
<1>7. LockInv'
    BY <1>1, <1>2, <1>3, <1>6, SessionAssumption DEF IInv, Inv, LockInv, Locked, LockedPoints
<1>8. SingleFinalizer'
    BY <1>2, <1>4, <1>6 DEF IInv, Inv, SingleFinalizer, Finalizing
<1>9. PostInv'
    BY <1>2, <1>3, <1>6 DEF IInv, Inv, PostInv, Posting, PostPoints
<1> QED BY <1>4, <1>5, <1>7, <1>8, <1>9 DEF IInv, Inv

\* What the parts hold is a list of chunks.
LEMMA ContentsTyped == TypeOK => Contents(parts) \in Seq(Chunks)
<1> SUFFICES ASSUME TypeOK PROVE Contents(parts) \in Seq(Chunks)
    OBVIOUS
<1>1. /\ Len(parts) \in Nat /\ DOMAIN parts = 1..Len(parts)
      /\ \A n \in 1..Len(parts) : parts[n] \in PartRows
    BY ElementOfSeq DEF TypeOK
<1>2. Contents(parts) \in [1..Len(parts) -> Chunks]
    <2>1. \A row \in PartRows : [from |-> row.from, size |-> row.size] \in Chunks
        BY DEF PartRows, Chunks
    <2> QED BY <1>1, <2>1 DEF Contents
<1> QED BY <1>1, <1>2, SeqDef

\* The finalizer reads the part list.
LEMMA ReadPartsStep ==
    ASSUME IInv, NEW r \in Requests, ReadParts(r)
    PROVE  IInv'
<1> DEFINE new == [req[r] EXCEPT !.list = Contents(parts),
                                 !.pc = IF DOMAIN parts = {} THEN "empty" ELSE "complete"]
<1>1. Contents(parts) \in Seq(Chunks)
    BY ContentsTyped DEF IInv
<1>2. req[r] \in Locals /\ req[r].pc = "parts"
    BY DEF ReadParts, IInv, TypeOK
<1>3. new \in Locals /\ new.pc \in {"empty", "complete"} /\ new.op = req[r].op
    BY <1>1, <1>2 DEF Locals, Points
<1>4. /\ req' = [req EXCEPT ![r] = new]
      /\ UNCHANGED <<session, expired, parts, lock, storeVars, stray, gc, faults>>
    BY DEF ReadParts
<1> HIDE DEF new
<1>5. Inv'
    BY <1>2, <1>3, <1>4, LocalStep
    DEF Locked, LockedPoints, Finalizing, FinalizerPoints, Posting, PostPoints
<1> QED BY <1>3, <1>4, <1>5 DEF IInv, TypeOK, storeVars

\* The multipart upload is completed or its completion fails.
LEMMA CompleteMultipartStep ==
    ASSUME IInv, NEW r \in Requests, CompleteMultipart(r)
    PROVE  IInv'
<1>1. req[r] \in Locals /\ req[r].pc = "complete"
    BY DEF CompleteMultipart, IInv, TypeOK
<1>2. CompleteCall(req[r].list) \in Calls
    BY <1>1, CallTyped DEF Locals
<1>3. "hash" \in Points /\ SameKind(req[r], "hash")
    BY <1>1 DEF Points, SameKind, Locked, LockedPoints, Finalizing, FinalizerPoints, Posting, PostPoints
<1>4. Await(r, CompleteCall(req[r].list), "hash")
    BY DEF CompleteMultipart
<1> QED BY <1>2, <1>3, <1>4, AwaitStep

\* The multipart upload of an empty blob is aborted.
LEMMA AbortEmptyStep ==
    ASSUME IInv, NEW r \in Requests, AbortEmpty(r)
    PROVE  IInv'
<1>1. req[r] \in Locals /\ req[r].pc = "empty"
    BY DEF AbortEmpty, IInv, TypeOK
<1>2. "put" \in Points /\ SameKind(req[r], "put")
    BY <1>1 DEF Points, SameKind, Locked, LockedPoints, Finalizing, FinalizerPoints, Posting, PostPoints
<1>3. AwaitAbort(r, "put")
    BY DEF AbortEmpty
<1> QED BY <1>2, <1>3, AwaitAbortStep

\* The empty object is put.
LEMMA PutEmptyStep ==
    ASSUME IInv, NEW r \in Requests, PutEmpty(r)
    PROVE  IInv'
<1>1. req[r] \in Locals /\ req[r].pc = "put"
    BY DEF PutEmpty, IInv, TypeOK
<1>2. Call("put") \in Calls
    BY <1>1, CallTyped DEF Locals
<1>3. "hash" \in Points /\ SameKind(req[r], "hash")
    BY <1>1 DEF Points, SameKind, Locked, LockedPoints, Finalizing, FinalizerPoints, Posting, PostPoints
<1>4. Await(r, Call("put"), "hash")
    BY DEF PutEmpty
<1> QED BY <1>2, <1>3, <1>4, AwaitStep

\* The stored object is hashed: the finalizer commits or discards.
LEMMA HashStep ==
    ASSUME IInv, NEW r \in Requests, Hash(r)
    PROVE  IInv'
<1> DEFINE p == IF Tiles(object, req[r].expected) THEN "commit" ELSE "discard"
<1>1. /\ req[r] \in Locals /\ req[r].pc = "hash"
      /\ Finish(r) \/ (Goto(r, p) /\ UNCHANGED lock)
      /\ UNCHANGED <<session, expired, parts, storeVars, stray, gc, faults>>
    BY DEF Hash, IInv, TypeOK
<1>2. p \in Points /\ SameKind(req[r], p)
    BY <1>1 DEF Points, SameKind, Locked, LockedPoints, Finalizing, FinalizerPoints, Posting, PostPoints
<1> HIDE DEF p
<1>3. CASE Finish(r)
    BY <1>1, <1>3, FinishStep DEF IInv, TypeOK, storeVars
<1>4. CASE Goto(r, p) /\ UNCHANGED lock
    BY <1>1, <1>2, <1>4, GotoStep DEF IInv, TypeOK, storeVars
<1> QED BY <1>1, <1>3, <1>4

\* The object of a wrong digest is deleted.
LEMMA DiscardStep ==
    ASSUME IInv, NEW r \in Requests, Discard(r)
    PROVE  IInv'
<1>1. req[r] \in Locals /\ req[r].pc = "discard"
    BY DEF Discard, IInv, TypeOK
<1>2. Call("delete") \in Calls
    BY <1>1, CallTyped DEF Locals
<1>3. "fail" \in Points /\ SameKind(req[r], "fail")
    BY <1>1 DEF Points, SameKind, Locked, LockedPoints, Finalizing, FinalizerPoints, Posting, PostPoints
<1>4. Await(r, Call("delete"), "fail")
    BY DEF Discard
<1> QED BY <1>2, <1>3, <1>4, AwaitStep

\* An UPDATE of the status while nobody holds the row lock: it may end the
\* session, and r is no finalizer afterwards.
LEMMA StatusUpdateStep ==
    ASSUME IInv, NEW r \in Requests, NEW new \in Locals, lock = NoRequest, lock' = NoRequest,
           req' = [req EXCEPT ![r] = new],
           ~Locked(new), ~Finalizing(new), ~Posting(new), new.op # "post",
           session' \in Row, session'.next = session.next, parts' = parts,
           session'.status = session.status \/
               /\ session.status # "absent"
               /\ \A q \in Requests : Finalizing(req[q]) => q = r,
           session'.status \in {"committed", session.status} \/
               session.status # "committed",
           session'.status # "committed" => session'.offset = session.offset,
           UNCHANGED <<expired, storeVars, stray, gc, faults>>
    PROVE  IInv'
<1>1. TypeOK'
    BY DEF IInv, TypeOK, storeVars
<1>2. \A q \in Requests : req'[q] = IF q = r THEN new ELSE req[q]
    BY DEF IInv, TypeOK
<1>3. \A q \in Requests : ~Locked(req[q])
    BY SessionAssumption DEF IInv, Inv, LockInv
<1>4. LockInv'
    BY <1>2, <1>3, SessionAssumption DEF LockInv, Locked
<1>5. PartsTile'
    BY DEF IInv, Inv, PartsTile, PartsEnd
<1>6. SingleFinalizer'
    BY <1>2 DEF IInv, Inv, SingleFinalizer, Finalizing
<1>7. PostInv'
    BY <1>2 DEF IInv, Inv, PostInv, Posting
<1> QED BY <1>1, <1>4, <1>5, <1>6, <1>7 DEF IInv, Inv

\* The finalizer fails the session.
LEMMA MarkFailedStep ==
    ASSUME IInv, NEW r \in Requests, MarkFailed(r)
    PROVE  IInv'
<1>1. /\ req[r].pc = "fail" /\ lock = NoRequest /\ lock' = NoRequest
      /\ req' = [req EXCEPT ![r] = Idle]
      /\ session' = [session EXCEPT !.status = "failed"] /\ session \in Row
      /\ parts' = parts
      /\ UNCHANGED <<expired, storeVars, stray, gc, faults>>
    BY DEF MarkFailed, Finish, IInv, TypeOK
<1>2. Finalizing(req[r])
    BY <1>1 DEF Finalizing, FinalizerPoints
<1>3. /\ session.status \in {"finalizing", "failed"}
      /\ \A q \in Requests : Finalizing(req[q]) => q = r
    BY <1>2 DEF IInv, Inv, SingleFinalizer
<1>4. /\ session' \in Row /\ session'.status = "failed"
      /\ session'.next = session.next /\ session'.offset = session.offset
    BY <1>1 DEF Row, Statuses
<1>5. /\ Idle \in Locals /\ ~Locked(Idle) /\ ~Finalizing(Idle) /\ ~Posting(Idle)
      /\ Idle.op # "post"
    BY IdleTyped DEF Idle, Locked, LockedPoints, Finalizing, FinalizerPoints, Posting, PostPoints
<1> QED BY <1>1, <1>3, <1>4, <1>5, StatusUpdateStep

\* The finalizer commits the session.
LEMMA CommitBlobStep ==
    ASSUME IInv, NEW r \in Requests, NEW duplicate \in BOOLEAN, CommitBlob(r, duplicate)
    PROVE  IInv'
<1> DEFINE new == IF duplicate THEN [req[r] EXCEPT !.pc = "dedup"] ELSE Idle
<1>1. /\ req[r].pc = "commit" /\ lock = NoRequest /\ lock' = NoRequest
      /\ req' = [req EXCEPT ![r] = new]
      /\ session' = [session EXCEPT !.status = "committed", !.offset = req[r].expected]
      /\ session \in Row /\ req[r] \in Locals
      /\ parts' = parts
      /\ UNCHANGED <<expired, storeVars, stray, gc, faults>>
    BY DEF CommitBlob, IInv, TypeOK
<1>2. Finalizing(req[r])
    BY <1>1 DEF Finalizing, FinalizerPoints
<1>3. /\ session.status \in {"finalizing", "failed"}
      /\ \A q \in Requests : Finalizing(req[q]) => q = r
    BY <1>2 DEF IInv, Inv, SingleFinalizer
<1>4. /\ session' \in Row /\ session'.status = "committed"
      /\ session'.next = session.next
    <2>1. req[r].expected \in Nat
        BY <1>1, SessionAssumption DEF Locals
    <2> HIDE DEF new
    <2> QED BY <1>1, <2>1 DEF Row, Statuses
<1>5. req[r].op # "post"
    BY <1>3 DEF IInv, Inv, PostInv
<1>6. /\ new \in Locals /\ new.pc \in {"dedup", "idle"} /\ new.op # "post"
    BY <1>1, <1>5, IdleTyped DEF Idle, Locals, Points
<1>7. ~Locked(new) /\ ~Finalizing(new) /\ ~Posting(new)
    BY <1>6 DEF Locked, LockedPoints, Finalizing, FinalizerPoints, Posting, PostPoints
<1> HIDE DEF new
<1> QED BY <1>1, <1>3, <1>4, <1>6, <1>7, StatusUpdateStep

\* The duplicate object is deleted after the outcome is recorded.
LEMMA DeleteDuplicateStep ==
    ASSUME IInv, NEW r \in Requests, DeleteDuplicate(r)
    PROVE  IInv'
<1>1. /\ Finish(r) /\ Apply(Call("delete")) /\ Accepts(Call("delete"))
      /\ UNCHANGED <<session, expired, parts, stray, gc, faults>>
    BY DEF DeleteDuplicate, Accepts, Call
<1> QED BY <1>1, FinishStep, CallTyped, ApplyTyped DEF IInv, TypeOK

-----------------------------------------------------------------------------
(* DELETE *)

\* cancel_upload reads the row without a lock.
LEMMA FetchStep ==
    ASSUME IInv, NEW r \in Requests, Fetch(r)
    PROVE  IInv'
<1>1. /\ req[r] \in Locals /\ req[r].pc = "fetch"
      /\ Finish(r) \/ (Goto(r, "abort") /\ UNCHANGED lock)
      /\ UNCHANGED <<session, expired, parts, storeVars, stray, gc, faults>>
    BY DEF Fetch, IInv, TypeOK
<1>2. CASE Finish(r)
    BY <1>1, <1>2, FinishStep DEF IInv, TypeOK, storeVars
<1>3. CASE Goto(r, "abort") /\ UNCHANGED lock
    <2>1. "abort" \in Points /\ SameKind(req[r], "abort")
        BY <1>1 DEF Points, SameKind, Locked, LockedPoints, Finalizing, FinalizerPoints, Posting, PostPoints
    <2> QED BY <1>1, <1>3, <2>1, GotoStep DEF IInv, TypeOK, storeVars
<1> QED BY <1>1, <1>2, <1>3

\* cancel_upload aborts the multipart upload.
LEMMA AbortCancelledStep ==
    ASSUME IInv, NEW r \in Requests, AbortCancelled(r)
    PROVE  IInv'
<1>1. req[r] \in Locals /\ req[r].pc = "abort"
    BY DEF AbortCancelled, IInv, TypeOK
<1>2. "cancel" \in Points /\ SameKind(req[r], "cancel")
    BY <1>1 DEF Points, SameKind, Locked, LockedPoints, Finalizing, FinalizerPoints, Posting, PostPoints
<1>3. AwaitAbort(r, "cancel")
    BY DEF AbortCancelled
<1> QED BY <1>2, <1>3, AwaitAbortStep

\* Only an uploading session is cancelled, under the lock.
LEMMA MarkCancelledStep ==
    ASSUME IInv, NEW r \in Requests, MarkCancelled(r)
    PROVE  IInv'
<1>1. /\ req[r].pc = "cancel" /\ lock = NoRequest /\ lock' = NoRequest
      /\ req' = [req EXCEPT ![r] = Idle]
      /\ session' = IF session.status = "uploading"
                    THEN [session EXCEPT !.status = "cancelled"] ELSE session
      /\ session \in Row /\ parts' = parts
      /\ UNCHANGED <<expired, storeVars, stray, gc, faults>>
    BY DEF MarkCancelled, Finish, IInv, TypeOK
<1>2. /\ session' \in Row
      /\ session'.next = session.next /\ session'.offset = session.offset
      /\ \/ session'.status = session.status
         \/ session.status = "uploading" /\ session'.status = "cancelled"
    BY <1>1 DEF Row, Statuses
<1>3. session.status = "uploading" => \A q \in Requests : ~Finalizing(req[q])
    BY DEF IInv, Inv, SingleFinalizer
<1>4. /\ Idle \in Locals /\ ~Locked(Idle) /\ ~Finalizing(Idle) /\ ~Posting(Idle)
      /\ Idle.op # "post"
    BY IdleTyped DEF Idle, Locked, LockedPoints, Finalizing, FinalizerPoints, Posting, PostPoints
<1> QED BY <1>1, <1>2, <1>3, <1>4, StatusUpdateStep

-----------------------------------------------------------------------------
(* The collector and the environment *)

\* A step that changes no row and no handler keeps the invariant.
LEMMA RowsUnchangedStep ==
    ASSUME IInv, UNCHANGED <<session, parts, lock, req>>
    PROVE  Inv'
BY DEF IInv, Inv, LockInv, Locked, PartsTile, PartsEnd, SingleFinalizer, Finalizing,
       PostInv, Posting

\* The collector fails a session that nobody holds.
LEMMA GcStepInv ==
    ASSUME IInv, GcStep
    PROVE  IInv'
<1>1. CASE GcSelect
    BY <1>1, RowsUnchangedStep DEF GcSelect, IInv, TypeOK, storeVars
<1>2. CASE GcAbort
    <2>1. /\ UNCHANGED <<session, expired, parts, lock, stray, req, faults>>
          /\ gc' = "update"
          /\ (Accepts(Call("abort")) /\ Apply(Call("abort"))) \/ UNCHANGED storeVars
        BY <1>2 DEF GcAbort
    <2>2. /\ mpu' \in {"none", "open", "completed", "aborted"}
          /\ DOMAIN stored' \subseteq 0..MaxParts
          /\ stored' \in [DOMAIN stored' -> Chunks]
          /\ object' \in Seq(Chunks) \cup {NoObject}
        BY <2>1, CallTyped, ApplyTyped DEF storeVars, IInv, TypeOK
    <2> QED BY <2>1, <2>2, RowsUnchangedStep DEF IInv, TypeOK
<1>3. CASE GcFail
    <2>1. /\ lock = NoRequest /\ gc' = "idle" /\ session \in Row
          /\ session' = IF session.status \in {"uploading", "finalizing"}
                        THEN [session EXCEPT !.status = "failed"] ELSE session
          /\ UNCHANGED <<expired, parts, lock, storeVars, stray, req, faults>>
        BY <1>3 DEF GcFail, IInv, TypeOK
    <2>2. /\ session' \in Row
          /\ session'.next = session.next /\ session'.offset = session.offset
          /\ \/ session'.status = session.status
             \/ session.status \in {"uploading", "finalizing"} /\ session'.status = "failed"
        BY <2>1 DEF Row, Statuses
    <2>3. TypeOK'
        BY <2>1, <2>2 DEF IInv, TypeOK, storeVars
    <2>4. \A q \in Requests : ~Locked(req[q])
        BY <2>1, SessionAssumption DEF IInv, Inv, LockInv
    <2>5. LockInv' /\ PartsTile' /\ SingleFinalizer' /\ PostInv'
        BY <2>1, <2>2, <2>4, SessionAssumption
        DEF IInv, Inv, LockInv, Locked, PartsTile, PartsEnd, SingleFinalizer, Finalizing,
            PostInv, Posting
    <2> QED BY <2>3, <2>5 DEF IInv, Inv
<1> QED BY <1>1, <1>2, <1>3 DEF GcStep

\* The call under way in a handler that ends early is well formed.
LEMMA PendingTyped ==
    ASSUME NEW q \in Locals
    PROVE  Pending(q) \subseteq Calls
<1>1. /\ q.n \in Nat /\ q.chunk \in Chunks /\ q.list \in Seq(Chunks)
    BY DEF Locals
<1> QED BY <1>1, CallTyped DEF Pending

\* Dropped handlers, lost calls and late calls keep the invariant.
LEMMA FaultStep ==
    ASSUME IInv, Fault
    PROVE  IInv'
<1>1. ASSUME NEW r \in Requests, Abandon(r)
      PROVE  IInv'
    <2>1. /\ req[r] \in Locals /\ Finish(r)
          /\ faults' \in 0..MaxFaults /\ stray' = stray \cup Pending(req[r])
          /\ UNCHANGED <<session, expired, parts, storeVars, gc>>
        BY <1>1, SessionAssumption DEF Abandon, IInv, TypeOK
    <2>2. stray' \subseteq Calls
        BY <2>1, PendingTyped DEF IInv, TypeOK
    <2> QED BY <2>1, <2>2, FinishStep DEF IInv, TypeOK, storeVars
<1>2. ASSUME NEW p \in {"idle", "update"}, GcAbandon(p)
      PROVE  IInv'
    <2>1. /\ gc' = p /\ faults' \in 0..MaxFaults
          /\ stray' \in {stray, stray \cup {Call("abort")}}
          /\ UNCHANGED <<session, expired, parts, lock, storeVars, req>>
        BY <1>2, SessionAssumption DEF GcAbandon, IInv, TypeOK
    <2>2. stray' \subseteq Calls
        BY <2>1, CallTyped DEF IInv, TypeOK
    <2> QED BY <2>1, <2>2, RowsUnchangedStep DEF IInv, TypeOK, storeVars
<1>3. ASSUME NEW c \in stray, Land(c)
      PROVE  IInv'
    <2>1. /\ c \in Calls /\ stray' \subseteq Calls
          /\ (Accepts(c) /\ Apply(c)) \/ UNCHANGED storeVars
          /\ UNCHANGED <<session, expired, parts, lock, req, gc, faults>>
        BY <1>3 DEF Land, IInv, TypeOK
    <2>2. /\ mpu' \in {"none", "open", "completed", "aborted"}
          /\ DOMAIN stored' \subseteq 0..MaxParts
          /\ stored' \in [DOMAIN stored' -> Chunks]
          /\ object' \in Seq(Chunks) \cup {NoObject}
        BY <2>1, ApplyTyped DEF storeVars, IInv, TypeOK
    <2> QED BY <2>1, <2>2, RowsUnchangedStep DEF IInv, TypeOK
<1>4. ASSUME NEW c \in stray, Lose(c)
      PROVE  IInv'
    <2>1. /\ stray' \subseteq Calls
          /\ UNCHANGED <<session, expired, parts, lock, storeVars, req, gc, faults>>
        BY <1>4 DEF Lose, IInv, TypeOK
    <2> QED BY <2>1, RowsUnchangedStep DEF IInv, TypeOK, storeVars
<1> QED BY <1>1, <1>2, <1>3, <1>4, InsertFailsStep DEF Fault

-----------------------------------------------------------------------------
(* Theorems *)

\* The invariant holds at the start.
LEMMA InitInv == Init => IInv
<1> SUFFICES ASSUME Init PROVE IInv
    OBVIOUS
<1>1. \A r \in Requests : req[r] = Idle
    BY DEF Init
<1>2. TypeOK
    <2>1. /\ session \in Row /\ parts \in Seq(PartRows)
          /\ DOMAIN stored = {} /\ faults \in 0..MaxFaults
        BY SessionAssumption DEF Init, Row, Statuses, NoSize
    <2>2. stored \in [DOMAIN stored -> Chunks]
        <3>1. stored = << >>
            BY DEF Init
        <3> QED BY <2>1, <3>1
    <2>3. req \in [Requests -> Locals]
        BY IdleTyped DEF Init
    <2> QED BY <2>1, <2>2, <2>3 DEF Init, TypeOK
<1>3. LockInv /\ SingleFinalizer /\ PostInv
    BY <1>1, SessionAssumption
    DEF Init, Idle, LockInv, SingleFinalizer, PostInv, Locked, LockedPoints, Finalizing, FinalizerPoints, Posting, PostPoints
<1>4. PartsTile
    BY DEF Init, PartsTile, PartsEnd
<1> QED BY <1>2, <1>3, <1>4 DEF IInv, Inv

\* Every step keeps it.
LEMMA NextInv == IInv /\ [Next]_vars => IInv'
<1> SUFFICES ASSUME IInv, [Next]_vars PROVE IInv'
    OBVIOUS
<1>1. ASSUME NEW r \in Requests, Arrive(r)
      PROVE  IInv'
    BY <1>1, ReceivePostStep, ReceivePatchPutDeleteStep DEF Arrive
<1>2. ASSUME NEW r \in Requests, Step(r)
      PROVE  IInv'
    BY <1>2, InitiateStep, InsertSessionStep, UnstartStep, SelectForUpdateStep, AdmitStep,
       RejectStep, StorePartStep, PersistPatchStep, FinalizeStep, ReadPartsStep,
       CompleteMultipartStep, AbortEmptyStep, PutEmptyStep, HashStep, DiscardStep,
       MarkFailedStep, CommitBlobStep, DeleteDuplicateStep, FetchStep, AbortCancelledStep,
       MarkCancelledStep
    DEF Step
<1>3. CASE GcStep
    BY <1>3, GcStepInv
<1>4. CASE Expire
    BY <1>4, RowsUnchangedStep DEF Expire, IInv, TypeOK, storeVars
<1>5. CASE Fault
    BY <1>5, FaultStep
<1>6. CASE UNCHANGED vars
    BY <1>6, RowsUnchangedStep DEF vars, IInv, TypeOK
<1> QED BY <1>1, <1>2, <1>3, <1>4, <1>5, <1>6 DEF Next

\* The inductive invariant holds in every reachable state.
THEOREM Invariance == Spec => []IInv
BY InitInv, NextInv, PTL DEF Spec

\* The state of the session, its parts, the store and every handler stays
\* well formed; in particular the CHECK constraints of upload_sessions on
\* accepted_offset and next_part_number are never violated.
THEOREM TypeCorrect == Spec => []TypeOK
<1>1. IInv => TypeOK
    BY DEF IInv
<1> QED BY <1>1, Invariance, PTL

\* Whatever requests run side by side, fail or are dropped, accepted_offset
\* is the end of a gapless run of parts, each validated where the previous
\* one ends, and parts sent with a Content-Range hold the right bytes.
THEOREM PartsAlwaysTile == Spec => []PartsTile
<1>1. IInv => PartsTile
    BY DEF IInv, Inv
<1> QED BY <1>1, Invariance, PTL

\* However many PUTs race, at most one decides the outcome of the session.
THEOREM OneFinalizer == Spec => []SingleFinalizer
<1>1. IInv => SingleFinalizer
    BY DEF IInv, Inv
<1> QED BY <1>1, Invariance, PTL

\* The seven statements that change the status, each in a state where the
\* change is an allowed one.
LEMMA StatusStep ==
    ASSUME IInv, [Next]_vars, session.status' # session.status
    PROVE  <<session.status, session.status'>> \in StatusSteps
<1>0. session \in Row
    BY DEF IInv, TypeOK
<1>1. ASSUME NEW r \in Requests, InsertSession(r)
      PROVE  <<session.status, session.status'>> \in StatusSteps
    <2>1. session.status = "absent" /\ session.status' = "uploading"
        BY <1>0, <1>1 DEF InsertSession, IInv, Inv, PostInv, Posting, PostPoints, Row
    <2> QED BY <2>1 DEF StatusSteps
<1>2. ASSUME NEW r \in Requests, PersistPatch(r)
      PROVE  FALSE
    BY <1>0, <1>2 DEF PersistPatch, PersistPart, Row
<1>3. ASSUME NEW r \in Requests, Finalize(r)
      PROVE  <<session.status, session.status'>> \in StatusSteps
    <2>1. session.status = "uploading"
        BY <1>3 DEF Finalize, IInv, Inv, LockInv, Locked, LockedPoints
    <2>2. session.status' = "finalizing"
        BY <1>0, <1>3 DEF Finalize, PersistPart, Row
    <2> QED BY <2>1, <2>2 DEF StatusSteps
<1>4. ASSUME NEW r \in Requests, MarkFailed(r)
      PROVE  <<session.status, session.status'>> \in StatusSteps
    <2>1. session.status \in {"finalizing", "failed"}
        BY <1>4 DEF MarkFailed, IInv, Inv, SingleFinalizer, Finalizing, FinalizerPoints
    <2>2. session.status' = "failed"
        BY <1>0, <1>4 DEF MarkFailed, Row
    <2> QED BY <2>1, <2>2 DEF StatusSteps
<1>5. ASSUME NEW r \in Requests, NEW duplicate \in BOOLEAN, CommitBlob(r, duplicate)
      PROVE  <<session.status, session.status'>> \in StatusSteps
    <2>1. session.status \in {"finalizing", "failed"}
        BY <1>5 DEF CommitBlob, IInv, Inv, SingleFinalizer, Finalizing, FinalizerPoints
    <2>2. session.status' = "committed"
        BY <1>0, <1>5 DEF CommitBlob, Row
    <2> QED BY <2>1, <2>2 DEF StatusSteps
<1>6. ASSUME NEW r \in Requests, MarkCancelled(r)
      PROVE  <<session.status, session.status'>> \in StatusSteps
    <2>1. session.status = "uploading" /\ session.status' = "cancelled"
        BY <1>0, <1>6 DEF MarkCancelled, Row
    <2> QED BY <2>1 DEF StatusSteps
<1>7. ASSUME GcFail
      PROVE  <<session.status, session.status'>> \in StatusSteps
    <2>1. session.status \in {"uploading", "finalizing"} /\ session.status' = "failed"
        BY <1>0, <1>7 DEF GcFail, Row
    <2> QED BY <2>1 DEF StatusSteps
<1>8. ASSUME NEW r \in Requests, Arrive(r)
      PROVE  FALSE
    BY <1>8 DEF Arrive, ReceivePost, ReceivePatch, ReceivePut, ReceiveDelete, Receive
<1>9. ASSUME NEW r \in Requests,
             \/ Initiate(r) \/ Unstart(r) \/ SelectForUpdate(r) \/ Admit(r) \/ Reject(r)
             \/ StorePart(r) \/ ReadParts(r) \/ CompleteMultipart(r) \/ AbortEmpty(r)
             \/ PutEmpty(r) \/ Hash(r) \/ Discard(r) \/ DeleteDuplicate(r)
             \/ Fetch(r) \/ AbortCancelled(r)
      PROVE  FALSE
    BY <1>9 DEF Initiate, Unstart, SelectForUpdate, Admit, Reject, StorePart, ReadParts,
       CompleteMultipart, AbortEmpty, PutEmpty, Hash, Discard, DeleteDuplicate, Fetch,
       AbortCancelled, Await, AwaitAbort
<1>10. CASE GcSelect \/ GcAbort \/ Expire \/ UNCHANGED vars
    BY <1>10 DEF GcSelect, GcAbort, Expire, vars
<1>11. ASSUME Fault
       PROVE  FALSE
    BY <1>11 DEF Fault, InsertFails, Abandon, GcAbandon, Land, Lose
<1> QED
    BY <1>1, <1>2, <1>3, <1>4, <1>5, <1>6, <1>7, <1>8, <1>9, <1>10, <1>11
    DEF Next, Step, GcStep

\* Outcomes are final: nothing leaves 'committed' or 'cancelled', and no
\* step skips 'finalizing' or takes a session back to 'uploading'.
THEOREM OutcomesAreFinal == Spec => OutcomeIsFinal
<1>1. IInv /\ [Next]_vars =>
        [session.status' # session.status =>
            <<session.status, session.status'>> \in StatusSteps]_vars
    BY StatusStep
<1> QED BY <1>1, Invariance, PTL DEF Spec, OutcomeIsFinal

-----------------------------------------------------------------------------
(***************************************************************************)
(* What is committed is what was hashed, and the session implements        *)
(* ChunkedUpload.                                                          *)
(*                                                                         *)
(* Calls to the store outlive the handlers that made them.  StrayInv says  *)
(* that a left behind call which could replace or remove the object        *)
(* belonged to the session's one finalizer, which is gone then: so the     *)
(* object stays as the finalizer has assembled it, from ReadParts to       *)
(* commit_blob.                                                            *)
(***************************************************************************)

\* Calls that write or remove the object.
Ending(c) == c.op \in {"complete", "put", "delete"}

\* Statuses without an object.
Without == {"absent", "uploading", "cancelled"}

StrayInv ==
    \A c \in stray : Ending(c) =>
        session.status \notin Without /\ \A r \in Requests : ~Finalizing(req[r])

\* What a handler relies on at the point where it is.
Follows(r) ==
    /\ req[r].pc = "dedup" => session.status = "committed"
    /\ req[r].pc \in {"store", "persist"} => req[r].chunk.size > 0
    /\ req[r].pc = "complete" => req[r].list = Contents(parts)
    /\ req[r].pc \in {"empty", "put"} => DOMAIN parts = {}
    /\ req[r].pc \in {"hash", "commit"} => object = Contents(parts)
    /\ req[r].pc = "commit" => object # NoObject /\ Tiles(object, req[r].expected)

FollowInv == \A r \in Requests : Follows(r)

\* As far as the recorded parts continue each other in the file they hold
\* the bytes that belong at the offset where they were accepted.
ChainInv ==
    \A n \in DOMAIN parts :
        (\A m \in 1 .. n : parts[m].from = IF m = 1 THEN 0 ELSE parts[m - 1].from + parts[m - 1].size)
            => \A m \in 1 .. n : parts[m].from = parts[m].at

SInv == StrayInv /\ FollowInv /\ ChainInv /\ NoObjectUnlessFinalized
RInv == IInv /\ SInv

-----------------------------------------------------------------------------
(* Steps that leave the object and the parts alone *)

\* Calls that leave the object alone, and what is pending of the others.
LEMMA ApplyQuiet ==
    ASSUME NEW op \in {"create", "abort"}, Apply(Call(op))
    PROVE  object' = object
BY DEF Apply, Call

LEMMA ApplyPart ==
    ASSUME NEW n, NEW c, Apply(PartCall(n, c))
    PROVE  object' = object
BY DEF Apply, PartCall, Call

\* A status that has an object, or is final, does not change into one that
\* has none, or is not.
LEMMA StatusKept ==
    ASSUME IInv, [Next]_vars
    PROVE  /\ session.status \notin Without => session'.status \notin Without
           /\ session.status = "committed" => session'.status = "committed"
<1>1. session'.status = session.status \/ <<session.status, session'.status>> \in StatusSteps
    BY StatusStep
<1> QED BY <1>1 DEF StatusSteps, Without

\* One handler goes on: it has to follow, the others do.
LEMMA QuietStep ==
    ASSUME RInv, [Next]_vars, NEW r \in Requests, UNCHANGED <<parts, object>>,
           \A q \in Requests \ {r} : req'[q] = req[q],
           \A c \in stray' : c \in stray \/ ~Ending(c),
           Finalizing(req'[r]) => Finalizing(req[r]),
           Follows(r)'
    PROVE  SInv'
<1>1. /\ session.status \notin Without => session'.status \notin Without
      /\ session.status = "committed" => session'.status = "committed"
    BY StatusKept DEF RInv
<1>2. StrayInv'
    <2> SUFFICES ASSUME NEW c \in stray', Ending(c)
                 PROVE  session'.status \notin Without /\ \A q \in Requests : ~Finalizing(req'[q])
        BY DEF StrayInv, Finalizing
    <2>1. c \in stray
        OBVIOUS
    <2>2. session.status \notin Without /\ \A q \in Requests : ~Finalizing(req[q])
        BY <2>1 DEF RInv, SInv, StrayInv
    <2> QED BY <1>1, <2>2
<1>3. FollowInv'
    <2> SUFFICES ASSUME NEW q \in Requests, q # r PROVE Follows(q)'
        BY DEF FollowInv
    <2>1. Follows(q) /\ req'[q] = req[q]
        BY DEF RInv, SInv, FollowInv
    <2> QED BY <1>1, <2>1 DEF Follows, Contents
<1>4. ChainInv' /\ NoObjectUnlessFinalized'
    BY <1>1 DEF RInv, SInv, ChainInv, NoObjectUnlessFinalized, Without
<1> QED BY <1>2, <1>3, <1>4 DEF SInv

\* No handler goes on.
LEMMA OutsideStep ==
    ASSUME RInv, [Next]_vars, UNCHANGED <<parts, object, req>>,
           \A c \in stray' : c \in stray \/ ~Ending(c)
    PROVE  SInv'
<1>1. /\ session.status \notin Without => session'.status \notin Without
      /\ session.status = "committed" => session'.status = "committed"
    BY StatusKept DEF RInv
<1>2. StrayInv'
    BY <1>1 DEF RInv, SInv, StrayInv
<1>3. FollowInv'
    BY <1>1 DEF RInv, SInv, FollowInv, Follows, Contents
<1>4. ChainInv' /\ NoObjectUnlessFinalized'
    BY <1>1 DEF RInv, SInv, ChainInv, NoObjectUnlessFinalized, Without
<1> QED BY <1>2, <1>3, <1>4 DEF SInv

\* Points at which a handler relies on nothing.
Free == Points \ {"dedup", "store", "persist", "complete", "empty", "put", "hash", "commit"}

\* The handler goes on to such a point or returns.
LEMMA FreeStep ==
    ASSUME RInv, [Next]_vars, NEW r \in Requests, UNCHANGED <<parts, object, stray>>,
           \/ \E p \in Free : Goto(r, p) /\ (p \in FinalizerPoints => Finalizing(req[r]))
           \/ req' = [req EXCEPT ![r] = Idle]
    PROVE  SInv'
<1>1. req \in [Requests -> Locals] /\ req[r] \in Locals
    BY DEF RInv, IInv, TypeOK
<1>2. \A q \in Requests \ {r} : req'[q] = req[q]
    BY <1>1 DEF Goto
<1>3. CASE req' = [req EXCEPT ![r] = Idle]
    <2>1. req'[r].pc = "idle"
        BY <1>1, <1>3 DEF Idle
    <2>2. Follows(r)' /\ ~Finalizing(req'[r])
        BY <2>1 DEF Follows, Finalizing, FinalizerPoints
    <2> QED BY <1>2, <2>2, QuietStep
<1>4. ASSUME NEW p \in Free, Goto(r, p), p \in FinalizerPoints => Finalizing(req[r])
      PROVE  SInv'
    <2>1. req'[r].pc = p
        BY <1>1, <1>4 DEF Goto, Locals
    <2>2. Follows(r)' /\ (Finalizing(req'[r]) => Finalizing(req[r]))
        BY <1>4, <2>1 DEF Free, Follows, Finalizing
    <2> QED BY <1>2, <2>2, QuietStep
<1> QED BY <1>3, <1>4

\* So it does after a call that leaves the object alone.
LEMMA AwaitFree ==
    ASSUME RInv, [Next]_vars, NEW r \in Requests, NEW c \in Calls, NEW p \in Free, Await(r, c, p),
           Apply(c) => object' = object, p \in FinalizerPoints => Finalizing(req[r])
    PROVE  SInv'
<1>1. UNCHANGED <<parts, stray>>
    BY DEF Await
<1>2. \/ object' = object /\ Goto(r, p)
      \/ object' = object /\ req' = [req EXCEPT ![r] = Idle]
    BY DEF Await, Finish, storeVars
<1> QED BY <1>1, <1>2, FreeStep

LEMMA AwaitAbortQuiet ==
    ASSUME NEW r \in Requests, NEW p, AwaitAbort(r, p)
    PROVE  /\ UNCHANGED <<session, parts, object, stray>>
           /\ Goto(r, p) \/ req' = [req EXCEPT ![r] = Idle]
BY ApplyQuiet DEF AwaitAbort, Finish, storeVars

LEMMA ArriveFollows ==
    ASSUME RInv, [Next]_vars, NEW r \in Requests, Arrive(r)
    PROVE  SInv'
<1>1. \E new : Receive(r, new) /\ new.pc \in {"initiate", "select", "fetch"}
    <2>1. ASSUME NEW i \in Inputs, NEW e \in Digests, NEW mono \in BOOLEAN, ReceivePost(r, i, e, mono)
          PROVE  \E new : Receive(r, new) /\ new.pc = "initiate"
        <3> DEFINE new == [Idle EXCEPT !.op = "post", !.pc = "initiate", !.chunk = i.chunk,
                                       !.ranged = i.ranged, !.expected = e, !.monolithic = mono]
        <3>1. Receive(r, new) /\ new.pc = "initiate"
            BY <2>1 DEF ReceivePost, Idle
        <3> HIDE DEF new
        <3> QED BY <3>1
    <2>2. ASSUME NEW i \in Inputs, ReceivePatch(r, i)
          PROVE  \E new : Receive(r, new) /\ new.pc = "select"
        <3> DEFINE new == [Idle EXCEPT !.op = "patch", !.pc = "select", !.chunk = i.chunk,
                                       !.ranged = i.ranged]
        <3>1. Receive(r, new) /\ new.pc = "select"
            BY <2>2 DEF ReceivePatch, Idle
        <3> HIDE DEF new
        <3> QED BY <3>1
    <2>3. ASSUME NEW i \in Inputs, NEW e \in Digests, ReceivePut(r, i, e)
          PROVE  \E new : Receive(r, new) /\ new.pc = "select"
        <3> DEFINE new == [Idle EXCEPT !.op = "put", !.pc = "select", !.chunk = i.chunk,
                                       !.ranged = i.ranged, !.expected = e]
        <3>1. Receive(r, new) /\ new.pc = "select"
            BY <2>3 DEF ReceivePut, Idle
        <3> HIDE DEF new
        <3> QED BY <3>1
    <2>4. ASSUME ReceiveDelete(r)
          PROVE  \E new : Receive(r, new) /\ new.pc = "fetch"
        <3> DEFINE new == [Idle EXCEPT !.op = "delete", !.pc = "fetch"]
        <3>1. Receive(r, new) /\ new.pc = "fetch"
            BY <2>4 DEF ReceiveDelete, Idle
        <3> HIDE DEF new
        <3> QED BY <3>1
    <2> QED BY <2>1, <2>2, <2>3, <2>4 DEF Arrive
<1>2. PICK new : Receive(r, new) /\ new.pc \in {"initiate", "select", "fetch"}
    BY <1>1
<1>3. /\ UNCHANGED <<parts, object, stray>> /\ req'[r] = new
      /\ \A q \in Requests \ {r} : req'[q] = req[q]
    BY <1>2 DEF Receive, storeVars, RInv, IInv, TypeOK
<1>4. Follows(r)' /\ ~Finalizing(req'[r])
    BY <1>2, <1>3 DEF Follows, Finalizing, FinalizerPoints
<1> QED BY <1>3, <1>4, QuietStep

LEMMA PostFollows ==
    ASSUME RInv, [Next]_vars, NEW r \in Requests,
           Initiate(r) \/ InsertSession(r) \/ InsertFails(r) \/ Unstart(r)
    PROVE  SInv'
<1>1. CASE Initiate(r)
    BY <1>1, CallTyped, ApplyQuiet, AwaitFree DEF Initiate, Free, Points, FinalizerPoints
<1>2. CASE InsertSession(r)
    <2>1. req[r] \in Locals /\ req \in [Requests -> Locals]
        BY DEF RInv, IInv, TypeOK
    <2>2. req'[r].pc \in {"select", "idle"} /\ \A q \in Requests \ {r} : req'[q] = req[q]
        BY <1>2, <2>1 DEF InsertSession, Idle, Locals
    <2>3. Follows(r)' /\ ~Finalizing(req'[r])
        BY <2>2 DEF Follows, Finalizing, FinalizerPoints
    <2> QED BY <1>2, <2>2, <2>3, QuietStep DEF InsertSession, storeVars
<1>3. CASE InsertFails(r)
    BY <1>3, FreeStep DEF InsertFails, storeVars, Free, Points, FinalizerPoints
<1>4. CASE Unstart(r)
    <2>1. UNCHANGED <<parts, object, stray>> /\ req' = [req EXCEPT ![r] = Idle]
        BY <1>4, ApplyQuiet DEF Unstart, Finish, storeVars
    <2> QED BY <2>1, FreeStep
<1> QED BY <1>1, <1>2, <1>3, <1>4

LEMMA LockFollows ==
    ASSUME RInv, [Next]_vars, NEW r \in Requests,
           SelectForUpdate(r) \/ Admit(r) \/ Reject(r) \/ StorePart(r)
    PROVE  SInv'
<1>0. req[r] \in Locals /\ req \in [Requests -> Locals] /\ Follows(r)
    BY DEF RInv, SInv, FollowInv, IInv, TypeOK
<1>1. CASE SelectForUpdate(r)
    <2>1. req'[r].pc = "lock" /\ \A q \in Requests \ {r} : req'[q] = req[q]
        BY <1>0, <1>1 DEF SelectForUpdate, Locals
    <2>2. Follows(r)' /\ ~Finalizing(req'[r])
        BY <2>1 DEF Follows, Finalizing, FinalizerPoints
    <2> QED BY <1>1, <2>1, <2>2, QuietStep DEF SelectForUpdate, storeVars
<1>2. CASE Admit(r)
    <2>1. /\ req'[r].pc = IF req[r].chunk.size > 0 THEN "store" ELSE "finalize"
          /\ req'[r].chunk = req[r].chunk
          /\ \A q \in Requests \ {r} : req'[q] = req[q]
        BY <1>0, <1>2 DEF Admit, Locals
    <2>2. Follows(r)' /\ ~Finalizing(req'[r])
        BY <2>1 DEF Follows, Finalizing, FinalizerPoints
    <2> QED BY <1>2, <2>1, <2>2, QuietStep DEF Admit, storeVars
<1>3. CASE Reject(r)
    BY <1>3, FreeStep DEF Reject, Finish, storeVars
<1>4. CASE StorePart(r)
    <2> DEFINE c == PartCall(req[r].n, req[r].chunk)
               p == IF req[r].op = "patch" THEN "persist" ELSE "finalize"
    <2>1. /\ req[r].pc = "store" /\ Await(r, c, p) /\ req[r].chunk.size > 0
        BY <1>0, <1>4 DEF StorePart, Follows
    <2>2. UNCHANGED <<parts, stray, object>>
        BY <2>1, ApplyPart DEF Await, storeVars
    <2>3. CASE Goto(r, p)
        <3>1. req'[r].pc \in {"persist", "finalize"} /\ req'[r].chunk = req[r].chunk
              /\ \A q \in Requests \ {r} : req'[q] = req[q]
            BY <1>0, <2>3 DEF Goto, Locals
        <3>2. Follows(r)' /\ ~Finalizing(req'[r])
            BY <2>1, <3>1 DEF Follows, Finalizing, FinalizerPoints
        <3> QED BY <2>2, <3>1, <3>2, QuietStep
    <2>4. CASE Finish(r)
        BY <2>2, <2>4, FreeStep DEF Finish
    <2> QED BY <2>1, <2>3, <2>4 DEF Await
<1> QED BY <1>1, <1>2, <1>3, <1>4

-----------------------------------------------------------------------------
(* A part is recorded *)

\* A handler that works on a chunk has the lock of a session that takes it.
LEMMA Admitted ==
    ASSUME RInv, NEW r \in Requests, Locked(req[r])
    PROVE  /\ session.status = "uploading" /\ req[r].n = session.next /\ req[r].at = session.offset
           /\ session.offset = PartsEnd /\ DOMAIN parts = 1 .. session.next - 1 /\ session.next \in Nat \ {0}
           /\ \A q \in Requests : ~Finalizing(req[q])
<1>1. session.status = "uploading" /\ req[r].n = session.next /\ req[r].at = session.offset
    BY DEF RInv, IInv, Inv, LockInv
<1>2. session.offset = PartsEnd /\ DOMAIN parts = 1 .. session.next - 1
    BY <1>1 DEF RInv, IInv, Inv, PartsTile
<1>3. \A q \in Requests : ~Finalizing(req[q])
    BY <1>1 DEF RInv, IInv, Inv, SingleFinalizer
<1>4. session.next \in Nat \ {0}
    BY DEF RInv, IInv, TypeOK, Row
<1> QED BY <1>1, <1>2, <1>3, <1>4

\* The new row follows the others.
LEMMA PersistRows ==
    ASSUME RInv, NEW r \in Requests, Locked(req[r]), NEW establish \in BOOLEAN, NEW status \in Statuses,
           PersistPart(req[r], establish, status)
    PROVE  /\ session.next \in Nat \ {0} /\ DOMAIN parts = 1 .. session.next - 1
           /\ DOMAIN parts' = 1 .. session.next
           /\ parts'[session.next] = [from |-> req[r].chunk.from, size |-> req[r].chunk.size,
                                      at |-> req[r].at, ranged |-> req[r].ranged]
           /\ \A m \in 1 .. session.next - 1 : parts'[m] = parts[m]
           /\ session'.offset = session.offset + req[r].chunk.size /\ session'.status = status
<1>1. /\ req[r].n = session.next /\ DOMAIN parts = 1 .. session.next - 1 /\ session.next \in Nat \ {0}
    BY Admitted
<1>2. session \in Row
    BY DEF RInv, IInv, TypeOK
<1>3. session'.offset = session.offset + req[r].chunk.size /\ session'.status = status
    BY <1>2 DEF PersistPart, Row
<1>4. (1 .. session.next - 1) \cup {session.next} = 1 .. session.next
    BY <1>1
<1>5. parts' = [m \in 1 .. session.next |->
                   IF m = session.next
                   THEN [from |-> req[r].chunk.from, size |-> req[r].chunk.size, at |-> req[r].at,
                         ranged |-> req[r].ranged]
                   ELSE parts[m]]
    BY <1>1, <1>4 DEF PersistPart, Put
<1> QED BY <1>1, <1>3, <1>5

LEMMA PersistChain ==
    ASSUME RInv, NEW r \in Requests, Locked(req[r]), NEW establish \in BOOLEAN, NEW status \in Statuses,
           PersistPart(req[r], establish, status)
    PROVE  ChainInv'
<1> DEFINE n == session.next
           Chained(p, k) == \A m \in 1 .. k : p[m].from = IF m = 1 THEN 0 ELSE p[m - 1].from + p[m - 1].size
           Placed(p, k) == \A m \in 1 .. k : p[m].from = p[m].at
<1>1. /\ n \in Nat \ {0} /\ DOMAIN parts = 1 .. n - 1 /\ DOMAIN parts' = 1 .. n
      /\ parts'[n].from = req[r].chunk.from /\ parts'[n].at = req[r].at
      /\ \A m \in 1 .. n - 1 : parts'[m] = parts[m]
    <2>1. /\ session.next \in Nat \ {0} /\ DOMAIN parts = 1 .. session.next - 1
          /\ DOMAIN parts' = 1 .. session.next
          /\ parts'[session.next] = [from |-> req[r].chunk.from, size |-> req[r].chunk.size,
                                     at |-> req[r].at, ranged |-> req[r].ranged]
          /\ \A m \in 1 .. session.next - 1 : parts'[m] = parts[m]
        BY PersistRows
    <2> QED BY <2>1
<1>2. req[r].at = IF n = 1 THEN 0 ELSE parts[n - 1].at + parts[n - 1].size
    BY Admitted DEF PartsEnd
<1>3. \A k \in 1 .. n - 1 : Chained(parts, k) => Placed(parts, k)
    BY <1>1 DEF RInv, SInv, ChainInv
<1> HIDE DEF n
<1>4. ASSUME NEW k \in 1 .. n - 1, Chained(parts', k)
      PROVE  Placed(parts', k)
    <2>1. \A m \in 1 .. k : m \in 1 .. n - 1 /\ (m # 1 => m - 1 \in 1 .. n - 1)
        BY <1>1
    <2>2. Chained(parts, k)
        BY <1>1, <1>4, <2>1
    <2> QED BY <1>1, <1>3, <2>1, <2>2
<1>5. ASSUME Chained(parts', n)
      PROVE  Placed(parts', n)
    <2>1. parts'[n].from = parts'[n].at
        <3>1. CASE n = 1
            BY <1>1, <1>2, <1>5, <3>1
        <3>2. CASE n # 1
            <4>1. n - 1 \in 1 .. n - 1 /\ n \in 1 .. n
                BY <1>1, <3>2
            <4>2. Chained(parts', n - 1)
                BY <1>1, <1>5
            <4>3. parts'[n - 1].from = parts'[n - 1].at /\ parts'[n - 1] = parts[n - 1]
                BY <1>1, <1>4, <4>1, <4>2
            <4>4. parts'[n].from = parts'[n - 1].from + parts'[n - 1].size
                BY <1>5, <3>2, <4>1
            <4> QED BY <1>1, <1>2, <3>2, <4>3, <4>4
        <3> QED BY <3>1, <3>2
    <2>2. \A m \in 1 .. n - 1 : parts'[m].from = parts'[m].at
        <3>1. CASE n = 1
            BY <3>1
        <3>2. CASE n # 1
            <4>1. n - 1 \in 1 .. n - 1
                BY <1>1, <3>2
            <4>2. Chained(parts', n - 1)
                BY <1>1, <1>5
            <4> QED BY <1>4, <4>1, <4>2
        <3> QED BY <3>1, <3>2
    <2> QED BY <1>1, <2>1, <2>2
<1>6. \A k \in 1 .. n : k \in 1 .. n - 1 \/ k = n
    BY <1>1
<1> QED BY <1>1, <1>4, <1>5, <1>6 DEF ChainInv

\* A part is recorded, or the session given up to finalization, in one
\* transaction under the lock: no call that could touch the object is left.
LEMMA RowStep ==
    ASSUME RInv, NEW r \in Requests, Locked(req[r]), ChainInv', UNCHANGED <<object, stray>>,
           session'.status \in {"uploading", "finalizing"},
           \A q \in Requests \ {r} : req'[q] = req[q], req'[r].pc \in {"idle", "parts"}
    PROVE  SInv'
<1>1. session.status = "uploading" /\ \A q \in Requests : ~Finalizing(req[q])
    BY Admitted
<1>2. StrayInv'
    BY <1>1 DEF RInv, SInv, StrayInv, Without
<1>3. FollowInv'
    <2> SUFFICES ASSUME NEW q \in Requests PROVE Follows(q)'
        BY DEF FollowInv
    <2>1. CASE q = r
        BY <2>1 DEF Follows
    <2>2. CASE q # r
        <3>1. req'[q] = req[q] /\ req[q].pc \notin FinalizerPoints /\ Follows(q)
            BY <1>1, <2>2 DEF Finalizing, RInv, SInv, FollowInv
        <3>2. req[q].pc # "dedup"
            BY <1>1, <3>1 DEF Follows
        <3> QED BY <3>1, <3>2 DEF Follows, FinalizerPoints
    <2> QED BY <2>1, <2>2
<1>4. NoObjectUnlessFinalized'
    BY <1>1 DEF RInv, SInv, NoObjectUnlessFinalized
<1> QED BY <1>2, <1>3, <1>4 DEF SInv

\* The finalizer starts over with the parts to be read.
LEMMA FinalizeGoesOn ==
    ASSUME RInv, NEW r \in Requests, Finalize(r)
    PROVE  req'[r].pc = "parts" /\ \A q \in Requests \ {r} : req'[q] = req[q]
<1>1. req \in [Requests -> Locals]
    BY DEF RInv, IInv, TypeOK, Idle
<1> QED BY <1>1 DEF Finalize, Idle

LEMMA PersistFollows ==
    ASSUME RInv, NEW r \in Requests, PersistPatch(r) \/ Finalize(r)
    PROVE  SInv'
<1>0. /\ req[r] \in Locals /\ req \in [Requests -> Locals] /\ session \in Row
      /\ Locked(req[r]) /\ UNCHANGED <<object, stray>>
    BY DEF RInv, IInv, TypeOK, Locked, LockedPoints, PersistPatch, Finalize, storeVars
<1>1. CASE PersistPatch(r)
    <2>1. req[r].n \notin DOMAIN parts /\ session.status = "uploading"
        BY <1>0, Admitted
    <2>2. PersistPart(req[r], TRUE, session.status)
        BY <1>1, <2>1 DEF PersistPatch
    <2>3. session.status \in Statuses /\ TRUE \in BOOLEAN
        BY <1>0 DEF Row
    <2>4. ChainInv' /\ session'.status = session.status
        BY <1>0, <2>2, <2>3, PersistChain, PersistRows
    <2>5. req'[r].pc = "idle" /\ \A q \in Requests \ {r} : req'[q] = req[q]
        BY <1>0, <1>1 DEF PersistPatch, Finish, Idle
    <2> QED BY <1>0, <2>1, <2>4, <2>5, RowStep
<1>2. CASE Finalize(r)
    <2>1. CASE PersistPart(req[r], FALSE, "finalizing")
        <3>1. "finalizing" \in Statuses /\ FALSE \in BOOLEAN
            BY DEF Statuses
        <3> QED BY <1>0, <2>1, <3>1, PersistChain, PersistRows, <1>2, FinalizeGoesOn, RowStep
    <2>2. CASE session' = [session EXCEPT !.status = "finalizing"] /\ UNCHANGED parts
        <3>1. ChainInv' /\ session'.status = "finalizing"
            BY <1>0, <2>2 DEF RInv, SInv, ChainInv, Row
        <3> QED BY <1>0, <3>1, <1>2, FinalizeGoesOn, RowStep
    <2> QED BY <1>2, <2>1, <2>2 DEF Finalize
<1> QED BY <1>1, <1>2

-----------------------------------------------------------------------------
(* The finalizer *)

\* The object is assembled from the parts.
LEMMA AssembleStep ==
    ASSUME RInv, NEW r \in Requests, Finalizing(req[r]), UNCHANGED <<session, parts, stray>>,
           object' = Contents(parts), \A q \in Requests \ {r} : req'[q] = req[q], req'[r].pc = "hash"
    PROVE  SInv'
<1>1. /\ session.status \in {"finalizing", "failed"}
      /\ \A q \in Requests \ {r} : ~Finalizing(req[q])
    BY DEF RInv, IInv, Inv, SingleFinalizer
<1>2. StrayInv'
    BY DEF RInv, SInv, StrayInv
<1>3. FollowInv'
    <2> SUFFICES ASSUME NEW q \in Requests PROVE Follows(q)'
        BY DEF FollowInv
    <2>1. CASE q = r
        BY <2>1 DEF Follows, Contents
    <2>2. CASE q # r
        <3>1. req'[q] = req[q] /\ req[q].pc \notin FinalizerPoints /\ Follows(q)
            BY <1>1, <2>2 DEF Finalizing, RInv, SInv, FollowInv
        <3> QED BY <3>1 DEF Follows, FinalizerPoints
    <2> QED BY <2>1, <2>2
<1>4. ChainInv' /\ NoObjectUnlessFinalized'
    BY <1>1 DEF RInv, SInv, ChainInv, NoObjectUnlessFinalized
<1> QED BY <1>2, <1>3, <1>4 DEF SInv

\* The object is removed by the only handler that still works with it.
LEMMA RemoveStep ==
    ASSUME RInv, NEW r \in Requests, UNCHANGED <<session, parts, stray>>, object' = NoObject,
           \A q \in Requests \ {r} : ~Finalizing(req[q]) /\ req'[q] = req[q],
           req'[r].pc \in {"fail", "idle"}, Finalizing(req'[r]) => Finalizing(req[r])
    PROVE  SInv'
<1>1. StrayInv'
    <2>1. \A q \in Requests : Finalizing(req'[q]) => Finalizing(req[q])
        OBVIOUS
    <2> QED BY <2>1 DEF RInv, SInv, StrayInv, Finalizing
<1>2. FollowInv'
    <2> SUFFICES ASSUME NEW q \in Requests PROVE Follows(q)'
        BY DEF FollowInv
    <2>1. CASE q = r
        BY <2>1 DEF Follows
    <2>2. CASE q # r
        <3>1. req'[q] = req[q] /\ req[q].pc \notin FinalizerPoints /\ Follows(q)
            BY <2>2 DEF Finalizing, RInv, SInv, FollowInv
        <3> QED BY <3>1 DEF Follows, FinalizerPoints
    <2> QED BY <2>1, <2>2
<1>3. ChainInv' /\ NoObjectUnlessFinalized'
    BY DEF RInv, SInv, ChainInv, NoObjectUnlessFinalized
<1> QED BY <1>1, <1>2, <1>3 DEF SInv

\* What the finalizer has read is what it completes, and the empty blob
\* stands for no parts.
LEMMA AssembleFollows ==
    ASSUME RInv, [Next]_vars, NEW r \in Requests,
           ReadParts(r) \/ CompleteMultipart(r) \/ AbortEmpty(r) \/ PutEmpty(r)
    PROVE  SInv'
<1>0. req[r] \in Locals /\ req \in [Requests -> Locals] /\ Follows(r) /\ parts \in Seq(PartRows)
    BY DEF RInv, SInv, FollowInv, IInv, TypeOK
<1>1. CASE ReadParts(r)
    <2>1. /\ req'[r].pc = IF DOMAIN parts = {} THEN "empty" ELSE "complete"
          /\ req'[r].list = Contents(parts) /\ \A q \in Requests \ {r} : req'[q] = req[q]
          /\ UNCHANGED <<parts, object, stray>> /\ Finalizing(req[r])
        BY <1>0, <1>1 DEF ReadParts, Locals, storeVars, Finalizing, FinalizerPoints
    <2>2. Follows(r)'
        BY <2>1 DEF Follows, Contents
    <2> QED BY <2>1, <2>2, QuietStep
<1>2. CASE CompleteMultipart(r)
    <2>1. /\ req[r].pc = "complete" /\ Await(r, CompleteCall(req[r].list), "hash")
          /\ Finalizing(req[r]) /\ UNCHANGED <<session, parts, stray>>
        BY <1>2 DEF CompleteMultipart, Await, Finalizing, FinalizerPoints
    <2>2. CASE Apply(CompleteCall(req[r].list)) /\ Goto(r, "hash")
        <3>1. object' = Contents(parts)
            BY <1>0, <2>1, <2>2 DEF Apply, CompleteCall, Call, Follows
        <3>2. req'[r].pc = "hash" /\ \A q \in Requests \ {r} : req'[q] = req[q]
            BY <1>0, <2>2 DEF Goto, Locals
        <3> QED BY <2>1, <3>1, <3>2, AssembleStep
    <2>3. CASE Finish(r) /\ UNCHANGED storeVars
        BY <2>1, <2>3, FreeStep DEF Finish, storeVars
    <2> QED BY <2>1, <2>2, <2>3 DEF Await
<1>3. CASE AbortEmpty(r)
    <2>1. /\ req[r].pc = "empty" /\ UNCHANGED <<parts, object, stray>>
          /\ Goto(r, "put") \/ req' = [req EXCEPT ![r] = Idle]
        BY <1>3, AwaitAbortQuiet DEF AbortEmpty
    <2>2. CASE Goto(r, "put")
        <3>1. req'[r].pc = "put" /\ \A q \in Requests \ {r} : req'[q] = req[q]
            BY <1>0, <2>2 DEF Goto, Locals
        <3>2. Follows(r)' /\ Finalizing(req[r])
            BY <1>0, <2>1, <3>1 DEF Follows, Finalizing, FinalizerPoints
        <3> QED BY <2>1, <3>1, <3>2, QuietStep
    <2>3. CASE req' = [req EXCEPT ![r] = Idle]
        BY <2>1, <2>3, FreeStep
    <2> QED BY <2>1, <2>2, <2>3
<1>4. CASE PutEmpty(r)
    <2>1. /\ req[r].pc = "put" /\ Await(r, Call("put"), "hash")
          /\ Finalizing(req[r]) /\ UNCHANGED <<session, parts, stray>>
        BY <1>4 DEF PutEmpty, Await, Finalizing, FinalizerPoints
    <2>2. CASE Apply(Call("put")) /\ Goto(r, "hash")
        <3>1. object' = << >> /\ DOMAIN parts = {}
            BY <1>0, <2>1, <2>2 DEF Apply, Call, Follows
        <3>2. Contents(parts) = << >>
            BY <3>1 DEF Contents
        <3>3. req'[r].pc = "hash" /\ \A q \in Requests \ {r} : req'[q] = req[q]
            BY <1>0, <2>2 DEF Goto, Locals
        <3> QED BY <2>1, <3>1, <3>2, <3>3, AssembleStep
    <2>3. CASE Finish(r) /\ UNCHANGED storeVars
        BY <2>1, <2>3, FreeStep DEF Finish, storeVars
    <2> QED BY <2>1, <2>2, <2>3 DEF Await
<1> QED BY <1>1, <1>2, <1>3, <1>4

LEMMA OutcomeFollows ==
    ASSUME RInv, [Next]_vars, NEW r \in Requests,
           \/ Hash(r) \/ Discard(r) \/ MarkFailed(r) \/ DeleteDuplicate(r)
           \/ \E duplicate \in BOOLEAN : CommitBlob(r, duplicate)
    PROVE  SInv'
<1>0. /\ req[r] \in Locals /\ req \in [Requests -> Locals] /\ Follows(r) /\ session \in Row
    BY DEF RInv, SInv, FollowInv, IInv, TypeOK
<1>1. CASE Hash(r)
    <2>1. req[r].pc = "hash" /\ UNCHANGED <<session, parts, object, stray>>
        BY <1>1 DEF Hash, storeVars
    <2>2. CASE Finish(r) \/ Goto(r, "discard")
        BY <2>1, <2>2, FreeStep DEF Finish, Free, Points, Finalizing, FinalizerPoints
    <2>3. CASE Goto(r, "commit") /\ object # NoObject /\ Tiles(object, req[r].expected)
        <3>1. /\ req'[r].pc = "commit" /\ req'[r].expected = req[r].expected
              /\ \A q \in Requests \ {r} : req'[q] = req[q]
            BY <1>0, <2>3 DEF Goto, Locals
        <3>2. Tiles(object, req[r].expected)' /\ object = Contents(parts)
            BY <1>0, <2>1, <2>3, <3>1 DEF Follows, Tiles
        <3>3. Follows(r)' /\ Finalizing(req[r])
            BY <2>1, <2>3, <3>1, <3>2 DEF Follows, Contents, Finalizing, FinalizerPoints
        <3> QED BY <2>1, <3>1, <3>3, QuietStep
    <2> QED BY <1>1, <2>2, <2>3 DEF Hash
<1>2. CASE Discard(r)
    <2>1. /\ req[r].pc = "discard" /\ Await(r, Call("delete"), "fail")
          /\ Finalizing(req[r]) /\ UNCHANGED <<session, parts, stray>>
        BY <1>2 DEF Discard, Await, Finalizing, FinalizerPoints
    <2>2. CASE Apply(Call("delete")) /\ Goto(r, "fail")
        <3>1. object' = NoObject
            BY <2>2 DEF Apply, Call
        <3>2. req'[r].pc = "fail" /\ \A q \in Requests \ {r} : req'[q] = req[q]
            BY <1>0, <2>2 DEF Goto, Locals
        <3>3. \A q \in Requests \ {r} : ~Finalizing(req[q])
            BY <2>1 DEF RInv, IInv, Inv, SingleFinalizer
        <3> QED BY <2>1, <3>1, <3>2, <3>3, RemoveStep
    <2>3. CASE Finish(r) /\ UNCHANGED storeVars
        BY <2>1, <2>3, FreeStep DEF Finish, storeVars
    <2> QED BY <2>1, <2>2, <2>3 DEF Await
<1>3. CASE MarkFailed(r)
    BY <1>3, FreeStep DEF MarkFailed, Finish, storeVars
<1>4. CASE DeleteDuplicate(r)
    <2>1. /\ UNCHANGED <<session, parts, stray>> /\ object' = NoObject
          /\ req'[r].pc = "idle" /\ \A q \in Requests \ {r} : req'[q] = req[q]
        BY <1>0, <1>4 DEF DeleteDuplicate, Apply, Call, Finish, Idle
    <2>2. session.status = "committed"
        BY <1>0, <1>4 DEF DeleteDuplicate, Follows
    <2>3. \A q \in Requests : ~Finalizing(req[q])
        BY <2>2 DEF RInv, IInv, Inv, SingleFinalizer
    <2>4. ~Finalizing(req'[r])
        BY <2>1 DEF Finalizing, FinalizerPoints
    <2> QED BY <2>1, <2>3, <2>4, RemoveStep
<1>5. ASSUME NEW duplicate \in BOOLEAN, CommitBlob(r, duplicate)
      PROVE  SInv'
    <2>1. /\ UNCHANGED <<parts, object, stray>> /\ session'.status = "committed"
          /\ req'[r].pc \in {"dedup", "idle"} /\ \A q \in Requests \ {r} : req'[q] = req[q]
        BY <1>0, <1>5 DEF CommitBlob, storeVars, Row, Locals, Idle
    <2>2. Follows(r)' /\ ~Finalizing(req'[r])
        BY <2>1 DEF Follows, Finalizing, FinalizerPoints
    <2> QED BY <2>1, <2>2, QuietStep
<1> QED BY <1>1, <1>2, <1>3, <1>4, <1>5

LEMMA CancelFollows ==
    ASSUME RInv, [Next]_vars, NEW r \in Requests,
           Fetch(r) \/ AbortCancelled(r) \/ MarkCancelled(r)
    PROVE  SInv'
<1>1. CASE Fetch(r)
    <2>1. /\ UNCHANGED <<parts, object, stray>>
          /\ Goto(r, "abort") \/ req' = [req EXCEPT ![r] = Idle]
        BY <1>1 DEF Fetch, Finish, storeVars
    <2> QED BY <2>1, FreeStep DEF Free, Points, FinalizerPoints
<1>2. CASE AbortCancelled(r)
    <2>1. /\ UNCHANGED <<parts, object, stray>>
          /\ Goto(r, "cancel") \/ req' = [req EXCEPT ![r] = Idle]
        BY <1>2, AwaitAbortQuiet DEF AbortCancelled
    <2> QED BY <2>1, FreeStep DEF Free, Points, FinalizerPoints
<1>3. CASE MarkCancelled(r)
    BY <1>3, FreeStep DEF MarkCancelled, Finish, storeVars
<1> QED BY <1>1, <1>2, <1>3

-----------------------------------------------------------------------------
(* The collector, time and faults *)

LEMMA GcFollows ==
    ASSUME RInv, [Next]_vars, GcStep \/ Expire \/ UNCHANGED vars
    PROVE  SInv'
<1>1. UNCHANGED <<parts, object, req, stray>>
    BY ApplyQuiet DEF GcStep, GcSelect, GcAbort, GcFail, Expire, vars, storeVars
<1> QED BY <1>1, OutsideStep

\* The calls that end the object are made at four points.
LEMMA PendingEnding ==
    ASSUME NEW q, NEW c \in Pending(q), Ending(c)
    PROVE  q.pc \in {"complete", "put", "discard", "dedup"}
<1> SUFFICES ASSUME q.pc \notin {"complete", "put", "discard", "dedup"} PROVE FALSE
    OBVIOUS
<1>1. c \in {Call("create"), Call("abort"), PartCall(q.n, q.chunk)}
    BY DEF Pending
<1>2. /\ Call("create").op = "create" /\ Call("abort").op = "abort"
      /\ PartCall(q.n, q.chunk).op = "part"
    BY DEF Call, PartCall
<1> QED BY <1>1, <1>2 DEF Ending

\* A call left behind ends the object only if the finalizer made it.
LEMMA AbandonFollows ==
    ASSUME RInv, NEW r \in Requests, Abandon(r)
    PROVE  SInv'
<1>0. /\ req \in [Requests -> Locals] /\ UNCHANGED <<session, parts, object>>
      /\ stray' = stray \cup Pending(req[r])
    BY DEF RInv, IInv, TypeOK, Abandon, storeVars
<1>1. req'[r].pc = "idle" /\ \A q \in Requests \ {r} : req'[q] = req[q]
    BY <1>0 DEF Abandon, Finish, Idle
<1>2. ~Finalizing(req'[r]) /\ \A q \in Requests \ {r} : Finalizing(req'[q]) => Finalizing(req[q])
    BY <1>1 DEF Finalizing, FinalizerPoints
<1>3. StrayInv'
    <2> SUFFICES ASSUME NEW c \in stray', Ending(c)
                 PROVE  session.status \notin Without /\ \A q \in Requests : ~Finalizing(req'[q])
        BY <1>0 DEF StrayInv, Finalizing
    <2>1. CASE c \in stray
        BY <1>2, <2>1 DEF RInv, SInv, StrayInv
    <2>2. CASE c \in Pending(req[r])
        <3>1. req[r].pc \in {"complete", "put", "discard", "dedup"}
            BY <2>2, PendingEnding
        <3>2. CASE req[r].pc = "dedup"
            <4>1. session.status = "committed"
                BY <3>2 DEF RInv, SInv, FollowInv, Follows
            <4>2. \A q \in Requests : ~Finalizing(req[q])
                BY <4>1 DEF RInv, IInv, Inv, SingleFinalizer
            <4> QED BY <1>2, <4>1, <4>2 DEF Without
        <3>3. CASE req[r].pc # "dedup"
            <4>1. Finalizing(req[r])
                BY <3>1, <3>3 DEF Finalizing, FinalizerPoints
            <4>2. /\ session.status \in {"finalizing", "failed"}
                  /\ \A q \in Requests \ {r} : ~Finalizing(req[q])
                BY <4>1 DEF RInv, IInv, Inv, SingleFinalizer
            <4> QED BY <1>2, <4>2 DEF Without
        <3> QED BY <3>2, <3>3
    <2> QED BY <1>0, <2>1, <2>2
<1>4. FollowInv'
    <2> SUFFICES ASSUME NEW q \in Requests PROVE Follows(q)'
        BY DEF FollowInv
    <2>1. CASE q = r
        BY <1>1, <2>1 DEF Follows
    <2>2. CASE q # r
        <3>1. req'[q] = req[q] /\ Follows(q)
            BY <1>1, <2>2 DEF RInv, SInv, FollowInv
        <3> QED BY <1>0, <3>1 DEF Follows, Contents
    <2> QED BY <2>1, <2>2
<1>5. ChainInv' /\ NoObjectUnlessFinalized'
    BY <1>0 DEF RInv, SInv, ChainInv, NoObjectUnlessFinalized
<1> QED BY <1>3, <1>4, <1>5 DEF SInv

\* When such a call lands, nobody works with the object any more.
LEMMA LandFollows ==
    ASSUME RInv, [Next]_vars, NEW c \in stray, Land(c)
    PROVE  SInv'
<1>0. UNCHANGED <<session, parts, req>> /\ stray' = stray \ {c} /\ c \in Calls
    BY DEF Land, RInv, IInv, TypeOK
<1>1. CASE Ending(c)
    <2>1. session.status \notin Without /\ \A q \in Requests : ~Finalizing(req[q])
        BY <1>1 DEF RInv, SInv, StrayInv
    <2>2. StrayInv' /\ ChainInv' /\ NoObjectUnlessFinalized'
        BY <1>0, <2>1 DEF RInv, SInv, StrayInv, ChainInv, NoObjectUnlessFinalized, Without
    <2>3. FollowInv'
        <3> SUFFICES ASSUME NEW q \in Requests PROVE Follows(q)'
            BY DEF FollowInv
        <3>1. req'[q] = req[q] /\ req[q].pc \notin FinalizerPoints /\ Follows(q)
            BY <1>0, <2>1 DEF Finalizing, RInv, SInv, FollowInv
        <3> QED BY <1>0, <3>1 DEF Follows, FinalizerPoints
    <2> QED BY <2>2, <2>3 DEF SInv
<1>2. CASE ~Ending(c)
    <2>1. object' = object
        BY <1>0, <1>2 DEF Land, Apply, Ending, Calls, storeVars
    <2> QED BY <1>0, <2>1, OutsideStep
<1> QED BY <1>1, <1>2

LEMMA FaultFollows ==
    ASSUME RInv, [Next]_vars, Fault
    PROVE  SInv'
<1>1. ASSUME NEW p \in {"idle", "update"}, GcAbandon(p)
      PROVE  SInv'
    <2>1. /\ UNCHANGED <<parts, object, req>>
          /\ \A c \in stray' : c \in stray \/ c = Call("abort")
        BY <1>1 DEF GcAbandon, storeVars
    <2>2. ~Ending(Call("abort"))
        BY DEF Ending, Call
    <2> QED BY <2>1, <2>2, OutsideStep
<1>2. ASSUME NEW c \in stray, Lose(c)
      PROVE  SInv'
    <2>1. UNCHANGED <<parts, object, req>> /\ \A d \in stray' : d \in stray
        BY <1>2 DEF Lose, storeVars
    <2> QED BY <2>1, OutsideStep
<1> QED BY <1>1, <1>2, PostFollows, AbandonFollows, LandFollows DEF Fault

-----------------------------------------------------------------------------
(* The invariant *)

LEMMA InitFollows == Init => SInv
<1> SUFFICES ASSUME Init PROVE SInv
    OBVIOUS
<1>1. \A r \in Requests : req[r].pc = "idle"
    BY DEF Init, Idle
<1>2. parts = << >> /\ stray = {} /\ object = NoObject
    BY DEF Init
<1>3. FollowInv
    BY <1>1 DEF FollowInv, Follows
<1>4. StrayInv /\ NoObjectUnlessFinalized
    BY <1>2 DEF StrayInv, NoObjectUnlessFinalized
<1>5. ChainInv
    <2>1. DOMAIN parts = {}
        BY <1>2
    <2> QED BY <2>1 DEF ChainInv
<1> QED BY <1>3, <1>4, <1>5 DEF SInv

LEMMA NextFollows == RInv /\ [Next]_vars => RInv'
<1> SUFFICES ASSUME RInv, [Next]_vars PROVE RInv'
    OBVIOUS
<1>1. IInv'
    BY NextInv DEF RInv
<1>2. ASSUME NEW r \in Requests, Arrive(r) \/ Step(r)
      PROVE  SInv'
    BY <1>2, ArriveFollows, PostFollows, LockFollows, PersistFollows, AssembleFollows,
       OutcomeFollows, CancelFollows DEF Step
<1>3. SInv'
    BY <1>2, GcFollows, FaultFollows DEF Next
<1> QED BY <1>1, <1>3 DEF RInv

THEOREM SessionInvariance == Spec => []RInv
<1>1. Init => RInv
    BY InitInv, InitFollows DEF RInv
<1> QED BY <1>1, NextFollows, PTL DEF Spec

\* When a PUT records the blob, the object is what it has hashed and has
\* the expected digest: no handler, no collector and no call left behind can
\* have replaced or removed it (complete_upload, commit_blob).
THEOREM CommitsAreHashed == Spec => []CommitsWhatItHashed
<1>1. RInv => CommitsWhatItHashed
    BY DEF RInv, SInv, FollowInv, Follows, CommitsWhatItHashed
<1> QED BY <1>1, SessionInvariance, PTL

\* A session that was never finalized has no object (cancel_upload).
THEOREM ObjectsAreFinalized == Spec => []NoObjectUnlessFinalized
<1>1. RInv => NoObjectUnlessFinalized
    BY DEF RInv, SInv
<1> QED BY <1>1, SessionInvariance, PTL

-----------------------------------------------------------------------------
(* The session implements ChunkedUpload *)

\* Every chunk is where it belongs, the value that stands for Session!intact.
Intact == \A n \in DOMAIN parts : parts[n].from = parts[n].at

\* A chunk that is added leaves the others as they are.
LEMMA TakeStep ==
    ASSUME RInv, NEW r \in Requests, Locked(req[r]), req[r].chunk.size > 0,
           NEW establish \in BOOLEAN, NEW status \in Statuses, PersistPart(req[r], establish, status)
    PROVE  session'.offset > session.offset /\ (Intact' => Intact) /\ session'.status = status
<1>1. /\ session.next \in Nat \ {0} /\ DOMAIN parts = 1 .. session.next - 1
      /\ DOMAIN parts' = 1 .. session.next
      /\ \A m \in 1 .. session.next - 1 : parts'[m] = parts[m]
      /\ session'.offset = session.offset + req[r].chunk.size /\ session'.status = status
    BY PersistRows
<1>2. session.offset \in Nat /\ req[r].chunk.size \in Int
    BY DEF RInv, IInv, TypeOK, Row, Locals, Chunks
<1>3. session'.offset > session.offset
    BY <1>1, <1>2
<1>4. ASSUME Intact' PROVE Intact
    <2> SUFFICES ASSUME NEW n \in DOMAIN parts PROVE parts[n].from = parts[n].at
        BY DEF Intact
    <2>1. n \in DOMAIN parts' /\ parts'[n] = parts[n]
        BY <1>1
    <2> QED BY <1>4, <2>1 DEF Intact
<1> QED BY <1>1, <1>3, <1>4

\* An object with the digest of a prefix of the file is made of parts that
\* are where they belong, and ends where the accepted bytes end.
LEMMA CommitIntact ==
    ASSUME RInv, NEW r \in Requests, req[r].pc = "commit"
    PROVE  Intact /\ req[r].expected = session.offset
<1>1. object = Contents(parts) /\ Tiles(Contents(parts), req[r].expected)
    BY DEF RInv, SInv, FollowInv, Follows
<1>2. session.status \in {"finalizing", "failed"}
    BY DEF RInv, IInv, Inv, SingleFinalizer, Finalizing, FinalizerPoints
<1>3. session.offset = PartsEnd /\ DOMAIN parts = 1 .. session.next - 1 /\ session.next \in Nat \ {0}
    BY <1>2 DEF RInv, IInv, Inv, PartsTile, TypeOK, Row
<1>4. /\ DOMAIN Contents(parts) = DOMAIN parts
      /\ \A n \in DOMAIN parts : Contents(parts)[n].from = parts[n].from /\ Contents(parts)[n].size = parts[n].size
    BY DEF Contents
<1>5. \A n \in DOMAIN parts : n - 1 \in DOMAIN parts \/ n = 1
    BY <1>3
<1>6. \A n \in DOMAIN parts : parts[n].from = IF n = 1 THEN 0 ELSE parts[n - 1].from + parts[n - 1].size
    BY <1>1, <1>4, <1>5 DEF Tiles
<1>7. Intact
    <2> SUFFICES ASSUME NEW n \in DOMAIN parts PROVE parts[n].from = parts[n].at
        BY DEF Intact
    <2>1. n \in 1 .. n /\ 1 .. n \subseteq DOMAIN parts
        BY <1>3
    <2> QED BY <1>6, <2>1 DEF RInv, SInv, ChainInv
<1>8. req[r].expected = PartsEnd
    <2>1. CASE session.next = 1
        <3>1. DOMAIN Contents(parts) = {}
            BY <1>3, <1>4, <2>1
        <3>2. Contents(parts) = << >>
            BY <3>1 DEF Contents
        <3> QED BY <1>1, <2>1, <3>2 DEF Tiles, PartsEnd
    <2>2. CASE session.next # 1
        <3>1. session.next - 1 \in DOMAIN parts
            BY <1>3, <2>2
        <3>2. Contents(parts) # << >>
            BY <1>4, <3>1
        <3>3. Len(Contents(parts)) = session.next - 1
            <4>1. Contents(parts) \in Seq(Chunks)
                BY ContentsTyped DEF RInv, IInv
            <4> QED BY <1>3, <1>4, <4>1, LenProperties
        <3>4. req[r].expected = parts[session.next - 1].from + parts[session.next - 1].size
            BY <1>1, <1>4, <3>1, <3>2, <3>3 DEF Tiles
        <3> QED BY <1>7, <2>2, <3>1, <3>4 DEF PartsEnd, Intact
    <2> QED BY <2>1, <2>2
<1> QED BY <1>3, <1>7, <1>8

\* What a step looks like to those who know the session by its location.
LEMMA StepImplements ==
    ASSUME RInv, [Next]_vars
    PROVE  [Session!Next]_Session!vars
<1> USE DEF Session!vars
<1>0. session \in Row
    BY DEF RInv, IInv, TypeOK
<1>1. CASE UNCHANGED <<session, parts>>
    BY <1>1
<1>2. ASSUME NEW r \in Requests, InsertSession(r)
      PROVE  [Session!Next]_Session!vars
    <2>1. session.status = "absent"
        BY <1>2 DEF InsertSession, RInv, IInv, Inv, PostInv, Posting, PostPoints
    <2>2. session'.status = "uploading" /\ session'.offset = session.offset /\ parts' = parts
        BY <1>0, <1>2 DEF InsertSession, Row
    <2>3. Session!Open
        BY <2>1, <2>2 DEF Session!Open
    <2> QED BY <2>3 DEF Session!Next
<1>3. ASSUME NEW r \in Requests, PersistPatch(r)
      PROVE  [Session!Next]_Session!vars
    <2>1. Locked(req[r]) /\ req[r].chunk.size > 0
        BY <1>3 DEF PersistPatch, Locked, LockedPoints, RInv, SInv, FollowInv, Follows
    <2>2. session.status = "uploading" /\ session.status \in Statuses /\ TRUE \in BOOLEAN
        BY <1>0, <2>1, Admitted DEF Row
    <2>3. CASE PersistPart(req[r], TRUE, session.status)
        <3>1. session'.offset > session.offset /\ (Intact' => Intact) /\ session'.status = session.status
            BY <2>1, <2>2, <2>3, TakeStep
        <3>2. Session!Patch
            BY <2>2, <3>1 DEF Session!Patch, Session!Take, Intact
        <3> QED BY <3>2 DEF Session!Next
    <2> QED BY <1>1, <1>3, <2>3 DEF PersistPatch
<1>4. ASSUME NEW r \in Requests, Finalize(r)
      PROVE  [Session!Next]_Session!vars
    <2>1. Locked(req[r])
        BY <1>4 DEF Finalize, Locked, LockedPoints
    <2>2. session.status = "uploading" /\ "finalizing" \in Statuses /\ FALSE \in BOOLEAN
        BY <2>1, Admitted DEF Statuses
    <2>3. CASE req[r].chunk.size > 0 /\ PersistPart(req[r], FALSE, "finalizing")
        <3>1. session'.offset > session.offset /\ (Intact' => Intact) /\ session'.status = "finalizing"
            BY <2>1, <2>2, <2>3, TakeStep
        <3>2. Session!Put
            BY <2>2, <3>1 DEF Session!Put, Session!Take, Intact
        <3> QED BY <3>2 DEF Session!Next
    <2>4. CASE session' = [session EXCEPT !.status = "finalizing"] /\ UNCHANGED parts
        <3>1. session'.status = "finalizing" /\ session'.offset = session.offset
            BY <1>0, <2>4 DEF Row
        <3>2. Session!Put
            BY <2>2, <2>4, <3>1 DEF Session!Put
        <3> QED BY <3>2 DEF Session!Next
    <2> QED BY <1>4, <2>3, <2>4 DEF Finalize
<1>5. ASSUME NEW r \in Requests, NEW duplicate \in BOOLEAN, CommitBlob(r, duplicate)
      PROVE  [Session!Next]_Session!vars
    <2>1. Intact /\ req[r].expected = session.offset /\ session.status \in {"finalizing", "failed"}
        BY <1>5, CommitIntact
        DEF CommitBlob, RInv, IInv, Inv, SingleFinalizer, Finalizing, FinalizerPoints
    <2>2. session'.status = "committed" /\ session'.offset = session.offset /\ parts' = parts
        BY <1>0, <1>5, <2>1 DEF CommitBlob, Row
    <2>3. Session!Commit
        BY <2>1, <2>2 DEF Session!Commit, Intact
    <2> QED BY <2>3 DEF Session!Next
<1>6. ASSUME NEW r \in Requests, MarkFailed(r)
      PROVE  [Session!Next]_Session!vars
    <2>1. session.status \in {"finalizing", "failed"}
        BY <1>6 DEF MarkFailed, RInv, IInv, Inv, SingleFinalizer, Finalizing, FinalizerPoints
    <2>2. session'.status = "failed" /\ session'.offset = session.offset /\ parts' = parts
        BY <1>0, <1>6 DEF MarkFailed, Row
    <2> QED BY <2>1, <2>2 DEF Session!Next, Session!Fail
<1>7. ASSUME NEW r \in Requests, MarkCancelled(r)
      PROVE  [Session!Next]_Session!vars
    <2>1. \/ UNCHANGED <<session, parts>>
          \/ /\ session.status = "uploading" /\ session'.status = "cancelled"
             /\ session'.offset = session.offset /\ parts' = parts
        BY <1>0, <1>7 DEF MarkCancelled, Row
    <2> QED BY <1>1, <2>1 DEF Session!Next, Session!Cancel
<1>8. CASE GcFail
    <2>1. \/ UNCHANGED <<session, parts>>
          \/ /\ session.status \in {"uploading", "finalizing"} /\ session'.status = "failed"
             /\ session'.offset = session.offset /\ parts' = parts
        BY <1>0, <1>8 DEF GcFail, Row
    <2> QED BY <1>1, <2>1 DEF Session!Next, Session!Fail
<1>9. ASSUME NEW r \in Requests,
             \/ Arrive(r) \/ Initiate(r) \/ Unstart(r) \/ SelectForUpdate(r) \/ Admit(r)
             \/ Reject(r) \/ StorePart(r) \/ ReadParts(r) \/ CompleteMultipart(r)
             \/ AbortEmpty(r) \/ PutEmpty(r) \/ Hash(r) \/ Discard(r) \/ DeleteDuplicate(r)
             \/ Fetch(r) \/ AbortCancelled(r)
      PROVE  UNCHANGED <<session, parts>>
    BY <1>9 DEF Arrive, ReceivePost, ReceivePatch, ReceivePut, ReceiveDelete, Receive,
       Initiate, Unstart, SelectForUpdate, Admit, Reject, StorePart, ReadParts,
       CompleteMultipart, AbortEmpty, PutEmpty, Hash, Discard, DeleteDuplicate, Fetch,
       AbortCancelled, Await, AwaitAbort
<1>10. CASE GcSelect \/ GcAbort \/ Expire \/ UNCHANGED vars
    BY <1>1, <1>10 DEF GcSelect, GcAbort, Expire, vars
<1>11. CASE Fault
    <2>1. UNCHANGED <<session, parts>>
        BY <1>11 DEF Fault, InsertFails, Abandon, GcAbandon, Land, Lose
    <2> QED BY <1>1, <2>1
<1> QED
    BY <1>1, <1>2, <1>3, <1>4, <1>5, <1>6, <1>7, <1>8, <1>9, <1>10, <1>11
    DEF Next, Step, GcStep

\* Rows, lock, multipart upload and dropped handlers together behave as one
\* session that is appended to, concluded once and committed only if it took
\* the bytes of the file in their order (start_upload, patch_upload,
\* complete_upload, cancel_upload, clean_expired_uploads).
THEOREM Refinement == Spec => ImplementsUpload
<1>1. Init => Session!Init
    <2> SUFFICES ASSUME Init PROVE Session!Init
        OBVIOUS
    <2>1. session.status = "absent" /\ session.offset = 0
        BY DEF Init
    <2>2. DOMAIN parts = {}
        BY DEF Init
    <2> QED BY <2>1, <2>2 DEF Session!Init
<1>2. RInv /\ [Next]_vars => [Session!Next]_Session!vars
    BY StepImplements
<1> QED BY <1>1, <1>2, SessionInvariance, PTL DEF Spec, ImplementsUpload, Session!Spec
=============================================================================
