----------------------------- MODULE BlobProofs -----------------------------
(***************************************************************************)
(* Proofs about BlobLifecycle for any number of handlers, repositories,    *)
(* blobs, manifests and keys and any number of faults.                     *)
(*                                                                         *)
(* Everything rests on who may still delete the object under a key.        *)
(* KeyInv: a key belongs to one upload until a row takes it, and then to   *)
(* that row, so that handlers, collector and late deletes never speak of   *)
(* the same key by accident.  SafeInv: the object of a row that is, or may *)
(* by the collector's revert become, committed is there, and no delete of  *)
(* it is under way but one with an unknown result.                         *)
(***************************************************************************)
EXTENDS BlobLifecycle, SequenceTheorems, TLAPS

UploadPoints == {"repair", "exists", "tombstone", "lookup", "insert"}
MountPoints == {"check", "link"}
PushPoints == {"validate", "persist"}
ClaimPoints == {"delete", "revert", "unlink"}
Points == UploadPoints \cup MountPoints \cup PushPoints \cup {"idle", "dedup"}

\* What a handler has set where it is.
HandlerOK(q) ==
    /\ q.pc \in UploadPoints \cup MountPoints => q.repo \in Repos /\ q.d \in Digests
    /\ q.pc \in UploadPoints \cup {"dedup"} <=> q.key # NoKey
    /\ q.pc \in PushPoints => q.repo \in Repos /\ q.m \in Manifests

\* And the collector.
CollectorOK(g) ==
    /\ g.pc \in ClaimPoints <=> g.key # NoKey
    /\ g.pc \in ClaimPoints => g.d \in Digests

LocalInv == (\A r \in Handlers : HandlerOK(h[r])) /\ CollectorOK(gc)

\* Nobody speaks of a key before an upload has been given it.
UsedInv ==
    /\ stray \subseteq used
    /\ \A d \in Digests : blobs[d].key \in used \cup {NoKey}
    /\ \A r \in Handlers : h[r].key \in used \cup {NoKey}
    /\ gc.key \in used \cup {NoKey}
    /\ \A c \in gc.todo : c.key \in used

\* An upload has its key for itself, with its content, until its commit.
UploadInv ==
    \A r \in Handlers : h[r].key # NoKey =>
        /\ h[r].key \notin stray /\ gc.key # h[r].key
        /\ \A d \in Digests : blobs[d].key # h[r].key
        /\ \A c \in gc.todo : c.key # h[r].key
        /\ \A q \in Handlers : h[q].key = h[r].key => q = r
        /\ h[r].pc \in UploadPoints => objects[h[r].key] = h[r].d

\* A key is that of one row, and the collector knows of which.
RowInv ==
    /\ \A d, e \in Digests : blobs[d].key = blobs[e].key /\ blobs[d].key # NoKey => d = e
    /\ \A c \in gc.todo, e \in Digests : blobs[e].key = c.key => e = c.d
    /\ gc.key # NoKey => \A e \in Digests : blobs[e].key = gc.key => e = gc.d

KeyInv == LocalInv /\ UsedInv /\ UploadInv /\ RowInv

\* The row is committed, or the collector may commit it again as it is.
Held(d) ==
    \/ blobs[d].status = "committed"
    \/ blobs[d].status = "tombstoned" /\ gc.pc \in {"delete", "revert"} /\ gc.d = d

SafeInv ==
    /\ \A d \in Digests : Held(d) =>
          Doubtful(d) \/ (objects[blobs[d].key] = d /\ blobs[d].key \notin stray)
    /\ gc.pc = "delete" => ~(blobs[gc.d].status = "committed" /\ blobs[gc.d].key = gc.key)

IInv == TypeOK /\ KeyInv /\ SafeInv

-----------------------------------------------------------------------------
(* Types *)

\* A handler that goes on stays well formed.
LEMMA GotoTyped ==
    ASSUME IInv, NEW r \in Handlers, NEW p \in Points, Goto(r, p)
    PROVE  h' \in [Handlers -> Locals]
<1>0. h[r] \in Locals
    BY DEF IInv, TypeOK
<1>1. [h[r] EXCEPT !.pc = p] \in Locals
    BY <1>0 DEF Locals, Points, UploadPoints, MountPoints, PushPoints
<1>2. h' = [h EXCEPT ![r] = [h[r] EXCEPT !.pc = p]]
    BY DEF Goto
<1> QED BY <1>1, <1>2 DEF IInv, TypeOK

\* So does one that returns.
LEMMA FinishTyped ==
    ASSUME IInv, NEW r \in Handlers, Finish(r)
    PROVE  h' \in [Handlers -> Locals]
<1>1. Idle \in Locals
    BY DEF Idle, Locals
<1> QED BY <1>1 DEF Finish, IInv, TypeOK

\* A row whose status changes keeps its key.
LEMMA StatusTyped ==
    ASSUME IInv, NEW d \in Digests, NEW s \in {"committed", "tombstoned"},
           blobs[d].status # "none", blobs' = [blobs EXCEPT ![d].status = s]
    PROVE  /\ blobs' \in [Digests -> BlobRow]
           /\ \A e \in Digests : blobs'[e].status = "none" <=> blobs'[e].key = NoKey
           /\ \A e \in Digests : blobs'[e].key = blobs[e].key
           /\ \A e \in Digests : blobs'[e].status = IF e = d THEN s ELSE blobs[e].status
<1>0. blobs \in [Digests -> BlobRow] /\ blobs[d] \in BlobRow
      /\ \A e \in Digests : blobs[e].status = "none" <=> blobs[e].key = NoKey
    BY DEF IInv, TypeOK
<1>1. LET row == [blobs[d] EXCEPT !.status = s]
      IN row \in BlobRow /\ row.key = blobs[d].key /\ row.status = s
    BY <1>0 DEF BlobRow
<1>2. blobs' = [blobs EXCEPT ![d] = [blobs[d] EXCEPT !.status = s]]
    OBVIOUS
<1> QED BY <1>0, <1>1, <1>2

\* The upsert leaves a committed row.
LEMMA UpsertTyped ==
    ASSUME NEW row \in BlobRow, NEW k \in Keys, row.status = "none" <=> row.key = NoKey
    PROVE  /\ Upsert(row, k) \in BlobRow /\ Upsert(row, k).status = "committed"
           /\ Upsert(row, k).key = IF row.status = "committed" THEN row.key ELSE k
           /\ row.status = "committed" => Upsert(row, k) = row
<1>1. CASE row.status = "none"
    <2>1. Upsert(row, k) = [status |-> "committed", key |-> k, old |-> FALSE]
        BY <1>1 DEF Upsert
    <2> QED BY <1>1, <2>1 DEF BlobRow
<1>2. CASE row.status = "tombstoned"
    <2>1. Upsert(row, k) = [row EXCEPT !.status = "committed", !.key = k]
        BY <1>2 DEF Upsert
    <2> QED BY <1>2, <2>1 DEF BlobRow
<1>3. CASE row.status = "committed"
    <2>1. Upsert(row, k) = row
        BY <1>3 DEF Upsert
    <2> QED BY <1>3, <2>1
<1> QED BY <1>1, <1>2, <1>3 DEF BlobRow

\* A pass looks at garbage only.
LEMMA OldestOf ==
    ASSUME NEW d \in Oldest({e \in Digests : Garbage(e)})
    PROVE  d \in Digests /\ Garbage(d)
BY DEF Oldest

\* Every step leaves the tables, the bucket and the locals well formed.
LEMMA TypeStep ==
    ASSUME IInv, [Next]_vars
    PROVE  TypeOK'
<1> USE BlobAssumption
<1>0. /\ \A r \in Handlers : h[r] \in Locals /\ HandlerOK(h[r])
      /\ h \in [Handlers -> Locals] /\ blobs \in [Digests -> BlobRow] /\ gc \in Collector
      /\ CollectorOK(gc)
      /\ \A d \in Digests : blobs[d].status = "none" <=> blobs[d].key = NoKey
    BY DEF IInv, TypeOK, KeyInv, LocalInv
<1>1. Idle \in Locals /\ GcIdle \in Collector
    BY DEF Idle, Locals, GcIdle, Collector
<1>2. ASSUME NEW r \in Handlers, Arrive(r)
      PROVE  TypeOK'
    <2>1. ASSUME NEW repo \in Repos, NEW d \in Digests, NEW k \in Keys, Assemble(r, repo, d, k)
          PROVE  TypeOK'
        <3>1. [Idle EXCEPT !.pc = "repair", !.repo = repo, !.d = d, !.key = k] \in Locals
            BY <1>1 DEF Locals
        <3> QED BY <2>1, <3>1 DEF Assemble, IInv, TypeOK, tables, history
    <2>2. ASSUME NEW repo \in Repos, NEW from \in Repos, NEW d \in Digests, ReceiveMount(r, repo, from, d)
          PROVE  TypeOK'
        <3>1. [Idle EXCEPT !.pc = "check", !.repo = repo, !.from = from, !.d = d] \in Locals
            BY <1>1 DEF Locals
        <3> QED BY <2>2, <3>1 DEF ReceiveMount, IInv, TypeOK, tables, history
    <2>3. ASSUME NEW repo \in Repos, NEW m \in Manifests, ReceivePush(r, repo, m)
          PROVE  TypeOK'
        <3>1. [Idle EXCEPT !.pc = "validate", !.repo = repo, !.m = m, !.todo = Layers[m]] \in Locals
            BY <1>1 DEF Locals
        <3> QED BY <2>3, <3>1 DEF ReceivePush, IInv, TypeOK, tables
    <2> QED BY <1>2, <2>1, <2>2, <2>3 DEF Arrive
<1>3. ASSUME NEW r \in Handlers, RepairSelect(r) \/ RepairExists(r) \/ MountCheck(r)
      PROVE  TypeOK'
    <2> USE DEF Points, UploadPoints, MountPoints
    <2>1. CASE RepairExists(r) \/ MountCheck(r)
        BY <2>1, GotoTyped, FinishTyped DEF RepairExists, MountCheck, IInv, TypeOK, tables, history
    <2>2. CASE RepairSelect(r)
        <3>1. blobs[h[r].d].key \in Keys \cup {NoKey}
            BY <1>0, <2>2 DEF RepairSelect, HandlerOK, BlobRow
        <3>2. CASE Goto(r, "lookup")
            BY <2>2, <3>2, GotoTyped DEF RepairSelect, IInv, TypeOK, tables, history
        <3>3. CASE h' = [h EXCEPT ![r].pc = "exists", ![r].found = blobs[h[r].d].key]
            <4>1. [h[r] EXCEPT !.pc = "exists", !.found = blobs[h[r].d].key] \in Locals
                BY <1>0, <3>1, ZenonT(40) DEF Locals
            <4>2. h' = [h EXCEPT ![r] = [h[r] EXCEPT !.pc = "exists", !.found = blobs[h[r].d].key]]
                BY <1>0, <3>3
            <4> QED BY <1>0, <2>2, <4>1, <4>2 DEF RepairSelect, IInv, TypeOK, tables, history
        <3> QED BY <2>2, <3>2, <3>3 DEF RepairSelect
    <2> QED BY <1>3, <2>1, <2>2
<1>4. ASSUME NEW r \in Handlers, RepairTombstone(r)
      PROVE  TypeOK'
    <2>1. h[r].d \in Digests
        BY <1>0, <1>4 DEF RepairTombstone, HandlerOK, UploadPoints
    <2>2. h' \in [Handlers -> Locals]
        BY <1>4, GotoTyped DEF RepairTombstone, Points, UploadPoints
    <2>3. /\ blobs' \in [Digests -> BlobRow]
          /\ \A d \in Digests : blobs'[d].status = "none" <=> blobs'[d].key = NoKey
        BY <1>0, <1>4, <2>1, StatusTyped DEF RepairTombstone
    <2> QED BY <1>4, <2>2, <2>3 DEF RepairTombstone, IInv, TypeOK, history
<1>5. ASSUME NEW r \in Handlers, CommitLookup(r) \/ CommitInsert(r)
      PROVE  TypeOK'
    <2>1. h[r].d \in Digests /\ h[r].repo \in Repos /\ h[r].key \in Keys
        BY <1>0, <1>5 DEF CommitLookup, CommitInsert, HandlerOK, UploadPoints, Locals
    <2>2. h' \in [Handlers -> Locals]
        BY <1>5, GotoTyped, FinishTyped
        DEF CommitLookup, CommitInsert, Commit, Points, UploadPoints
    <2>3. \/ UNCHANGED <<blobs, older, links>>
          \/ /\ blobs' = [blobs EXCEPT ![h[r].d] = Upsert(@, h[r].key)]
             /\ links' = links \cup {<<h[r].repo, h[r].d>>}
             /\ older' \subseteq older \cup (Digests \X {h[r].d})
        BY <1>5 DEF CommitLookup, CommitInsert, Commit
    <2>4. LET row == Upsert(blobs[h[r].d], h[r].key)
          IN row \in BlobRow /\ row.status # "none" /\ row.key # NoKey
        <3>1. blobs[h[r].d] \in BlobRow
              /\ (blobs[h[r].d].status = "none" <=> blobs[h[r].d].key = NoKey)
            BY <1>0, <2>1
        <3> QED BY <2>1, <3>1, UpsertTyped
    <2>5. /\ blobs' \in [Digests -> BlobRow]
          /\ \A d \in Digests : blobs'[d].status = "none" <=> blobs'[d].key = NoKey
        BY <1>0, <2>1, <2>3, <2>4
    <2>6. links' \subseteq Repos \X Digests /\ older' \subseteq Digests \X Digests
        BY <2>1, <2>3 DEF IInv, TypeOK
    <2> QED BY <1>5, <2>2, <2>5, <2>6 DEF CommitLookup, CommitInsert, IInv, TypeOK, history
<1>6. ASSUME NEW r \in Handlers, DeleteDuplicate(r)
      PROVE  TypeOK'
    BY <1>1, <1>6 DEF DeleteDuplicate, Remove, Finish, IInv, TypeOK, tables, history
<1>7. ASSUME NEW r \in Handlers, MountLink(r)
      PROVE  TypeOK'
    <2>1. h[r].d \in Digests /\ h[r].repo \in Repos
        BY <1>0, <1>7 DEF MountLink, HandlerOK, MountPoints
    <2> QED BY <1>1, <1>7, <2>1 DEF MountLink, Finish, IInv, TypeOK, history
<1>8. ASSUME NEW r \in Handlers, Validate(r)
      PROVE  TypeOK'
    <2>1. h[r].todo \in Seq(Digests)
        BY <1>0 DEF Locals
    <2>2. h[r].todo # << >> => Tail(h[r].todo) \in Seq(Digests)
        BY <2>1
    <2>3. h[r].todo # << >> => [h[r] EXCEPT !.todo = Tail(h[r].todo)] \in Locals
        BY <1>0, <2>2, ZenonT(40) DEF Locals
    <2>4. ASSUME h[r].todo # << >>, h' = [h EXCEPT ![r].todo = Tail(@)]
          PROVE  h' \in [Handlers -> Locals]
        <3>1. h' = [h EXCEPT ![r] = [h[r] EXCEPT !.todo = Tail(h[r].todo)]]
            BY <2>4
        <3> QED BY <1>0, <2>3, <2>4, <3>1
    <2>5. h' \in [Handlers -> Locals]
        BY <1>8, <2>4, GotoTyped, FinishTyped DEF Validate, Points, PushPoints
    <2> QED BY <1>8, <2>5 DEF Validate, IInv, TypeOK, tables
<1>9. ASSUME NEW r \in Handlers, Persist(r)
      PROVE  TypeOK'
    <2>1. h[r].m \in Manifests /\ h[r].repo \in Repos
        BY <1>0, <1>9 DEF Persist, HandlerOK, PushPoints
    <2> QED BY <1>1, <1>9, <2>1 DEF Persist, Finish, IInv, TypeOK
<1>10. ASSUME NEW repo \in Repos, NEW m \in Manifests, DeleteManifest(repo, m)
       PROVE  TypeOK'
    BY <1>10 DEF DeleteManifest, IInv, TypeOK, history
<1>11. CASE GcStep
    <2>1. CASE GcScan
        <3>1. \A d \in Digests : Garbage(d) => blobs[d].key \in Keys
            BY <1>0 DEF Garbage, BlobRow
        <3> DEFINE Old == Oldest({e \in Digests : Garbage(e)})
        <3>2. \A d \in Old : d \in Digests /\ blobs[d].key \in Keys
            BY <3>1, OldestOf
        <3> HIDE DEF Old
        <3>3. {[d |-> d, key |-> blobs[d].key] : d \in Old} \subseteq Candidates
            BY <3>2 DEF Candidates
        <3>4. gc' \in Collector
            BY <1>1, <2>1, <3>3 DEF GcScan, Collector, Old
        <3> QED BY <2>1, <3>4 DEF GcScan, IInv, TypeOK, tables, history
    <2>2. ASSUME NEW c \in Candidates, GcClaim(c)
          PROVE  TypeOK'
        <3>1. c.d \in Digests /\ c.key \in Keys
            BY DEF Candidates
        <3>2. gc' \in Collector
            <4>1. gc.todo \ {c} \in SUBSET Candidates
                BY <1>0 DEF Collector
            <4>2. gc' = [gc EXCEPT !.todo = gc.todo \ {c}] => gc' \in Collector
                BY <1>0, <4>1 DEF Collector
            <4>3. [pc |-> "delete", todo |-> gc.todo \ {c}, d |-> c.d, key |-> c.key] \in Collector
                BY <3>1, <4>1 DEF Collector
            <4>4. \/ gc' = [gc EXCEPT !.todo = gc.todo \ {c}]
                  \/ gc' = [pc |-> "delete", todo |-> gc.todo \ {c}, d |-> c.d, key |-> c.key]
                BY <2>2 DEF GcClaim
            <4> QED BY <4>2, <4>3, <4>4
        <3>3. racing' \subseteq Handlers
            BY <2>2 DEF GcClaim, Meets, IInv, TypeOK
        <3>4. /\ blobs' \in [Digests -> BlobRow]
              /\ \A d \in Digests : blobs'[d].status = "none" <=> blobs'[d].key = NoKey
            BY <1>0, <2>2, <3>1, StatusTyped DEF GcClaim, Garbage
        <3>5. orphaned' \subseteq Keys
            BY <1>0, <2>2, <3>1 DEF GcClaim, Garbage, BlobRow, IInv, TypeOK
        <3> QED BY <2>2, <3>2, <3>3, <3>4, <3>5 DEF GcClaim, IInv, TypeOK
    <2>3. CASE GcPassEnds \/ GcUnlink
        BY <1>0, <1>1, <2>3 DEF GcPassEnds, GcUnlink, Collector, IInv, TypeOK, tables, history
    <2>4. CASE GcDelete \/ GcRefused
        BY <1>0, <2>4 DEF GcDelete, GcRefused, Remove, Collector, IInv, TypeOK, tables, history
    <2>5. CASE GcRevert
        <3>1. gc.d \in Digests /\ gc.key \in Keys
            BY <1>0, <2>5 DEF GcRevert, CollectorOK, ClaimPoints, Collector
        <3>2. /\ blobs' \in [Digests -> BlobRow]
              /\ \A d \in Digests : blobs'[d].status = "none" <=> blobs'[d].key = NoKey
            BY <1>0, <2>5, <3>1, StatusTyped DEF GcRevert
        <3> QED BY <1>1, <2>5, <3>1, <3>2 DEF GcRevert, IInv, TypeOK
    <2> QED BY <1>11, <2>1, <2>2, <2>3, <2>4, <2>5 DEF GcStep
<1>12. ASSUME NEW d \in Digests, Age(d)
       PROVE  TypeOK'
    <2>1. /\ blobs' \in [Digests -> BlobRow]
          /\ \A e \in Digests : blobs'[e].status = "none" <=> blobs'[e].key = NoKey
        BY <1>0, <1>12 DEF Age, BlobRow
    <2> QED BY <1>12, <2>1 DEF Age, IInv, TypeOK, history
<1>13. CASE Fault
    <2>1. ASSUME NEW r \in Handlers, Abandon(r)
          PROVE  TypeOK'
        <3>1. h[r].pc = "dedup" => h[r].key \in Keys
            BY <1>0 DEF HandlerOK, Locals
        <3> QED BY <1>1, <2>1, <3>1 DEF Abandon, Finish, IInv, TypeOK, tables
    <2>2. CASE GcDeleteFails \/ GcStops
        <3>1. gc.pc \in {"delete", "revert"} => gc.key \in Keys
            BY <1>0 DEF CollectorOK, ClaimPoints, Collector
        <3>2. gc' \in Collector
            BY <1>0, <1>1, <2>2 DEF GcDeleteFails, GcStops, Collector
        <3> QED BY <2>2, <3>1, <3>2 DEF GcDeleteFails, GcStops, IInv, TypeOK, tables
    <2>3. ASSUME NEW k \in Keys, Land(k) \/ Lose(k)
          PROVE  TypeOK'
        BY <2>3 DEF Land, Lose, Remove, IInv, TypeOK, tables, history
    <2> QED BY <1>13, <2>1, <2>2, <2>3 DEF Fault
<1>14. CASE UNCHANGED vars
    BY <1>14 DEF vars, tables, history, IInv, TypeOK
<1> QED
    BY <1>2, <1>3, <1>4, <1>5, <1>6, <1>7, <1>8, <1>9, <1>10, <1>11, <1>12, <1>13, <1>14
    DEF Next, Step

-----------------------------------------------------------------------------
(* Who may delete an object *)

\* A handler goes on without its key changing hands: it keeps it, or is done
\* with it, and no row changes its key.
LEMMA HandlerKeys ==
    ASSUME IInv, NEW r \in Handlers, \A q \in Handlers \ {r} : h'[q] = h[q],
           UNCHANGED <<objects, used, stray, gc>>, \A d \in Digests : blobs'[d].key = blobs[d].key,
           HandlerOK(h'[r]), h'[r].key \in {h[r].key, NoKey},
           h'[r].pc \in UploadPoints => h[r].pc \in UploadPoints /\ h'[r].d = h[r].d
    PROVE  KeyInv'
<1>1. LocalInv'
    BY DEF IInv, KeyInv, LocalInv
<1>2. UsedInv'
    BY DEF IInv, KeyInv, UsedInv
<1>3. UploadInv'
    <2>1. h'[r].pc \in UploadPoints => h'[r].key # NoKey
        BY DEF HandlerOK
    <2> QED BY <2>1 DEF IInv, KeyInv, UploadInv
<1>4. RowInv'
    BY DEF IInv, KeyInv, RowInv
<1> QED BY <1>1, <1>2, <1>3, <1>4 DEF KeyInv

\* Returning is such a step.
LEMMA FinishKeys ==
    ASSUME IInv, NEW r \in Handlers, Finish(r),
           UNCHANGED <<objects, used, stray, gc>>, \A d \in Digests : blobs'[d].key = blobs[d].key
    PROVE  KeyInv'
<1>1. h'[r] = Idle /\ \A q \in Handlers \ {r} : h'[q] = h[q]
    BY DEF Finish, IInv, TypeOK
<1>2. HandlerOK(Idle) /\ Idle.key = NoKey /\ Idle.pc \notin UploadPoints
    BY DEF Idle, HandlerOK, UploadPoints, MountPoints, PushPoints
<1> QED BY <1>1, <1>2, HandlerKeys

\* So is going on at a point of the same kind.
LEMMA GotoKeys ==
    ASSUME IInv, NEW r \in Handlers, NEW p, Goto(r, p),
           UNCHANGED <<objects, used, stray, gc>>, \A d \in Digests : blobs'[d].key = blobs[d].key,
           \/ p \in UploadPoints \cup {"dedup"} /\ h[r].pc \in UploadPoints
           \/ p \in MountPoints /\ h[r].pc \in MountPoints
           \/ p \in PushPoints /\ h[r].pc \in PushPoints
    PROVE  KeyInv'
<1>0. h[r] \in Locals /\ h \in [Handlers -> Locals] /\ HandlerOK(h[r])
    BY DEF IInv, TypeOK, KeyInv, LocalInv
<1>1. /\ h'[r].pc = p /\ h'[r].key = h[r].key /\ h'[r].d = h[r].d /\ h'[r].repo = h[r].repo
      /\ h'[r].m = h[r].m /\ \A q \in Handlers \ {r} : h'[q] = h[q]
    BY <1>0 DEF Goto, Locals
<1>2. HandlerOK(h'[r])
    BY <1>0, <1>1 DEF HandlerOK, UploadPoints, MountPoints, PushPoints
<1>3. h'[r].pc \in UploadPoints => h[r].pc \in UploadPoints
    BY <1>1 DEF UploadPoints, MountPoints, PushPoints
<1> QED BY <1>1, <1>2, <1>3, HandlerKeys

\* The rows, the collector and the bucket stay as they are, but that
\* committed rows may be tombstoned.
LEMMA RowsSafe ==
    ASSUME IInv, UNCHANGED <<objects, gc>>, stray' \subseteq stray, doubtful' = doubtful,
           \A d \in Digests : /\ blobs'[d].key = blobs[d].key
                              /\ \/ blobs'[d].status = blobs[d].status
                                 \/ blobs[d].status = "committed" /\ blobs'[d].status = "tombstoned"
    PROVE  SafeInv'
<1>1. \A d \in Digests : Held(d)' => Held(d)
    BY DEF Held
<1>2. gc.pc = "delete" => gc.d \in Digests
    BY DEF IInv, KeyInv, LocalInv, CollectorOK, ClaimPoints
<1> QED BY <1>1, <1>2 DEF IInv, SafeInv, Doubtful

\* Steps of a handler that neither give out keys nor touch the bucket.
LEMMA LocalFollows ==
    ASSUME IInv, NEW r \in Handlers,
           \/ RepairSelect(r) \/ RepairExists(r) \/ RepairTombstone(r)
           \/ MountCheck(r) \/ MountLink(r) \/ Validate(r) \/ Persist(r)
    PROVE  KeyInv' /\ SafeInv'
<1>0. h[r] \in Locals /\ h \in [Handlers -> Locals] /\ HandlerOK(h[r])
    BY DEF IInv, TypeOK, KeyInv, LocalInv
<1>1. CASE RepairTombstone(r)
    <2>1. h[r].d \in Digests /\ h[r].pc \in UploadPoints
        BY <1>0, <1>1 DEF RepairTombstone, HandlerOK, UploadPoints
    <2>2. \A d \in Digests : /\ blobs'[d].key = blobs[d].key
                             /\ \/ blobs'[d].status = blobs[d].status
                                \/ blobs[d].status = "committed" /\ blobs'[d].status = "tombstoned"
        BY <1>1, <2>1, StatusTyped DEF RepairTombstone
    <2>3. Goto(r, "lookup") /\ "lookup" \in UploadPoints
        BY <1>1 DEF RepairTombstone, UploadPoints
    <2>4. UNCHANGED <<objects, used, stray, gc, doubtful>>
        BY <1>1 DEF RepairTombstone, history
    <2>5. KeyInv'
        BY <2>1, <2>2, <2>3, <2>4, GotoKeys, ZenonT(40)
    <2>6. SafeInv'
        BY <2>2, <2>4, RowsSafe
    <2> QED BY <2>5, <2>6
<1>2. CASE RepairSelect(r) \/ RepairExists(r) \/ MountCheck(r) \/ MountLink(r) \/ Validate(r) \/ Persist(r)
    <2>1. UNCHANGED <<blobs, objects, used, stray, gc, doubtful>>
        BY <1>2 DEF RepairSelect, RepairExists, MountCheck, MountLink, Validate, Persist, tables, history
    <2>2. SafeInv'
        BY <2>1, RowsSafe
    <2>3. CASE RepairExists(r) \/ MountCheck(r) \/ MountLink(r) \/ Persist(r)
        BY <2>1, <2>2, <2>3, GotoKeys, FinishKeys
        DEF RepairExists, MountCheck, MountLink, Persist, UploadPoints, MountPoints
    <2>4. CASE RepairSelect(r)
        <3>1. CASE Goto(r, "lookup")
            BY <2>1, <2>2, <2>4, <3>1, GotoKeys DEF RepairSelect, UploadPoints
        <3>2. CASE h' = [h EXCEPT ![r].pc = "exists", ![r].found = blobs[h[r].d].key]
            <4>1. /\ h'[r].pc = "exists" /\ h'[r].key = h[r].key /\ h'[r].d = h[r].d
                  /\ h'[r].repo = h[r].repo /\ \A q \in Handlers \ {r} : h'[q] = h[q]
                BY <1>0, <3>2 DEF Locals
            <4>2. h[r].pc \in UploadPoints
                BY <2>4 DEF RepairSelect, UploadPoints
            <4>3. HandlerOK(h'[r])
                BY <1>0, <4>1, <4>2 DEF HandlerOK, UploadPoints, MountPoints, PushPoints
            <4> QED BY <2>1, <2>2, <4>1, <4>2, <4>3, HandlerKeys
        <3> QED BY <2>4, <3>1, <3>2 DEF RepairSelect
    <2>5. CASE Validate(r)
        <3>1. CASE Goto(r, "persist")
            BY <2>1, <2>2, <2>5, <3>1, GotoKeys DEF Validate, PushPoints
        <3>2. CASE Finish(r)
            BY <2>1, <2>2, <3>2, FinishKeys
        <3>3. CASE h' = [h EXCEPT ![r].todo = Tail(@)]
            <4>1. /\ h'[r].pc = h[r].pc /\ h'[r].key = h[r].key /\ h'[r].d = h[r].d
                  /\ h'[r].repo = h[r].repo /\ h'[r].m = h[r].m /\ \A q \in Handlers \ {r} : h'[q] = h[q]
                BY <1>0, <3>3 DEF Locals
            <4>2. HandlerOK(h'[r])
                BY <1>0, <4>1 DEF HandlerOK
            <4> QED BY <2>1, <2>2, <4>1, <4>2, HandlerKeys
        <3> QED BY <2>5, <3>1, <3>2, <3>3 DEF Validate
    <2> QED BY <1>2, <2>3, <2>4, <2>5
<1> QED BY <1>1, <1>2

\* A request arrives; an upload brings a key that nobody has heard of.
LEMMA ArriveFollows ==
    ASSUME IInv, NEW r \in Handlers, Arrive(r)
    PROVE  KeyInv' /\ SafeInv'
<1> USE BlobAssumption
<1>0. h[r] \in Locals /\ h \in [Handlers -> Locals] /\ HandlerOK(h[r])
    BY DEF IInv, TypeOK, KeyInv, LocalInv
<1>1. ASSUME NEW repo \in Repos, NEW d \in Digests, NEW k \in Keys, Assemble(r, repo, d, k)
      PROVE  KeyInv' /\ SafeInv'
    <2>1. /\ k \notin used /\ k # NoKey /\ used' = used \cup {k}
          /\ objects' = [objects EXCEPT ![k] = d] /\ UNCHANGED <<blobs, stray, gc, doubtful>>
          /\ \A q \in Handlers \ {r} : h'[q] = h[q]
        BY <1>0, <1>1 DEF Assemble, tables, history
    <2>2. h'[r].pc = "repair" /\ h'[r].repo = repo /\ h'[r].d = d /\ h'[r].key = k
        BY <1>0, <1>1 DEF Assemble, Idle
    <2>3. objects \in [Keys -> Digests \cup {NoDigest}] /\ used \subseteq Keys
        BY DEF IInv, TypeOK
    <2>4. LocalInv'
        <3>1. HandlerOK(h'[r])
            BY <2>1, <2>2 DEF HandlerOK, UploadPoints, MountPoints, PushPoints
        <3> QED BY <2>1, <3>1 DEF IInv, KeyInv, LocalInv
    <2>5. UsedInv'
        BY <2>1, <2>2 DEF IInv, KeyInv, UsedInv
    <2>6. UploadInv'
        <3> SUFFICES ASSUME NEW p \in Handlers, h'[p].key # NoKey
                     PROVE  /\ h'[p].key \notin stray /\ gc.key # h'[p].key
                            /\ \A e \in Digests : blobs[e].key # h'[p].key
                            /\ \A c \in gc.todo : c.key # h'[p].key
                            /\ \A q \in Handlers : h'[q].key = h'[p].key => q = p
                            /\ h'[p].pc \in UploadPoints => objects'[h'[p].key] = h'[p].d
            BY <2>1 DEF UploadInv
        <3>1. CASE p = r
            BY <2>1, <2>2, <2>3, <3>1 DEF IInv, KeyInv, UsedInv
        <3>2. CASE p # r
            <4>1. h'[p] = h[p] /\ h[p].key \in used /\ h[p].key # k
                BY <2>1, <3>2 DEF IInv, KeyInv, UsedInv
            <4>2. objects'[h[p].key] = objects[h[p].key]
                BY <2>1, <2>3, <4>1
            <4> QED BY <2>1, <2>2, <4>1, <4>2 DEF IInv, KeyInv, UploadInv
        <3> QED BY <3>1, <3>2
    <2>7. RowInv'
        BY <2>1 DEF IInv, KeyInv, RowInv
    <2>8. SafeInv'
        <3>1. \A e \in Digests : blobs[e].key # k
            BY <2>1 DEF IInv, KeyInv, UsedInv
        <3>2. \A e \in Digests : Held(e) => blobs[e].key \in Keys /\ objects'[blobs[e].key] = objects[blobs[e].key]
            BY <2>1, <2>3, <3>1 DEF Held, IInv, TypeOK, BlobRow
        <3>3. \A e \in Digests : Held(e)' => Held(e)
            BY <2>1 DEF Held
        <3>4. gc.pc = "delete" => gc.d \in Digests
            BY DEF IInv, KeyInv, LocalInv, CollectorOK, ClaimPoints
        <3> QED BY <2>1, <3>2, <3>3, <3>4 DEF IInv, SafeInv, Doubtful
    <2> QED BY <2>4, <2>5, <2>6, <2>7, <2>8 DEF KeyInv
<1>2. ASSUME UNCHANGED <<tables, objects, used, stray, gc, doubtful>>,
             \A q \in Handlers \ {r} : h'[q] = h[q],
             h'[r].key = NoKey, h'[r].repo \in Repos,
             \/ h'[r].pc = "check" /\ h'[r].d \in Digests
             \/ h'[r].pc = "validate" /\ h'[r].m \in Manifests
      PROVE  KeyInv' /\ SafeInv'
    <2>1. HandlerOK(h'[r]) /\ h'[r].pc \notin UploadPoints
        BY <1>2 DEF HandlerOK, UploadPoints, MountPoints, PushPoints
    <2> QED BY <1>2, <2>1, HandlerKeys, RowsSafe DEF tables
<1>3. ASSUME NEW repo \in Repos, NEW from \in Repos, NEW d \in Digests, ReceiveMount(r, repo, from, d)
      PROVE  KeyInv' /\ SafeInv'
    BY <1>0, <1>2, <1>3 DEF ReceiveMount, Idle, history
<1>4. ASSUME NEW repo \in Repos, NEW m \in Manifests, ReceivePush(r, repo, m)
      PROVE  KeyInv' /\ SafeInv'
    BY <1>0, <1>2, <1>4 DEF ReceivePush, Idle
<1> QED BY <1>1, <1>3, <1>4 DEF Arrive

\* A commit hands the key of the upload to the row, or drops it because the
\* row has one already.
LEMMA CommitFollows ==
    ASSUME IInv, NEW r \in Handlers, CommitLookup(r) \/ CommitInsert(r)
    PROVE  KeyInv' /\ SafeInv'
<1> DEFINE d == h[r].d
           k == h[r].key
<1>0. /\ h[r] \in Locals /\ h \in [Handlers -> Locals] /\ HandlerOK(h[r])
      /\ h[r].pc \in UploadPoints /\ d \in Digests /\ k \in Keys
      /\ UNCHANGED <<objects, used, stray, gc, doubtful>>
    BY DEF IInv, TypeOK, KeyInv, LocalInv, CommitLookup, CommitInsert, HandlerOK, UploadPoints, Locals, history
<1>1. /\ blobs \in [Digests -> BlobRow]
      /\ \A e \in Digests : blobs[e].status = "none" <=> blobs[e].key = NoKey
    BY DEF IInv, TypeOK
<1>2. CASE UNCHANGED blobs
    <2>1. SafeInv'
        BY <1>0, <1>2, RowsSafe
    <2>2. CASE Finish(r)
        BY <1>0, <1>2, <2>1, <2>2, FinishKeys
    <2>3. CASE Goto(r, "insert") \/ Goto(r, "dedup")
        BY <1>0, <1>2, <2>1, <2>3, GotoKeys DEF UploadPoints
    <2> QED BY <1>0, <2>2, <2>3 DEF CommitLookup, CommitInsert, Commit
<1>3. CASE blobs[d].status # "committed" /\ blobs' = [blobs EXCEPT ![d] = Upsert(@, k)] /\ Finish(r)
    <2>1. Upsert(blobs[d], k).key = k /\ Upsert(blobs[d], k).status = "committed"
        BY <1>0, <1>1, <1>3, UpsertTyped
    <2>2. \A e \in Digests : /\ blobs'[e].key = IF e = d THEN k ELSE blobs[e].key
                             /\ blobs'[e].status = IF e = d THEN "committed" ELSE blobs[e].status
        BY <1>0, <1>1, <1>3, <2>1
    <2>3. h'[r] = Idle /\ \A q \in Handlers \ {r} : h'[q] = h[q]
        BY <1>0, <1>3 DEF Finish
    <2>4. HandlerOK(Idle) /\ Idle.key = NoKey
        BY DEF Idle, HandlerOK, UploadPoints, MountPoints, PushPoints
    <2>5. /\ k # NoKey /\ k \in used /\ k \notin stray /\ gc.key # k /\ objects[k] = d
          /\ \A e \in Digests : blobs[e].key # k
          /\ \A c \in gc.todo : c.key # k
          /\ \A q \in Handlers : h[q].key = k => q = r
        BY <1>0, BlobAssumption DEF IInv, KeyInv, UploadInv, UsedInv
    <2>6. LocalInv'
        BY <1>0, <2>3, <2>4 DEF IInv, KeyInv, LocalInv
    <2>7. UsedInv'
        BY <1>0, <2>2, <2>3, <2>4, <2>5 DEF IInv, KeyInv, UsedInv
    <2>8. UploadInv'
        <3> SUFFICES ASSUME NEW p \in Handlers, h'[p].key # NoKey
                     PROVE  /\ h'[p].key \notin stray /\ gc.key # h'[p].key
                            /\ \A e \in Digests : blobs'[e].key # h'[p].key
                            /\ \A c \in gc.todo : c.key # h'[p].key
                            /\ \A q \in Handlers : h'[q].key = h'[p].key => q = p
                            /\ h'[p].pc \in UploadPoints => objects[h'[p].key] = h'[p].d
            BY <1>0 DEF UploadInv
        <3>1. p # r /\ h'[p] = h[p]
            BY <2>3, <2>4
        <3>2. h[p].key # k
            BY <2>5, <3>1
        <3> QED BY <2>2, <2>3, <2>4, <3>1, <3>2 DEF IInv, KeyInv, UploadInv
    <2>9. RowInv'
        BY <1>0, <2>2, <2>5 DEF IInv, KeyInv, RowInv
    <2>10. SafeInv'
        <3>1. \A e \in Digests : e # d => (Held(e)' => Held(e))
            BY <1>0, <2>2 DEF Held
        <3>2. gc.pc = "delete" => gc.d \in Digests
            BY DEF IInv, KeyInv, LocalInv, CollectorOK, ClaimPoints
        <3> QED BY <1>0, <2>2, <2>5, <3>1, <3>2 DEF IInv, SafeInv, Doubtful
    <2> QED BY <2>6, <2>7, <2>8, <2>9, <2>10 DEF KeyInv
<1>4. blobs[d].status = "committed" => Upsert(blobs[d], k) = blobs[d]
    BY <1>0, <1>1, UpsertTyped
<1>5. Commit(r, FALSE) => Finish(r)
    BY DEF Commit
<1>6. ASSUME NEW duplicate \in BOOLEAN, Commit(r, duplicate)
      PROVE  blobs' = [blobs EXCEPT ![d] = Upsert(@, k)] /\ (blobs[d].status = "committed" => UNCHANGED blobs)
    BY <1>0, <1>1, <1>4, <1>6 DEF Commit
<1>7. CASE CommitLookup(r)
    <2>1. CASE blobs[d].status = "committed"
        BY <1>2, <1>6, <1>7, <2>1 DEF CommitLookup
    <2>2. CASE blobs[d].status = "none"
        BY <1>2, <1>7, <2>2 DEF CommitLookup
    <2>3. CASE blobs[d].status = "tombstoned"
        BY <1>3, <1>5, <1>6, <1>7, <2>3 DEF CommitLookup
    <2> QED BY <1>0, <1>1, <2>1, <2>2, <2>3 DEF BlobRow
<1>8. CASE CommitInsert(r)
    BY <1>2, <1>3, <1>5, <1>6, <1>8 DEF CommitInsert
<1> QED BY <1>7, <1>8

\* A key out of use: no row that is or may become committed has it, and no
\* upload.  Its object can go, and so can a delete of it be under way.
LEMMA KeyGone ==
    ASSUME IInv, NEW k \in Keys, UNCHANGED <<blobs, used>>, doubtful \subseteq doubtful',
           UNCHANGED objects \/ objects' = [objects EXCEPT ![k] = NoDigest],
           stray' \subseteq stray \cup {k}, k \in used,
           \A q \in Handlers : h'[q].key # NoKey => h'[q] = h[q] /\ h[q].key # k,
           LocalInv', gc'.key \in {gc.key, NoKey}, gc'.todo \subseteq gc.todo,
           gc'.key # NoKey => gc'.d = gc.d,
           \A d \in Digests : (Held(d)' => Held(d) /\ (blobs[d].key = k => k \in doubtful')),
           gc'.pc # "delete" \/ gc' = gc
    PROVE  KeyInv' /\ SafeInv'
<1>0. objects \in [Keys -> Digests \cup {NoDigest}] /\ used \subseteq Keys /\ NoKey \notin Keys
    BY BlobAssumption DEF IInv, TypeOK
<1>1. \A j \in Keys : j # k => objects'[j] = objects[j]
    BY <1>0
<1>2. UsedInv'
    <2>1. \A q \in Handlers : h'[q].key \in used \cup {NoKey}
        BY DEF IInv, KeyInv, UsedInv
    <2> QED BY <2>1 DEF IInv, KeyInv, UsedInv
<1>3. UploadInv'
    <2> SUFFICES ASSUME NEW p \in Handlers, h'[p].key # NoKey
                 PROVE  /\ h'[p].key \notin stray' /\ gc'.key # h'[p].key
                        /\ \A e \in Digests : blobs[e].key # h'[p].key
                        /\ \A c \in gc'.todo : c.key # h'[p].key
                        /\ \A q \in Handlers : h'[q].key = h'[p].key => q = p
                        /\ h'[p].pc \in UploadPoints => objects'[h'[p].key] = h'[p].d
        BY DEF UploadInv
    <2>1. h'[p] = h[p] /\ h[p].key # k /\ h[p].key \in Keys
        BY <1>0 DEF IInv, KeyInv, UsedInv
    <2>2. objects'[h[p].key] = objects[h[p].key]
        BY <1>1, <2>1
    <2> QED BY <2>1, <2>2 DEF IInv, KeyInv, UploadInv
<1>4. RowInv'
    BY DEF IInv, KeyInv, RowInv
<1>5. SafeInv'
    <2>1. ASSUME NEW d \in Digests, Held(d)'
          PROVE  blobs[d].key \in doubtful' \/ (objects'[blobs[d].key] = d /\ blobs[d].key \notin stray')
        <3>1. Held(d) /\ (blobs[d].key = k => k \in doubtful')
            BY <2>1
        <3>2. blobs[d].key \in Keys
            BY <3>1 DEF Held, IInv, TypeOK, BlobRow
        <3> QED BY <1>1, <3>1, <3>2 DEF IInv, SafeInv, Doubtful
    <2>2. gc'.pc = "delete" => ~(blobs[gc'.d].status = "committed" /\ blobs[gc'.d].key = gc'.key)
        BY DEF IInv, SafeInv
    <2> QED BY <2>1, <2>2 DEF SafeInv, Doubtful
<1> QED BY <1>2, <1>3, <1>4, <1>5 DEF KeyInv

\* A duplicate, abandoned or not, is an upload's own.
LEMMA DuplicateFollows ==
    ASSUME IInv, NEW r \in Handlers, DeleteDuplicate(r) \/ Abandon(r)
    PROVE  KeyInv' /\ SafeInv'
<1>0. /\ h[r] \in Locals /\ h \in [Handlers -> Locals] /\ HandlerOK(h[r]) /\ Finish(r)
      /\ UNCHANGED <<blobs, used, gc, doubtful>>
    BY DEF IInv, TypeOK, KeyInv, LocalInv, DeleteDuplicate, Abandon, tables, history
<1>1. CASE h[r].pc = "dedup"
    <2>1. h[r].key \in Keys /\ h[r].key # NoKey /\ h[r].key \in used
        BY <1>0, <1>1 DEF HandlerOK, Locals, IInv, KeyInv, UsedInv
    <2>2. h'[r] = Idle /\ Idle.key = NoKey /\ HandlerOK(Idle) /\ \A q \in Handlers \ {r} : h'[q] = h[q]
        BY <1>0 DEF Finish, Idle, HandlerOK, UploadPoints, MountPoints, PushPoints
    <2>3. LocalInv'
        BY <1>0, <2>2 DEF IInv, KeyInv, LocalInv
    <2>4. \A q \in Handlers : h'[q].key # NoKey => h'[q] = h[q] /\ h[q].key # h[r].key
        BY <2>1, <2>2 DEF IInv, KeyInv, UploadInv
    <2>5. \A d \in Digests : blobs[d].key # h[r].key
        BY <2>1 DEF IInv, KeyInv, UploadInv
    <2>6. \A d \in Digests : Held(d)' => Held(d)
        BY <1>0 DEF Held
    <2>7. /\ UNCHANGED objects \/ objects' = [objects EXCEPT ![h[r].key] = NoDigest]
          /\ stray' \subseteq stray \cup {h[r].key}
        BY <1>1 DEF DeleteDuplicate, Remove, Abandon
    <2> QED BY <1>0, <2>1, <2>3, <2>4, <2>5, <2>6, <2>7, KeyGone
<1>2. CASE h[r].pc # "dedup"
    <2>1. UNCHANGED <<objects, stray>>
        BY <1>2 DEF DeleteDuplicate, Abandon
    <2> QED BY <1>0, <2>1, FinishKeys, RowsSafe
<1> QED BY <1>1, <1>2

\* A late delete finds its key out of use, unless it is the one whose result
\* is unknown.
LEMMA LandFollows ==
    ASSUME IInv, NEW k \in Keys, Land(k) \/ Lose(k)
    PROVE  KeyInv' /\ SafeInv'
<1>1. /\ k \in stray /\ stray' \subseteq stray /\ UNCHANGED <<blobs, used, h, gc, doubtful>>
      /\ UNCHANGED objects \/ objects' = [objects EXCEPT ![k] = NoDigest]
    BY DEF Land, Lose, Remove, tables, history
<1>2. k \in used /\ LocalInv'
    BY <1>1 DEF IInv, KeyInv, UsedInv, LocalInv
<1>3. \A q \in Handlers : h[q].key # NoKey => h[q].key # k
    BY <1>1 DEF IInv, KeyInv, UploadInv
<1>4. \A d \in Digests : Held(d)' => Held(d)
    BY <1>1 DEF Held
<1>5. \A d \in Digests : Held(d) => (blobs[d].key = k => k \in doubtful)
    BY <1>1 DEF IInv, SafeInv, Doubtful
<1> QED BY <1>1, <1>2, <1>3, <1>4, <1>5, KeyGone

\* The collector goes on without touching rows, bucket or keys.
LEMMA GcMoves ==
    ASSUME IInv, UNCHANGED <<blobs, objects, used, stray, h, doubtful>>, CollectorOK(gc'),
           gc'.key \in {gc.key, NoKey}, gc'.todo \subseteq gc.todo, gc'.key # NoKey => gc'.d = gc.d,
           gc'.pc = "revert" => gc.pc = "delete", gc'.pc # "delete"
    PROVE  KeyInv' /\ SafeInv'
<1>1. LocalInv' /\ UsedInv' /\ UploadInv' /\ RowInv'
    BY DEF IInv, KeyInv, LocalInv, UsedInv, UploadInv, RowInv
<1>2. SafeInv'
    <2>1. \A d \in Digests : Held(d)' => Held(d)
        BY DEF Held, IInv, KeyInv, LocalInv, CollectorOK, ClaimPoints
    <2> QED BY <2>1 DEF IInv, SafeInv, Doubtful
<1> QED BY <1>1, <1>2 DEF KeyInv

\* The SELECT of a pass notes each row with its key.
LEMMA ScanFollows ==
    ASSUME IInv, GcScan
    PROVE  KeyInv' /\ SafeInv'
<1>1. /\ gc.pc = "idle" /\ UNCHANGED <<blobs, objects, used, stray, h, doubtful>>
      /\ gc'.pc = "claim" /\ gc'.key = NoKey /\ gc'.d = NoDigest
      /\ gc'.todo = {[d |-> d, key |-> blobs[d].key] : d \in Oldest({e \in Digests : Garbage(e)})}
    BY DEF GcScan, GcIdle, tables, history
<1>2. \A c \in gc'.todo : c.d \in Digests /\ c.key = blobs[c.d].key /\ c.key # NoKey
    <2>1. \A d \in Digests : Garbage(d) => blobs[d].key # NoKey
        BY DEF Garbage, IInv, TypeOK
    <2> DEFINE Old == Oldest({e \in Digests : Garbage(e)})
    <2>2. \A d \in Old : d \in Digests /\ blobs[d].key # NoKey
        BY <2>1, OldestOf
    <2> HIDE DEF Old
    <2>3. gc'.todo = {[d |-> d, key |-> blobs[d].key] : d \in Old}
        BY <1>1 DEF Old
    <2> QED BY <2>2, <2>3
<1>3. LocalInv'
    BY <1>1 DEF IInv, KeyInv, LocalInv, CollectorOK, ClaimPoints
<1>4. UsedInv' /\ RowInv'
    BY <1>1, <1>2 DEF IInv, KeyInv, UsedInv, RowInv
<1>5. UploadInv'
    <2>1. UploadInv /\ NoKey = gc'.key
        BY <1>1 DEF IInv, KeyInv
    <2>2. \A r \in Handlers : h[r].key # NoKey => \A c \in gc'.todo : c.key # h[r].key
        BY <1>2, <2>1 DEF UploadInv
    <2> QED BY <1>1, <2>1, <2>2 DEF UploadInv
<1>6. SafeInv'
    <2>1. \A d \in Digests : Held(d)' => Held(d)
        BY <1>1 DEF Held
    <2> QED BY <1>1, <2>1 DEF IInv, SafeInv, Doubtful
<1> QED BY <1>3, <1>4, <1>5, <1>6 DEF KeyInv

\* From the tombstone on the key is the collector's.
LEMMA ClaimFollows ==
    ASSUME IInv, NEW c \in Candidates, GcClaim(c)
    PROVE  KeyInv' /\ SafeInv'
<1>0. /\ c \in gc.todo /\ c.d \in Digests /\ c.key \in Keys /\ c.key # NoKey /\ gc.pc = "claim"
      /\ UNCHANGED <<objects, used, stray, h, doubtful>>
    BY BlobAssumption DEF GcClaim, IsNext, Candidates
<1>1. CASE Garbage(c.d)
    <2>1. /\ gc'.pc = "delete" /\ gc'.d = c.d /\ gc'.key = c.key /\ gc'.todo = gc.todo \ {c}
        BY <1>1 DEF GcClaim
    <2>2. /\ \A e \in Digests : blobs'[e].key = blobs[e].key
          /\ \A e \in Digests : blobs'[e].status = IF e = c.d THEN "tombstoned" ELSE blobs[e].status
        BY <1>0, <1>1, StatusTyped DEF GcClaim, Garbage
    <2>3. LocalInv' /\ UsedInv'
        BY <1>0, <2>1, <2>2 DEF IInv, KeyInv, LocalInv, UsedInv, CollectorOK, ClaimPoints
    <2>4. UploadInv'
        BY <1>0, <2>1, <2>2 DEF IInv, KeyInv, UploadInv
    <2>5. RowInv'
        BY <1>0, <2>1, <2>2 DEF IInv, KeyInv, RowInv
    <2>6. SafeInv'
        <3>1. \A d \in Digests : Held(d)' => Held(d)
            BY <1>0, <1>1, <2>1, <2>2 DEF Held, Garbage
        <3> QED BY <1>0, <2>1, <2>2, <3>1 DEF IInv, SafeInv, Doubtful
    <2> QED BY <2>3, <2>4, <2>5, <2>6 DEF KeyInv
<1>2. CASE ~Garbage(c.d)
    <2>1. gc' = [gc EXCEPT !.todo = @ \ {c}] /\ UNCHANGED blobs
        BY <1>2 DEF GcClaim
    <2>2. gc'.pc = "claim" /\ gc'.key = gc.key /\ gc'.d = gc.d /\ gc'.todo \subseteq gc.todo
        BY <1>0, <2>1 DEF IInv, TypeOK, Collector
    <2>3. CollectorOK(gc')
        BY <1>0, <2>2 DEF IInv, KeyInv, LocalInv, CollectorOK
    <2> QED BY <1>0, <2>1, <2>2, <2>3, GcMoves
<1> QED BY <1>1, <1>2

\* A delete, answered or not, is of a key that no row holds any more, or its
\* result is unknown.
LEMMA DeleteFollows ==
    ASSUME IInv, GcDelete \/ GcRefused \/ GcDeleteFails \/ GcStops
    PROVE  KeyInv' /\ SafeInv'
<1>0. gc \in Collector /\ CollectorOK(gc) /\ UNCHANGED <<blobs, used, h>>
    BY DEF IInv, TypeOK, KeyInv, LocalInv, GcDelete, GcRefused, GcDeleteFails, GcStops, tables
<1>1. CASE gc.pc = "delete"
    <2>1. /\ gc.key \in Keys /\ gc.key # NoKey /\ gc.d \in Digests /\ gc.key \in used
          /\ \A q \in Handlers : h[q].key # NoKey => h[q].key # gc.key
          /\ \A d \in Digests : blobs[d].key = gc.key => d = gc.d /\ blobs[d].status # "committed"
        BY <1>0, <1>1, BlobAssumption
        DEF CollectorOK, ClaimPoints, Collector, IInv, KeyInv, UploadInv, UsedInv, RowInv, SafeInv
    <2>2. CASE GcDelete
        <3>1. /\ gc'.pc = "unlink" /\ gc'.key = gc.key /\ gc'.d = gc.d /\ gc'.todo = gc.todo
              /\ UNCHANGED <<stray, doubtful>> /\ objects' = [objects EXCEPT ![gc.key] = NoDigest]
            BY <1>0, <2>2 DEF GcDelete, Remove, Collector, history
        <3>2. LocalInv'
            BY <1>0, <1>1, <3>1 DEF IInv, KeyInv, LocalInv, CollectorOK, ClaimPoints
        <3>3. \A d \in Digests : Held(d)' => Held(d) /\ blobs[d].key # gc.key
            BY <1>0, <2>1, <3>1 DEF Held
        <3> QED BY <1>0, <2>1, <3>1, <3>2, <3>3, KeyGone
    <2>3. CASE GcRefused
        <3>1. /\ gc'.pc = "revert" /\ gc'.key = gc.key /\ gc'.d = gc.d /\ gc'.todo = gc.todo
              /\ UNCHANGED <<objects, stray, doubtful>>
            BY <1>0, <2>3 DEF GcRefused, Collector, history
        <3>2. CollectorOK(gc')
            BY <1>0, <1>1, <3>1 DEF CollectorOK, ClaimPoints
        <3> QED BY <1>0, <1>1, <3>1, <3>2, GcMoves
    <2>4. CASE GcDeleteFails
        <3>1. /\ gc'.pc = "revert" /\ gc'.key = gc.key /\ gc'.d = gc.d /\ gc'.todo = gc.todo
              /\ stray' = stray \cup {gc.key} /\ doubtful' = doubtful \cup {gc.key} /\ UNCHANGED objects
            BY <1>0, <2>4 DEF GcDeleteFails, Collector
        <3>2. LocalInv'
            BY <1>0, <1>1, <3>1 DEF IInv, KeyInv, LocalInv, CollectorOK, ClaimPoints
        <3>3. \A d \in Digests : Held(d)' => Held(d)
            BY <1>0, <1>1, <3>1 DEF Held
        <3> QED BY <1>0, <2>1, <3>1, <3>2, <3>3, KeyGone
    <2>5. CASE GcStops
        <3>1. /\ gc'.pc = "idle" /\ gc'.key = NoKey /\ gc'.d = NoDigest /\ gc'.todo = {}
              /\ stray' = stray \cup {gc.key} /\ UNCHANGED <<objects, doubtful>>
            BY <1>1, <2>5 DEF GcStops, GcIdle, tables, history
        <3>2. LocalInv'
            BY <1>0, <3>1 DEF IInv, KeyInv, LocalInv, CollectorOK, ClaimPoints
        <3>3. \A d \in Digests : Held(d)' => Held(d) /\ blobs[d].key # gc.key
            BY <1>0, <2>1, <3>1 DEF Held
        <3> QED BY <1>0, <2>1, <3>1, <3>2, <3>3, KeyGone
    <2> QED BY <2>2, <2>3, <2>4, <2>5
<1>2. CASE gc.pc # "delete"
    <2>1. /\ gc' = GcIdle /\ UNCHANGED <<objects, stray, doubtful>>
        BY <1>2 DEF GcDelete, GcRefused, GcDeleteFails, GcStops, tables, history
    <2>2. CollectorOK(GcIdle) /\ GcIdle.key = NoKey /\ GcIdle.todo = {} /\ GcIdle.pc = "idle"
        BY DEF GcIdle, CollectorOK, ClaimPoints
    <2> QED BY <1>0, <2>1, <2>2, GcMoves
<1> QED BY <1>1, <1>2

\* The revert commits a row that was held.
LEMMA RevertFollows ==
    ASSUME IInv, GcRevert
    PROVE  KeyInv' /\ SafeInv'
<1>0. /\ gc.pc = "revert" /\ gc.d \in Digests /\ gc' = GcIdle
      /\ UNCHANGED <<objects, used, stray, h, doubtful>>
    BY DEF GcRevert, IInv, KeyInv, LocalInv, CollectorOK, ClaimPoints
<1>1. GcIdle.key = NoKey /\ GcIdle.todo = {} /\ GcIdle.pc = "idle" /\ CollectorOK(GcIdle)
    BY DEF GcIdle, CollectorOK, ClaimPoints
<1>2. \A e \in Digests : /\ blobs'[e].key = blobs[e].key
                         /\ blobs'[e].status = IF e = gc.d /\ blobs[e].status = "tombstoned"
                                               THEN "committed" ELSE blobs[e].status
    BY <1>0, StatusTyped DEF GcRevert
<1>3. LocalInv' /\ UsedInv' /\ UploadInv' /\ RowInv'
    BY <1>0, <1>1, <1>2 DEF IInv, KeyInv, LocalInv, UsedInv, UploadInv, RowInv
<1>4. SafeInv'
    <2>1. \A d \in Digests : Held(d)' => Held(d)
        BY <1>0, <1>1, <1>2 DEF Held
    <2> QED BY <1>0, <1>1, <1>2, <2>1 DEF IInv, SafeInv, Doubtful
<1> QED BY <1>3, <1>4 DEF KeyInv

LEMMA GcFollows ==
    ASSUME IInv, GcStep
    PROVE  KeyInv' /\ SafeInv'
<1>1. CASE GcPassEnds
    <2>1. CollectorOK(GcIdle) /\ GcIdle.key = NoKey /\ GcIdle.todo = {} /\ GcIdle.pc = "idle"
        BY DEF GcIdle, CollectorOK, ClaimPoints
    <2> QED BY <1>1, <2>1, GcMoves DEF GcPassEnds, tables, history
<1>2. CASE GcUnlink
    <2>1. gc'.pc = "claim" /\ gc'.key = NoKey /\ gc'.todo = gc.todo
        BY <1>2 DEF GcUnlink, IInv, TypeOK, Collector
    <2>2. CollectorOK(gc')
        BY <2>1 DEF CollectorOK, ClaimPoints
    <2> QED BY <1>2, <2>1, <2>2, GcMoves DEF GcUnlink, history
<1> QED BY <1>1, <1>2, ScanFollows, ClaimFollows, DeleteFollows, RevertFollows DEF GcStep

\* Neither a deleted manifest nor the end of a grace period changes a key.
LEMMA OtherFollows ==
    ASSUME IInv,
           \/ \E repo \in Repos, m \in Manifests : DeleteManifest(repo, m)
           \/ \E d \in Digests : Age(d)
           \/ UNCHANGED vars
    PROVE  KeyInv' /\ SafeInv'
<1>1. /\ UNCHANGED <<objects, used, stray, h, gc, doubtful>>
      /\ \A e \in Digests : blobs'[e].key = blobs[e].key /\ blobs'[e].status = blobs[e].status
    BY DEF DeleteManifest, Age, vars, tables, history, IInv, TypeOK, BlobRow
<1>2. LocalInv' /\ UsedInv' /\ UploadInv' /\ RowInv'
    BY <1>1 DEF IInv, KeyInv, LocalInv, UsedInv, UploadInv, RowInv
<1> QED BY <1>1, <1>2, RowsSafe DEF KeyInv

-----------------------------------------------------------------------------
(* The invariant *)

LEMMA InitInv == Init => IInv
<1> SUFFICES ASSUME Init PROVE IInv
    OBVIOUS
<1> USE BlobAssumption
<1>1. /\ \A d \in Digests : blobs[d] = NoBlob
      /\ \A r \in Handlers : h[r] = Idle
      /\ gc = GcIdle /\ stray = {} /\ used = {}
    BY DEF Init
<1>2. TypeOK
    <2>1. NoBlob \in BlobRow /\ NoBlob.status = "none" /\ NoBlob.key = NoKey
        BY DEF NoBlob, BlobRow
    <2>2. Idle \in Locals /\ GcIdle \in Collector
        BY DEF Idle, Locals, GcIdle, Collector
    <2> QED BY <1>1, <2>1, <2>2 DEF Init, TypeOK
<1>3. KeyInv
    BY <1>1 DEF KeyInv, LocalInv, UsedInv, UploadInv, RowInv, HandlerOK, CollectorOK, Idle, GcIdle,
       NoBlob, UploadPoints, MountPoints, PushPoints, ClaimPoints
<1>4. SafeInv
    BY <1>1 DEF SafeInv, Held, NoBlob, GcIdle
<1> QED BY <1>2, <1>3, <1>4 DEF IInv

LEMMA NextInv == IInv /\ [Next]_vars => IInv'
<1> SUFFICES ASSUME IInv, [Next]_vars PROVE IInv'
    OBVIOUS
<1>1. CASE \E r \in Handlers : Arrive(r) \/ Step(r)
    BY <1>1, TypeStep, ArriveFollows, LocalFollows, CommitFollows, DuplicateFollows DEF Step, IInv
<1>2. CASE GcStep
    BY <1>2, TypeStep, GcFollows DEF IInv
<1>3. CASE Fault
    BY <1>3, TypeStep, DuplicateFollows, DeleteFollows, LandFollows DEF Fault, IInv
<1>4. CASE \/ \E repo \in Repos, m \in Manifests : DeleteManifest(repo, m)
           \/ \E d \in Digests : Age(d)
           \/ UNCHANGED vars
    BY <1>4, TypeStep, OtherFollows DEF IInv
<1> QED BY <1>1, <1>2, <1>3, <1>4 DEF Next

THEOREM Invariance == Spec => []IInv
BY InitInv, NextInv, PTL DEF Spec

\* Every reachable state of the tables, the bucket, the handlers and the
\* collector is well formed.
THEOREM TypeCorrect == Spec => []TypeOK
<1>1. IInv => TypeOK
    BY DEF IInv
<1> QED BY <1>1, Invariance, PTL

\* No row is committed without its object, whatever uploads, repairs, the
\* collector and late deletes do to each other, except where the result of a
\* delete is unknown (commit_blob, clean_unreferenced_blobs).
THEOREM CommittedIsStored == Spec => []CommittedHasObject
<1>1. IInv => CommittedHasObject
    BY DEF IInv, SafeInv, Held, CommittedHasObject
<1> QED BY <1>1, Invariance, PTL

\* No delete, of a duplicate, of the collector or a late one, is of an object
\* that a committed row names.
THEOREM LiveObjectsStay == Spec => NeverDeletesLiveObject
<1> DEFINE Stays == \A k \in Keys \ doubtful : objects[k] # NoDigest /\ objects'[k] = NoDigest =>
                        \A d \in Digests : blobs'[d].status = "committed" => blobs'[d].key # k
<1>1. ASSUME IInv, [Next]_vars PROVE [Stays]_vars
    <2> SUFFICES ASSUME NEW k \in Keys \ doubtful, objects[k] # NoDigest, objects'[k] = NoDigest,
                        NEW d \in Digests, blobs'[d].status = "committed", blobs'[d].key = k
                 PROVE  FALSE
        OBVIOUS
    <2>1. IInv'
        BY <1>1, NextInv
    <2>2. Held(d)'
        BY DEF Held
    <2>3. k \in doubtful' \/ objects'[k] = d
        BY <2>1, <2>2 DEF IInv, SafeInv, Doubtful
    <2>4. k \in doubtful'
        BY <2>3, BlobAssumption, SMTT(30)
    <2>5. GcDeleteFails
        BY <1>1, <2>4, ZenonT(40) DEF Next, Arrive, Step, GcStep, Fault, Assemble, ReceiveMount, ReceivePush,
           RepairSelect, RepairExists, RepairTombstone, CommitLookup, CommitInsert, Commit,
           DeleteDuplicate, MountCheck, MountLink, Validate, Persist, DeleteManifest, GcScan,
           GcClaim, GcPassEnds, GcDelete, GcRefused, GcRevert, GcUnlink, Age, Abandon, GcStops, Land, Lose,
           vars, history
    <2> QED BY <2>5 DEF GcDeleteFails
<1> QED BY <1>1, Invariance, PTL DEF Spec, NeverDeletesLiveObject

-----------------------------------------------------------------------------
(***************************************************************************)
(* Proof that what a repository serves can be pulled from it, but for      *)
(* manifests whose push a claim of the collector has met.  Such pushes are *)
(* the ones in racing, and their manifests those in raced: put_manifest    *)
(* validates outside of its transaction, and the collector claims without  *)
(* looking for pushes, so the code promises nothing about them.            *)
(*                                                                         *)
(* A blob is kept for a repository when it is linked and its row is        *)
(* committed, or tombstoned by a repair after a delete with an unknown     *)
(* result.  Only the collector takes that away, in two steps: GcClaim,     *)
(* which looks for references, and GcUnlink, which finds what GcClaim left *)
(* and the pushes that have come since.  ClaimInv carries from one to the  *)
(* other who may miss the blob; KeptInv says who relies on what is kept.   *)
(***************************************************************************)

Fine(d) == blobs[d].status = "committed" \/ (blobs[d].status = "tombstoned" /\ Doubtful(d))

Kept(repo, d) == <<repo, d>> \in links /\ Fine(d)

\* A repair tombstones a key under which there is nothing.
FoundInv ==
    \A r \in Handlers : h[r].pc \in {"exists", "tombstone"} =>
        h[r].found \in used /\ (h[r].pc = "tombstone" => objects[h[r].found] = NoDigest)

\* The edges of what a repository serves are there for the collector to see.
EdgesInv == \A repo \in Repos, m \in Manifests : rm[repo][m] = "live" => m \in edges

\* Whoever needs a claimed blob has met the claim.
ClaimInv ==
    Claimed =>
        /\ \A repo \in Repos, m \in Manifests :
              rm[repo][m] = "live" /\ gc.d \in LayerSet(m) => <<repo, m>> \in raced
        /\ \A r \in Handlers : Pushing(r) /\ gc.d \in LayerSet(h[r].m) => r \in racing

\* What a push still has to ask for.
Asks(r, d) == \E i \in DOMAIN h[r].todo : h[r].todo[i] = d

KeptInv ==
    /\ \A repo \in Repos, m \in Manifests : rm[repo][m] = "live" /\ <<repo, m>> \notin raced =>
          \A d \in LayerSet(m) : Kept(repo, d)
    /\ \A r \in Handlers \ racing : h[r].pc = "validate" =>
          \A d \in LayerSet(h[r].m) : Kept(h[r].repo, d) \/ Asks(r, d)
    /\ \A r \in Handlers \ racing : h[r].pc = "persist" =>
          \A d \in LayerSet(h[r].m) : Kept(h[r].repo, d)

PullInv == FoundInv /\ EdgesInv /\ ClaimInv /\ KeptInv

-----------------------------------------------------------------------------
(* Repairs *)

LEMMA LayersTyped ==
    ASSUME NEW m \in Manifests
    PROVE  Layers[m] \in Seq(Digests) /\ LayerSet(m) \subseteq Digests
<1>1. Layers[m] \in Seq(Digests)
    BY BlobAssumption
<1> QED BY <1>1, ElementOfSeq DEF LayerSet

\* No step puts an object under a key that has been used.
LEMMA GoneStays ==
    ASSUME IInv, [Next]_vars
    PROVE  used \subseteq used' /\ \A k \in used : objects[k] = NoDigest => objects'[k] = NoDigest
<1>0. objects \in [Keys -> Digests \cup {NoDigest}] /\ used \subseteq Keys
    BY DEF IInv, TypeOK
<1>1. \/ UNCHANGED <<objects, used>>
      \/ UNCHANGED used /\ \E k : objects' = [objects EXCEPT ![k] = NoDigest]
      \/ \E k \in Keys \ used, d \in Digests : /\ used' = used \cup {k}
                                               /\ objects' = [objects EXCEPT ![k] = d]
    BY ZenonT(40) DEF Next, Arrive, Step, GcStep, Fault, Assemble, ReceiveMount, ReceivePush,
       RepairSelect, RepairExists, RepairTombstone, CommitLookup, CommitInsert,
       DeleteDuplicate, MountCheck, MountLink, Validate, Persist, DeleteManifest, GcScan,
       GcClaim, GcPassEnds, GcDelete, GcRefused, GcDeleteFails, GcRevert, GcUnlink, Age, Abandon, GcStops,
       Land, Lose, Remove, vars
<1> QED BY <1>0, <1>1

\* Who handlers are after a step: one of them moves at most.
LEMMA OneMoves ==
    ASSUME IInv, NEW r \in Handlers, Arrive(r) \/ Step(r) \/ Abandon(r)
    PROVE  \A q \in Handlers \ {r} : h'[q] = h[q]
<1>0. h \in [Handlers -> Locals]
    BY DEF IInv, TypeOK
<1> QED BY <1>0 DEF Arrive, Step, Assemble, ReceiveMount, ReceivePush, RepairSelect, RepairExists,
           RepairTombstone, CommitLookup, CommitInsert, Commit, DeleteDuplicate, MountCheck,
           MountLink, Validate, Persist, Abandon, Goto, Finish

\* The others leave the handlers alone.
LEMMA NoneMoves ==
    ASSUME [Next]_vars, ~ \E r \in Handlers : Arrive(r) \/ Step(r) \/ Abandon(r)
    PROVE  h' = h
BY DEF Next, GcStep, Fault, DeleteManifest, GcScan, GcClaim, GcPassEnds, GcDelete, GcRefused, GcDeleteFails,
   GcRevert, GcUnlink, Age, GcStops, Land, Lose, vars

\* Where a handler goes.
LEMMA Moves ==
    ASSUME IInv, NEW r \in Handlers, Arrive(r) \/ Step(r) \/ Abandon(r)
    PROVE  /\ h'[r].pc = "exists" => RepairSelect(r)
           /\ h'[r].pc = "tombstone" => RepairExists(r)
           /\ h'[r].pc = "validate" =>
                 \/ Validate(r) /\ h[r].todo # << >>
                 \/ \E repo \in Repos, m \in Manifests : ReceivePush(r, repo, m)
           /\ h'[r].pc = "persist" => Validate(r) /\ h[r].todo = << >>
<1>0. h \in [Handlers -> Locals] /\ h[r] \in Locals
    BY DEF IInv, TypeOK
<1>1. \A p : Goto(r, p) => h'[r].pc = p
    BY <1>0 DEF Goto, Locals
<1>2. Finish(r) => h'[r].pc = "idle"
    BY <1>0 DEF Finish, Idle
<1>3. CASE Arrive(r)
    <2>1. ASSUME NEW repo \in Repos, NEW d \in Digests, NEW k \in Keys, Assemble(r, repo, d, k)
          PROVE  h'[r].pc = "repair"
        BY <1>0, <2>1 DEF Assemble, Idle
    <2>2. ASSUME NEW repo \in Repos, NEW from \in Repos, NEW d \in Digests, ReceiveMount(r, repo, from, d)
          PROVE  h'[r].pc = "check"
        BY <1>0, <2>2 DEF ReceiveMount, Idle
    <2>3. ASSUME NEW repo \in Repos, NEW m \in Manifests, ReceivePush(r, repo, m)
          PROVE  h'[r].pc = "validate"
        BY <1>0, <2>3 DEF ReceivePush, Idle
    <2> QED BY <1>3, <2>1, <2>2, <2>3 DEF Arrive
<1>4. CASE RepairSelect(r)
    BY <1>0, <1>1, <1>4 DEF RepairSelect, Locals
<1>5. CASE \/ RepairExists(r) \/ RepairTombstone(r) \/ CommitLookup(r) \/ CommitInsert(r)
           \/ DeleteDuplicate(r) \/ MountCheck(r) \/ MountLink(r) \/ Persist(r) \/ Abandon(r)
    BY <1>1, <1>2, <1>5 DEF RepairExists, RepairTombstone, CommitLookup, CommitInsert, Commit,
       DeleteDuplicate, MountCheck, MountLink, Persist, Abandon
<1>6. CASE Validate(r)
    <2>1. CASE h[r].todo = << >>
        BY <1>1, <1>6, <2>1 DEF Validate
    <2>2. CASE h[r].todo # << >>
        <3>1. h' = [h EXCEPT ![r].todo = Tail(@)] => h'[r].pc = "validate"
            BY <1>0, <1>6 DEF Validate, Locals
        <3> QED BY <1>2, <1>6, <2>2, <3>1 DEF Validate
    <2> QED BY <2>1, <2>2
<1> QED BY <1>3, <1>4, <1>5, <1>6 DEF Step

LEMMA FoundFollows ==
    ASSUME IInv, FoundInv, [Next]_vars
    PROVE  FoundInv'
<1>0. h \in [Handlers -> Locals] /\ \A q \in Handlers : h[q] \in Locals /\ HandlerOK(h[q])
    BY DEF IInv, TypeOK, KeyInv, LocalInv
<1> SUFFICES ASSUME NEW q \in Handlers, h'[q].pc \in {"exists", "tombstone"}
             PROVE  /\ h'[q].found \in used'
                    /\ h'[q].pc = "tombstone" => objects'[h'[q].found] = NoDigest
    BY DEF FoundInv
<1>1. CASE h'[q] = h[q]
    BY <1>1, GoneStays DEF FoundInv
<1>2. CASE h'[q] # h[q]
    <2>1. Arrive(q) \/ Step(q) \/ Abandon(q)
        BY <1>2, OneMoves, NoneMoves
    <2>2. CASE RepairSelect(q)
        <3>1. h[q].d \in Digests
            BY <1>0, <2>2 DEF RepairSelect, HandlerOK, UploadPoints
        <3>2. Goto(q, "lookup") => h'[q].pc = "lookup"
            BY <1>0 DEF Goto, Locals
        <3>3. /\ blobs[h[q].d].status = "committed"
              /\ h' = [h EXCEPT ![q].pc = "exists", ![q].found = blobs[h[q].d].key]
            BY <2>2, <3>2 DEF RepairSelect
        <3>4. h'[q].pc = "exists" /\ h'[q].found = blobs[h[q].d].key
            BY <1>0, <3>3 DEF Locals
        <3>5. blobs[h[q].d].key \in used
            BY <3>1, <3>3 DEF IInv, TypeOK, KeyInv, UsedInv
        <3> QED BY <3>4, <3>5, GoneStays
    <2>3. CASE RepairExists(q) /\ h'[q].pc = "tombstone"
        <3>1. h'[q].found = h[q].found /\ objects[h[q].found] = NoDigest
            BY <1>0, <2>3 DEF RepairExists, Goto, Locals
        <3> QED BY <2>3, <3>1, GoneStays DEF RepairExists, FoundInv
    <2> QED BY <2>1, <2>2, <2>3, Moves
<1> QED BY <1>1, <1>2

-----------------------------------------------------------------------------
(* What is kept *)

\* A row stays fine, but for a claim of the collector: a repair tombstones a
\* row without an object, whose delete had an unknown result.
LEMMA RowsKept ==
    ASSUME IInv, FoundInv, [Next]_vars, NEW d \in Digests, Fine(d)
    PROVE  Fine(d)' \/ \E c \in Candidates : GcClaim(c) /\ c.d = d /\ Garbage(d)
<1>0. /\ blobs \in [Digests -> BlobRow]
      /\ \A e \in Digests : blobs[e].status = "none" <=> blobs[e].key = NoKey
      /\ \A r \in Handlers : h[r] \in Locals /\ HandlerOK(h[r])
    BY SMTT(30) DEF IInv, TypeOK, KeyInv, LocalInv
<1>1. doubtful \subseteq doubtful'
    BY ZenonT(40) DEF Next, Arrive, Step, GcStep, Fault, Assemble, ReceiveMount, ReceivePush,
       RepairSelect, RepairExists, RepairTombstone, CommitLookup, CommitInsert,
       DeleteDuplicate, MountCheck, MountLink, Validate, Persist, DeleteManifest, GcScan,
       GcClaim, GcPassEnds, GcDelete, GcRefused, GcDeleteFails, GcRevert, GcUnlink, Age, Abandon, GcStops,
       Land, Lose, vars, history
<1>2. ASSUME blobs'[d].key = blobs[d].key, blobs'[d].status \in {blobs[d].status, "committed"}
      PROVE  Fine(d)'
    BY <1>1, <1>2 DEF Fine, Doubtful
<1>3. ASSUME UNCHANGED blobs PROVE Fine(d)'
    BY <1>2, <1>3
<1>4. ASSUME NEW r \in Handlers, RepairTombstone(r)
      PROVE  Fine(d)'
    <2>1. h[r].d \in Digests
        BY <1>0, <1>4 DEF RepairTombstone, HandlerOK, UploadPoints
    <2>2. CASE d = h[r].d /\ blobs[d].status = "committed" /\ blobs[d].key = h[r].found
        <3>1. objects[blobs[d].key] = NoDigest
            BY <1>4, <2>2 DEF RepairTombstone, FoundInv
        <3>2. Doubtful(d)
            BY <2>2, <3>1, BlobAssumption DEF IInv, SafeInv, Held
        <3>3. blobs'[d].key = blobs[d].key /\ blobs'[d].status = "tombstoned"
            BY <1>0, <1>4, <2>2, StatusTyped DEF RepairTombstone
        <3> QED BY <1>1, <3>2, <3>3 DEF Fine, Doubtful
    <2>3. CASE ~(d = h[r].d /\ blobs[d].status = "committed" /\ blobs[d].key = h[r].found)
        <3>1. blobs'[d] = blobs[d]
            BY <1>0, <1>4, <2>1, <2>3 DEF RepairTombstone
        <3> QED BY <1>2, <3>1
    <2> QED BY <2>2, <2>3
<1>5. ASSUME NEW r \in Handlers, CommitLookup(r) \/ CommitInsert(r)
      PROVE  Fine(d)'
    <2>1. h[r].d \in Digests /\ h[r].key \in Keys
        BY <1>0, <1>5, BlobAssumption DEF CommitLookup, CommitInsert, HandlerOK, UploadPoints, Locals
    <2>2. CASE blobs' = [blobs EXCEPT ![h[r].d] = Upsert(@, h[r].key)]
        <3>1. CASE d = h[r].d
            BY <1>0, <2>1, <2>2, <3>1, UpsertTyped DEF Fine
        <3>2. CASE d # h[r].d
            BY <1>0, <1>2, <2>1, <2>2, <3>2
        <3> QED BY <3>1, <3>2
    <2> QED BY <1>3, <1>5, <2>2 DEF CommitLookup, CommitInsert, Commit
<1>6. CASE GcRevert
    <2>1. gc.d \in Digests
        BY <1>6 DEF GcRevert, IInv, KeyInv, LocalInv, CollectorOK, ClaimPoints
    <2>2. blobs'[d].key = blobs[d].key /\ blobs'[d].status \in {blobs[d].status, "committed"}
        BY <1>0, <1>6, <2>1, StatusTyped DEF GcRevert
    <2> QED BY <1>2, <2>2
<1>7. ASSUME NEW c \in Candidates, GcClaim(c)
      PROVE  Fine(d)' \/ (c.d = d /\ Garbage(d))
    <2>1. c.d \in Digests
        BY DEF Candidates
    <2>2. CASE ~Garbage(c.d)
        BY <1>3, <1>7, <2>2 DEF GcClaim
    <2>3. CASE Garbage(c.d) /\ c.d # d
        <3>1. blobs'[d] = blobs[d]
            BY <1>0, <1>7, <2>1, <2>3 DEF GcClaim
        <3> QED BY <1>2, <3>1
    <2> QED BY <2>2, <2>3
<1>8. ASSUME NEW e \in Digests, Age(e)
      PROVE  Fine(d)'
    <2>1. blobs'[d].key = blobs[d].key /\ blobs'[d].status = blobs[d].status
        BY <1>0, <1>8, SMTT(30) DEF Age, BlobRow
    <2> QED BY <1>2, <2>1
<1>9. \/ UNCHANGED blobs
      \/ \E r \in Handlers : RepairTombstone(r) \/ CommitLookup(r) \/ CommitInsert(r)
      \/ GcRevert \/ (\E c \in Candidates : GcClaim(c)) \/ \E e \in Digests : Age(e)
    BY ZenonT(40) DEF Next, Arrive, Step, GcStep, Fault, Assemble, ReceiveMount, ReceivePush,
       RepairSelect, RepairExists, DeleteDuplicate, MountCheck, MountLink, Validate, Persist,
       DeleteManifest, GcScan, GcPassEnds, GcDelete, GcRefused, GcDeleteFails, GcUnlink, Abandon, GcStops,
       Land, Lose, vars, tables
<1> QED BY <1>3, <1>4, <1>5, <1>6, <1>7, <1>8, <1>9

\* A link stays, but for the collector's.
LEMMA LinksKept ==
    ASSUME [Next]_vars
    PROVE  links \subseteq links' \/ (GcUnlink /\ links' = {l \in links : l[2] # gc.d})
BY ZenonT(40) DEF Next, Arrive, Step, GcStep, Fault, Assemble, ReceiveMount, ReceivePush,
   RepairSelect, RepairExists, RepairTombstone, CommitLookup, CommitInsert, Commit,
   DeleteDuplicate, MountCheck, MountLink, Validate, Persist, DeleteManifest, GcScan,
   GcClaim, GcPassEnds, GcDelete, GcRefused, GcDeleteFails, GcRevert, GcUnlink, Age, Abandon, GcStops,
   Land, Lose, vars, tables

\* What is kept stays so, unless the collector claims or unlinks it.
LEMMA KeptStays ==
    ASSUME IInv, FoundInv, [Next]_vars, NEW repo \in Repos, NEW d \in Digests, Kept(repo, d)
    PROVE  \/ Kept(repo, d)'
           \/ \E c \in Candidates : GcClaim(c) /\ c.d = d /\ Garbage(d)
           \/ GcUnlink /\ gc.d = d
<1>1. Fine(d)' \/ \E c \in Candidates : GcClaim(c) /\ c.d = d /\ Garbage(d)
    BY RowsKept DEF Kept
<1>2. <<repo, d>> \in links' \/ (GcUnlink /\ gc.d = d)
    <2>1. CASE GcUnlink /\ links' = {l \in links : l[2] # gc.d}
        BY <2>1 DEF Kept
    <2> QED BY <2>1, LinksKept DEF Kept
<1> QED BY <1>1, <1>2 DEF Kept

-----------------------------------------------------------------------------
(* Who has met a claim *)

\* A push that has met a claim is remembered until it ends.
LEMMA RacingStays ==
    ASSUME IInv, [Next]_vars, NEW r \in racing, r \in Handlers, h'[r] = h[r], Pushing(r)
    PROVE  r \in racing'
<1>0. h \in [Handlers -> Locals]
    BY DEF IInv, TypeOK
<1>1. ~Finish(r)
    <2>1. Finish(r) => h'[r].pc = "idle"
        BY <1>0 DEF Finish, Idle
    <2> QED BY <2>1 DEF Pushing
<1>2. racing \subseteq racing' \/ \E q \in Handlers : Finish(q) /\ racing' = racing \ {q}
    BY ZenonT(40) DEF Next, Arrive, Step, GcStep, Fault, Assemble, ReceiveMount, ReceivePush,
       RepairSelect, RepairExists, RepairTombstone, CommitLookup, CommitInsert,
       DeleteDuplicate, MountCheck, MountLink, Validate, Persist, DeleteManifest, GcScan,
       GcClaim, GcPassEnds, GcDelete, GcRefused, GcDeleteFails, GcRevert, GcUnlink, Age, Abandon,
       GcStops, Land, Lose, vars, history
<1> QED BY <1>1, <1>2

\* What becomes of the manifests of a repository.
LEMMA Stored ==
    ASSUME IInv, [Next]_vars, NEW repo \in Repos, NEW m \in Manifests, rm'[repo][m] = "live"
    PROVE  /\ edges \subseteq edges'
           /\ \/ rm[repo][m] = "live" /\ (<<repo, m>> \in raced' <=> <<repo, m>> \in raced)
              \/ \E r \in Handlers : /\ Persist(r) /\ h[r].repo = repo /\ h[r].m = m /\ m \in edges'
                                     /\ <<repo, m>> \in raced' <=> r \in racing
<1>0. rm \in [Repos -> [Manifests -> {"none", "live", "deleted"}]]
    BY DEF IInv, TypeOK
<1>1. ASSUME NEW r \in Handlers, Persist(r)
      PROVE  \/ rm[repo][m] = "live" /\ (<<repo, m>> \in raced' <=> <<repo, m>> \in raced)
             \/ /\ h[r].repo = repo /\ h[r].m = m /\ m \in edges'
                /\ <<repo, m>> \in raced' <=> r \in racing
    <2>1. CASE h[r].repo = repo /\ h[r].m = m
        BY <1>1, <2>1 DEF Persist
    <2>2. CASE ~(h[r].repo = repo /\ h[r].m = m)
        <3>1. rm'[repo][m] = rm[repo][m]
            BY <1>0, <1>1, <2>2 DEF Persist
        <3>2. <<repo, m>> # <<h[r].repo, h[r].m>>
            BY <2>2
        <3> QED BY <1>1, <3>1, <3>2 DEF Persist
    <2> QED BY <2>1, <2>2
<1>2. ASSUME NEW p \in Repos, NEW n \in Manifests, DeleteManifest(p, n)
      PROVE  rm[repo][m] = "live" /\ raced' = raced
    BY <1>0, <1>2 DEF DeleteManifest, history
<1>3. \/ UNCHANGED <<rm, raced>>
      \/ \E r \in Handlers : Persist(r)
      \/ \E p \in Repos, n \in Manifests : DeleteManifest(p, n)
    BY ZenonT(40) DEF Next, Arrive, Step, GcStep, Fault, Assemble, ReceiveMount, ReceivePush,
       RepairSelect, RepairExists, RepairTombstone, CommitLookup, CommitInsert,
       DeleteDuplicate, MountCheck, MountLink, Validate, GcScan,
       GcClaim, GcPassEnds, GcDelete, GcRefused, GcDeleteFails, GcRevert, GcUnlink, Age, Abandon,
       GcStops, Land, Lose, vars, tables, history
<1>4. edges \subseteq edges'
    BY ZenonT(40) DEF Next, Arrive, Step, GcStep, Fault, Assemble, ReceiveMount, ReceivePush,
       RepairSelect, RepairExists, RepairTombstone, CommitLookup, CommitInsert,
       DeleteDuplicate, MountCheck, MountLink, Validate, Persist, DeleteManifest, GcScan,
       GcClaim, GcPassEnds, GcDelete, GcRefused, GcDeleteFails, GcRevert, GcUnlink, Age, Abandon,
       GcStops, Land, Lose, vars, tables
<1> QED BY <1>1, <1>2, <1>3, <1>4

LEMMA EdgesFollow ==
    ASSUME IInv, EdgesInv, [Next]_vars
    PROVE  EdgesInv'
BY Stored DEF EdgesInv

\* The collector has claimed a blob, or goes on with the one it had claimed.
LEMMA ClaimStep ==
    ASSUME IInv, [Next]_vars, Claimed'
    PROVE  \/ \E c \in Candidates : GcClaim(c) /\ Garbage(c.d) /\ gc'.d = c.d
           \/ Claimed /\ gc'.d = gc.d /\ ~ \E c \in Candidates : GcClaim(c)
<1>0. gc \in Collector
    BY DEF IInv, TypeOK
<1>1. ASSUME NEW c \in Candidates, GcClaim(c)
      PROVE  Garbage(c.d) /\ gc'.d = c.d
    <2>1. Garbage(c.d)
        BY <1>0, <1>1 DEF GcClaim, IsNext, Claimed, Collector
    <2> QED BY <1>1, <2>1 DEF GcClaim
<1>2. CASE ~ \E c \in Candidates : GcClaim(c)
    <2>1. \/ gc' = gc \/ GcScan \/ GcPassEnds \/ GcDelete \/ GcRefused \/ GcDeleteFails
          \/ GcRevert \/ GcUnlink \/ GcStops
        BY <1>2, ZenonT(40) DEF Next, Arrive, Step, GcStep, Fault, Assemble, ReceiveMount, ReceivePush,
           RepairSelect, RepairExists, RepairTombstone, CommitLookup, CommitInsert,
           DeleteDuplicate, MountCheck, MountLink, Validate, Persist, DeleteManifest,
           Age, Abandon, Land, Lose, vars
    <2>2. ~(GcScan \/ GcPassEnds \/ GcRevert \/ GcUnlink \/ GcStops)
        <3>1. GcScan => gc'.pc = "claim"
            BY DEF GcScan, GcIdle
        <3>2. GcPassEnds \/ GcRevert \/ GcStops => gc'.pc = "idle"
            BY DEF GcPassEnds, GcRevert, GcStops, GcIdle
        <3>3. GcUnlink => gc'.pc = "claim"
            BY <1>0 DEF GcUnlink, Collector
        <3> QED BY <3>1, <3>2, <3>3 DEF Claimed
    <2>3. GcDelete \/ GcRefused \/ GcDeleteFails => Claimed /\ gc'.d = gc.d
        BY <1>0 DEF GcDelete, GcRefused, GcDeleteFails, Claimed, Collector
    <2> QED BY <1>2, <2>1, <2>2, <2>3 DEF Claimed
<1> QED BY <1>1, <1>2

\* A claim is made while no manifest needs the blob, and the pushes that do
\* are remembered, those that run and those that begin before it is done.
LEMMA ClaimFound ==
    ASSUME IInv, EdgesInv, ClaimInv, [Next]_vars
    PROVE  ClaimInv'
<1>0. h \in [Handlers -> Locals] /\ \A q \in Handlers : h[q] \in Locals
    BY DEF IInv, TypeOK
<1> SUFFICES ASSUME Claimed'
             PROVE  /\ \A repo \in Repos, m \in Manifests :
                          rm'[repo][m] = "live" /\ gc'.d \in LayerSet(m) => <<repo, m>> \in raced'
                    /\ \A q \in Handlers :
                          h'[q].pc \in {"validate", "persist"} /\ gc'.d \in LayerSet(h'[q].m) => q \in racing'
    BY DEF ClaimInv, Pushing, LayerSet
<1>1. CASE \E c \in Candidates : GcClaim(c) /\ Garbage(c.d) /\ gc'.d = c.d
    <2>1. PICK c \in Candidates : GcClaim(c) /\ Garbage(c.d) /\ gc'.d = c.d
        BY <1>1
    <2>2. rm' = rm /\ h' = h /\ racing' = racing \cup Meets(c.d) /\ ~Referenced(c.d)
        BY <2>1 DEF GcClaim, Garbage
    <2> QED BY <2>1, <2>2 DEF EdgesInv, Referenced, Meets, Pushing
<1>2. CASE Claimed /\ gc'.d = gc.d /\ ~ \E c \in Candidates : GcClaim(c)
    <2>1. ASSUME NEW repo \in Repos, NEW m \in Manifests, rm'[repo][m] = "live", gc.d \in LayerSet(m)
          PROVE  <<repo, m>> \in raced'
        <3>1. ASSUME NEW r \in Handlers, Persist(r), h[r].m = m
              PROVE  r \in racing
            BY <1>2, <2>1, <3>1 DEF ClaimInv, Persist, Pushing
        <3> QED BY <1>2, <2>1, <3>1, Stored DEF ClaimInv
    <2>2. ASSUME NEW q \in Handlers, h'[q].pc \in {"validate", "persist"}, gc.d \in LayerSet(h'[q].m)
          PROVE  q \in racing'
        <3>1. CASE h'[q] = h[q]
            <4>1. Pushing(q) /\ q \in racing
                BY <1>2, <2>2, <3>1 DEF ClaimInv, Pushing
            <4> QED BY <3>1, <4>1, RacingStays
        <3>2. CASE Validate(q)
            <4>1. h[q].pc = "validate"
                BY <3>2 DEF Validate
            <4>2. Finish(q) => h'[q].pc = "idle"
                BY <1>0 DEF Finish, Idle
            <4>3. racing' = racing /\ (Goto(q, "persist") \/ h' = [h EXCEPT ![q].todo = Tail(@)])
                BY <2>2, <3>2, <4>2 DEF Validate
            <4>4. h'[q].m = h[q].m
                BY <1>0, <4>3 DEF Goto, Locals
            <4> QED BY <1>2, <2>2, <4>1, <4>3, <4>4 DEF ClaimInv, Pushing
        <3>3. ASSUME NEW repo \in Repos, NEW m \in Manifests, ReceivePush(q, repo, m)
              PROVE  q \in racing'
            <4>1. h'[q].m = m
                BY <1>0, <3>3 DEF ReceivePush, Idle
            <4> QED BY <1>2, <2>2, <3>3, <4>1 DEF ReceivePush
        <3>4. CASE h'[q] # h[q]
            <4>1. Arrive(q) \/ Step(q) \/ Abandon(q)
                BY <3>4, OneMoves, NoneMoves
            <4> QED BY <2>2, <3>2, <3>3, <4>1, Moves
        <3> QED BY <3>1, <3>4
    <2> QED BY <1>2, <2>1, <2>2
<1> QED BY <1>1, <1>2, ClaimStep

-----------------------------------------------------------------------------
(* What relies on it *)

\* A manifest is stored by a push that has found all it needs.
LEMMA LiveFollows ==
    ASSUME IInv, PullInv, [Next]_vars, NEW repo \in Repos, NEW m \in Manifests,
           rm'[repo][m] = "live", <<repo, m>> \notin raced', NEW d \in LayerSet(m)
    PROVE  Kept(repo, d)'
<1>0. d \in Digests
    BY LayersTyped
<1>1. CASE rm[repo][m] = "live" /\ <<repo, m>> \notin raced
    <2>1. Kept(repo, d) /\ Referenced(d)
        BY <1>1 DEF PullInv, EdgesInv, KeptInv, Referenced
    <2>2. ~(GcUnlink /\ gc.d = d)
        BY <1>1 DEF GcUnlink, PullInv, ClaimInv, Claimed
    <2> QED BY <1>0, <2>1, <2>2, KeptStays DEF PullInv, Garbage
<1>2. ASSUME NEW r \in Handlers, Persist(r), h[r].repo = repo, h[r].m = m, r \notin racing
      PROVE  Kept(repo, d)'
    <2>1. Kept(repo, d)
        BY <1>2 DEF Persist, PullInv, KeptInv
    <2> QED BY <1>2, <2>1 DEF Persist, Kept, Fine, Doubtful
<1> QED BY <1>1, <1>2, Stored

\* A push finds what it needs or still has to ask for it.
LEMMA PushFollows ==
    ASSUME IInv, PullInv, [Next]_vars, NEW q \in Handlers, q \notin racing',
           NEW repo \in Repos, NEW m \in Manifests, h'[q].repo = repo, h'[q].m = m
    PROVE  /\ h'[q].pc = "validate" => \A d \in LayerSet(m) : Kept(repo, d)' \/ Asks(q, d)'
           /\ h'[q].pc = "persist" => \A d \in LayerSet(m) : Kept(repo, d)'
<1>0. h \in [Handlers -> Locals] /\ h[q] \in Locals /\ LayerSet(m) \subseteq Digests
    BY LayersTyped DEF IInv, TypeOK
<1>1. CASE h'[q] = h[q]
    <2> SUFFICES ASSUME h[q].pc \in {"validate", "persist"}
                 PROVE  /\ q \notin racing
                        /\ \A d \in LayerSet(m) : Kept(repo, d) => Kept(repo, d)'
        BY <1>1 DEF PullInv, KeptInv, Asks
    <2>1. Pushing(q) /\ h[q].m = m
        BY <1>1 DEF Pushing
    <2>2. q \notin racing
        BY <1>1, <2>1, RacingStays
    <2>3. ASSUME NEW d \in LayerSet(m), Kept(repo, d)
          PROVE  Kept(repo, d)'
        <3>1. ~(GcUnlink /\ gc.d = d)
            BY <2>1, <2>2 DEF GcUnlink, PullInv, ClaimInv, Claimed
        <3>2. ASSUME NEW c \in Candidates, GcClaim(c), c.d = d, Garbage(d)
              PROVE  FALSE
            BY <2>1, <3>2 DEF GcClaim, Meets
        <3> QED BY <1>0, <2>3, <3>1, <3>2, KeptStays DEF PullInv
    <2> QED BY <2>2, <2>3
<1>2. ASSUME NEW p \in Repos, NEW n \in Manifests, ReceivePush(q, p, n)
      PROVE  h'[q].pc = "validate" /\ \A d \in LayerSet(m) : Asks(q, d)'
    <2>1. h'[q].pc = "validate" /\ m = n /\ h'[q].todo = Layers[n]
        BY <1>0, <1>2 DEF ReceivePush, Idle
    <2> QED BY <2>1 DEF LayerSet, Asks
<1>3. CASE Validate(q)
    <2>0. h[q].pc = "validate" /\ h[q].todo \in Seq(Digests) /\ UNCHANGED <<links, blobs, doubtful>>
        BY <1>0, <1>3 DEF Validate, Locals, tables
    <2>1. CASE Finish(q)
        BY <1>0, <2>1 DEF Finish, Idle
    <2>2. CASE h[q].todo = << >> /\ Goto(q, "persist") /\ UNCHANGED racing
        <3>1. h'[q].pc = "persist" /\ h[q].repo = repo /\ h[q].m = m
            BY <1>0, <2>2 DEF Goto, Locals
        <3>2. \A d : ~Asks(q, d)
            BY <2>2 DEF Asks
        <3>3. q \notin racing
            BY <2>2
        <3>4. \A d \in LayerSet(m) : Kept(repo, d)
            BY <2>0, <3>1, <3>2, <3>3 DEF PullInv, KeptInv
        <3>5. \A d : Kept(repo, d) => Kept(repo, d)'
            BY <2>0 DEF Kept, Fine, Doubtful
        <3> QED BY <3>1, <3>4, <3>5
    <2>3. CASE /\ h[q].todo # << >> /\ Available(h[q].repo, Head(h[q].todo))
               /\ h' = [h EXCEPT ![q].todo = Tail(@)] /\ UNCHANGED racing
        <3>1. /\ h'[q].pc = "validate" /\ h[q].repo = repo /\ h[q].m = m
              /\ h'[q].todo = Tail(h[q].todo)
            BY <1>0, <2>0, <2>3 DEF Locals
        <3>2. \A d : Kept(repo, d) => Kept(repo, d)'
            BY <2>0 DEF Kept, Fine, Doubtful
        <3>3. ASSUME NEW d \in LayerSet(m), Asks(q, d)
              PROVE  Kept(repo, d) \/ Asks(q, d)'
            <4>1. PICK i \in DOMAIN h[q].todo : h[q].todo[i] = d
                BY <3>3 DEF Asks
            <4>2. CASE i = 1
                <5>1. d = Head(h[q].todo)
                    BY <2>0, <4>1, <4>2
                <5> QED BY <2>3, <3>1, <5>1 DEF Available, Kept, Fine
            <4>3. CASE i # 1
                <5>1. i - 1 \in 1 .. Len(h[q].todo) - 1
                    BY <2>0, <4>1, <4>3
                <5>2. /\ Tail(h[q].todo) \in Seq(Digests) /\ Len(Tail(h[q].todo)) = Len(h[q].todo) - 1
                      /\ \A j \in 1 .. Len(h[q].todo) - 1 : Tail(h[q].todo)[j] = h[q].todo[j + 1]
                    BY <2>0, <2>3, HeadTailProperties
                <5>3. i - 1 \in DOMAIN Tail(h[q].todo) /\ Tail(h[q].todo)[i - 1] = d
                    BY <2>0, <4>1, <5>1, <5>2
                <5> QED BY <3>1, <5>3 DEF Asks
            <4> QED BY <4>2, <4>3
        <3>4. q \notin racing
            BY <2>3
        <3> QED BY <2>0, <3>1, <3>2, <3>3, <3>4 DEF PullInv, KeptInv
    <2> QED BY <1>3, <2>1, <2>2, <2>3 DEF Validate
<1>4. CASE h'[q] # h[q]
    <2>1. Arrive(q) \/ Step(q) \/ Abandon(q)
        BY <1>4, OneMoves, NoneMoves
    <2> QED BY <1>2, <1>3, <2>1, Moves
<1> QED BY <1>1, <1>4

LEMMA PullStep ==
    ASSUME IInv, PullInv, [Next]_vars
    PROVE  PullInv'
<1>1. FoundInv' /\ EdgesInv' /\ ClaimInv'
    BY FoundFollows, EdgesFollow, ClaimFound DEF PullInv
<1>2. \A r \in Handlers : h'[r].pc \in PushPoints => h'[r].repo \in Repos /\ h'[r].m \in Manifests
    BY NextInv DEF IInv, KeyInv, LocalInv, HandlerOK
<1>3. KeptInv'
    <2>1. \A repo \in Repos, m \in Manifests : rm'[repo][m] = "live" /\ <<repo, m>> \notin raced' =>
             \A d \in LayerSet(m) : Kept(repo, d)'
        BY LiveFollows
    <2>2. \A r \in Handlers \ racing' : h'[r].pc = "validate" =>
             \A d \in LayerSet(h'[r].m) : (Kept(h[r].repo, d) \/ Asks(r, d))'
        <3> SUFFICES ASSUME NEW r \in Handlers \ racing', h'[r].pc = "validate",
                            NEW repo \in Repos, NEW m \in Manifests, h'[r].repo = repo, h'[r].m = m,
                            NEW d \in LayerSet(m)
                     PROVE  Kept(repo, d)' \/ Asks(r, d)'
            BY <1>2 DEF PushPoints, Kept
        <3> QED BY PushFollows
    <2>3. \A r \in Handlers \ racing' : h'[r].pc = "persist" =>
             \A d \in LayerSet(h'[r].m) : (Kept(h[r].repo, d))'
        <3> SUFFICES ASSUME NEW r \in Handlers \ racing', h'[r].pc = "persist",
                            NEW repo \in Repos, NEW m \in Manifests, h'[r].repo = repo, h'[r].m = m,
                            NEW d \in LayerSet(m)
                     PROVE  Kept(repo, d)'
            BY <1>2 DEF PushPoints, Kept
        <3> QED BY PushFollows
    <2> QED BY <2>1, <2>2, <2>3 DEF KeptInv, LayerSet
<1> QED BY <1>1, <1>3 DEF PullInv

-----------------------------------------------------------------------------
(* The theorem *)

\* Whatever a repository serves can be pulled from it (put_manifest,
\* delete_manifest, clean_unreferenced_blobs): every config and layer of a
\* manifest is linked, committed and in the bucket, but for deletes with an
\* unknown result, unless the push that was the last to store the manifest was
\* met by the collector's claim of one of its layers.
THEOREM ManifestsPull == Spec => []PullableUnlessRaced
<1> DEFINE Inv == IInv /\ PullInv
<1>1. Init => Inv
    <2> SUFFICES ASSUME Init PROVE PullInv
        BY InitInv
    <2>1. \A r \in Handlers : h[r].pc = "idle"
        BY DEF Init, Idle
    <2>2. \A repo \in Repos, m \in Manifests : rm[repo][m] = "none"
        BY DEF Init
    <2>3. gc.pc = "idle"
        BY DEF Init, GcIdle
    <2> QED BY <2>1, <2>2, <2>3 DEF PullInv, FoundInv, EdgesInv, ClaimInv, KeptInv, Claimed
<1>2. Inv /\ [Next]_vars => Inv'
    BY NextInv, PullStep
<1>3. Inv => PullableUnlessRaced
    <2> SUFFICES ASSUME IInv, PullInv, NEW repo \in Repos, NEW m \in Manifests, rm[repo][m] = "live",
                        <<repo, m>> \notin raced, NEW d \in LayerSet(m), ~Doubtful(d)
                 PROVE  Available(repo, d) /\ objects[blobs[d].key] = d
        BY DEF PullableUnlessRaced, CanPull
    <2>1. <<repo, d>> \in links /\ blobs[d].status = "committed" /\ d \in Digests
        BY LayersTyped DEF PullInv, KeptInv, Kept, Fine
    <2>2. objects[blobs[d].key] = d
        BY <2>1 DEF IInv, SafeInv, Held
    <2> QED BY <2>1, <2>2 DEF Available
<1> QED BY <1>1, <1>2, <1>3, PTL DEF Spec

=============================================================================
