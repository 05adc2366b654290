----------------------------- MODULE TagsProofs ----------------------------
(***************************************************************************)
(* Proofs about Tags for any number of requests, tag names and manifests.  *)
(*                                                                         *)
(* A tag can come to point to a manifest only in a transaction that holds  *)
(* the manifest's repository_manifests row, and so can a deletion only     *)
(* look for the tags of its manifest while it holds that row: ScanInv says *)
(* that it misses none.  The last event of a tag agrees with the tag       *)
(* because whoever has read a previous digest holds the tag's row too:     *)
(* LockInv.  Transactions wait for each other in a circle only where one   *)
(* holds a tag that has moved: a deletion waits for the tags it takes only *)
(* for those that have scanned after it, RankInv.                          *)
(***************************************************************************)
EXTENDS Tags, SequenceTheorems, WellFoundedInduction, TLAPS

\* Points between the statement that locks the repository_manifests row and
\* the end of the transaction.
Linked == {"snapshot", "select", "upsert", "commit", "scan", "untag"}

\* Whose request has begun has a manifest, and a tag where it needs one.
PointInv ==
    \A r \in Handlers :
        /\ tx[r].pc # "idle" => tx[r].m \in Manifests /\ tx[r].at # 0
        /\ tx[r].pc \in {"snapshot", "select", "upsert"} => tx[r].name \in Names
        /\ tx[r].pc \in {"link", "snapshot", "select"} => tx[r].prev = NoManifest
        /\ tx[r].pc # "untag" => tx[r].gone = {}

\* A linked transaction holds the row of its manifest, the rows of the tags
\* it is about to delete, and the row of the tag whose target it has read.
Holds(r) ==
    /\ tx[r].pc \in Linked => rmLock[tx[r].m] = r
    /\ \A n \in tx[r].gone : tagLock[n] = r
    /\ tx[r].pc = "upsert" /\ tx[r].prev # NoManifest =>
          tagLock[tx[r].name] = r /\ tags[tx[r].name].m = tx[r].prev

LockInv == \A r \in Handlers : Holds(r)

\* No tag of the manifest being deleted is missed.
ScanInv ==
    \A r \in Handlers : tx[r].pc = "untag" =>
        \A n \in Names : tags[n].m = tx[r].m =>
            n \in tx[r].gone \/ <<n, tags[n].row>> \in tx[r].todo

IInv == TypeOK /\ PointInv /\ LockInv /\ ScanInv /\ TagTargetsLive /\ HistoryEndsAtTag

-----------------------------------------------------------------------------
(* Steps *)

\* A request slot without a request is well formed.
LEMMA IdleTyped == Idle \in Locals
BY DEF Idle, Locals

\* COMMIT and ROLLBACK leave the locks of the others alone.
LEMMA ReleaseKeeps ==
    ASSUME IInv, NEW r \in Handlers, Release(r)
    PROVE  /\ tx' \in [Handlers -> Locals]
           /\ rmLock' \in [Manifests -> Handlers \cup {NoHandler}]
           /\ tagLock' \in [Names -> Handlers \cup {NoHandler}]
           /\ \A q \in Handlers : tx'[q] = IF q = r THEN Idle ELSE tx[q]
           /\ \A q \in Handlers \ {r}, m \in Manifests : rmLock[m] = q => rmLock'[m] = q
           /\ \A q \in Handlers \ {r}, n \in Names : tagLock[n] = q => tagLock'[n] = q
BY IdleTyped DEF Release, IInv, TypeOK

\* A transaction goes on holding its rows while others take free ones, give
\* back theirs and change the tags they hold.
LEMMA OthersHold ==
    ASSUME IInv, NEW q \in Handlers, tx'[q] = tx[q],
           \A m \in Manifests : rmLock[m] = q => rmLock'[m] = q,
           \A n \in Names : tagLock[n] = q => tagLock'[n] = q /\ tags'[n].m = tags[n].m
    PROVE  Holds(q)'
<1>1. tx[q].gone \subseteq Names /\ Holds(q)
    BY DEF IInv, TypeOK, Locals, LockInv
<1>2. tx[q].pc \in Linked => rmLock'[tx[q].m] = q
    BY <1>1 DEF IInv, PointInv, Holds, Linked
<1>3. \A n \in tx[q].gone : tagLock'[n] = q
    BY <1>1 DEF Holds
<1>4. tx[q].pc = "upsert" /\ tx[q].prev # NoManifest =>
          tagLock'[tx[q].name] = q /\ tags'[tx[q].name].m = tx[q].prev
    BY <1>1 DEF IInv, PointInv, Holds
<1> QED BY <1>2, <1>3, <1>4 DEF Holds

\* A slot without a request holds nothing.
LEMMA IdleHolds == ASSUME NEW r \in Handlers, tx'[r] = Idle PROVE Holds(r)'
BY DEF Holds, Idle, Linked

\* A rollback changes no table.
LEMMA RollbackStep ==
    ASSUME IInv, NEW r \in Handlers, Rollback(r), faults' \in 0..MaxFaults
    PROVE  IInv'
<1>1. UNCHANGED <<live, tags, events, clock>> /\ Release(r)
    BY DEF Rollback
<1>2. TypeOK'
    BY <1>1, ReleaseKeeps DEF IInv, TypeOK
<1>3. PointInv'
    BY <1>1, ReleaseKeeps DEF IInv, PointInv, Idle
<1>4. LockInv'
    BY <1>1, ReleaseKeeps, OthersHold, IdleHolds DEF LockInv
<1>5. ScanInv'
    BY <1>1, ReleaseKeeps DEF IInv, ScanInv, Idle
<1>6. TagTargetsLive' /\ HistoryEndsAtTag'
    BY <1>1 DEF IInv, TagTargetsLive, HistoryEndsAtTag
<1> QED BY <1>2, <1>3, <1>4, <1>5, <1>6 DEF IInv

\* A request begins.
LEMMA BeginStep ==
    ASSUME IInv, NEW r \in Handlers, NEW new \in Locals, Begin(r, new),
           new.pc \in {"link", "unlink"}, new.m \in Manifests, new.prev = NoManifest,
           new.gone = {}
    PROVE  IInv'
<1> DEFINE q == [new EXCEPT !.at = clock + 1]
<1>1. /\ q \in Locals /\ q.pc \in {"link", "unlink"} /\ q.m \in Manifests
      /\ q.prev = NoManifest /\ q.gone = {} /\ q.at # 0
    <2>1. clock + 1 \in Nat /\ clock + 1 # 0
        BY TagAssumption DEF IInv, TypeOK
    <2> QED BY <2>1 DEF Locals
<1>2. /\ clock' \in 1..(MaxRequests + 1)
      /\ tx' = [tx EXCEPT ![r] = q]
      /\ UNCHANGED <<live, tags, events, rmLock, tagLock, faults>>
    BY TagAssumption DEF Begin, IInv, TypeOK
<1> HIDE DEF q
<1>3. TypeOK'
    BY <1>1, <1>2 DEF IInv, TypeOK
<1>4. \A p \in Handlers : tx'[p] = IF p = r THEN q ELSE tx[p]
    BY <1>2 DEF IInv, TypeOK
<1>5. PointInv'
    BY <1>1, <1>4 DEF IInv, PointInv
<1>6. LockInv'
    <2>1. \A p \in Handlers \ {r} : Holds(p)'
        BY <1>2, <1>4, OthersHold
    <2>2. Holds(r)'
        BY <1>1, <1>4 DEF Holds, Linked
    <2> QED BY <2>1, <2>2 DEF LockInv
<1>7. ScanInv'
    BY <1>1, <1>2, <1>4 DEF IInv, ScanInv
<1>8. TagTargetsLive' /\ HistoryEndsAtTag'
    BY <1>2 DEF IInv, TagTargetsLive, HistoryEndsAtTag
<1> QED BY <1>3, <1>5, <1>6, <1>7, <1>8 DEF IInv

\* The row of the pushed manifest is locked.
LEMMA LinkStep ==
    ASSUME IInv, NEW r \in Handlers, Link(r)
    PROVE  IInv'
<1> DEFINE p == IF tx[r].name = NoName THEN "commit" ELSE "snapshot"
           new == [tx[r] EXCEPT !.pc = p]
<1>1. tx[r] \in Locals /\ tx[r].pc = "link" /\ tx[r].m \in Manifests /\ tx[r].gone = {}
    BY DEF Link, IInv, TypeOK, PointInv
<1>2. /\ new \in Locals /\ new.pc = p /\ new.m = tx[r].m /\ new.name = tx[r].name
      /\ new.at = tx[r].at /\ tx[r].at # 0
      /\ new.gone = {} /\ new.prev = tx[r].prev
    BY <1>1 DEF IInv, PointInv, Locals
<1>3. /\ rmLock[tx[r].m] = NoHandler /\ rmLock' = [rmLock EXCEPT ![tx[r].m] = r]
      /\ tx' = [tx EXCEPT ![r] = new]
      /\ UNCHANGED <<live, tags, events, tagLock, clock, faults>>
    BY DEF Link, Goto
<1>4. p \in {"commit", "snapshot"} /\ (p = "snapshot" => tx[r].name \in Names)
    BY <1>1 DEF Locals
<1> HIDE DEF new, p
<1>5. TypeOK'
    BY <1>1, <1>2, <1>3 DEF IInv, TypeOK
<1>6. \A q \in Handlers : tx'[q] = IF q = r THEN new ELSE tx[q]
    BY <1>3 DEF IInv, TypeOK
<1>7. PointInv'
    BY <1>1, <1>2, <1>4, <1>6 DEF IInv, PointInv
<1>8. LockInv'
    <2>1. \A q \in Handlers \ {r} : Holds(q)'
        BY <1>1, <1>3, <1>6, TagAssumption, OthersHold DEF IInv, TypeOK
    <2>2. rmLock'[tx[r].m] = r
        BY <1>1, <1>3 DEF IInv, TypeOK
    <2>3. Holds(r)'
        BY <2>2, <1>2, <1>4, <1>6 DEF Holds
    <2> QED BY <2>1, <2>3 DEF LockInv
<1>9. ScanInv'
    BY <1>2, <1>3, <1>4, <1>6 DEF IInv, ScanInv
<1>10. TagTargetsLive' /\ HistoryEndsAtTag'
    BY <1>3 DEF IInv, TagTargetsLive, HistoryEndsAtTag
<1> QED BY <1>5, <1>7, <1>8, <1>9, <1>10 DEF IInv

\* The statement that reads the tag starts.
LEMMA SelectSnapshotStep ==
    ASSUME IInv, NEW r \in Handlers, SelectSnapshot(r)
    PROVE  IInv'
<1> DEFINE row == tags[tx[r].name].row
           p == IF row = 0 THEN "upsert" ELSE "select"
           new == [tx[r] EXCEPT !.pc = p, !.seen = row]
<1>1. /\ tx[r] \in Locals /\ tx[r].pc = "snapshot" /\ tx[r].m \in Manifests /\ tx[r].gone = {}
      /\ tx[r].name \in Names /\ row \in Nat
    BY DEF SelectSnapshot, IInv, TypeOK, PointInv
<1>2. /\ new \in Locals /\ new.pc = p /\ new.m = tx[r].m /\ new.name = tx[r].name
      /\ new.at = tx[r].at /\ tx[r].at # 0
      /\ new.gone = {} /\ new.prev = tx[r].prev
    BY <1>1 DEF IInv, PointInv, Locals
<1>3. /\ tx' = [tx EXCEPT ![r] = new]
      /\ UNCHANGED <<live, tags, events, rmLock, tagLock, clock, faults>>
    BY DEF SelectSnapshot
<1>4. p \in {"upsert", "select"}
    OBVIOUS
<1> HIDE DEF new, p
<1>5. TypeOK'
    BY <1>2, <1>3 DEF IInv, TypeOK
<1>6. \A q \in Handlers : tx'[q] = IF q = r THEN new ELSE tx[q]
    BY <1>3 DEF IInv, TypeOK
<1>7. PointInv'
    BY <1>1, <1>2, <1>4, <1>6 DEF IInv, PointInv
<1>8. LockInv'
    <2>1. \A q \in Handlers \ {r} : Holds(q)'
        BY <1>3, <1>6, OthersHold
    <2>2. rmLock[tx[r].m] = r /\ tx[r].prev = NoManifest
        BY <1>1 DEF IInv, PointInv, LockInv, Holds, Linked
    <2>3. Holds(r)'
        BY <2>2, <1>2, <1>3, <1>4, <1>6 DEF Holds
    <2> QED BY <2>1, <2>3 DEF LockInv
<1>9. ScanInv'
    BY <1>2, <1>3, <1>4, <1>6 DEF IInv, ScanInv
<1>10. TagTargetsLive' /\ HistoryEndsAtTag'
    BY <1>3 DEF IInv, TagTargetsLive, HistoryEndsAtTag
<1> QED BY <1>5, <1>7, <1>8, <1>9, <1>10 DEF IInv

\* The tag's row is locked and read, or found to be gone or immutable.
LEMMA SelectForUpdateStep ==
    ASSUME IInv, NEW r \in Handlers, SelectForUpdate(r)
    PROVE  IInv'
<1> DEFINE n == tx[r].name
           gone == [tx[r] EXCEPT !.pc = "upsert"]
           read == [tx[r] EXCEPT !.pc = "upsert", !.prev = tags[n].m]
<1>1. /\ tx[r] \in Locals /\ tx[r].pc = "select" /\ tx[r].m \in Manifests /\ tx[r].gone = {}
      /\ n \in Names /\ tx[r].prev = NoManifest /\ rmLock[tx[r].m] = r
      /\ tagLock[n] = NoHandler /\ faults' = faults
    BY DEF SelectForUpdate, IInv, TypeOK, PointInv, LockInv, Holds, Linked
<1>2. CASE Rollback(r)
    BY <1>1, <1>2, RollbackStep DEF IInv, TypeOK
<1>3. ASSUME NEW new \in {gone, read}, tx' = [tx EXCEPT ![r] = new],
             UNCHANGED <<live, tags, events, rmLock, clock>>,
             \/ new = gone /\ tagLock' = tagLock
             \/ new = read /\ tagLock' = [tagLock EXCEPT ![n] = r]
      PROVE  IInv'
    <2>1. /\ new \in Locals /\ new.pc = "upsert" /\ new.m = tx[r].m /\ new.name = n
          /\ new.at = tx[r].at /\ new.gone = {}
          /\ new = gone => new.prev = tx[r].prev
          /\ new = read => new.prev = tags[n].m
        <3>1. tags[n].m \in Manifests \cup {NoManifest}
            BY <1>1 DEF IInv, TypeOK
        <3>2. /\ gone \in Locals /\ gone.pc = "upsert" /\ gone.m = tx[r].m /\ gone.name = n
              /\ gone.at = tx[r].at /\ gone.gone = {} /\ gone.prev = tx[r].prev
            BY <1>1 DEF Locals
        <3>3. /\ read \in Locals /\ read.pc = "upsert" /\ read.m = tx[r].m /\ read.name = n
              /\ read.at = tx[r].at /\ read.gone = {} /\ read.prev = tags[n].m
            BY <1>1, <3>1 DEF Locals
        <3> HIDE DEF gone, read
        <3> QED BY <3>2, <3>3
    <2>2. \A q \in Handlers : tx'[q] = IF q = r THEN new ELSE tx[q]
        BY <1>3 DEF IInv, TypeOK
    <2>3. tagLock' \in [Names -> Handlers \cup {NoHandler}]
        BY <1>3 DEF IInv, TypeOK
    <2> HIDE DEF gone, read
    <2>4. TypeOK'
        BY <1>1, <1>3, <2>1, <2>3 DEF IInv, TypeOK
    <2>5. PointInv'
        BY <1>1, <2>1, <2>2 DEF IInv, PointInv
    <2>6. LockInv'
        <3>1. ASSUME NEW q \in Handlers \ {r} PROVE Holds(q)'
            <4>1. tx'[q] = tx[q] /\ tags' = tags /\ rmLock' = rmLock
                BY <1>3, <2>2
            <4>2. \A k \in Names : tagLock[k] = q => tagLock'[k] = q
                BY <1>1, <1>3, TagAssumption DEF IInv, TypeOK
            <4> QED BY <4>1, <4>2, OthersHold
        <3>2. new.prev # NoManifest => tagLock'[n] = r /\ tags[n].m = new.prev
            BY <1>1, <1>3, <2>1 DEF IInv, TypeOK
        <3>3. Holds(r)'
            BY <3>2, <1>1, <1>3, <2>1, <2>2 DEF Holds
        <3> QED BY <3>1, <3>3 DEF LockInv
    <2>7. ScanInv'
        BY <1>3, <2>1, <2>2 DEF IInv, ScanInv
    <2>8. TagTargetsLive' /\ HistoryEndsAtTag'
        BY <1>3 DEF IInv, TagTargetsLive, HistoryEndsAtTag
    <2> QED BY <2>4, <2>5, <2>6, <2>7, <2>8 DEF IInv
<1>4. CASE /\ Goto(r, "upsert")
           /\ UNCHANGED <<live, tags, events, rmLock, tagLock, clock>>
    BY <1>4, <1>3 DEF Goto
<1>5. CASE /\ tagLock' = [tagLock EXCEPT ![n] = r]
           /\ tx' = [tx EXCEPT ![r].pc = "upsert", ![r].prev = tags[n].m]
           /\ UNCHANGED <<live, tags, events, rmLock, clock>>
    BY <1>5, <1>3
<1> QED BY <1>2, <1>4, <1>5 DEF SelectForUpdate

\* The tag comes to point to a manifest whose row is held and made live.
LEMMA UpsertTagStep ==
    ASSUME IInv, NEW r \in Handlers, UpsertTag(r)
    PROVE  IInv'
<1> DEFINE n == tx[r].name
           m == tx[r].m
           e == [prev |-> tx[r].prev, new |-> m, at |-> tx[r].at]
<1>1. /\ tx[r] \in Locals /\ tx[r].pc = "upsert" /\ m \in Manifests /\ n \in Names
      /\ rmLock[m] = r /\ tagLock[n] \in {NoHandler, r}
      /\ tx[r].prev # NoManifest => tags[n].m = tx[r].prev
      /\ e \in Event /\ e.new = m
    BY DEF UpsertTag, IInv, TypeOK, PointInv, LockInv, Holds, Linked, Locals, Event
<1>2. /\ tags' = [tags EXCEPT ![n].m = m, ![n].row = IF @ = 0 THEN tx[r].at ELSE @]
      /\ events' = IF tx[r].prev = m THEN events ELSE [events EXCEPT ![n] = Append(@, e)]
      /\ live' = live \cup {m} /\ clock' = clock /\ faults' = faults
      /\ Release(r)
    BY DEF UpsertTag
<1> HIDE DEF n, m, e
<1>3. /\ tags' \in [Names -> [m : Manifests \cup {NoManifest}, row : Nat]]
      /\ tags'[n].m = m /\ tags'[n].row # 0
      /\ \A k \in Names \ {n} : tags'[k] = tags[k]
    <2>1. tx[r].at \in Nat \ {0}
        BY <1>1 DEF IInv, PointInv, Locals
    <2>2. /\ tags \in [Names -> [m : Manifests \cup {NoManifest}, row : Nat]]
          /\ tags' = [tags EXCEPT ![n].m = m, ![n].row = IF @ = 0 THEN tx[r].at ELSE @]
        BY <1>2 DEF IInv, TypeOK
    <2>3. tags[n] \in [m : Manifests \cup {NoManifest}, row : Nat]
        BY <1>1, <2>2
    <2>4. tags'[n] = [tags[n] EXCEPT !.m = m, !.row = IF @ = 0 THEN tx[r].at ELSE @]
        BY <1>1, <2>2
    <2>5. tags'[n] \in [m : Manifests \cup {NoManifest}, row : Nat] /\ tags'[n].m = m /\ tags'[n].row # 0
        BY <1>1, <2>1, <2>3, <2>4
    <2>6. \A k \in Names \ {n} : tags'[k] = tags[k]
        BY <2>2
    <2> QED BY <2>2, <2>5, <2>6
<1>4. /\ events' \in [Names -> Seq(Event)]
      /\ \A k \in Names \ {n} : events'[k] = events[k]
      /\ events'[n] # << >> /\ events'[n][Len(events'[n])].new = m
    <2>1. CASE tx[r].prev = m
        <3>1. tags[n].m = m /\ m # NoManifest /\ events' = events
            BY <1>1, <1>2, <2>1, TagAssumption
        <3> QED BY <1>1, <3>1 DEF IInv, TypeOK, HistoryEndsAtTag
    <2>2. CASE tx[r].prev # m
        <3>1. events[n] \in Seq(Event) /\ events' = [events EXCEPT ![n] = Append(events[n], e)]
            BY <1>1, <1>2, <2>2 DEF IInv, TypeOK
        <3>2. /\ Append(events[n], e) \in Seq(Event) /\ Append(events[n], e) # << >>
              /\ Append(events[n], e)[Len(Append(events[n], e))] = e
            BY <1>1, <3>1
        <3> QED BY <1>1, <3>1, <3>2 DEF IInv, TypeOK
    <2> QED BY <2>1, <2>2
<1>5. TypeOK'
    <2>1. live' \subseteq Manifests /\ clock' \in 1..(MaxRequests + 1) /\ faults' \in 0..MaxFaults
        BY <1>1, <1>2 DEF IInv, TypeOK
    <2>2. \A k \in Names : tags'[k].row = 0 <=> tags'[k].m = NoManifest
        <3>1. \A k \in Names : tags[k].row = 0 <=> tags[k].m = NoManifest
            BY DEF IInv, TypeOK
        <3>2. m # NoManifest
            BY <1>1, TagAssumption
        <3> QED BY <1>3, <3>1, <3>2
    <2>3. /\ tx' \in [Handlers -> Locals]
          /\ rmLock' \in [Manifests -> Handlers \cup {NoHandler}]
          /\ tagLock' \in [Names -> Handlers \cup {NoHandler}]
        BY <1>2, ReleaseKeeps
    <2> QED BY <1>3, <1>4, <2>1, <2>2, <2>3 DEF TypeOK
<1>6. PointInv'
    BY <1>2, ReleaseKeeps DEF IInv, PointInv, Idle
<1>7. LockInv'
    <2>1. \A q \in Handlers \ {r}, k \in Names : tagLock[k] = q => tags'[k].m = tags[k].m
        BY <1>1, <1>3, TagAssumption
    <2>2. /\ \A q \in Handlers \ {r} : tx'[q] = tx[q]
          /\ \A q \in Handlers \ {r}, k \in Manifests : rmLock[k] = q => rmLock'[k] = q
          /\ \A q \in Handlers \ {r}, k \in Names : tagLock[k] = q => tagLock'[k] = q
          /\ tx'[r] = Idle
        BY <1>2, ReleaseKeeps
    <2>3. \A q \in Handlers \ {r} : Holds(q)'
        BY <2>1, <2>2, OthersHold
    <2> QED BY <2>2, <2>3, IdleHolds DEF LockInv
<1>8. ScanInv'
    <2> SUFFICES ASSUME NEW q \in Handlers, tx'[q].pc = "untag", NEW k \in Names,
                        tags'[k].m = tx'[q].m
                 PROVE  k \in tx'[q].gone \/ <<k, tags'[k].row>> \in tx'[q].todo
        BY DEF ScanInv
    <2>1. q # r /\ tx'[q] = tx[q]
        BY <1>2, ReleaseKeeps DEF Idle
    <2>2. k # n
        BY <1>1, <1>3, <2>1 DEF IInv, LockInv, Holds, Linked
    <2> QED BY <1>3, <2>1, <2>2 DEF IInv, ScanInv
<1>9. TagTargetsLive'
    BY <1>1, <1>2, <1>3 DEF IInv, TagTargetsLive
<1>10. HistoryEndsAtTag'
    BY <1>3, <1>4 DEF IInv, HistoryEndsAtTag
<1> QED BY <1>5, <1>6, <1>7, <1>8, <1>9, <1>10 DEF IInv

\* A push by digest touches no tag.
LEMMA CommitUntaggedStep ==
    ASSUME IInv, NEW r \in Handlers, CommitUntagged(r)
    PROVE  IInv'
<1>1. /\ tx[r].m \in Manifests /\ live' = live \cup {tx[r].m}
      /\ Release(r) /\ UNCHANGED <<tags, events, clock, faults>>
    BY DEF CommitUntagged, IInv, PointInv
<1>2. TypeOK'
    BY <1>1, ReleaseKeeps DEF IInv, TypeOK
<1>3. PointInv'
    BY <1>1, ReleaseKeeps DEF IInv, PointInv, Idle
<1>4. LockInv'
    BY <1>1, ReleaseKeeps, OthersHold, IdleHolds DEF LockInv
<1>5. ScanInv'
    BY <1>1, ReleaseKeeps DEF IInv, ScanInv, Idle
<1>6. TagTargetsLive' /\ HistoryEndsAtTag'
    BY <1>1 DEF IInv, TagTargetsLive, HistoryEndsAtTag
<1> QED BY <1>2, <1>3, <1>4, <1>5, <1>6 DEF IInv

\* The row of the manifest to be deleted is locked, or not found.
LEMMA UnlinkStep ==
    ASSUME IInv, NEW r \in Handlers, Unlink(r)
    PROVE  IInv'
<1> DEFINE new == [tx[r] EXCEPT !.pc = "scan"]
<1>1. /\ tx[r] \in Locals /\ tx[r].pc = "unlink" /\ tx[r].m \in Manifests /\ tx[r].gone = {}
      /\ faults' = faults
    BY DEF Unlink, IInv, TypeOK, PointInv
<1>2. CASE Rollback(r)
    BY <1>1, <1>2, RollbackStep DEF IInv, TypeOK
<1>3. CASE /\ rmLock[tx[r].m] = NoHandler
           /\ rmLock' = [rmLock EXCEPT ![tx[r].m] = r]
           /\ Goto(r, "scan")
           /\ UNCHANGED <<live, tags, events, tagLock, clock>>
    <2>1. /\ new \in Locals /\ new.pc = "scan" /\ new.m = tx[r].m /\ new.gone = {}
          /\ new.at = tx[r].at /\ tx[r].at # 0
        BY <1>1 DEF IInv, PointInv, Locals
    <2>2. tx' = [tx EXCEPT ![r] = new]
        BY <1>3 DEF Goto
    <2> HIDE DEF new
    <2>3. \A q \in Handlers : tx'[q] = IF q = r THEN new ELSE tx[q]
        BY <2>2 DEF IInv, TypeOK
    <2>4. TypeOK'
        BY <1>1, <1>3, <2>1, <2>2 DEF IInv, TypeOK
    <2>5. PointInv'
        BY <1>1, <2>1, <2>3 DEF IInv, PointInv
    <2>6. LockInv'
        <3>1. ASSUME NEW q \in Handlers \ {r} PROVE Holds(q)'
            <4>1. tx'[q] = tx[q] /\ tags' = tags /\ tagLock' = tagLock
                BY <1>3, <2>3
            <4>2. \A m \in Manifests : rmLock[m] = q => rmLock'[m] = q
                BY <1>1, <1>3, TagAssumption DEF IInv, TypeOK
            <4> QED BY <4>1, <4>2, OthersHold
        <3>2. rmLock'[tx[r].m] = r
            BY <1>1, <1>3 DEF IInv, TypeOK
        <3>3. Holds(r)'
            BY <3>2, <2>1, <2>3 DEF Holds
        <3> QED BY <3>1, <3>3 DEF LockInv
    <2>7. ScanInv'
        BY <1>3, <2>1, <2>3 DEF IInv, ScanInv
    <2>8. TagTargetsLive' /\ HistoryEndsAtTag'
        BY <1>3 DEF IInv, TagTargetsLive, HistoryEndsAtTag
    <2> QED BY <2>4, <2>5, <2>6, <2>7, <2>8 DEF IInv
<1> QED BY <1>2, <1>3 DEF Unlink

\* What a visit leaves of a deletion's local state.
LEMMA VisitActs ==
    ASSUME NEW r \in Handlers, NEW locals \in Locals, NEW left \in SUBSET (Names \X Nat),
           Visit(r, locals, left)
    PROVE  \E new \in Locals :
               /\ tx' = [tx EXCEPT ![r] = new]
               /\ new.todo = left /\ new.pc = locals.pc /\ new.m = locals.m /\ new.at = locals.at
               /\ new.gone = locals.gone
<1>1. PICK c \in IF left = {} THEN {NoTag} ELSE left :
          tx' = [tx EXCEPT ![r] = [locals EXCEPT !.todo = left, !.next = c]]
    BY DEF Visit
<1>2. c \in (Names \X Nat) \cup {NoTag}
    BY <1>1
<1> DEFINE new == [locals EXCEPT !.todo = left, !.next = c]
<1>3. /\ new \in Locals /\ new.todo = left /\ new.pc = locals.pc /\ new.m = locals.m
      /\ new.at = locals.at /\ new.gone = locals.gone
    BY <1>2 DEF Locals
<1> QED BY <1>1, <1>3

\* The scan of a deletion.
LEMMA ScanActs ==
    ASSUME IInv, NEW r \in Handlers, ScanTags(r)
    PROVE  \E new \in Locals :
               /\ tx' = [tx EXCEPT ![r] = new]
               /\ new.todo = {<<n, tags[n].row>> : n \in {k \in Names : tags[k].m = tx[r].m}}
               /\ new.pc = "untag" /\ new.m = tx[r].m /\ new.at = tx[r].at /\ new.gone = tx[r].gone
<1> DEFINE found == {<<n, tags[n].row>> : n \in {k \in Names : tags[k].m = tx[r].m}}
           start == [tx[r] EXCEPT !.pc = "untag"]
<1>1. found \in SUBSET (Names \X Nat) /\ tx[r] \in Locals
    BY DEF IInv, TypeOK
<1>2. /\ start \in Locals /\ start.pc = "untag" /\ start.m = tx[r].m /\ start.at = tx[r].at
      /\ start.gone = tx[r].gone
    BY <1>1 DEF Locals
<1>3. Visit(r, start, found)
    BY DEF ScanTags
<1> HIDE DEF found, start
<1>4. PICK new \in Locals :
          /\ tx' = [tx EXCEPT ![r] = new]
          /\ new.todo = found /\ new.pc = start.pc /\ new.m = start.m /\ new.at = start.at
          /\ new.gone = start.gone
    BY <1>1, <1>2, <1>3, VisitActs
<1> QED BY <1>2, <1>4 DEF found

\* A visit of a deletion to one of its tags.
LEMMA UntagActs ==
    ASSUME IInv, NEW r \in Handlers, Untag(r)
    PROVE  \E c \in tx[r].todo, new \in Locals :
               LET n == c[1]
                   there == tags[n].row = c[2]
                   found == there /\ tags[n].m = tx[r].m
               IN /\ tagLock[n] = NoHandler
                  /\ tagLock' = IF there THEN [tagLock EXCEPT ![n] = r] ELSE tagLock
                  /\ tx' = [tx EXCEPT ![r] = new]
                  /\ new.todo = tx[r].todo \ {c} /\ new.pc = "untag" /\ new.m = tx[r].m
                  /\ new.at = tx[r].at
                  /\ new.gone = IF found THEN tx[r].gone \cup {n} ELSE tx[r].gone
<1> DEFINE c == tx[r].next
           n == c[1]
           there == tags[n].row = c[2]
           found == there /\ tags[n].m = tx[r].m
           gone == IF found THEN tx[r].gone \cup {n} ELSE tx[r].gone
           left == tx[r].todo \ {c}
           start == [tx[r] EXCEPT !.gone = gone]
<1>1. c \in tx[r].todo /\ tx[r] \in Locals /\ tx[r].pc = "untag"
    BY DEF Untag, IInv, TypeOK
<1>2. n \in Names /\ gone \in SUBSET Names /\ left \in SUBSET (Names \X Nat)
    BY <1>1 DEF Locals
<1>3. /\ tagLock[n] = NoHandler
      /\ tagLock' = IF there THEN [tagLock EXCEPT ![n] = r] ELSE tagLock
      /\ Visit(r, start, left)
    BY DEF Untag
<1>4. /\ start \in Locals /\ start.pc = "untag" /\ start.m = tx[r].m /\ start.at = tx[r].at
      /\ start.gone = gone
    BY <1>1, <1>2 DEF Locals
<1> HIDE DEF start, left, gone
<1>5. PICK new \in Locals :
          /\ tx' = [tx EXCEPT ![r] = new]
          /\ new.todo = left /\ new.pc = start.pc /\ new.m = start.m /\ new.at = start.at
          /\ new.gone = start.gone
    BY <1>2, <1>3, <1>4, VisitActs
<1> QED BY <1>1, <1>3, <1>4, <1>5 DEF left, gone

\* The tags of the manifest are found: this is where ScanInv comes to hold.
LEMMA ScanTagsStep ==
    ASSUME IInv, NEW r \in Handlers, ScanTags(r)
    PROVE  IInv'
<1> DEFINE found == {<<n, tags[n].row>> : n \in {k \in Names : tags[k].m = tx[r].m}}
<1>1. /\ tx[r] \in Locals /\ tx[r].pc = "scan" /\ tx[r].m \in Manifests /\ tx[r].gone = {}
      /\ tx[r].at # 0 /\ rmLock[tx[r].m] = r
    BY DEF ScanTags, IInv, TypeOK, PointInv, LockInv, Holds, Linked
<1>2. PICK new \in Locals :
          /\ tx' = [tx EXCEPT ![r] = new]
          /\ new.todo = found /\ new.pc = "untag" /\ new.m = tx[r].m /\ new.at = tx[r].at
          /\ new.gone = tx[r].gone
    BY ScanActs
<1>3. new.gone = {}
    BY <1>1, <1>2
<1>4. UNCHANGED <<live, tags, events, rmLock, tagLock, clock, faults>>
    BY DEF ScanTags
<1>5. \A n \in Names : tags[n].m = tx[r].m => <<n, tags[n].row>> \in found
    OBVIOUS
<1> HIDE DEF found
<1>6. TypeOK'
    BY <1>2, <1>4 DEF IInv, TypeOK
<1>7. \A q \in Handlers : tx'[q] = IF q = r THEN new ELSE tx[q]
    BY <1>2 DEF IInv, TypeOK
<1>8. PointInv'
    BY <1>1, <1>2, <1>3, <1>7 DEF IInv, PointInv
<1>9. LockInv'
    <2>1. \A q \in Handlers \ {r} : Holds(q)'
        BY <1>4, <1>7, OthersHold
    <2>2. Holds(r)'
        BY <1>1, <1>2, <1>3, <1>4, <1>7 DEF Holds
    <2> QED BY <2>1, <2>2 DEF LockInv
<1>10. ScanInv'
    BY <1>2, <1>3, <1>4, <1>5, <1>7 DEF IInv, ScanInv
<1>11. TagTargetsLive' /\ HistoryEndsAtTag'
    BY <1>4 DEF IInv, TagTargetsLive, HistoryEndsAtTag
<1> QED BY <1>6, <1>8, <1>9, <1>10, <1>11 DEF IInv

\* One of the tags found is locked and looked at again.
LEMMA UntagStep ==
    ASSUME IInv, NEW r \in Handlers, Untag(r)
    PROVE  IInv'
<1>1. PICK c \in tx[r].todo, new \in Locals :
          LET n == c[1]
              there == tags[n].row = c[2]
              found == there /\ tags[n].m = tx[r].m
          IN /\ tagLock[n] = NoHandler
             /\ tagLock' = IF there THEN [tagLock EXCEPT ![n] = r] ELSE tagLock
             /\ tx' = [tx EXCEPT ![r] = new]
             /\ new.todo = tx[r].todo \ {c} /\ new.pc = "untag" /\ new.m = tx[r].m
             /\ new.at = tx[r].at
             /\ new.gone = IF found THEN tx[r].gone \cup {n} ELSE tx[r].gone
    BY UntagActs
<1> DEFINE n == c[1]
           there == tags[n].row = c[2]
           found == there /\ tags[n].m = tx[r].m
           gone == IF found THEN tx[r].gone \cup {n} ELSE tx[r].gone
<1>2. /\ tx[r] \in Locals /\ tx[r].pc = "untag" /\ tx[r].m \in Manifests
      /\ tx[r].at # 0 /\ rmLock[tx[r].m] = r
      /\ UNCHANGED <<live, tags, events, rmLock, clock, faults>>
    BY DEF Untag, IInv, TypeOK, PointInv, LockInv, Holds, Linked
<1>3. n \in Names /\ c = <<n, c[2]>> /\ gone \subseteq Names
    BY <1>2 DEF Locals
<1>4. /\ new.pc = "untag" /\ new.m = tx[r].m /\ new.gone = gone
      /\ new.at = tx[r].at /\ new.todo = tx[r].todo \ {c}
    BY <1>1
<1>5. /\ tx' = [tx EXCEPT ![r] = new] /\ tagLock[n] = NoHandler
      /\ tagLock' = IF there THEN [tagLock EXCEPT ![n] = r] ELSE tagLock
    BY <1>1
<1>6. \A k \in gone : tagLock'[k] = r
    <2>1. \A k \in tx[r].gone : tagLock[k] = r
        BY DEF IInv, LockInv, Holds
    <2> QED BY <1>3, <1>5, <2>1 DEF IInv, TypeOK
<1>7. \A k \in Names : tags[k].m = tx[r].m =>
          k \in gone \/ <<k, tags[k].row>> \in tx[r].todo \ {c}
    BY <1>2, <1>3 DEF IInv, ScanInv
<1> HIDE DEF gone, found, there, n
<1>8. TypeOK'
    BY <1>2, <1>3, <1>4, <1>5 DEF IInv, TypeOK
<1>9. \A q \in Handlers : tx'[q] = IF q = r THEN new ELSE tx[q]
    BY <1>5 DEF IInv, TypeOK
<1>10. PointInv'
    BY <1>2, <1>4, <1>9 DEF IInv, PointInv
<1>11. LockInv'
    <2>1. \A q \in Handlers \ {r} : \A k \in Names : tagLock[k] = q => tagLock'[k] = q
        BY <1>3, <1>5, TagAssumption DEF IInv, TypeOK
    <2>2. \A q \in Handlers \ {r} : Holds(q)'
        BY <1>2, <1>9, <2>1, OthersHold
    <2>3. Holds(r)'
        BY <1>2, <1>4, <1>6, <1>9 DEF Holds
    <2> QED BY <2>2, <2>3 DEF LockInv
<1>12. ScanInv'
    BY <1>2, <1>4, <1>7, <1>9 DEF IInv, ScanInv
<1>13. TagTargetsLive' /\ HistoryEndsAtTag'
    BY <1>2 DEF IInv, TagTargetsLive, HistoryEndsAtTag
<1> QED BY <1>8, <1>10, <1>11, <1>12, <1>13 DEF IInv

\* The manifest goes, and by ScanInv every tag that points to it.
LEMMA CommitDeleteStep ==
    ASSUME IInv, NEW r \in Handlers, CommitDelete(r)
    PROVE  IInv'
<1> DEFINE m == tx[r].m
           gone == tx[r].gone
           e == [prev |-> m, new |-> NoManifest, at |-> tx[r].at]
<1>1. /\ tx[r] \in Locals /\ tx[r].pc = "untag" /\ tx[r].todo = {} /\ m \in Manifests
      /\ gone \subseteq Names /\ e \in Event /\ e.new = NoManifest /\ rmLock[m] = r
      /\ \A n \in gone : tagLock[n] = r
    BY DEF CommitDelete, IInv, TypeOK, PointInv, LockInv, Holds, Linked, Locals, Event
<1>2. \A n \in Names : tags[n].m = m => n \in gone
    BY <1>1 DEF IInv, ScanInv
<1>3. /\ live' = live \ {m} /\ clock' = clock /\ faults' = faults
      /\ tags' = [n \in Names |-> IF n \in gone THEN NoRow ELSE tags[n]]
      /\ events' = [n \in Names |-> IF n \in gone THEN Append(events[n], e) ELSE events[n]]
      /\ Release(r)
    BY DEF CommitDelete
<1> HIDE DEF m, gone, e
<1>4. /\ tags' \in [Names -> [m : Manifests \cup {NoManifest}, row : Nat]]
      /\ \A n \in Names : tags'[n].row = 0 <=> tags'[n].m = NoManifest
    BY <1>3 DEF IInv, TypeOK, NoRow
<1>5. /\ events' \in [Names -> Seq(Event)]
      /\ \A n \in gone : events'[n] # << >> /\ events'[n][Len(events'[n])] = e
    <2>1. \A n \in Names : events[n] \in Seq(Event)
        BY DEF IInv, TypeOK
    <2>2. \A n \in Names :
              /\ Append(events[n], e) \in Seq(Event) /\ Append(events[n], e) # << >>
              /\ Append(events[n], e)[Len(Append(events[n], e))] = e
        BY <1>1, <2>1
    <2> QED BY <1>1, <1>3, <2>1, <2>2
<1>6. TypeOK'
    BY <1>3, <1>4, <1>5, ReleaseKeeps DEF IInv, TypeOK
<1>7. PointInv'
    BY <1>3, ReleaseKeeps DEF IInv, PointInv, Idle
<1>8. LockInv'
    <2>1. /\ \A q \in Handlers \ {r} : tx'[q] = tx[q]
          /\ \A q \in Handlers \ {r}, k \in Manifests : rmLock[k] = q => rmLock'[k] = q
          /\ \A q \in Handlers \ {r}, k \in Names : tagLock[k] = q => tagLock'[k] = q
          /\ tx'[r] = Idle
        BY <1>3, ReleaseKeeps
    <2>2. \A q \in Handlers \ {r}, k \in Names : tagLock[k] = q => tags'[k].m = tags[k].m
        BY <1>1, <1>3
    <2>3. \A q \in Handlers \ {r} : Holds(q)'
        BY <2>1, <2>2, OthersHold
    <2> QED BY <2>1, <2>3, IdleHolds DEF LockInv
<1>9. ScanInv'
    <2> SUFFICES ASSUME NEW q \in Handlers, tx'[q].pc = "untag", NEW k \in Names,
                        tags'[k].m = tx'[q].m
                 PROVE  k \in tx'[q].gone \/ <<k, tags'[k].row>> \in tx'[q].todo
        BY DEF ScanInv
    <2>1. q # r /\ tx'[q] = tx[q]
        BY <1>3, ReleaseKeeps DEF Idle
    <2>2. k \notin gone
        BY <1>3, <2>1, TagAssumption DEF IInv, PointInv, NoRow
    <2> QED BY <1>3, <2>1, <2>2 DEF IInv, ScanInv
<1>10. TagTargetsLive'
    BY <1>2, <1>3 DEF IInv, TagTargetsLive, NoRow
<1>11. HistoryEndsAtTag'
    <2> SUFFICES ASSUME NEW n \in Names
                 PROVE  tags'[n].m = IF events'[n] = << >> THEN NoManifest
                                     ELSE events'[n][Len(events'[n])].new
        BY DEF HistoryEndsAtTag
    <2>1. CASE n \in gone
        BY <1>1, <1>3, <1>5, <2>1 DEF NoRow
    <2>2. CASE n \notin gone
        BY <1>3, <2>2 DEF IInv, HistoryEndsAtTag
    <2> QED BY <2>1, <2>2
<1> QED BY <1>6, <1>7, <1>8, <1>9, <1>10, <1>11 DEF IInv

-----------------------------------------------------------------------------
(* Theorems *)

\* The invariant holds at the start.
LEMMA InitInv == Init => IInv
<1> SUFFICES ASSUME Init PROVE IInv
    OBVIOUS
<1>1. TypeOK
    <2>1. \A n \in Names : Initial[n] \in Manifests \cup {NoManifest}
        BY TagAssumption
    <2>2. /\ tags \in [Names -> [m : Manifests \cup {NoManifest}, row : Nat]]
          /\ \A n \in Names : tags[n].row = 0 <=> tags[n].m = NoManifest
        BY <2>1 DEF Init, NoRow
    <2>3. events \in [Names -> Seq(Event)]
        <3>1. ASSUME NEW n \in Names PROVE events[n] \in Seq(Event)
            <4>1. [prev |-> NoManifest, new |-> Initial[n], at |-> 1] \in Event
                BY <2>1 DEF Event
            <4> QED BY <4>1 DEF Init
        <3> QED BY <3>1 DEF Init
    <2>4. live \subseteq Manifests
        BY <2>1 DEF Init
    <2>5. /\ rmLock \in [Manifests -> Handlers \cup {NoHandler}]
          /\ tagLock \in [Names -> Handlers \cup {NoHandler}]
          /\ tx \in [Handlers -> Locals]
        BY IdleTyped DEF Init
    <2>6. clock \in 1..(MaxRequests + 1) /\ faults \in 0..MaxFaults
        BY TagAssumption DEF Init
    <2> QED BY <2>2, <2>3, <2>4, <2>5, <2>6 DEF TypeOK
<1>2. PointInv /\ LockInv /\ ScanInv
    BY DEF Init, PointInv, LockInv, Holds, Linked, ScanInv, Idle
<1>3. TagTargetsLive /\ HistoryEndsAtTag
    BY DEF Init, TagTargetsLive, HistoryEndsAtTag, NoRow
<1> QED BY <1>1, <1>2, <1>3 DEF IInv

\* Every step keeps it.
LEMMA NextInv == IInv /\ [Next]_vars => IInv'
<1> SUFFICES ASSUME IInv, [Next]_vars PROVE IInv'
    OBVIOUS
<1>1. CASE UNCHANGED vars
    BY <1>1 DEF vars, IInv, TypeOK, PointInv, LockInv, Holds, ScanInv, TagTargetsLive, HistoryEndsAtTag
<1>2. ASSUME NEW r \in Handlers, Arrive(r) PROVE IInv'
    <2>1. ASSUME NEW m \in Manifests, NEW n \in Names \cup {NoName}, BeginPush(r, m, n)
          PROVE  IInv'
        <3> DEFINE new == [Idle EXCEPT !.pc = "link", !.m = m, !.name = n]
        <3>1. /\ new \in Locals /\ new.pc = "link" /\ new.m \in Manifests
              /\ new.prev = NoManifest /\ new.gone = {}
            BY <2>1 DEF Idle, Locals
        <3> QED BY <2>1, <3>1, BeginStep DEF BeginPush
    <2>2. ASSUME NEW m \in Manifests, BeginDelete(r, m)
          PROVE  IInv'
        <3> DEFINE new == [Idle EXCEPT !.pc = "unlink", !.m = m]
        <3>1. /\ new \in Locals /\ new.pc = "unlink" /\ new.m \in Manifests
              /\ new.prev = NoManifest /\ new.gone = {}
            BY <2>2 DEF Idle, Locals
        <3> QED BY <2>2, <3>1, BeginStep DEF BeginDelete
    <2> QED BY <1>2, <2>1, <2>2 DEF Arrive
<1>3. ASSUME NEW r \in Handlers, Step(r) PROVE IInv'
    BY <1>3, LinkStep, SelectSnapshotStep, SelectForUpdateStep, UpsertTagStep, CommitUntaggedStep,
       UnlinkStep, ScanTagsStep, UntagStep, CommitDeleteStep DEF Step
<1>4. ASSUME NEW r \in Handlers, Abandon(r) PROVE IInv'
    <2>1. faults' \in 0..MaxFaults /\ Rollback(r)
        BY <1>4, TagAssumption DEF Abandon, IInv, TypeOK
    <2> QED BY <2>1, RollbackStep
<1>5. ASSUME NEW r \in Handlers, Deadlocked(r) PROVE IInv'
    <2>1. faults' \in 0..MaxFaults /\ Rollback(r)
        BY <1>5 DEF Deadlocked, IInv, TypeOK
    <2> QED BY <2>1, RollbackStep
<1> QED BY <1>1, <1>2, <1>3, <1>4, <1>5 DEF Next

\* The inductive invariant holds in every reachable state.
THEOREM Invariance == Spec => []IInv
BY InitInv, NextInv, PTL DEF Spec

\* The rows, locks and requests are well formed, so a tags row always has a
\* manifest.
THEOREM TypeCorrect == Spec => []TypeOK
<1>1. IInv => TypeOK
    BY DEF IInv
<1> QED BY <1>1, Invariance, PTL

\* Every tag that can be listed can be pulled, for any number of concurrent
\* pushes and deletions.
THEOREM TagsAlwaysPull == Spec => []TagTargetsLive
<1>1. IInv => TagTargetsLive
    BY DEF IInv
<1> QED BY <1>1, Invariance, PTL

\* However pushes and deletions of a tag overlap, its last event says what it
\* points to.
THEOREM HistoryAgrees == Spec => []HistoryEndsAtTag
<1>1. IInv => HistoryEndsAtTag
    BY DEF IInv
<1> QED BY <1>1, Invariance, PTL

-----------------------------------------------------------------------------
(***************************************************************************)
(* Tags implements TagStore for any number of requests, tag names and      *)
(* manifests.                                                              *)
(*                                                                         *)
(* A push takes effect when its tag is upserted and it commits, a deletion *)
(* at its last statement, and every other step is a stutter.  For a        *)
(* deletion to be one step, the tags it has collected must be the tags of  *)
(* its manifest: ScanInv says that none is missing, and DeleteInv that     *)
(* none is there without cause, because their rows are locked.             *)
(***************************************************************************)

\* What a deletion is about to delete is still there, and still of its manifest.
DeleteInv ==
    \A r \in Handlers : tx[r].pc \in {"scan", "untag"} =>
        /\ tx[r].m \in live
        /\ \A n \in tx[r].gone : tags[n].m = tx[r].m

RInv == IInv /\ DeleteInv

-----------------------------------------------------------------------------
(* The invariant *)

\* A deletion under way is not disturbed by steps that leave its rows alone.
LEMMA OthersDelete ==
    ASSUME RInv, NEW r \in Handlers, tx'[r] = tx[r],
           \A m \in Manifests : rmLock[m] = r /\ m \in live => m \in live',
           \A n \in Names : tagLock[n] = r => tags'[n].m = tags[n].m
    PROVE  tx'[r].pc \in {"scan", "untag"} =>
               tx'[r].m \in live' /\ \A n \in tx'[r].gone : tags'[n].m = tx'[r].m
<1> SUFFICES ASSUME tx[r].pc \in {"scan", "untag"}
             PROVE  tx[r].m \in live' /\ \A n \in tx[r].gone : tags'[n].m = tx[r].m
    OBVIOUS
<1>1. tx[r].m \in live /\ \A n \in tx[r].gone : tags[n].m = tx[r].m
    BY DEF RInv, DeleteInv
<1>2. tx[r].m \in Manifests /\ tx[r].gone \subseteq Names /\ Holds(r)
    BY DEF RInv, IInv, TypeOK, Locals, PointInv, LockInv
<1>3. rmLock[tx[r].m] = r /\ \A n \in tx[r].gone : tagLock[n] = r
    BY <1>2 DEF Holds, Linked
<1> QED BY <1>1, <1>2, <1>3

\* Steps that leave the tables as they are, and do not advance a deletion.
LEMMA QuietStep ==
    ASSUME RInv, NEW r \in Handlers, live' = live, tags' = tags,
           \A q \in Handlers \ {r} : tx'[q] = tx[q],
           tx'[r].pc \notin {"scan", "untag"}
    PROVE  DeleteInv'
BY DEF RInv, DeleteInv

\* A deletion collects its tags.
LEMMA DeleteScans ==
    ASSUME RInv, NEW r \in Handlers, Unlink(r) \/ ScanTags(r) \/ Untag(r)
    PROVE  DeleteInv'
<1>1. tx \in [Handlers -> Locals] /\ tx[r] \in Locals
    BY DEF RInv, IInv, TypeOK
<1>2. CASE Unlink(r)
    <2>1. CASE Rollback(r)
        <3>1. live' = live /\ tags' = tags /\ Release(r)
            BY <2>1 DEF Rollback
        <3>2. /\ \A q \in Handlers \ {r} : tx'[q] = tx[q]
              /\ tx'[r].pc = "idle"
            BY <1>1, <3>1 DEF Release, Idle
        <3> QED BY <3>1, <3>2, QuietStep
    <2>2. CASE tx[r].m \in live /\ Goto(r, "scan") /\ UNCHANGED <<live, tags>>
        <3>1. tx[r].gone = {}
            BY <1>2 DEF Unlink, RInv, IInv, PointInv
        <3>2. /\ \A q \in Handlers \ {r} : tx'[q] = tx[q]
              /\ tx'[r].m = tx[r].m /\ tx'[r].gone = {}
            BY <1>1, <2>2, <3>1 DEF Goto, Locals
        <3> QED BY <2>2, <3>2 DEF RInv, DeleteInv
    <2> QED BY <1>2, <2>1, <2>2 DEF Unlink
<1>3. CASE ScanTags(r)
    <2>1. /\ tx[r].pc = "scan" /\ UNCHANGED <<live, tags>>
          /\ \A q \in Handlers \ {r} : tx'[q] = tx[q]
          /\ tx'[r].m = tx[r].m /\ tx'[r].gone = tx[r].gone
        <3>1. /\ \A q \in Handlers \ {r} : tx'[q] = tx[q]
              /\ tx'[r].m = tx[r].m /\ tx'[r].gone = tx[r].gone
            BY <1>1, <1>3, ScanActs DEF RInv
        <3> QED BY <1>3, <3>1 DEF ScanTags
    <2> QED BY <2>1 DEF RInv, DeleteInv
<1>4. CASE Untag(r)
    <2>1. PICK c \in tx[r].todo, new \in Locals :
              /\ tx' = [tx EXCEPT ![r] = new] /\ new.m = tx[r].m
              /\ new.gone = IF tags[c[1]].row = c[2] /\ tags[c[1]].m = tx[r].m
                            THEN tx[r].gone \cup {c[1]} ELSE tx[r].gone
        BY <1>4, UntagActs DEF RInv
    <2>2. /\ tx[r].pc = "untag" /\ UNCHANGED <<live, tags>>
          /\ \A q \in Handlers \ {r} : tx'[q] = tx[q]
          /\ tx'[r].m = tx[r].m
          /\ \A n \in tx'[r].gone : n \in tx[r].gone \/ tags[n].m = tx[r].m
        BY <1>1, <1>4, <2>1 DEF Untag
    <2> QED BY <2>2 DEF RInv, DeleteInv
<1> QED BY <1>2, <1>3, <1>4

\* A push that commits leaves the rows of a deletion alone.
LEMMA PushKeepsDelete ==
    ASSUME RInv, NEW r \in Handlers, UpsertTag(r) \/ CommitUntagged(r)
    PROVE  DeleteInv'
<1>1. Release(r) /\ live \subseteq live'
    BY DEF UpsertTag, CommitUntagged
<1>2. \A q \in Handlers : tx'[q] = IF q = r THEN Idle ELSE tx[q]
    BY <1>1 DEF Release, RInv, IInv, TypeOK
<1>3. \A q \in Handlers \ {r}, n \in Names : tagLock[n] = q => tags'[n].m = tags[n].m
    <2>1. CASE UpsertTag(r)
        <3>1. /\ tags' = [tags EXCEPT ![tx[r].name].m = tx[r].m,
                                      ![tx[r].name].row = IF @ = 0 THEN tx[r].at ELSE @]
              /\ tagLock[tx[r].name] \in {NoHandler, r}
            BY <2>1 DEF UpsertTag
        <3>2. tags \in [Names -> [m : Manifests \cup {NoManifest}, row : Nat]]
            BY DEF RInv, IInv, TypeOK
        <3>3. \A n \in Names \ {tx[r].name} : tags'[n] = tags[n]
            BY <3>1, <3>2
        <3> QED BY <3>1, <3>3, TagAssumption
    <2>2. CASE CommitUntagged(r)
        BY <2>2 DEF CommitUntagged
    <2> QED BY <2>1, <2>2
<1> SUFFICES ASSUME NEW q \in Handlers, tx'[q].pc \in {"scan", "untag"}
             PROVE  tx'[q].m \in live' /\ \A n \in tx'[q].gone : tags'[n].m = tx'[q].m
    BY DEF DeleteInv
<1>4. q # r /\ tx'[q] = tx[q]
    BY <1>2 DEF Idle
<1> QED BY <1>1, <1>3, <1>4, OthersDelete

-----------------------------------------------------------------------------
(* The steps of a deletion *)

\* The tags that go with a manifest are its tags.
LEMMA GoneAreItsTags ==
    ASSUME RInv, NEW r \in Handlers, tx[r].pc = "untag", tx[r].todo = {}
    PROVE  tx[r].gone = {n \in Names : tags[n].m = tx[r].m}
<1>1. tx[r].gone \subseteq Names
    BY DEF RInv, IInv, TypeOK, Locals
<1>2. \A n \in tx[r].gone : tags[n].m = tx[r].m
    BY DEF RInv, DeleteInv
<1>3. \A n \in Names : tags[n].m = tx[r].m => n \in tx[r].gone
    BY DEF RInv, IInv, ScanInv
<1> QED BY <1>1, <1>2, <1>3

\* A deletion that commits leaves the rows of another one alone.
LEMMA CommitKeepsDelete ==
    ASSUME RInv, NEW r \in Handlers, CommitDelete(r)
    PROVE  DeleteInv'
<1>1. /\ tx[r].pc = "untag" /\ live' = live \ {tx[r].m} /\ Release(r)
      /\ tags' = [n \in Names |-> IF n \in tx[r].gone THEN NoRow ELSE tags[n]]
    BY DEF CommitDelete
<1>2. \A q \in Handlers : tx'[q] = IF q = r THEN Idle ELSE tx[q]
    BY <1>1 DEF Release, RInv, IInv, TypeOK
<1>3. rmLock[tx[r].m] = r /\ \A n \in tx[r].gone : tagLock[n] = r
    BY <1>1 DEF RInv, IInv, LockInv, Holds, Linked
<1> SUFFICES ASSUME NEW q \in Handlers, tx'[q].pc \in {"scan", "untag"}
             PROVE  tx'[q].m \in live' /\ \A n \in tx'[q].gone : tags'[n].m = tx'[q].m
    BY DEF DeleteInv
<1>4. q # r /\ tx'[q] = tx[q]
    BY <1>2 DEF Idle
<1>5. \A m \in Manifests : rmLock[m] = q /\ m \in live => m \in live'
    BY <1>1, <1>3, <1>4
<1>6. \A n \in Names : tagLock[n] = q => tags'[n].m = tags[n].m
    BY <1>1, <1>3, <1>4
<1> QED BY <1>4, <1>5, <1>6, OthersDelete

-----------------------------------------------------------------------------
(* The mapping *)

\* What a tag has pointed to, event by event.
LEMMA HistoryGrows ==
    ASSUME NEW s \in Seq(Event), NEW e \in Event
    PROVE  [i \in DOMAIN Append(s, e) |-> Append(s, e)[i].new]
           = Append([i \in DOMAIN s |-> s[i].new], e.new)
<1> DEFINE old == [i \in 1 .. Len(s) |-> s[i].new]
           M == Manifests \cup {NoManifest}
<1>1. /\ Len(s) \in Nat /\ DOMAIN s = 1 .. Len(s)
      /\ \A i \in 1 .. Len(s) : s[i] \in Event
    OBVIOUS
<1>2. old \in Seq(M) /\ Len(old) = Len(s) /\ e.new \in M
    <2>1. old \in [1 .. Len(s) -> M] /\ e.new \in M
        BY <1>1 DEF Event
    <2>2. old \in Seq(M)
        BY <1>1, <2>1
    <2>3. DOMAIN old = 1 .. Len(s)
        OBVIOUS
    <2> HIDE DEF old
    <2>4. Len(old) = Len(s)
        BY <1>1, <2>2, <2>3, LenProperties
    <2> QED BY <2>1, <2>2, <2>4
<1>3. /\ Append(s, e) \in Seq(Event) /\ Len(Append(s, e)) = Len(s) + 1
      /\ DOMAIN Append(s, e) = 1 .. Len(s) + 1
      /\ \A i \in 1 .. Len(s) : Append(s, e)[i] = s[i]
      /\ Append(s, e)[Len(s) + 1] = e
    BY AppendProperties
<1>4. \A i \in 1 .. Len(s) : old[i] = s[i].new
    OBVIOUS
<1> HIDE DEF old, M
<1>5. /\ DOMAIN Append(old, e.new) = 1 .. Len(s) + 1
      /\ \A i \in 1 .. Len(s) : Append(old, e.new)[i] = old[i]
      /\ Append(old, e.new)[Len(s) + 1] = e.new
    <2>1. /\ Append(old, e.new) \in Seq(M) /\ Len(Append(old, e.new)) = Len(old) + 1
          /\ \A i \in 1 .. Len(old) : Append(old, e.new)[i] = old[i]
          /\ Append(old, e.new)[Len(old) + 1] = e.new
        BY <1>2, AppendProperties
    <2> QED BY <1>2, <2>1
<1>6. \A i \in 1 .. Len(s) + 1 : Append(s, e)[i].new = Append(old, e.new)[i]
    BY <1>1, <1>3, <1>4, <1>5
<1>7. [i \in 1 .. Len(s) + 1 |-> Append(s, e)[i].new] = Append(old, e.new)
    <2>1. Append(old, e.new) = [i \in 1 .. Len(s) + 1 |-> Append(old, e.new)[i]]
        BY <1>2, <1>5
    <2> QED BY <1>6, <2>1
<1> QED BY <1>1, <1>3, <1>7 DEF old

\* The state of the repository that its clients see.
tag == [n \in Names |-> tags[n].m]
history == [n \in Names |-> [i \in DOMAIN events[n] |-> events[n][i].new]]

\* A tag's push is a step of the repository.
LEMMA UpsertPushes ==
    ASSUME RInv, NEW r \in Handlers, UpsertTag(r)
    PROVE  Store!Next
<1> DEFINE n == tx[r].name
           m == tx[r].m
           e == [prev |-> tx[r].prev, new |-> m, at |-> tx[r].at]
<1>1. /\ m \in Manifests /\ n \in Names /\ e \in Event /\ e.new = m
      /\ tx[r].prev # NoManifest => tags[n].m = tx[r].prev
    BY DEF UpsertTag, RInv, IInv, TypeOK, PointInv, LockInv, Holds, Locals, Event
<1>2. /\ live' = live \cup {m}
      /\ tags' = [tags EXCEPT ![n].m = m, ![n].row = IF @ = 0 THEN tx[r].at ELSE @]
      /\ events' = IF tx[r].prev = m THEN events ELSE [events EXCEPT ![n] = Append(@, e)]
    BY DEF UpsertTag
<1>3. /\ tags \in [Names -> [m : Manifests \cup {NoManifest}, row : Nat]]
      /\ events \in [Names -> Seq(Event)]
    BY DEF RInv, IInv, TypeOK
<1> HIDE DEF n, m, e
<1>4. tag' = [tag EXCEPT ![n] = m]
    <2>1. tags'[n].m = m
        <3>1. tags'[n] = [tags[n] EXCEPT !.m = m, !.row = IF @ = 0 THEN tx[r].at ELSE @]
            BY <1>1, <1>2, <1>3
        <3>2. tags[n] \in [m : Manifests \cup {NoManifest}, row : Nat]
            BY <1>1, <1>3
        <3> QED BY <3>1, <3>2
    <2>2. \A k \in Names \ {n} : tags'[k] = tags[k]
        BY <1>2, <1>3
    <2> QED BY <1>1, <2>1, <2>2 DEF tag
<1>5. \/ history' = [history EXCEPT ![n] = Append(@, m)]
      \/ tag[n] = m /\ history' = history
    <2>1. CASE tx[r].prev = m
        <3>1. tags[n].m = m
            BY <1>1, <2>1, TagAssumption
        <3>2. events' = events
            BY <1>2, <2>1
        <3> QED BY <1>1, <3>1, <3>2 DEF tag, history
    <2>2. CASE tx[r].prev # m
        <3>1. /\ events'[n] = Append(events[n], e)
              /\ \A k \in Names \ {n} : events'[k] = events[k]
            BY <1>1, <1>2, <1>3, <2>2
        <3>2. [i \in DOMAIN events'[n] |-> events'[n][i].new] = Append(history[n], m)
            BY <1>1, <1>3, <3>1, HistoryGrows DEF history
        <3>3. history'[n] = Append(history[n], m)
            BY <1>1, <3>2 DEF history
        <3>4. \A k \in Names \ {n} : history'[k] = history[k]
            BY <3>1 DEF history
        <3>5. history' = [k \in Names |-> history'[k]] /\ history = [k \in Names |-> history[k]]
            BY DEF history
        <3> HIDE DEF history
        <3>6. history' = [k \in Names |-> IF k = n THEN Append(history[n], m) ELSE history[k]]
            BY <3>3, <3>4, <3>5
        <3>7. [history EXCEPT ![n] = Append(@, m)]
              = [k \in Names |-> IF k = n THEN Append(history[n], m) ELSE history[k]]
            BY <3>5
        <3> QED BY <3>6, <3>7
    <2> QED BY <2>1, <2>2
<1> QED BY <1>1, <1>2, <1>4, <1>5 DEF Store!Next, Store!PushTag, tag, history

\* A manifest's deletion is a step of the repository.
LEMMA CommitDeletes ==
    ASSUME RInv, NEW r \in Handlers, CommitDelete(r)
    PROVE  Store!Next
<1> DEFINE m == tx[r].m
           e == [prev |-> m, new |-> NoManifest, at |-> tx[r].at]
           gone == tx[r].gone
<1>1. /\ m \in Manifests /\ m \in live /\ e \in Event /\ e.new = NoManifest
      /\ gone = {n \in Names : tags[n].m = m}
    <2>1. tx[r].pc = "untag" /\ tx[r].todo = {}
        BY DEF CommitDelete
    <2>2. m \in Manifests /\ m \in live
        BY <2>1 DEF RInv, IInv, PointInv, DeleteInv
    <2>3. e \in Event /\ e.new = NoManifest
        BY <2>2 DEF RInv, IInv, TypeOK, Locals, Event
    <2> QED BY <2>1, <2>2, <2>3, GoneAreItsTags
<1>2. /\ live' = live \ {m}
      /\ tags' = [n \in Names |-> IF n \in gone THEN NoRow ELSE tags[n]]
      /\ events' = [n \in Names |-> IF n \in gone THEN Append(events[n], e) ELSE events[n]]
    BY DEF CommitDelete
<1>3. events \in [Names -> Seq(Event)]
    BY DEF RInv, IInv, TypeOK
<1> HIDE DEF m, e, gone
<1>4. tag' = [n \in Names |-> IF tag[n] = m THEN NoManifest ELSE tag[n]]
    BY <1>1, <1>2 DEF tag, NoRow
<1>5. history' = [n \in Names |-> IF tag[n] = m THEN Append(history[n], NoManifest) ELSE history[n]]
    <2>1. ASSUME NEW n \in Names
          PROVE  history'[n] = IF tag[n] = m THEN Append(history[n], NoManifest) ELSE history[n]
        <3>1. tag[n] = m <=> n \in gone
            BY <1>1 DEF tag
        <3>2. CASE n \in gone
            <4>1. events'[n] = Append(events[n], e)
                BY <1>2, <3>2
            <4>2. [i \in DOMAIN events'[n] |-> events'[n][i].new] = Append(history[n], NoManifest)
                BY <1>1, <1>3, <4>1, HistoryGrows DEF history
            <4> QED BY <3>1, <3>2, <4>2 DEF history
        <3>3. CASE n \notin gone
            BY <1>2, <3>1, <3>3 DEF history
        <3> QED BY <3>2, <3>3
    <2>2. history' = [n \in Names |-> history'[n]]
        BY DEF history
    <2> HIDE DEF history
    <2> QED BY <2>1, <2>2
<1> QED BY <1>1, <1>2, <1>4, <1>5 DEF Store!Next, Store!Delete, tag, history

\* Every other step changes nothing that a client sees.
LEMMA OthersStutter ==
    ASSUME UNCHANGED <<live, tags, events>>
    PROVE  UNCHANGED Store!vars
BY DEF Store!vars

-----------------------------------------------------------------------------
(* Theorems *)

LEMMA InitMaps == Init => RInv /\ Store!Init
<1> SUFFICES ASSUME Init PROVE RInv /\ Store!Init
    OBVIOUS
<1>1. DeleteInv
    BY DEF Init, DeleteInv, Idle
<1>2. /\ live = {Initial[n] : n \in Names} \ {NoManifest}
      /\ tag = Initial
    BY TagAssumption DEF Init, NoRow, tag
<1>3. history = [n \in Names |-> IF Initial[n] = NoManifest THEN << >> ELSE <<Initial[n]>>]
    <2>1. ASSUME NEW n \in Names
          PROVE  history[n] = IF Initial[n] = NoManifest THEN << >> ELSE <<Initial[n]>>
        <3>1. CASE Initial[n] = NoManifest
            <4>1. events[n] = << >>
                BY <3>1 DEF Init
            <4> QED BY <3>1, <4>1 DEF history
        <3>2. CASE Initial[n] # NoManifest
            <4> DEFINE e == [prev |-> NoManifest, new |-> Initial[n], at |-> 1]
            <4>1. events[n] = <<e>> /\ e.new = Initial[n]
                BY <3>2 DEF Init
            <4> HIDE DEF e
            <4>2. [i \in DOMAIN events[n] |-> events[n][i].new] = <<Initial[n]>>
                BY <4>1
            <4> QED BY <3>2, <4>2 DEF history
        <3> QED BY <3>1, <3>2
    <2>2. history = [n \in Names |-> history[n]]
        BY DEF history
    <2> HIDE DEF history
    <2> QED BY <2>1, <2>2
<1>4. Store!Init
    BY <1>2, <1>3 DEF Store!Init, tag, history
<1> QED BY <1>1, <1>4, InitInv DEF RInv

LEMMA NextMaps == RInv /\ [Next]_vars => RInv' /\ [Store!Next]_Store!vars
<1> SUFFICES ASSUME RInv, [Next]_vars PROVE DeleteInv' /\ [Store!Next]_Store!vars
    BY NextInv DEF RInv
<1>1. CASE UNCHANGED vars
    BY <1>1, OthersStutter DEF vars, RInv, DeleteInv
<1>2. ASSUME NEW r \in Handlers, Arrive(r)
      PROVE  DeleteInv' /\ UNCHANGED Store!vars
    <2>1. ASSUME NEW new \in Locals, new.pc \in {"link", "unlink"}, Begin(r, new)
          PROVE  DeleteInv' /\ UNCHANGED Store!vars
        <3>1. /\ UNCHANGED <<live, tags, events>>
              /\ \A q \in Handlers \ {r} : tx'[q] = tx[q]
              /\ tx'[r].pc = new.pc
            BY <2>1 DEF Begin, RInv, IInv, TypeOK, Locals
        <3> QED BY <2>1, <3>1, QuietStep, OthersStutter
    <2>2. ASSUME NEW m \in Manifests, NEW n \in Names \cup {NoName}, BeginPush(r, m, n)
          PROVE  DeleteInv' /\ UNCHANGED Store!vars
        <3> DEFINE new == [Idle EXCEPT !.pc = "link", !.m = m, !.name = n]
        <3>1. new \in Locals /\ new.pc = "link"
            BY DEF Idle, Locals
        <3> QED BY <2>1, <2>2, <3>1 DEF BeginPush
    <2>3. ASSUME NEW m \in Manifests, BeginDelete(r, m)
          PROVE  DeleteInv' /\ UNCHANGED Store!vars
        <3> DEFINE new == [Idle EXCEPT !.pc = "unlink", !.m = m]
        <3>1. new \in Locals /\ new.pc = "unlink"
            BY DEF Idle, Locals
        <3> QED BY <2>1, <2>3, <3>1 DEF BeginDelete
    <2> QED BY <1>2, <2>2, <2>3 DEF Arrive
<1>3. ASSUME NEW r \in Handlers, Link(r) \/ SelectSnapshot(r) \/ SelectForUpdate(r) \/ Abandon(r)
                                       \/ Deadlocked(r)
      PROVE  DeleteInv' /\ UNCHANGED Store!vars
    <2>1. UNCHANGED <<live, tags, events>>
        BY <1>3 DEF Link, SelectSnapshot, SelectForUpdate, Abandon, Deadlocked, Rollback
    <2>2. tx \in [Handlers -> Locals]
        BY DEF RInv, IInv, TypeOK
    <2>3. \A q \in Handlers \ {r} : tx'[q] = tx[q]
        BY <1>3, <2>2 DEF Link, SelectSnapshot, SelectForUpdate, Abandon, Deadlocked, Rollback, Release, Goto
    <2>4. tx'[r].pc \notin {"scan", "untag"}
        BY <1>3, <2>2 DEF Link, SelectSnapshot, SelectForUpdate, Abandon, Deadlocked, Rollback, Release, Goto,
                          Idle, Locals
    <2> QED BY <2>1, <2>3, <2>4, QuietStep, OthersStutter
<1>4. ASSUME NEW r \in Handlers, UpsertTag(r)
      PROVE  DeleteInv' /\ Store!Next
    BY <1>4, PushKeepsDelete, UpsertPushes
<1>5. ASSUME NEW r \in Handlers, CommitUntagged(r)
      PROVE  DeleteInv' /\ Store!Next
    <2>1. tx[r].m \in Manifests /\ Store!Push(tx[r].m)
        BY <1>5 DEF CommitUntagged, Store!Push, RInv, IInv, PointInv
    <2> QED BY <1>5, <2>1, PushKeepsDelete DEF Store!Next
<1>6. ASSUME NEW r \in Handlers, Unlink(r) \/ ScanTags(r) \/ Untag(r)
      PROVE  DeleteInv' /\ UNCHANGED Store!vars
    <2>1. UNCHANGED <<live, tags, events>>
        BY <1>6 DEF Unlink, ScanTags, Untag, Rollback
    <2> QED BY <1>6, <2>1, DeleteScans, OthersStutter
<1>7. ASSUME NEW r \in Handlers, CommitDelete(r)
      PROVE  DeleteInv' /\ Store!Next
    BY <1>7, CommitKeepsDelete, CommitDeletes
<1> QED BY <1>1, <1>2, <1>3, <1>4, <1>5, <1>6, <1>7 DEF Next, Step

\* What a deletion has locked stays as it found it.
THEOREM RefinementInvariance == Spec => []RInv
BY InitMaps, NextMaps, PTL DEF Spec

\* Pushes and deletions, made of statements that interleave, act as the single
\* steps of TagStore (persist_manifest, delete_manifest).
THEOREM Refinement == Spec => ImplementsStore
<1>1. Spec => []RInv
    BY RefinementInvariance
<1>2. Spec => Store!Spec
    BY <1>1, InitMaps, NextMaps, PTL DEF Spec, Store!Spec
<1> QED BY <1>2 DEF ImplementsStore

-----------------------------------------------------------------------------
(***************************************************************************)
(* Who can wait for whom.  Who waits for a manifest's row holds nothing,   *)
(* and a push that holds a tag's row waits for nothing: a circle is of     *)
(* deletions that each wait for a tag which another one has come to.  If   *)
(* that one has found the tag to be of its own manifest, the tag has moved *)
(* between the two scans, by a push that cannot have committed after the   *)
(* second scan, whose transaction holds the row of the new target: so the  *)
(* waiting deletion has scanned before (RankInv), and there is no circle   *)
(* of such waits only.  But a deletion also keeps the row of a tag that it *)
(* has found to have moved, and does not delete: every circle has one that *)
(* does (HoldsMoved), and there are such circles.                          *)
(***************************************************************************)

\* A deletion has come to the tag: it deletes it, unless it has moved.
Visited(r, n) ==
    /\ \A c \in tx[r].todo : c[1] # n
    /\ n \in tx[r].gone \/ tags[n].m # tx[r].m

\* Who holds a row has passed the statement that locks it.
HolderInv ==
    /\ \A m \in Manifests, r \in Handlers : rmLock[m] = r => tx[r].pc \in Linked /\ tx[r].m = m
    /\ \A n \in Names, r \in Handlers : tagLock[n] = r =>
          \/ tx[r].pc = "upsert" /\ tx[r].name = n
          \/ tx[r].pc = "untag" /\ Visited(r, n)

\* A deletion comes to each tag once.
VisitInv ==
    \A r \in Handlers : tx[r].pc = "untag" =>
        \A c \in tx[r].todo : /\ c[1] \in Names \ tx[r].gone
                              /\ \A d \in tx[r].todo : d[1] = c[1] => d = c

\* Whose tag is still to be visited by a, but of b's manifest by now, scanned later than a.
Later(rank) ==
    \A a, b \in Handlers : a # b /\ tx[a].pc = "untag" /\ tx[b].pc = "untag" =>
        \A c \in tx[a].todo : tags[c[1]].m = tx[b].m => rank[a] < rank[b]

RankInv ==
    \E rank \in [Handlers -> Nat], top \in Nat : (\A r \in Handlers : rank[r] <= top) /\ Later(rank)

WaitInv == RInv /\ HolderInv /\ VisitInv /\ RankInv

-----------------------------------------------------------------------------
(* The invariant *)

\* Types that the lemmas below need.
LEMMA TxTypes ==
    ASSUME RInv
    PROVE  /\ tx \in [Handlers -> Locals]
           /\ \A r \in Handlers : /\ tx[r].todo \subseteq Names \X Nat /\ tx[r].gone \subseteq Names
                                  /\ tx[r].pc # "idle" => tx[r].m \in Manifests
                                  /\ tx[r].pc \in Linked => rmLock[tx[r].m] = r
                                  /\ \A n \in tx[r].gone : tagLock[n] = r
BY DEF RInv, IInv, TypeOK, Locals, PointInv, LockInv, Holds

\* A step of r that takes no lock of the others and gives it only locks that it may have.
LEMMA HolderStep ==
    ASSUME HolderInv, NEW r \in Handlers, \A q \in Handlers \ {r} : tx'[q] = tx[q],
           \A m \in Manifests, q \in Handlers \ {r} : rmLock'[m] = q => rmLock[m] = q,
           \A n \in Names, q \in Handlers \ {r} : tagLock'[n] = q => tagLock[n] = q /\ tags'[n].m = tags[n].m,
           \A m \in Manifests : rmLock'[m] = r => tx'[r].pc \in Linked /\ tx'[r].m = m,
           \A n \in Names : tagLock'[n] = r => \/ tx'[r].pc = "upsert" /\ tx'[r].name = n
                                               \/ tx'[r].pc = "untag" /\ Visited(r, n)'
    PROVE  HolderInv'
<1>1. ASSUME NEW m \in Manifests, NEW q \in Handlers, rmLock'[m] = q
      PROVE  tx'[q].pc \in Linked /\ tx'[q].m = m
    <2>1. CASE q = r
        BY <1>1, <2>1
    <2>2. CASE q # r
        BY <1>1, <2>2 DEF HolderInv
    <2> QED BY <2>1, <2>2
<1>2. ASSUME NEW n \in Names, NEW q \in Handlers, tagLock'[n] = q
      PROVE  \/ tx'[q].pc = "upsert" /\ tx'[q].name = n
             \/ tx'[q].pc = "untag" /\ Visited(q, n)'
    <2>1. CASE q = r
        BY <1>2, <2>1
    <2>2. CASE q # r
        <3>1. tagLock[n] = q /\ tx'[q] = tx[q] /\ tags'[n].m = tags[n].m
            BY <1>2, <2>2
        <3> QED BY <3>1 DEF HolderInv, Visited
    <2> QED BY <2>1, <2>2
<1> QED BY <1>1, <1>2 DEF HolderInv, Linked

\* A transaction ends.
LEMMA HoldersRelease ==
    ASSUME RInv, HolderInv, NEW r \in Handlers, Release(r),
           \A q \in Handlers \ {r}, n \in Names : tagLock[n] = q => tags'[n].m = tags[n].m
    PROVE  HolderInv' /\ tx'[r].pc = "idle" /\ \A q \in Handlers \ {r} : tx'[q] = tx[q]
<1>1. /\ tx'[r].pc = "idle" /\ \A q \in Handlers \ {r} : tx'[q] = tx[q]
      /\ \A m \in Manifests : rmLock'[m] = IF rmLock[m] = r THEN NoHandler ELSE rmLock[m]
      /\ \A n \in Names : tagLock'[n] = IF tagLock[n] = r THEN NoHandler ELSE tagLock[n]
    BY TxTypes DEF Release, Idle
<1>2. NoHandler \notin Handlers
    BY TagAssumption
<1>3. /\ \A m \in Manifests, q \in Handlers \ {r} : rmLock'[m] = q => rmLock[m] = q
      /\ \A n \in Names, q \in Handlers \ {r} : tagLock'[n] = q => tagLock[n] = q
      /\ \A m \in Manifests : rmLock'[m] # r
      /\ \A n \in Names : tagLock'[n] # r
    BY <1>1, <1>2
<1>4. \A n \in Names, q \in Handlers \ {r} : tagLock'[n] = q => tagLock[n] = q /\ tags'[n].m = tags[n].m
    BY <1>3
<1> QED BY <1>1, <1>3, <1>4, HolderStep

\* Steps that leave the scans and the tags of other deletions as they are.
LEMMA RankStep ==
    ASSUME RInv, RankInv, NEW r \in Handlers, \A q \in Handlers \ {r} : tx'[q] = tx[q],
           \A q \in Handlers \ {r}, n \in Names :
               tx[q].pc = "untag" /\ tags'[n].m = tx[q].m => tags[n].m = tx[q].m,
           tx'[r].pc = "untag" => /\ tx[r].pc = "untag" /\ tx'[r].m = tx[r].m /\ tx'[r].todo \subseteq tx[r].todo
                                  /\ tags' = tags
    PROVE  RankInv'
<1>1. PICK rank \in [Handlers -> Nat], top \in Nat : (\A q \in Handlers : rank[q] <= top) /\ Later(rank)
    BY DEF RankInv
<1>2. ASSUME NEW a \in Handlers, NEW b \in Handlers, a # b, tx'[a].pc = "untag", tx'[b].pc = "untag",
             NEW c \in tx'[a].todo, tags'[c[1]].m = tx'[b].m
      PROVE  rank[a] < rank[b]
    <2>1. tx[a].pc = "untag" /\ tx[b].pc = "untag" /\ tx'[b].m = tx[b].m /\ c \in tx[a].todo
        BY <1>2
    <2>2. c[1] \in Names
        BY <2>1, TxTypes
    <2>3. tags[c[1]].m = tx[b].m
        BY <1>2, <2>1, <2>2
    <2> QED BY <1>1, <1>2, <2>1, <2>3 DEF Later
<1>3. Later(rank)'
    BY <1>2 DEF Later
<1> QED BY <1>1, <1>3 DEF RankInv

\* Nobody else deletes the manifest of a transaction that has linked it.
LEMMA OneDeletes ==
    ASSUME RInv, NEW r \in Handlers, NEW q \in Handlers, q # r, tx[r].pc \in Linked, tx[q].pc \in Linked
    PROVE  tx[q].m # tx[r].m
BY TxTypes

\* A deletion scans: it comes last.
LEMMA RankScans ==
    ASSUME RInv, RankInv, NEW r \in Handlers, ScanTags(r)
    PROVE  RankInv'
<1>1. PICK rank \in [Handlers -> Nat], top \in Nat : (\A q \in Handlers : rank[q] <= top) /\ Later(rank)
    BY DEF RankInv
<1>2. /\ tx[r].pc = "scan" /\ tags' = tags /\ tx'[r].m = tx[r].m
      /\ tx'[r].todo = {<<n, tags[n].row>> : n \in {k \in Names : tags[k].m = tx[r].m}}
      /\ \A q \in Handlers \ {r} : tx'[q] = tx[q]
    <2>1. /\ tx'[r].m = tx[r].m
          /\ tx'[r].todo = {<<n, tags[n].row>> : n \in {k \in Names : tags[k].m = tx[r].m}}
          /\ \A q \in Handlers \ {r} : tx'[q] = tx[q]
        BY TxTypes, ScanActs DEF RInv
    <2> QED BY <2>1 DEF ScanTags
<1> DEFINE new == [rank EXCEPT ![r] = top + 1]
<1>3. /\ new \in [Handlers -> Nat] /\ top + 1 \in Nat /\ new[r] = top + 1
      /\ \A q \in Handlers \ {r} : new[q] = rank[q]
    BY <1>1
<1> HIDE DEF new
<1>4. \A q \in Handlers : new[q] <= top + 1
    <2>1. ASSUME NEW q \in Handlers PROVE new[q] <= top + 1
        <3>1. CASE q = r
            BY <1>3, <3>1
        <3>2. CASE q # r
            <4>1. new[q] = rank[q] /\ rank[q] <= top /\ rank[q] \in Nat /\ top \in Nat
                BY <1>1, <1>3, <3>2
            <4> QED BY <4>1
        <3> QED BY <3>1, <3>2
    <2> QED BY <2>1
<1>5. ASSUME NEW a \in Handlers, NEW b \in Handlers, a # b, tx'[a].pc = "untag", tx'[b].pc = "untag",
             NEW c \in tx'[a].todo, tags'[c[1]].m = tx'[b].m
      PROVE  new[a] < new[b]
    <2>1. CASE a = r
        <3>1. tags[c[1]].m = tx[r].m
            BY <1>2, <1>5, <2>1
        <3>2. tx[b].pc = "untag" /\ tx[b].m = tx[r].m
            BY <1>2, <1>5, <2>1, <3>1
        <3> QED BY <1>2, <1>5, <2>1, <3>2, OneDeletes DEF Linked
    <2>2. CASE b = r
        <3>1. new[a] = rank[a] /\ rank[a] <= top /\ rank[a] \in Nat
            BY <1>1, <1>3, <1>5, <2>2
        <3> QED BY <1>3, <2>2, <3>1
    <2>3. CASE a # r /\ b # r
        <3>1. rank[a] < rank[b]
            BY <1>1, <1>2, <1>5, <2>3 DEF Later
        <3> QED BY <1>3, <2>3, <3>1
    <2> QED BY <2>1, <2>2, <2>3
<1>6. Later(new)'
    BY <1>5 DEF Later
<1> QED BY <1>3, <1>4, <1>6 DEF RankInv

\* A step that neither ends a transaction nor lets a deletion scan or visit a tag.
LEMMA QuietWait ==
    ASSUME WaitInv, NEW r \in Handlers, \A q \in Handlers \ {r} : tx'[q] = tx[q], tags' = tags,
           tx'[r].pc # "untag"
    PROVE  VisitInv' /\ RankInv'
<1>1. VisitInv'
    BY DEF WaitInv, VisitInv
<1>2. RankInv'
    BY RankStep DEF WaitInv
<1> QED BY <1>1, <1>2

LEMMA WaitArrive ==
    ASSUME WaitInv, NEW r \in Handlers, NEW new \in Locals, new.pc \in {"link", "unlink"}, Begin(r, new)
    PROVE  HolderInv' /\ VisitInv' /\ RankInv'
<1>1. RInv /\ HolderInv
    BY DEF WaitInv
<1>2. /\ \A q \in Handlers \ {r} : tx'[q] = tx[q]
      /\ tx'[r].pc = new.pc /\ tx[r].pc = "idle"
      /\ UNCHANGED <<tags, rmLock, tagLock>>
    BY <1>1, TxTypes DEF Begin, Locals
<1>3. \A m \in Manifests : rmLock[m] # r
    BY <1>1, <1>2 DEF HolderInv, Linked
<1>4. \A n \in Names : tagLock[n] # r
    BY <1>1, <1>2 DEF HolderInv
<1>5. HolderInv'
    BY <1>1, <1>2, <1>3, <1>4, HolderStep
<1> QED BY <1>2, <1>5, QuietWait

LEMMA WaitLink ==
    ASSUME WaitInv, NEW r \in Handlers, Link(r)
    PROVE  HolderInv' /\ VisitInv' /\ RankInv'
<1>1. RInv /\ HolderInv
    BY DEF WaitInv
<1>2. /\ \A q \in Handlers \ {r} : tx'[q] = tx[q]
      /\ tx[r].pc = "link" /\ tx'[r].pc \in {"commit", "snapshot"} /\ tx'[r].m = tx[r].m
      /\ rmLock' = [rmLock EXCEPT ![tx[r].m] = r] /\ UNCHANGED <<tags, tagLock>>
    BY <1>1, TxTypes DEF Link, Goto, Locals
<1>3. \A m \in Manifests : rmLock[m] # r
    BY <1>1, <1>2 DEF HolderInv, Linked
<1>4. \A n \in Names : tagLock[n] # r
    BY <1>1, <1>2 DEF HolderInv
<1>5. \A m \in Manifests : rmLock'[m] = IF m = tx[r].m THEN r ELSE rmLock[m]
    BY <1>1, <1>2 DEF RInv, IInv, TypeOK
<1>6. HolderInv'
    BY <1>1, <1>2, <1>3, <1>4, <1>5, HolderStep DEF Linked
<1> QED BY <1>2, <1>6, QuietWait

LEMMA WaitSelectSnapshot ==
    ASSUME WaitInv, NEW r \in Handlers, SelectSnapshot(r)
    PROVE  HolderInv' /\ VisitInv' /\ RankInv'
<1>1. RInv /\ HolderInv
    BY DEF WaitInv
<1>2. /\ \A q \in Handlers \ {r} : tx'[q] = tx[q]
      /\ tx[r].pc = "snapshot" /\ tx'[r].pc \in {"select", "upsert"} /\ tx'[r].m = tx[r].m
      /\ UNCHANGED <<tags, rmLock, tagLock>>
    BY <1>1, TxTypes DEF SelectSnapshot, Locals
<1>3. \A n \in Names : tagLock[n] # r
    BY <1>1, <1>2 DEF HolderInv
<1>4. \A m \in Manifests : rmLock[m] = r => m = tx[r].m
    BY <1>1 DEF HolderInv
<1>5. HolderInv'
    BY <1>1, <1>2, <1>3, <1>4, HolderStep DEF Linked
<1> QED BY <1>2, <1>5, QuietWait

\* A rollback or a commit that changes no tag of a deletion under way.
LEMMA WaitRelease ==
    ASSUME WaitInv, NEW r \in Handlers, Release(r),
           \A q \in Handlers \ {r}, n \in Names : tagLock[n] = q => tags'[n].m = tags[n].m,
           \A q \in Handlers \ {r}, n \in Names :
               tx[q].pc = "untag" /\ tags'[n].m = tx[q].m => tags[n].m = tx[q].m
    PROVE  HolderInv' /\ VisitInv' /\ RankInv'
<1>1. HolderInv' /\ tx'[r].pc = "idle" /\ \A q \in Handlers \ {r} : tx'[q] = tx[q]
    BY HoldersRelease DEF WaitInv
<1>2. VisitInv'
    BY <1>1 DEF WaitInv, VisitInv
<1>3. RankInv'
    BY <1>1, RankStep DEF WaitInv
<1> QED BY <1>1, <1>2, <1>3

LEMMA WaitRollback ==
    ASSUME WaitInv, NEW r \in Handlers, Rollback(r)
    PROVE  HolderInv' /\ VisitInv' /\ RankInv'
BY WaitRelease DEF Rollback

LEMMA WaitSelectForUpdate ==
    ASSUME WaitInv, NEW r \in Handlers, SelectForUpdate(r)
    PROVE  HolderInv' /\ VisitInv' /\ RankInv'
<1>1. RInv /\ HolderInv /\ tx[r].pc = "select" /\ tx \in [Handlers -> Locals]
    BY TxTypes DEF WaitInv, SelectForUpdate
<1>2. CASE Rollback(r)
    BY <1>2, WaitRollback
<1>3. ASSUME \/ Goto(r, "upsert") /\ tagLock' = tagLock
             \/ /\ tagLock' = [tagLock EXCEPT ![tx[r].name] = r]
                /\ \E prev : tx' = [tx EXCEPT ![r].pc = "upsert", ![r].prev = prev],
             UNCHANGED <<tags, rmLock>>
      PROVE  HolderInv' /\ VisitInv' /\ RankInv'
    <2>1. /\ \A q \in Handlers \ {r} : tx'[q] = tx[q]
          /\ tx'[r].pc = "upsert" /\ tx'[r].m = tx[r].m /\ tx'[r].name = tx[r].name
        BY <1>1, <1>3 DEF Goto, Locals
    <2>2. \A n \in Names : tagLock[n] # r
        BY <1>1 DEF HolderInv
    <2>3. tx[r].name \in Names /\ tagLock \in [Names -> Handlers \cup {NoHandler}]
        BY <1>1 DEF RInv, IInv, PointInv, TypeOK
    <2>4. \A n \in Names : tagLock'[n] = tagLock[n] \/ (n = tx[r].name /\ tagLock'[n] = r)
        BY <1>3, <2>3
    <2>5. \A m \in Manifests : rmLock[m] = r => m = tx[r].m
        BY <1>1 DEF HolderInv
    <2>6. HolderInv'
        BY <1>1, <1>3, <2>1, <2>2, <2>4, <2>5, HolderStep DEF Linked
    <2> QED BY <1>3, <2>1, <2>6, QuietWait
<1>4. \/ Rollback(r)
      \/ /\ \/ Goto(r, "upsert") /\ tagLock' = tagLock
            \/ /\ tagLock' = [tagLock EXCEPT ![tx[r].name] = r]
               /\ \E prev : tx' = [tx EXCEPT ![r].pc = "upsert", ![r].prev = prev]
         /\ UNCHANGED <<tags, rmLock>>
    BY DEF SelectForUpdate
<1> QED BY <1>2, <1>3, <1>4

\* A tag that moves to a manifest does so in a transaction that holds the manifest's row.
LEMMA WaitUpsertTag ==
    ASSUME WaitInv, NEW r \in Handlers, UpsertTag(r)
    PROVE  HolderInv' /\ VisitInv' /\ RankInv'
<1>1. RInv /\ tx[r].pc = "upsert" /\ Release(r)
    BY DEF WaitInv, UpsertTag
<1>2. tags \in [Names -> [m : Manifests \cup {NoManifest}, row : Nat]]
    BY <1>1 DEF RInv, IInv, TypeOK
<1>3. \A n \in Names : tags'[n].m = tags[n].m \/ tags'[n].m = tx[r].m
    BY <1>2 DEF UpsertTag
<1>4. \A q \in Handlers \ {r} : tx[q].pc = "untag" => tx[q].m # tx[r].m
    BY <1>1, OneDeletes DEF Linked
<1>5. \A q \in Handlers \ {r}, n \in Names : tagLock[n] = q => tags'[n].m = tags[n].m
    <2>1. ASSUME NEW q \in Handlers \ {r}, NEW n \in Names, tagLock[n] = q
          PROVE  tags'[n].m = tags[n].m
        <3>1. n # tx[r].name
            BY <2>1, TagAssumption DEF UpsertTag
        <3> QED BY <1>2, <3>1 DEF UpsertTag
    <2> QED BY <2>1
<1> QED BY <1>1, <1>3, <1>4, <1>5, WaitRelease

LEMMA WaitCommitDelete ==
    ASSUME WaitInv, NEW r \in Handlers, CommitDelete(r)
    PROVE  HolderInv' /\ VisitInv' /\ RankInv'
<1>1. RInv /\ Release(r) /\ tags' = [n \in Names |-> IF n \in tx[r].gone THEN NoRow ELSE tags[n]]
    BY DEF WaitInv, CommitDelete
<1>2. \A n \in Names : tags'[n].m = tags[n].m \/ tags'[n].m = NoManifest
    BY <1>1 DEF NoRow
<1>3. \A q \in Handlers : tx[q].pc = "untag" => tx[q].m \in Manifests
    BY <1>1, TxTypes
<1>4. \A q \in Handlers \ {r}, n \in Names : tagLock[n] = q => tags'[n].m = tags[n].m
    <2>1. ASSUME NEW q \in Handlers \ {r}, NEW n \in Names, tagLock[n] = q
          PROVE  tags'[n].m = tags[n].m
        <3>1. n \notin tx[r].gone
            BY <1>1, <2>1, TxTypes
        <3> QED BY <1>1, <3>1
    <2> QED BY <2>1
<1>5. \A q \in Handlers \ {r}, n \in Names : tx[q].pc = "untag" /\ tags'[n].m = tx[q].m => tags[n].m = tx[q].m
    BY <1>2, <1>3, TagAssumption
<1> QED BY <1>1, <1>4, <1>5, WaitRelease

LEMMA WaitUnlink ==
    ASSUME WaitInv, NEW r \in Handlers, Unlink(r)
    PROVE  HolderInv' /\ VisitInv' /\ RankInv'
<1>1. RInv /\ HolderInv /\ tx[r].pc = "unlink"
    BY DEF WaitInv, Unlink
<1>2. CASE Rollback(r)
    BY <1>2, WaitRollback
<1>3. CASE ~Rollback(r)
    <2>1. /\ \A q \in Handlers \ {r} : tx'[q] = tx[q]
          /\ tx'[r].pc = "scan" /\ tx'[r].m = tx[r].m
          /\ rmLock' = [rmLock EXCEPT ![tx[r].m] = r] /\ UNCHANGED <<tags, tagLock>>
        BY <1>1, <1>3, TxTypes DEF Unlink, Goto, Locals
    <2>2. \A m \in Manifests : rmLock[m] # r
        BY <1>1 DEF HolderInv, Linked
    <2>3. \A n \in Names : tagLock[n] # r
        BY <1>1 DEF HolderInv
    <2>4. \A m \in Manifests : rmLock'[m] = IF m = tx[r].m THEN r ELSE rmLock[m]
        BY <1>1, <2>1 DEF RInv, IInv, TypeOK
    <2>5. HolderInv'
        BY <1>1, <2>1, <2>2, <2>3, <2>4, HolderStep DEF Linked
    <2> QED BY <2>1, <2>5, QuietWait
<1> QED BY <1>2, <1>3

LEMMA WaitScanTags ==
    ASSUME WaitInv, NEW r \in Handlers, ScanTags(r)
    PROVE  HolderInv' /\ VisitInv' /\ RankInv'
<1>1. RInv /\ HolderInv /\ tx[r].pc = "scan"
    BY DEF WaitInv, ScanTags
<1>2. /\ \A q \in Handlers \ {r} : tx'[q] = tx[q]
      /\ tx'[r].pc = "untag" /\ tx'[r].m = tx[r].m /\ tx'[r].gone = tx[r].gone
      /\ tx'[r].todo = {<<n, tags[n].row>> : n \in {k \in Names : tags[k].m = tx[r].m}}
      /\ UNCHANGED <<tags, rmLock, tagLock>>
    <2>1. /\ \A q \in Handlers \ {r} : tx'[q] = tx[q]
          /\ tx'[r].pc = "untag" /\ tx'[r].m = tx[r].m /\ tx'[r].gone = tx[r].gone
          /\ tx'[r].todo = {<<n, tags[n].row>> : n \in {k \in Names : tags[k].m = tx[r].m}}
        BY <1>1, TxTypes, ScanActs DEF RInv
    <2> QED BY <2>1 DEF ScanTags
<1>3. tx[r].gone = {}
    BY <1>1 DEF RInv, IInv, PointInv
<1>4. \A n \in Names : tagLock[n] # r
    BY <1>1 DEF HolderInv
<1>5. \A m \in Manifests : rmLock[m] = r => m = tx[r].m
    BY <1>1 DEF HolderInv
<1>6. HolderInv'
    BY <1>1, <1>2, <1>4, <1>5, HolderStep DEF Linked
<1>7. VisitInv'
    <2>1. \A c \in tx'[r].todo : /\ c[1] \in Names \ tx'[r].gone
                                 /\ \A d \in tx'[r].todo : d[1] = c[1] => d = c
        BY <1>2, <1>3
    <2> QED BY <1>2, <2>1 DEF WaitInv, VisitInv
<1>8. RankInv'
    BY RankScans DEF WaitInv
<1> QED BY <1>6, <1>7, <1>8

LEMMA WaitUntag ==
    ASSUME WaitInv, NEW r \in Handlers, Untag(r)
    PROVE  HolderInv' /\ VisitInv' /\ RankInv'
<1>1. RInv /\ HolderInv /\ VisitInv /\ RankInv /\ tx[r].pc = "untag" /\ UNCHANGED <<tags, rmLock>>
    BY DEF WaitInv, Untag
<1>2. PICK c \in tx[r].todo, new \in Locals :
          LET n == c[1]
              there == tags[n].row = c[2]
              found == there /\ tags[n].m = tx[r].m
          IN /\ tagLock[n] = NoHandler
             /\ tagLock' = IF there THEN [tagLock EXCEPT ![n] = r] ELSE tagLock
             /\ tx' = [tx EXCEPT ![r] = new]
             /\ new.todo = tx[r].todo \ {c} /\ new.pc = "untag" /\ new.m = tx[r].m
             /\ new.at = tx[r].at
             /\ new.gone = IF found THEN tx[r].gone \cup {n} ELSE tx[r].gone
    BY <1>1, UntagActs DEF RInv
<1>3. /\ \A q \in Handlers \ {r} : tx'[q] = tx[q]
      /\ tx'[r].pc = "untag" /\ tx'[r].m = tx[r].m /\ tx'[r].todo = tx[r].todo \ {c}
      /\ tx[r].gone \subseteq tx'[r].gone /\ tx'[r].gone \subseteq tx[r].gone \cup {c[1]}
    <2>1. tx \in [Handlers -> Locals]
        BY <1>1, TxTypes
    <2>2. tx' = [tx EXCEPT ![r] = new]
        BY <1>2
    <2>3. (\A q \in Handlers \ {r} : tx'[q] = tx[q]) /\ tx'[r] = new
        BY <2>1, <2>2
    <2> QED BY <1>2, <2>3
<1>4. /\ c[1] \in Names
      /\ \A n \in Names : tagLock'[n] = tagLock[n] \/ (n = c[1] /\ tagLock'[n] = r)
      /\ tagLock'[c[1]] = r => c[1] \in tx'[r].gone \/ tags[c[1]].m # tx[r].m
    <2>1. tagLock \in [Names -> Handlers \cup {NoHandler}] /\ c[1] \in Names /\ NoHandler \notin Handlers
        BY <1>1, TxTypes, TagAssumption DEF RInv, IInv, TypeOK
    <2> QED BY <1>1, <1>2, <2>1, TxTypes
<1>5. \A m \in Manifests : rmLock[m] = r => m = tx[r].m
    BY <1>1 DEF HolderInv
<1>6. HolderInv'
    <2>1. ASSUME NEW n \in Names, tagLock'[n] = r
          PROVE  Visited(r, n)'
        <3>1. CASE n = c[1]
            <4>1. \A d \in tx'[r].todo : d[1] # n
                BY <1>1, <1>3, <3>1 DEF VisitInv
            <4> QED BY <1>1, <1>3, <1>4, <2>1, <3>1, <4>1 DEF Visited
        <3>2. CASE n # c[1]
            <4>1. Visited(r, n)
                BY <1>1, <1>4, <2>1, <3>2 DEF HolderInv
            <4> QED BY <1>1, <1>3, <4>1 DEF Visited
        <3> QED BY <3>1, <3>2
    <2>2. \A n \in Names, q \in Handlers \ {r} : tagLock'[n] = q => tagLock[n] = q /\ tags'[n].m = tags[n].m
        BY <1>1, <1>4
    <2> QED BY <1>1, <1>3, <1>5, <2>1, <2>2, HolderStep DEF Linked
<1>7. VisitInv'
    <2>1. \A d \in tx'[r].todo : /\ d[1] \in Names \ tx'[r].gone
                                 /\ \A e \in tx'[r].todo : e[1] = d[1] => e = d
        BY <1>1, <1>3 DEF VisitInv
    <2> QED BY <1>1, <1>3, <2>1 DEF VisitInv
<1>8. RankInv'
    BY <1>1, <1>3, RankStep
<1> QED BY <1>6, <1>7, <1>8

LEMMA InitWait == Init => WaitInv
<1> SUFFICES ASSUME Init PROVE WaitInv
    OBVIOUS
<1>1. HolderInv /\ VisitInv
    BY TagAssumption DEF Init, HolderInv, VisitInv, Idle
<1>2. RankInv
    <2>1. [r \in Handlers |-> 0] \in [Handlers -> Nat] /\ 0 \in Nat
          /\ \A r \in Handlers : [q \in Handlers |-> 0][r] <= 0
        OBVIOUS
    <2>2. \A r \in Handlers : tx[r].pc # "untag"
        BY DEF Init, Idle
    <2>3. Later([r \in Handlers |-> 0])
        BY <2>2 DEF Later
    <2> QED BY <2>1, <2>3 DEF RankInv
<1> QED BY <1>1, <1>2, InitMaps DEF WaitInv

LEMMA NextWait == WaitInv /\ [Next]_vars => WaitInv'
<1> SUFFICES ASSUME WaitInv, [Next]_vars PROVE HolderInv' /\ VisitInv' /\ RankInv'
    BY NextMaps DEF WaitInv
<1>1. CASE UNCHANGED vars
    BY <1>1 DEF vars, WaitInv, HolderInv, Visited, VisitInv, RankInv, Later
<1>2. ASSUME NEW r \in Handlers, Arrive(r) PROVE HolderInv' /\ VisitInv' /\ RankInv'
    <2>1. ASSUME NEW m \in Manifests, NEW n \in Names \cup {NoName}, BeginPush(r, m, n)
          PROVE  HolderInv' /\ VisitInv' /\ RankInv'
        <3> DEFINE new == [Idle EXCEPT !.pc = "link", !.m = m, !.name = n]
        <3>1. new \in Locals /\ new.pc = "link"
            BY DEF Idle, Locals
        <3> QED BY <2>1, <3>1, WaitArrive DEF BeginPush
    <2>2. ASSUME NEW m \in Manifests, BeginDelete(r, m)
          PROVE  HolderInv' /\ VisitInv' /\ RankInv'
        <3> DEFINE new == [Idle EXCEPT !.pc = "unlink", !.m = m]
        <3>1. new \in Locals /\ new.pc = "unlink"
            BY DEF Idle, Locals
        <3> QED BY <2>2, <3>1, WaitArrive DEF BeginDelete
    <2> QED BY <1>2, <2>1, <2>2 DEF Arrive
<1>3. ASSUME NEW r \in Handlers, CommitUntagged(r) PROVE HolderInv' /\ VisitInv' /\ RankInv'
    BY <1>3, WaitRelease DEF CommitUntagged
<1>4. ASSUME NEW r \in Handlers, Step(r) PROVE HolderInv' /\ VisitInv' /\ RankInv'
    BY <1>3, <1>4, WaitLink, WaitSelectSnapshot, WaitSelectForUpdate, WaitUpsertTag, WaitUnlink, WaitScanTags,
       WaitUntag, WaitCommitDelete DEF Step
<1>5. ASSUME NEW r \in Handlers, Abandon(r) PROVE HolderInv' /\ VisitInv' /\ RankInv'
    BY <1>5, WaitRollback DEF Abandon
<1>6. ASSUME NEW r \in Handlers, Deadlocked(r) PROVE HolderInv' /\ VisitInv' /\ RankInv'
    BY <1>6, WaitRollback DEF Deadlocked
<1> QED BY <1>1, <1>2, <1>4, <1>5, <1>6 DEF Next

-----------------------------------------------------------------------------
(* From the invariant to the circles there can be *)

Less == {p \in Nat \X Nat : p[1] < p[2]}

LEMMA LessWellFounded == IsWellFoundedOn(Less, Nat)
BY NatLessThanWellFounded DEF OpToRel, Less

\* A nonempty set of natural numbers has a least element.
LEMMA Smallest ==
    ASSUME NEW T \in SUBSET Nat, T # {}
    PROVE  \E x \in T : \A y \in T : x <= y
<1>1. PICK x \in T : \A y \in T : <<y, x>> \notin Less
    BY LessWellFounded, WFMin
<1>2. ASSUME NEW y \in T PROVE x <= y
    <2>1. x \in Nat /\ y \in Nat /\ <<y, x>> \in Nat \X Nat /\ <<y, x>> \notin Less
        BY <1>1
    <2>2. ~(y < x)
        BY <2>1 DEF Less
    <2> QED BY <2>1, <2>2
<1> QED BY <1>2

\* Of some handlers one has the highest rank.
LEMMA Highest ==
    ASSUME NEW D \in SUBSET Handlers, D # {}, NEW top \in Nat,
           NEW rank \in [Handlers -> Nat], \A r \in Handlers : rank[r] <= top
    PROVE  \E a \in D : \A b \in D : ~(rank[a] < rank[b])
<1> DEFINE T == {top - rank[r] : r \in D}
<1>1. ASSUME NEW r \in D PROVE rank[r] \in Nat /\ top - rank[r] \in Nat
    <2>1. rank[r] \in Nat
        OBVIOUS
    <2>2. rank[r] <= top
        OBVIOUS
    <2> QED BY <2>1, <2>2
<1>2. T \in SUBSET Nat /\ T # {}
    BY <1>1
<1>3. PICK x \in T : \A y \in T : x <= y
    <2> HIDE DEF T
    <2> QED BY <1>2, Smallest
<1>4. PICK a \in D : x = top - rank[a]
    BY <1>3
<1>5. ASSUME NEW b \in D PROVE ~(rank[a] < rank[b])
    <2>1. top - rank[a] <= top - rank[b]
        BY <1>3, <1>4
    <2> QED BY <1>1, <2>1
<1> QED BY <1>5

\* Who waits for a tag waits, if the holder waits too, for a deletion; and a
\* deletion waits for another one, to whose manifest the tag points unless the
\* holder has come to it after it had moved.
LEMMA DeletionsHold ==
    ASSUME WaitInv, NEW r \in Handlers, NEW q \in Handlers, NEW s \in Handlers,
           tx[r].pc \in {"select", "upsert", "untag"}, WaitsFor(r, q), WaitsFor(q, s)
    PROVE  /\ tx[q].pc = "untag"
           /\ tx[r].pc = "untag" /\ ~HoldsMoved(q) =>
                  r # q /\ \E c \in tx[r].todo : tags[c[1]].m = tx[q].m
<1>1. RInv /\ HolderInv /\ VisitInv
    BY DEF WaitInv
<1>2. ASSUME NEW n \in Names, tagLock[n] = q
      PROVE  tx[q].pc = "untag" /\ Visited(q, n)
    <2>1. ~(tx[q].pc = "upsert" /\ tx[q].name = n)
        BY <1>2 DEF WaitsFor
    <2> QED BY <1>1, <1>2, <2>1 DEF HolderInv
<1>3. CASE tx[r].pc \in {"select", "upsert"}
    <2>1. tx[r].name \in Names
        BY <1>1, <1>3 DEF RInv, IInv, PointInv
    <2>2. tagLock[tx[r].name] = q
        BY <1>3 DEF WaitsFor
    <2> QED BY <1>2, <1>3, <2>1, <2>2
<1>4. CASE tx[r].pc = "untag"
    <2>1. PICK c \in tx[r].todo : tagLock[c[1]] = q
        BY <1>4 DEF WaitsFor
    <2>2. c[1] \in Names
        BY <1>1, <1>4 DEF VisitInv
    <2>3. tx[q].pc = "untag" /\ Visited(q, c[1])
        BY <1>2, <2>1, <2>2
    <2>4. r # q
        BY <2>3 DEF Visited
    <2>5. ~HoldsMoved(q) => tags[c[1]].m = tx[q].m
        BY <2>1, <2>2, <2>3 DEF HoldsMoved
    <2> QED BY <2>3, <2>4, <2>5
<1> QED BY <1>3, <1>4

\* Whoever waits for a manifest's row waits for one that holds it and waits
\* for a tag, if at all.
LEMMA LinkedHold ==
    ASSUME WaitInv, NEW r \in Handlers, NEW q \in Handlers, NEW s \in Handlers,
           tx[r].pc \in {"link", "unlink"}, WaitsFor(r, q), WaitsFor(q, s)
    PROVE  tx[q].pc \in {"select", "upsert", "untag"}
<1>1. tx[r].m \in Manifests /\ rmLock[tx[r].m] = q
    BY DEF WaitInv, RInv, IInv, PointInv, WaitsFor
<1>2. tx[q].pc \in Linked
    BY <1>1 DEF WaitInv, HolderInv
<1> QED BY <1>2 DEF WaitsFor, Linked

\* Who is waited for is past the statement that locks a manifest.
LEMMA HoldersAreLinked ==
    ASSUME WaitInv, NEW r \in Handlers, NEW q \in Handlers, WaitsFor(r, q)
    PROVE  tx[q].pc \notin {"link", "unlink"}
<1>1. RInv /\ HolderInv /\ VisitInv
    BY DEF WaitInv
<1>2. CASE tx[r].pc \in {"link", "unlink"}
    <2>1. tx[r].m \in Manifests /\ rmLock[tx[r].m] = q
        BY <1>1, <1>2 DEF RInv, IInv, PointInv, WaitsFor
    <2> QED BY <1>1, <2>1 DEF HolderInv, Linked
<1>3. CASE tx[r].pc \in {"select", "upsert"}
    <2>1. tx[r].name \in Names /\ tagLock[tx[r].name] = q
        BY <1>1, <1>3 DEF RInv, IInv, PointInv, WaitsFor
    <2> QED BY <1>1, <2>1 DEF HolderInv
<1>4. CASE tx[r].pc = "untag"
    <2>1. PICK c \in tx[r].todo : tagLock[c[1]] = q
        BY <1>4 DEF WaitsFor
    <2>2. c[1] \in Names
        BY <1>1, <1>4 DEF VisitInv
    <2> QED BY <1>1, <2>1, <2>2 DEF HolderInv
<1> QED BY <1>2, <1>3, <1>4 DEF WaitsFor

LEMMA VictimsDelete == WaitInv => OnlyDeletionsDeadlock
<1> SUFFICES ASSUME WaitInv, NEW r \in Handlers, NEW S \in SUBSET Handlers, r \in S,
                    \A q \in S : (\E p \in S : WaitsFor(q, p)) /\ (\E p \in S : WaitsFor(p, q))
             PROVE  tx[r].pc = "untag"
    BY DEF OnlyDeletionsDeadlock, InCircle
<1>1. PICK q \in S : WaitsFor(q, r)
    OBVIOUS
<1>2. PICK p \in S : WaitsFor(p, q)
    OBVIOUS
<1>3. PICK s \in S : WaitsFor(r, s)
    OBVIOUS
<1>4. tx[q].pc \in {"select", "upsert", "untag"}
    <2>1. tx[q].pc \notin {"link", "unlink"}
        BY <1>2, HoldersAreLinked
    <2> QED BY <1>1, <2>1 DEF WaitsFor
<1> QED BY <1>1, <1>3, <1>4, DeletionsHold

LEMMA CirclesHoldMoved == WaitInv => DeadlocksAreOverMovedTags
<1> SUFFICES ASSUME WaitInv, NEW S \in SUBSET Handlers, S # {},
                    \A r \in S : \E q \in S : WaitsFor(r, q),
                    \A r \in S : ~HoldsMoved(r)
             PROVE  FALSE
    BY DEF DeadlocksAreOverMovedTags
<1> DEFINE D == {r \in S : tx[r].pc = "untag"}
<1>1. ASSUME NEW r \in S, tx[r].pc \in {"select", "upsert", "untag"}
      PROVE  \E q \in D : tx[r].pc = "untag" =>
                 r # q /\ \E c \in tx[r].todo : tags[c[1]].m = tx[q].m
    <2>1. PICK q \in S : WaitsFor(r, q)
        OBVIOUS
    <2>2. PICK s \in S : WaitsFor(q, s)
        OBVIOUS
    <2>3. ~HoldsMoved(q)
        OBVIOUS
    <2> QED BY <1>1, <2>1, <2>2, <2>3, DeletionsHold
<1>2. D # {}
    <2>1. PICK r \in S : TRUE
        OBVIOUS
    <2>2. PICK q \in S : WaitsFor(r, q)
        OBVIOUS
    <2>3. PICK s \in S : WaitsFor(q, s)
        OBVIOUS
    <2>4. CASE tx[r].pc \in {"select", "upsert", "untag"}
        BY <1>1, <2>4
    <2>5. CASE tx[r].pc \in {"link", "unlink"}
        <3>1. tx[q].pc \in {"select", "upsert", "untag"}
            BY <2>2, <2>3, <2>5, LinkedHold
        <3> QED BY <1>1, <3>1
    <2> QED BY <2>2, <2>4, <2>5 DEF WaitsFor
<1>3. PICK rank \in [Handlers -> Nat], top \in Nat :
          (\A r \in Handlers : rank[r] <= top) /\ Later(rank)
    BY DEF WaitInv, RankInv
<1>4. PICK a \in D : \A b \in D : ~(rank[a] < rank[b])
    <2>1. D \in SUBSET Handlers
        OBVIOUS
    <2> HIDE DEF D
    <2> QED BY <1>2, <1>3, <2>1, Highest
<1>5. PICK b \in D : a # b /\ \E c \in tx[a].todo : tags[c[1]].m = tx[b].m
    BY <1>1
<1>6. rank[a] < rank[b]
    BY <1>3, <1>5 DEF Later
<1> QED BY <1>4, <1>6

\* In every reachable state who holds a row has passed the statement that
\* locks it, and a deletion whose tag now belongs to another one has scanned
\* before it.
THEOREM WaitInvariance == Spec => []WaitInv
BY InitWait, NextWait, PTL DEF Spec

\* However many requests run, no push is ever in a circle of waits and so the
\* victim of a deadlock: persist_manifest takes its locks in an order in which
\* nobody waits for it that it could wait for.
THEOREM PushesNeverDeadlock == Spec => []OnlyDeletionsDeadlock
<1>1. Spec => []WaitInv
    BY WaitInvariance
<1> QED BY <1>1, VictimsDelete, PTL

\* However many requests run and in whatever order DELETE FROM tags comes to its
\* rows, deletions deadlock only where one keeps the lock of a tag that has
\* moved off its manifest before it came to it.
THEOREM CirclesNeedMovedTags == Spec => []DeadlocksAreOverMovedTags
<1>1. Spec => []WaitInv
    BY WaitInvariance
<1> QED BY <1>1, CirclesHoldMoved, PTL

=============================================================================
