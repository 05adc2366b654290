------------------------------- MODULE Tags --------------------------------
(***************************************************************************)
(* The manifests and tags of one repository of jcrd: the transactions of   *)
(* persist_manifest (PUT of a manifest) and delete_manifest (of the API    *)
(* and of the web UI) on the rows of repository_manifests, tags and        *)
(* tag_events.  PostgreSQL runs them at READ COMMITTED: a statement sees   *)
(* what was committed when it started, waits for the row locks it needs    *)
(* and then looks at the locked row again.  A step is one statement, the   *)
(* last one together with COMMIT, since nobody sees anything in between.   *)
(* What a pushed manifest refers to is the subject of BlobLifecycle.       *)
(***************************************************************************)
EXTENDS Integers, Sequences

CONSTANTS
    Handlers,     \* slots for concurrently running requests
    Names,        \* tag names
    Manifests,    \* manifests that clients push
    Immutable,    \* tag names that immutable_tag_pattern matches
    Initial,      \* what each tag points to at the start, after earlier pushes
    NoHandler, NoName, NoManifest,
    MaxRequests,  \* bound: transactions that begin
    MaxFaults     \* bound: requests that are dropped half way

ASSUME TagAssumption ==
    /\ Immutable \subseteq Names
    /\ Initial \in [Names -> Manifests \cup {NoManifest}]
    /\ NoHandler \notin Handlers /\ NoName \notin Names /\ NoManifest \notin Manifests
    /\ MaxRequests \in Nat /\ MaxFaults \in Nat

VARIABLES
    live,     \* manifests with a repository_manifests row and no deleted_at
    tags,     \* the tags rows: what each points to, and which row it is
    events,   \* per tag its tag_events in the order of the commits
    rmLock,   \* holder of the lock on each repository_manifests row
    tagLock,  \* holder of the lock on each tags row, an uncommitted one too
    tx,       \* local state of each running request
    clock,    \* NOW() of the last transaction that began
    faults    \* faults injected so far

vars == <<live, tags, events, rmLock, tagLock, tx, clock, faults>>

-----------------------------------------------------------------------------
(* Types *)

NoRow == [m |-> NoManifest, row |-> 0]

NoTag == <<NoName, 0>>

Event == [prev : Manifests \cup {NoManifest}, new : Manifests \cup {NoManifest}, at : Nat]

Locals == [pc : {"idle", "link", "snapshot", "select", "upsert", "commit",
                 "unlink", "scan", "untag"},
           m : Manifests \cup {NoManifest}, name : Names \cup {NoName}, at : Nat, seen : Nat,
           prev : Manifests \cup {NoManifest}, todo : SUBSET (Names \X Nat),
           next : (Names \X Nat) \cup {NoTag}, gone : SUBSET Names]

Idle == [pc |-> "idle", m |-> NoManifest, name |-> NoName, at |-> 0, seen |-> 0,
         prev |-> NoManifest, todo |-> {}, next |-> NoTag, gone |-> {}]

-----------------------------------------------------------------------------
(* Transactions *)

\* Variant: an early return keeps the lock on the repository_manifests row.
ReleaseTagOnly(r) ==
    /\ tx' = [tx EXCEPT ![r] = Idle]
    /\ tagLock' = [n \in Names |-> IF tagLock[n] = r THEN NoHandler ELSE tagLock[n]]
    /\ UNCHANGED rmLock

\* COMMIT or ROLLBACK: the locks are released and the request is answered.
Release(r) ==
    /\ tx' = [tx EXCEPT ![r] = Idle]
    /\ rmLock' = [m \in Manifests |-> IF rmLock[m] = r THEN NoHandler ELSE rmLock[m]]
    /\ tagLock' = [n \in Names |-> IF tagLock[n] = r THEN NoHandler ELSE tagLock[n]]

Rollback(r) == Release(r) /\ UNCHANGED <<live, tags, events, clock>>

\* pool.begin(), which fixes NOW() for the whole transaction.
Begin(r, locals) ==
    /\ tx[r].pc = "idle"
    /\ clock <= MaxRequests
    /\ clock' = clock + 1
    /\ tx' = [tx EXCEPT ![r] = [locals EXCEPT !.at = clock + 1]]
    /\ UNCHANGED <<live, tags, events, rmLock, tagLock, faults>>

Goto(r, p) == tx' = [tx EXCEPT ![r].pc = p]

-----------------------------------------------------------------------------
(* persist_manifest *)

\* The reference is a tag name, or the digest (NoName).
BeginPush(r, m, n) == Begin(r, [Idle EXCEPT !.pc = "link", !.m = m, !.name = n])

\* The upsert of repository_manifests: it locks the row, old or new.
Link(r) ==
    /\ tx[r].pc = "link"
    /\ rmLock[tx[r].m] = NoHandler
    /\ rmLock' = [rmLock EXCEPT ![tx[r].m] = r]
    /\ Goto(r, IF tx[r].name = NoName THEN "commit" ELSE "snapshot")
    /\ UNCHANGED <<live, tags, events, tagLock, clock, faults>>

\* SELECT manifest_digest FROM tags ... FOR UPDATE starts: only a row that
\* is committed by now can be found, and no row is no lock.
SelectSnapshot(r) ==
    /\ tx[r].pc = "snapshot"
    /\ LET row == tags[tx[r].name].row IN
       tx' = [tx EXCEPT ![r].pc = IF row = 0 THEN "upsert" ELSE "select", ![r].seen = row]
    /\ UNCHANGED <<live, tags, events, rmLock, tagLock, clock, faults>>

\* It has the lock and reads the row again: deleted, moved or as before.  A
\* tag that would move off another manifest must not be immutable.
SelectForUpdate(r) ==
    /\ tx[r].pc = "select"
    /\ tagLock[tx[r].name] = NoHandler
    /\ LET tag == tags[tx[r].name] IN
       \/ /\ tag.row # tx[r].seen
          /\ Goto(r, "upsert")
          /\ UNCHANGED <<live, tags, events, rmLock, tagLock, clock>>
       \/ /\ tag.row = tx[r].seen
          /\ tx[r].name \in Immutable /\ tag.m # tx[r].m
          /\ Rollback(r)
       \/ /\ tag.row = tx[r].seen
          /\ ~(tx[r].name \in Immutable /\ tag.m # tx[r].m)
          /\ tagLock' = [tagLock EXCEPT ![tx[r].name] = r]
          /\ tx' = [tx EXCEPT ![r].pc = "upsert", ![r].prev = tag.m]
          /\ UNCHANGED <<live, tags, events, rmLock, clock>>
    /\ UNCHANGED faults

\* INSERT INTO tags ... ON CONFLICT DO UPDATE waits for a row that another
\* transaction has inserted, updated or deleted; then the event and COMMIT.
UpsertTag(r) ==
    /\ tx[r].pc = "upsert"
    /\ LET n == tx[r].name
           m == tx[r].m
       IN /\ tagLock[n] \in {NoHandler, r}
          /\ tags' = [tags EXCEPT ![n].m = m, ![n].row = IF @ = 0 THEN tx[r].at ELSE @]
          /\ events' = IF tx[r].prev = m THEN events
                       ELSE [events EXCEPT ![n] = Append(@, [prev |-> tx[r].prev, new |-> m,
                                                             at |-> tx[r].at])]
          /\ live' = live \cup {m}
    /\ Release(r)
    /\ UNCHANGED <<clock, faults>>

CommitUntagged(r) ==
    /\ tx[r].pc = "commit"
    /\ live' = live \cup {tx[r].m}
    /\ Release(r)
    /\ UNCHANGED <<tags, events, clock, faults>>

-----------------------------------------------------------------------------
(* delete_manifest *)

BeginDelete(r, m) == Begin(r, [Idle EXCEPT !.pc = "unlink", !.m = m])

\* Variant: the row is read and later written without a lock.
UnlinkUnlocked(r) ==
    /\ tx[r].pc = "unlink"
    /\ \/ /\ tx[r].m \notin live
          /\ Rollback(r)
       \/ /\ tx[r].m \in live
          /\ Goto(r, "scan")
          /\ UNCHANGED <<live, tags, events, rmLock, tagLock, clock>>
    /\ UNCHANGED faults

\* UPDATE repository_manifests SET deleted_at WHERE deleted_at IS NULL: what
\* is not live is not found and not waited for.
Unlink(r) ==
    /\ tx[r].pc = "unlink"
    /\ \/ /\ tx[r].m \notin live
          /\ Rollback(r)
       \/ /\ tx[r].m \in live
          /\ rmLock[tx[r].m] = NoHandler
          /\ rmLock' = [rmLock EXCEPT ![tx[r].m] = r]
          /\ Goto(r, "scan")
          /\ UNCHANGED <<live, tags, events, tagLock, clock>>
    /\ UNCHANGED faults

\* The rows are visited in an order of PostgreSQL's: any of those left is next.
Visit(r, locals, left) ==
    \E c \in IF left = {} THEN {NoTag} ELSE left :
        tx' = [tx EXCEPT ![r] = [locals EXCEPT !.todo = left, !.next = c]]

\* DELETE FROM tags WHERE manifest_digest = m starts: the rows it can find.
ScanTags(r) ==
    /\ tx[r].pc = "scan"
    /\ Visit(r, [tx[r] EXCEPT !.pc = "untag"],
             {<<n, tags[n].row>> : n \in {k \in Names : tags[k].m = tx[r].m}})
    /\ UNCHANGED <<live, tags, events, rmLock, tagLock, clock, faults>>

\* Variant: it does not look at the row again.
UntagUnseen(r) ==
    /\ tx[r].pc = "untag" /\ tx[r].next \in tx[r].todo
    /\ LET n == tx[r].next[1] IN
       /\ tagLock[n] = NoHandler
       /\ tagLock' = [tagLock EXCEPT ![n] = r]
       /\ Visit(r, [tx[r] EXCEPT !.gone = @ \cup {n}], tx[r].todo \ {tx[r].next})
    /\ UNCHANGED <<live, tags, events, rmLock, clock, faults>>

\* It waits for the row, and if that has been updated meanwhile locks what it
\* is now and looks again: a tag that has moved is kept, and so is its lock.
\* A row that is gone is not locked.
Untag(r) ==
    /\ tx[r].pc = "untag" /\ tx[r].next \in tx[r].todo
    /\ LET n == tx[r].next[1]
           there == tags[n].row = tx[r].next[2]
           found == there /\ tags[n].m = tx[r].m
       IN /\ tagLock[n] = NoHandler
          /\ tagLock' = IF there THEN [tagLock EXCEPT ![n] = r] ELSE tagLock
          /\ Visit(r, [tx[r] EXCEPT !.gone = IF found THEN @ \cup {n} ELSE @],
                   tx[r].todo \ {tx[r].next})
    /\ UNCHANGED <<live, tags, events, rmLock, clock, faults>>

\* Variant: the tag is only unset.
CommitDeleteKeepsRow(r) ==
    /\ tx[r].pc = "untag" /\ tx[r].todo = {}
    /\ live' = live \ {tx[r].m}
    /\ tags' = [n \in Names |-> IF n \in tx[r].gone THEN [tags[n] EXCEPT !.m = NoManifest] ELSE tags[n]]
    /\ UNCHANGED events
    /\ Release(r)
    /\ UNCHANGED <<clock, faults>>

\* Variant: no events for the tags that go with the manifest.
CommitDeleteSilently(r) ==
    /\ tx[r].pc = "untag" /\ tx[r].todo = {}
    /\ live' = live \ {tx[r].m}
    /\ tags' = [n \in Names |-> IF n \in tx[r].gone THEN NoRow ELSE tags[n]]
    /\ UNCHANGED events
    /\ Release(r)
    /\ UNCHANGED <<clock, faults>>

\* An event for each deleted tag, and COMMIT.
CommitDelete(r) ==
    /\ tx[r].pc = "untag" /\ tx[r].todo = {}
    /\ live' = live \ {tx[r].m}
    /\ tags' = [n \in Names |-> IF n \in tx[r].gone THEN NoRow ELSE tags[n]]
    /\ events' = [n \in Names |->
                    IF n \in tx[r].gone
                    THEN Append(events[n], [prev |-> tx[r].m, new |-> NoManifest, at |-> tx[r].at])
                    ELSE events[n]]
    /\ Release(r)
    /\ UNCHANGED <<clock, faults>>

-----------------------------------------------------------------------------
(* Deadlocks *)

\* Whose row lock keeps a statement of r from going on.
WaitsFor(r, q) ==
    \/ tx[r].pc = "link" /\ rmLock[tx[r].m] = q
    \/ tx[r].pc = "unlink" /\ tx[r].m \in live /\ rmLock[tx[r].m] = q
    \/ tx[r].pc = "select" /\ tagLock[tx[r].name] = q
    \/ tx[r].pc = "upsert" /\ tagLock[tx[r].name] = q /\ q # r
    \/ tx[r].pc = "untag" /\ tx[r].next \in tx[r].todo /\ tagLock[tx[r].next[1]] = q

\* r waits, through others or not, for itself.
InCircle(r) ==
    \E S \in SUBSET Handlers :
        /\ r \in S
        /\ \A q \in S : (\E p \in S : WaitsFor(q, p)) /\ (\E p \in S : WaitsFor(p, q))

\* PostgreSQL aborts one of those that wait in a circle; it is answered with
\* an error.
Deadlocked(r) ==
    /\ InCircle(r)
    /\ Rollback(r)
    /\ UNCHANGED faults

-----------------------------------------------------------------------------
(* Specification *)

\* The client leaves, jcrd stops or a statement fails: everything is undone.
Abandon(r) ==
    /\ tx[r].pc # "idle"
    /\ faults < MaxFaults
    /\ faults' = faults + 1
    /\ Rollback(r)

\* Requests one by one have left tags, their first events and manifests.
Init ==
    /\ live = {Initial[n] : n \in Names} \ {NoManifest}
    /\ tags = [n \in Names |-> IF Initial[n] = NoManifest THEN NoRow
                              ELSE [m |-> Initial[n], row |-> 1]]
    /\ events = [n \in Names |-> IF Initial[n] = NoManifest THEN << >>
                                ELSE <<[prev |-> NoManifest, new |-> Initial[n], at |-> 1]>>]
    /\ rmLock = [m \in Manifests |-> NoHandler]
    /\ tagLock = [n \in Names |-> NoHandler]
    /\ tx = [r \in Handlers |-> Idle]
    /\ clock = 1
    /\ faults = 0

Arrive(r) ==
    \/ \E m \in Manifests, n \in Names \cup {NoName} : BeginPush(r, m, n)
    \/ \E m \in Manifests : BeginDelete(r, m)

Step(r) ==
    \/ Link(r) \/ SelectSnapshot(r) \/ SelectForUpdate(r) \/ UpsertTag(r) \/ CommitUntagged(r)
    \/ Unlink(r) \/ ScanTags(r) \/ Untag(r) \/ CommitDelete(r)

Next == \E r \in Handlers : Arrive(r) \/ Step(r) \/ Deadlocked(r) \/ Abandon(r)

\* jcrd runs every request it has started, and PostgreSQL ends every circle of
\* waits.  Nothing is assumed of the order in which it grants a row lock.
Fairness == \A r \in Handlers : WF_vars(Step(r) \/ Deadlocked(r))

Spec == Init /\ [][Next]_vars
FairSpec == Spec /\ Fairness

-----------------------------------------------------------------------------
(* Properties *)

TypeOK ==
    /\ live \subseteq Manifests
    /\ tags \in [Names -> [m : Manifests \cup {NoManifest}, row : Nat]]
    /\ \A n \in Names : tags[n].row = 0 <=> tags[n].m = NoManifest
    /\ events \in [Names -> Seq(Event)]
    /\ rmLock \in [Manifests -> Handlers \cup {NoHandler}]
    /\ tagLock \in [Names -> Handlers \cup {NoHandler}]
    /\ tx \in [Handlers -> Locals]
    /\ clock \in 1..(MaxRequests + 1)
    /\ faults \in 0..MaxFaults

\* A tag that list_tags shows can be pulled: its manifest has not been
\* deleted, whatever pushes and deletions of the manifest and of the tag's
\* other manifests run side by side (the lock order of both transactions).
TagTargetsLive == \A n \in Names : tags[n].row # 0 => tags[n].m \in live

\* The newest event of a tag says what the tag points to now: no change of a
\* tag goes unrecorded, and no event records a change that did not happen.
HistoryEndsAtTag ==
    \A n \in Names : tags[n].m = IF events[n] = << >> THEN NoManifest
                                 ELSE events[n][Len(events[n])].new

\* Every push and deletion is answered: every early return gives its locks
\* back, and a circle of waits is broken by the deadlock detector alone.
RequestsAnswered == \A r \in Handlers : tx[r].pc # "idle" ~> tx[r].pc = "idle"

\* The victim of a deadlock is always a deletion: persist_manifest locks one
\* manifest and then one tag, and nobody who holds a tag waits for a manifest.
OnlyDeletionsDeadlock == \A r \in Handlers : InCircle(r) => tx[r].pc = "untag"

\* DELETE FROM tags holds the row of a tag that has moved off its manifest.
HoldsMoved(r) ==
    /\ tx[r].pc = "untag"
    /\ \E n \in Names : tagLock[n] = r /\ tags[n].m # tx[r].m

\* Transactions wait in a circle only where a tag has moved between the scan of
\* a deletion and its visit: one of them needlessly keeps that tag's lock.
DeadlocksAreOverMovedTags ==
    \A S \in SUBSET Handlers :
        S # {} /\ (\A r \in S : \E q \in S : WaitsFor(r, q)) => \E r \in S : HoldsMoved(r)

\* An immutable tag never moves from one manifest to another.
ImmutableTagStays ==
    [][\A n \in Immutable : tags[n].row # 0 /\ tags'[n].row # 0 => tags'[n].m = tags[n].m]_vars

\* The history of a tag is a chain: each event starts from where the one
\* before it has led.
HistoryIsChain ==
    \A n \in Names : \A i \in DOMAIN events[n] :
        events[n][i].prev = IF i = 1 THEN NoManifest ELSE events[n][i - 1].new

\* The history is shown by created_at, which is the order of the changes.
HistoryInOrder ==
    \A n \in Names : \A i, j \in DOMAIN events[n] : i < j => events[n][i].at < events[n][j].at

\* The repository its clients see.  What created_at and previous_digest say
\* of an event is left out: neither is reliable under concurrent requests.
Store == INSTANCE TagStore WITH
    tag <- [n \in Names |-> tags[n].m],
    history <- [n \in Names |-> [i \in DOMAIN events[n] |-> events[n][i].new]]

\* The transactions of persist_manifest and delete_manifest, statement by
\* statement at READ COMMITTED, act as single steps: a push links its manifest
\* and moves its tag at once, a deletion takes every tag of its manifest
\* and no other with it, a request that fails does nothing.
ImplementsStore == Store!Spec

=============================================================================
