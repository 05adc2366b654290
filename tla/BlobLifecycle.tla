--------------------------- MODULE BlobLifecycle ---------------------------
(***************************************************************************)
(* The life of committed blobs in jcrd: the blobs, repository_blobs,       *)
(* manifests, descriptor_edges and repository_manifests tables and the     *)
(* objects in the bucket, worked on by                                     *)
(*   - the end of complete_upload (repair_missing_blob_metadata,           *)
(*     commit_blob, deletion of a duplicate),                              *)
(*   - mount_blob,                                                         *)
(*   - put_manifest (validate_manifest_dependencies, persist_manifest) and *)
(*     delete_manifest of the API and the web UI, and                      *)
(*   - the hourly clean_unreferenced_blobs of gc.rs.                       *)
(* A step is one SQL statement, one transaction whose rows no other step   *)
(* can touch in between, or one call to the bucket.  Upload sessions are   *)
(* the subject of UploadSession: here an upload starts with an object that *)
(* has been assembled under a key of its own and hashed.  Tags are the     *)
(* subject of Tags.                                                        *)
(***************************************************************************)
EXTENDS Integers, Sequences, FiniteSets

CONSTANTS
    Handlers,     \* slots for concurrently running HTTP handlers
    Repos,        \* repositories
    Digests,      \* digests of blobs
    Manifests,    \* manifests that clients push
    Layers,       \* Layers[m]: the config and layer digests of m, in order
    Keys,         \* bound: object keys of uploads, each used once
    Undeletable,  \* keys under which the bucket refuses every delete
    PassLimit,    \* blobs that a pass of the collector looks at, 100 in the code
    NoKey, NoDigest, NoRepo, NoManifest,
    MaxFaults     \* bound: dropped handlers, failed calls, stopped passes

ASSUME BlobAssumption ==
    /\ Layers \in [Manifests -> Seq(Digests)]
    /\ NoKey \notin Keys /\ NoDigest \notin Digests
    /\ NoRepo \notin Repos /\ NoManifest \notin Manifests
    /\ Undeletable \subseteq Keys
    /\ MaxFaults \in Nat

ASSUME PassAssumption == PassLimit \in Nat \ {0}

VARIABLES
    blobs,     \* the blobs table; old is created_at < now - grace period
    older,     \* pairs of digests, the first with the smaller created_at
    links,     \* repository_blobs
    edges,     \* manifests whose descriptor_edges have been stored
    rm,        \* repository_manifests: none, live, or deleted_at is set
    objects,   \* the bucket: key -> digest of the content
    used,      \* keys given to uploads so far
    stray,     \* keys of deletes whose caller is gone and that may still land
    h,         \* local state of each running handler
    gc,        \* local state of clean_unreferenced_blobs
    doubtful,  \* history: keys whose delete was answered with an error
    orphaned,  \* history: keys whose row the collector claimed and whose object it left
    racing,    \* history: handlers whose push a claim of one of its layers has met
    raced,     \* history: what such pushes were the last to store
    faults     \* faults injected so far

tables == <<blobs, older, links, edges, rm>>
history == <<doubtful, orphaned, racing, raced>>
vars == <<tables, objects, used, stray, h, gc, history, faults>>

-----------------------------------------------------------------------------
(* Types *)

BlobRow == [status : {"none", "committed", "tombstoned"}, key : Keys \cup {NoKey}, old : BOOLEAN]
NoBlob == [status |-> "none", key |-> NoKey, old |-> FALSE]

Locals == [pc : {"idle", "repair", "exists", "tombstone", "lookup", "insert", "dedup",
                 "check", "link", "validate", "persist"},
           repo : Repos \cup {NoRepo}, from : Repos \cup {NoRepo},
           d : Digests \cup {NoDigest}, key : Keys \cup {NoKey}, found : Keys \cup {NoKey},
           m : Manifests \cup {NoManifest}, todo : Seq(Digests)]

Idle == [pc |-> "idle", repo |-> NoRepo, from |-> NoRepo, d |-> NoDigest, key |-> NoKey,
         found |-> NoKey, m |-> NoManifest, todo |-> << >>]

Candidates == [d : Digests, key : Keys]

Collector == [pc : {"idle", "claim", "delete", "revert", "unlink"}, todo : SUBSET Candidates,
              d : Digests \cup {NoDigest}, key : Keys \cup {NoKey}]

GcIdle == [pc |-> "idle", todo |-> {}, d |-> NoDigest, key |-> NoKey]

-----------------------------------------------------------------------------
(* Queries *)

LayerSet(m) == {Layers[m][i] : i \in DOMAIN Layers[m]}

\* descriptor_edges joined with repository_manifests WHERE deleted_at IS NULL
Referenced(d) ==
    \E m \in edges, repo \in Repos : d \in LayerSet(m) /\ rm[repo][m] = "live"

\* repository_blobs joined with committed blobs: what get_blob serves from
\* and what mount_blob and validate_manifest_dependencies ask for.
Available(repo, d) == <<repo, d>> \in links /\ blobs[d].status = "committed"

\* What clean_unreferenced_blobs collects.
Garbage(d) == blobs[d].status = "committed" /\ blobs[d].old /\ ~Referenced(d)

-----------------------------------------------------------------------------
(* Handler plumbing *)

Goto(r, p) == h' = [h EXCEPT ![r].pc = p]
Finish(r) == h' = [h EXCEPT ![r] = Idle]

\* Between the validation of a manifest and its storage, and between the claim
\* of a blob and the end of the collector's work on it.
Pushing(r) == h[r].pc \in {"validate", "persist"}
Claimed == gc.pc \in {"delete", "revert", "unlink"}

\* DELETE of an object
Remove(k) == objects' = IF k \in Undeletable THEN objects ELSE [objects EXCEPT ![k] = NoDigest]

-----------------------------------------------------------------------------
(* The end of complete_upload *)

\* The object is assembled under the session's own key and its digest is
\* the one the client asked for.
Assemble(r, repo, d, k) ==
    /\ h[r].pc = "idle"
    /\ k \notin used
    /\ used' = used \cup {k}
    /\ objects' = [objects EXCEPT ![k] = d]
    /\ h' = [h EXCEPT ![r] = [Idle EXCEPT !.pc = "repair", !.repo = repo, !.d = d, !.key = k]]
    /\ UNCHANGED <<tables, stray, gc, history, faults>>

\* repair_missing_blob_metadata: SELECT object_key WHERE status = 'committed'
RepairSelect(r) ==
    /\ h[r].pc = "repair"
    /\ LET row == blobs[h[r].d] IN
       IF row.status = "committed"
       THEN h' = [h EXCEPT ![r].pc = "exists", ![r].found = row.key]
       ELSE Goto(r, "lookup")
    /\ UNCHANGED <<tables, objects, used, stray, gc, history, faults>>

\* HEAD on the object the row names.
RepairExists(r) ==
    /\ h[r].pc = "exists"
    /\ Goto(r, IF objects[h[r].found] # NoDigest THEN "lookup" ELSE "tombstone")
    /\ UNCHANGED <<tables, objects, used, stray, gc, history, faults>>

\* Variant: the UPDATE does not compare object_key.
RepairTombstoneAnyKey(r) ==
    /\ h[r].pc = "tombstone"
    /\ blobs' = IF blobs[h[r].d].status = "committed"
                THEN [blobs EXCEPT ![h[r].d].status = "tombstoned"] ELSE blobs
    /\ Goto(r, "lookup")
    /\ UNCHANGED <<older, links, edges, rm, objects, used, stray, gc, history, faults>>

\* UPDATE ... 'tombstoned' WHERE object_key = found AND status = 'committed'
RepairTombstone(r) ==
    /\ h[r].pc = "tombstone"
    /\ blobs' = IF blobs[h[r].d].status = "committed" /\ blobs[h[r].d].key = h[r].found
                THEN [blobs EXCEPT ![h[r].d].status = "tombstoned"] ELSE blobs
    /\ Goto(r, "lookup")
    /\ UNCHANGED <<older, links, edges, rm, objects, used, stray, gc, history, faults>>

\* Variant: a tombstoned row keeps its key.
UpsertKeepsKey(row, k) ==
    IF row.status = "none" THEN [status |-> "committed", key |-> k, old |-> FALSE]
    ELSE [row EXCEPT !.status = "committed"]

\* The upsert of commit_blob: a tombstoned row takes the new key, a
\* committed one keeps its own, and created_at stays what it was.
Upsert(row, k) ==
    CASE row.status = "none"       -> [status |-> "committed", key |-> k, old |-> FALSE]
      [] row.status = "tombstoned" -> [row EXCEPT !.status = "committed", !.key = k]
      [] OTHER                     -> row

\* The rest of the transaction of commit_blob.  created_at is the time of the
\* transaction: two first commits at once are taken in the order they come.
Commit(r, duplicate) ==
    /\ blobs' = [blobs EXCEPT ![h[r].d] = Upsert(@, h[r].key)]
    /\ older' = IF blobs[h[r].d].status # "none" THEN older
                ELSE older \cup {<<d, h[r].d>> : d \in {e \in Digests : blobs[e].status # "none"}}
    /\ links' = links \cup {<<h[r].repo, h[r].d>>}
    /\ IF duplicate THEN Goto(r, "dedup") ELSE Finish(r)

\* SELECT ... FOR UPDATE.  An existing row is locked until COMMIT, so the
\* whole transaction is one step; a missing one locks nothing.
CommitLookup(r) ==
    /\ h[r].pc = "lookup"
    /\ LET row == blobs[h[r].d] IN
       IF row.status = "none"
       THEN Goto(r, "insert") /\ UNCHANGED <<blobs, older, links>>
       ELSE Commit(r, row.status = "committed" /\ row.key # h[r].key)
    /\ UNCHANGED <<edges, rm, objects, used, stray, gc, history, faults>>

\* INSERT ... ON CONFLICT after a SELECT that found nothing.
CommitInsert(r) ==
    /\ h[r].pc = "insert"
    /\ Commit(r, FALSE)
    /\ UNCHANGED <<edges, rm, objects, used, stray, gc, history, faults>>

\* The duplicate is deleted under the key of this upload.
DeleteDuplicate(r) ==
    /\ h[r].pc = "dedup"
    /\ Remove(h[r].key)
    /\ Finish(r)
    /\ UNCHANGED <<tables, used, stray, gc, history, faults>>

-----------------------------------------------------------------------------
(* mount_blob *)

ReceiveMount(r, repo, from, d) ==
    /\ h[r].pc = "idle" /\ repo # from
    /\ h' = [h EXCEPT ![r] = [Idle EXCEPT !.pc = "check", !.repo = repo, !.from = from, !.d = d]]
    /\ UNCHANGED <<tables, objects, used, stray, gc, history, faults>>

\* A blob the source does not have falls back to an ordinary upload.
MountCheck(r) ==
    /\ h[r].pc = "check"
    /\ IF Available(h[r].from, h[r].d) THEN Goto(r, "link") ELSE Finish(r)
    /\ UNCHANGED <<tables, objects, used, stray, gc, history, faults>>

MountLink(r) ==
    /\ h[r].pc = "link"
    /\ links' = links \cup {<<h[r].repo, h[r].d>>}
    /\ Finish(r)
    /\ UNCHANGED <<blobs, older, edges, rm, objects, used, stray, gc, history, faults>>

-----------------------------------------------------------------------------
(* put_manifest and delete_manifest *)

ReceivePush(r, repo, m) ==
    /\ h[r].pc = "idle"
    /\ h' = [h EXCEPT ![r] = [Idle EXCEPT !.pc = "validate", !.repo = repo, !.m = m,
                                          !.todo = Layers[m]]]
    /\ racing' = IF Claimed /\ gc.d \in LayerSet(m) THEN racing \cup {r} ELSE racing
    /\ UNCHANGED <<tables, objects, used, stray, gc, doubtful, orphaned, raced, faults>>

\* validate_manifest_dependencies: one query per descriptor, outside of any
\* transaction.
Validate(r) ==
    /\ h[r].pc = "validate"
    /\ \/ /\ h[r].todo = << >>
          /\ Goto(r, "persist")
          /\ UNCHANGED racing
       \/ /\ h[r].todo # << >> /\ Available(h[r].repo, Head(h[r].todo))
          /\ h' = [h EXCEPT ![r].todo = Tail(@)]
          /\ UNCHANGED racing
       \/ /\ h[r].todo # << >> /\ ~Available(h[r].repo, Head(h[r].todo))
          /\ Finish(r)
          /\ racing' = racing \ {r}
    /\ UNCHANGED <<tables, objects, used, stray, gc, doubtful, orphaned, raced, faults>>

\* persist_manifest, but for the tag.
Persist(r) ==
    /\ h[r].pc = "persist"
    /\ edges' = edges \cup {h[r].m}
    /\ rm' = [rm EXCEPT ![h[r].repo][h[r].m] = "live"]
    /\ raced' = IF r \in racing THEN raced \cup {<<h[r].repo, h[r].m>>}
                ELSE raced \ {<<h[r].repo, h[r].m>>}
    /\ racing' = racing \ {r}
    /\ Finish(r)
    /\ UNCHANGED <<blobs, older, links, objects, used, stray, gc, doubtful, orphaned, faults>>

\* delete_manifest, of the API and of the web UI: one transaction.
DeleteManifest(repo, m) ==
    /\ rm[repo][m] = "live"
    /\ rm' = [rm EXCEPT ![repo][m] = "deleted"]
    /\ UNCHANGED <<blobs, older, links, edges, objects, used, stray, h, gc, history, faults>>

-----------------------------------------------------------------------------
(* clean_unreferenced_blobs *)

\* ORDER BY created_at LIMIT
Oldest(S) == {d \in S : Cardinality({e \in S : <<e, d>> \in older}) < PassLimit}

\* The SELECT of a pass.
GcScan ==
    /\ gc.pc = "idle"
    /\ \E d \in Digests : Garbage(d)
    /\ gc' = [GcIdle EXCEPT !.pc = "claim",
                            !.todo = {[d |-> d, key |-> blobs[d].key] : d \in Oldest({e \in Digests : Garbage(e)})}]
    /\ UNCHANGED <<tables, objects, used, stray, h, history, faults>>

\* The pass takes the oldest of its blobs.
IsNext(c) ==
    /\ gc.pc = "claim" /\ c \in gc.todo
    /\ \A e \in gc.todo : <<e.d, c.d>> \notin older

\* The pushes that run when d is claimed and need it.
Meets(d) == {r \in Handlers : Pushing(r) /\ d \in LayerSet(h[r].m)}

\* Variant: the tombstone forgets the key.
GcClaimClearsKey(c) ==
    /\ IsNext(c)
    /\ IF Garbage(c.d)
       THEN /\ blobs' = [blobs EXCEPT ![c.d].status = "tombstoned", ![c.d].key = NoKey]
            /\ gc' = [pc |-> "delete", todo |-> gc.todo \ {c}, d |-> c.d, key |-> c.key]
            /\ racing' = racing \cup Meets(c.d)
            /\ orphaned' = orphaned \cup ({blobs[c.d].key} \ {c.key})
       ELSE gc' = [gc EXCEPT !.todo = @ \ {c}] /\ UNCHANGED <<blobs, racing, orphaned>>
    /\ UNCHANGED <<older, links, edges, rm, objects, used, stray, h, doubtful, raced, faults>>

\* UPDATE ... SET status = 'tombstoned', with the conditions of the SELECT.  It
\* does not compare the key, which the row may have changed since.
GcClaim(c) ==
    /\ IsNext(c)
    /\ IF Garbage(c.d)
       THEN /\ blobs' = [blobs EXCEPT ![c.d].status = "tombstoned"]
            /\ gc' = [pc |-> "delete", todo |-> gc.todo \ {c}, d |-> c.d, key |-> c.key]
            /\ racing' = racing \cup Meets(c.d)
            /\ orphaned' = orphaned \cup ({blobs[c.d].key} \ {c.key})
       ELSE gc' = [gc EXCEPT !.todo = @ \ {c}] /\ UNCHANGED <<blobs, racing, orphaned>>
    /\ UNCHANGED <<older, links, edges, rm, objects, used, stray, h, doubtful, raced, faults>>

GcPassEnds ==
    /\ gc.pc = "claim" /\ gc.todo = {}
    /\ gc' = GcIdle
    /\ UNCHANGED <<tables, objects, used, stray, h, history, faults>>

\* Variant: the key is read from the row again.
GcDeleteCurrentKey ==
    /\ gc.pc = "delete"
    /\ objects' = [objects EXCEPT ![blobs[gc.d].key] = NoDigest]
    /\ gc' = [gc EXCEPT !.pc = "unlink"]
    /\ UNCHANGED <<tables, used, stray, h, history, faults>>

\* The object is deleted under the key the SELECT returned.
GcDelete ==
    /\ gc.pc = "delete" /\ gc.key \notin Undeletable
    /\ Remove(gc.key)
    /\ gc' = [gc EXCEPT !.pc = "unlink"]
    /\ UNCHANGED <<tables, used, stray, h, history, faults>>

\* The bucket refuses the delete, as it does every time.
GcRefused ==
    /\ gc.pc = "delete" /\ gc.key \in Undeletable
    /\ gc' = [gc EXCEPT !.pc = "revert"]
    /\ UNCHANGED <<tables, objects, used, stray, h, history, faults>>

\* The delete is answered with an error; it may happen all the same, at once
\* or later.
GcDeleteFails ==
    /\ gc.pc = "delete" /\ gc.key \notin Undeletable
    /\ faults < MaxFaults
    /\ faults' = faults + 1
    /\ stray' = stray \cup {gc.key}
    /\ doubtful' = doubtful \cup {gc.key}
    /\ gc' = [gc EXCEPT !.pc = "revert"]
    /\ UNCHANGED <<tables, objects, used, h, orphaned, racing, raced>>

\* Variant: the row stays tombstoned.
GcRevertNothing ==
    /\ gc.pc = "revert"
    /\ gc' = GcIdle
    /\ orphaned' = IF blobs[gc.d].status = "tombstoned" THEN orphaned ELSE orphaned \cup {gc.key}
    /\ UNCHANGED <<tables, objects, used, stray, h, doubtful, racing, raced, faults>>

\* UPDATE ... SET status = 'committed' WHERE status = 'tombstoned'; the
\* error ends the pass.  The row may have been committed again meanwhile,
\* with another object.
GcRevert ==
    /\ gc.pc = "revert"
    /\ blobs' = IF blobs[gc.d].status = "tombstoned"
                THEN [blobs EXCEPT ![gc.d].status = "committed"] ELSE blobs
    /\ orphaned' = IF blobs[gc.d].status = "tombstoned" THEN orphaned ELSE orphaned \cup {gc.key}
    /\ gc' = GcIdle
    /\ UNCHANGED <<older, links, edges, rm, objects, used, stray, h, doubtful, racing, raced, faults>>

\* DELETE FROM repository_blobs WHERE digest = $1
GcUnlink ==
    /\ gc.pc = "unlink"
    /\ links' = {l \in links : l[2] # gc.d}
    /\ gc' = [gc EXCEPT !.pc = "claim", !.d = NoDigest, !.key = NoKey]
    /\ UNCHANGED <<blobs, older, edges, rm, objects, used, stray, h, history, faults>>

-----------------------------------------------------------------------------
(* Environment *)

\* The grace period passes for d, and has passed for the rows before it.
Age(d) ==
    /\ blobs[d].status # "none"
    /\ ~blobs[d].old
    /\ \A e \in Digests : <<e, d>> \in older => blobs[e].old
    /\ blobs' = [blobs EXCEPT ![d].old = TRUE]
    /\ UNCHANGED <<older, links, edges, rm, objects, used, stray, h, gc, history, faults>>

\* A handler ends early: its client left, jcrd stopped or a call failed.
Abandon(r) ==
    /\ h[r].pc # "idle"
    /\ faults < MaxFaults
    /\ faults' = faults + 1
    /\ stray' = IF h[r].pc = "dedup" THEN stray \cup {h[r].key} ELSE stray
    /\ racing' = racing \ {r}
    /\ Finish(r)
    /\ UNCHANGED <<tables, objects, used, gc, doubtful, orphaned, raced>>

\* jcrd stops in the middle of a pass, or a statement of the pass fails.
GcStops ==
    /\ gc.pc # "idle"
    /\ faults < MaxFaults
    /\ faults' = faults + 1
    /\ stray' = IF gc.pc = "delete" THEN stray \cup {gc.key} ELSE stray
    /\ orphaned' = IF gc.pc \in {"delete", "revert"} THEN orphaned \cup {gc.key} ELSE orphaned
    /\ gc' = GcIdle
    /\ UNCHANGED <<tables, objects, used, h, doubtful, racing, raced>>

Land(k) ==
    /\ k \in stray
    /\ stray' = stray \ {k}
    /\ Remove(k)
    /\ UNCHANGED <<tables, used, h, gc, history, faults>>

Lose(k) ==
    /\ k \in stray
    /\ stray' = stray \ {k}
    /\ UNCHANGED <<tables, objects, used, h, gc, history, faults>>

-----------------------------------------------------------------------------
(* Specification *)

Init ==
    /\ blobs = [d \in Digests |-> NoBlob]
    /\ older = {}
    /\ links = {}
    /\ edges = {}
    /\ rm = [repo \in Repos |-> [m \in Manifests |-> "none"]]
    /\ objects = [k \in Keys |-> NoDigest]
    /\ used = {}
    /\ stray = {}
    /\ h = [r \in Handlers |-> Idle]
    /\ gc = GcIdle
    /\ doubtful = {} /\ orphaned = {}
    /\ racing = {} /\ raced = {}
    /\ faults = 0

Step(r) ==
    \/ RepairSelect(r) \/ RepairExists(r) \/ RepairTombstone(r)
    \/ CommitLookup(r) \/ CommitInsert(r) \/ DeleteDuplicate(r)
    \/ MountCheck(r) \/ MountLink(r)
    \/ Validate(r) \/ Persist(r)

Arrive(r) ==
    \/ \E repo \in Repos, d \in Digests, k \in Keys : Assemble(r, repo, d, k)
    \/ \E repo, from \in Repos, d \in Digests : ReceiveMount(r, repo, from, d)
    \/ \E repo \in Repos, m \in Manifests : ReceivePush(r, repo, m)

GcStep ==
    \/ GcScan \/ (\E c \in Candidates : GcClaim(c)) \/ GcPassEnds
    \/ GcDelete \/ GcRefused \/ GcRevert \/ GcUnlink

Fault ==
    \/ \E r \in Handlers : Abandon(r)
    \/ GcDeleteFails \/ GcStops
    \/ \E k \in Keys : Land(k) \/ Lose(k)

Next ==
    \/ \E r \in Handlers : Arrive(r) \/ Step(r)
    \/ \E repo \in Repos, m \in Manifests : DeleteManifest(repo, m)
    \/ GcStep
    \/ \E d \in Digests : Age(d)
    \/ Fault

\* Started handlers run, the collector runs every hour and time passes.
Fairness ==
    /\ \A r \in Handlers : WF_vars(Step(r))
    /\ WF_vars(GcStep)
    /\ \A d \in Digests : WF_vars(Age(d))

Spec == Init /\ [][Next]_vars
FairSpec == Spec /\ Fairness

-----------------------------------------------------------------------------
(* Properties *)

TypeOK ==
    /\ blobs \in [Digests -> BlobRow]
    /\ \A d \in Digests : blobs[d].status = "none" <=> blobs[d].key = NoKey
    /\ older \subseteq Digests \X Digests
    /\ links \subseteq Repos \X Digests
    /\ edges \subseteq Manifests
    /\ rm \in [Repos -> [Manifests -> {"none", "live", "deleted"}]]
    /\ objects \in [Keys -> Digests \cup {NoDigest}]
    /\ used \subseteq Keys /\ stray \subseteq Keys
    /\ h \in [Handlers -> Locals]
    /\ gc \in Collector
    /\ doubtful \subseteq Keys /\ orphaned \subseteq Keys
    /\ racing \subseteq Handlers /\ raced \subseteq Repos \X Manifests
    /\ faults \in 0..MaxFaults

\* The one thing jcrd cannot know is whether a delete that was answered with an
\* error happens: clean_unreferenced_blobs takes it that it does not.
Doubtful(d) == blobs[d].key \in doubtful

\* Every blob the tables call committed is in the bucket, under its key and
\* with its content: uploads of the same digest, the repair of missing
\* objects, the collector and its revert never leave a row without an object.
CommittedHasObject ==
    \A d \in Digests :
        blobs[d].status = "committed" => objects[blobs[d].key] = d \/ Doubtful(d)

\* Each config and layer of a manifest is linked, committed and in the bucket.
CanPull(repo, m) ==
    \A d \in LayerSet(m) : (Available(repo, d) /\ objects[blobs[d].key] = d) \/ Doubtful(d)

\* Every manifest a repository serves can be pulled from it, also after another
\* repository that shares a layer has deleted its manifest.
Pullable == \A repo \in Repos, m \in Manifests : rm[repo][m] = "live" => CanPull(repo, m)

\* What put_manifest really ensures: only a push under which the collector has
\* claimed a layer, or that began before it was done with one, may store a
\* manifest that cannot be pulled, until the manifest is pushed again.
PullableUnlessRaced ==
    \A repo \in Repos, m \in Manifests :
        rm[repo][m] = "live" /\ <<repo, m>> \notin raced => CanPull(repo, m)

\* No step takes an object out of the bucket that a committed row names: a
\* duplicate is deleted only when another copy is kept, the collector deletes
\* only what it has claimed, and a late delete finds its key out of use.
NeverDeletesLiveObject ==
    [][\A k \in Keys \ doubtful : objects[k] # NoDigest /\ objects'[k] = NoDigest =>
          \A d \in Digests : blobs'[d].status = "committed" => blobs'[d].key # k]_vars

\* A repository loses a blob only once the collector has taken the blob away
\* from all: a link made by an upload that committed again stays.
KeepsFreshLinks ==
    [][\A l \in links \ links' : blobs[l[2]].status # "committed"]_vars

\* The table names an object under k.
InTable(k) == \E d \in Digests : blobs[d].status = "committed" /\ blobs[d].key = k

\* A manifest that some repository serves needs d.
Needed(d) == \E repo \in Repos, m \in Manifests : rm[repo][m] = "live" /\ d \in LayerSet(m)

\* The bucket refuses to delete d or something older, with which every pass ends.
Blocked(d) ==
    \E e \in Digests : (e = d \/ <<e, d>> \in older) /\ Garbage(e) /\ blobs[e].key \in Undeletable

\* The object of a blob that nobody needs goes from the bucket, however many
\* older blobs there are, although a delete that fails puts its blob back at
\* the head of the list and ends the pass: nothing but an older object that can
\* never be deleted, or a pass that stops between a claim and its delete or
\* revert or works with a key or a status that has changed, keeps it there.
GarbageIsCollected ==
    \A k \in Keys :
        InTable(k) ~> objects[k] = NoDigest \/ Needed(objects[k]) \/ Blocked(objects[k]) \/ k \in orphaned

\* The collector claims a row for the object that it is going to delete.
ClaimsWhatItDeletes ==
    [][\A c \in Candidates : GcClaim(c) /\ Garbage(c.d) => blobs[c.d].key = c.key]_vars

\* The same for whatever can be deleted, with older ones in the bucket that
\* cannot: one such blob is at the head of every pass.
OneFailureHoldsNobodyUp ==
    \A k \in Keys \ Undeletable :
        InTable(k) ~> objects[k] = NoDigest \/ Needed(objects[k]) \/ k \in orphaned

\* Once every handler has returned a blob is in the bucket at most once.
StoredOnce ==
    (\A r \in Handlers : h[r].pc = "idle") =>
        \A j, k \in Keys : objects[j] # NoDigest /\ objects[j] = objects[k] => j = k

=============================================================================
