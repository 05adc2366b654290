# A TLA+ model of jcr and jcrd

`jcrd` is a container registry (OCI distribution API) whose metadata is in PostgreSQL and whose
blobs are in an S3-compatible bucket. `jcr` is the client that pushes large images to it in
chunks. This directory holds TLA+ modules of the parts whose correctness depends on the order
of events, the TLC configurations that check them, and proofs checked by TLAPS. Paths below are
relative to the repository's `crates/`.

## 1. Inventory

| Component | State | Operations | Talks to |
|---|---|---|---|
| Upload sessions (`jcrd/src/registry.rs`, `gc.rs`) | `upload_sessions`, `upload_parts`, an S3 multipart upload, the object it becomes | POST, PATCH, PUT, DELETE of an upload; expiry by the collector | bucket, blobs |
| Blobs and collection (`registry.rs`, `gc.rs`) | `blobs`, `repository_blobs`, `descriptor_edges`, bucket objects | end of a PUT (repair, commit, delete the duplicate), mount, hourly collection | bucket, manifests |
| Manifests and tags (`registry.rs`, `web.rs`) | `repository_manifests`, `tags`, `tag_events` | PUT and DELETE of a manifest by tag or digest, deletion in the web UI | blobs |
| Push client (`jcr/src/registry.rs`, `resume.rs`) | running uploads, `ResumeStore.data`, `uploads.json`, a bearer token | HEAD, status, POST, PATCH, PUT with nested retries; PUT of manifests | upload sessions, manifests |
| Access control (`jcrd/src/auth.rs`, `db.rs`, `web.rs`) | users, memberships, permissions, repositories, personal access tokens, bearer tokens | token endpoint, authentication, authorization, creation of a repository, visibility, tokens | every endpoint |
| Object store adapter (`jcrd/src/storage/bucket.rs`, `jcr-core/src/storage.rs`) | none | create, upload part, complete, abort, put, delete, exists | S3 |
| Registration and login (`db.rs`, `web.rs`) | `instance_settings`, users with identity and namespace, `registration_entries`, `oauth_states`, browser sessions, signed tickets | OAuth callback, signup, logout, the mode and administrator's entry set at start | access control |
| Image preparation (`jcr/src/image.rs`) | the walk of an archive: stack, visited manifests, order, blobs | local image or OCI layout to blobs and manifests | push client |
| Credentials, command line (`jcr/src/credentials.rs`, `main.rs`) | Docker's config file | login, logout, push | push client |
| Parsing (`jcr-core/src/manifest.rs`, `digest.rs`, `reference.rs`) | none | pure | all |
| Configuration, start, errors, HTML (`jcrd/src/main.rs`, `config.rs`, `app.rs`, ...) | none | wiring and rendering | all |

The handlers of jcrd share nothing in memory. They meet in the tables and the bucket, mostly
outside of transactions, and axum drops a handler's future wherever it waits when its client
leaves. What is hard, and what makes each component correct:

- **Upload sessions.** A row lock is held across a call to the bucket, a PUT works for minutes
  after it has given the lock up, DELETE and the collector take no lock. Correct means: the parts
  tile the file up to `accepted_offset`, one PUT finalizes, what is committed is what was hashed,
  outcomes are not undone, every session ends.
- **Blobs.** The tombstone, the delete and the unlink are three steps, deletes are answered late
  or not at all, the same content may be uploaded again in between. Correct means: a committed row
  has its object, a live manifest can be pulled, garbage goes away however old and however many
  the blobs before it are.
- **Tags.** Several transactions at READ COMMITTED, row locks taken in different orders. Correct
  means: tags name live manifests, the history agrees with the tags, immutable tags do not move,
  every request is answered, although deletions can deadlock and PostgreSQL then aborts one.
- **Push client.** Lost and late answers, retries inside retries, a resume file written outside of
  its mutex and shared by processes. Correct means: what is reported uploaded is stored, bytes go
  where their range says, few faults are survived, a repeated push gets done.
- **Registration.** A signup takes several statements, its ticket is minutes old and can be posted again,
  and the mode, the entries and the emails change meanwhile. Correct means: an entry buys one user, an
  account has one, nobody registers whom mode and entries do not allow when the transaction commits,
  and a browser session is of the user who logged in.
- **Whole images.** Manifests share children and nest; each is checked descriptor by descriptor
  before it is stored, others delete meanwhile, a retry meets its own late first attempt. Correct
  means: children go first, a sound image is refused only for a deletion, and what has been
  pushed has all it names; a listing page by page misses no tag that was there all along.
- **Access.** A request decides with up to six statements, none in a transaction. Correct means:
  nobody is let in without the right, or turned away who had it, all through the request.

`PROJECT.json` lists the hazards line by line with the properties that cover them.

## 2. Modules

| Module | Models | Step |
|---|---|---|
| `UploadSession` | one session, its handlers, its expiry, its multipart upload | an SQL statement or short transaction, or a call to the bucket or its answer |
| `ChunkedUpload` | what a session promises whoever knows its location | a request |
| `BlobLifecycle` | committed blobs, links, references, the collector | as in `UploadSession` |
| `Tags` | manifests and tags of one repository | an SQL statement; the last one with its COMMIT |
| `TagStore` | what a repository promises about manifests and tags | a request |
| `PushClient` | processes of `jcr push` against an abstract registry | an HTTP request with its answer, a write of the resume file |
| `ImagePush` | archive to repository: the walk, the uploads, the PUTs of manifests and their checks, deletions, the listing of tags, on `TagStore` | one manifest of the walk, one blob, one statement of the server |
| `Access` | authorization, tokens, creation and visibility of repositories | an SQL statement with the code up to the next |
| `Registration` | login, signup, browser sessions, the start of jcrd | the same; the inserts of a signup with its COMMIT |
| `BlobGrace` | `BlobLifecycle` with a history of what was in use within the grace period | as there |
| `MC*` | instances for TLC: constant values and symmetry | |
| `UploadSessionProofs`, `BlobProofs`, `TagsProofs`, `RegistrationProofs`, `PushProofs`, `ImagePushProofs`, `AccessProofs`, `AccessDenials` | theorems | |

How they fit together: `UploadSession` implements `ChunkedUpload`, and every session that
`PushClient` talks to is a `ChunkedUpload` too (`UsesUploads`), so that client and server are checked
against the same promise. `Tags` implements `TagStore`, on which `ImagePush` runs. An upload enters
`BlobLifecycle` where `UploadSession` ends, with an assembled and hashed object.

Each module's handlers are slots with a program counter named after the statement that comes next,
and the locals that the code keeps across an `await`. A slot that has answered is free again, so that
any number of requests follow each other. "Variant" definitions are plausible mistakes; no
specification uses them, they are there to show that a property depends on the code it is about.

**UploadSession.** `session`, `parts` are the two tables' rows; `mpu`, `stored`, `object` are what S3
holds; `lock` is the FOR UPDATE lock. Bytes are intervals of the client's file and a digest is the
length of a prefix, so "the digest matches" is "the object is that prefix". `SelectForUpdate` waits
for nothing: it takes the snapshot, and `Admit`, `Reject` and the update in `MarkCancelled` need the
lock and look at the row again, as PostgreSQL does; the size of the last part, read in a subquery of that
SELECT, stays that of the snapshot. Every call to S3 has an effect and an answer: `Abandon` drops a handler
(its transaction is rolled back), loses an answer or makes a call fail, and a call left behind may
`Land` later or be `Lose`d.

**BlobLifecycle.** An upload enters with an assembled object under a fresh key (`Assemble`), then
`RepairSelect`/`RepairExists`/`RepairTombstone`, `CommitLookup`/`CommitInsert` and `DeleteDuplicate`.
A pass of the collector is `GcScan`, which takes the `PassLimit` oldest blobs that are garbage, and then for
each of them, oldest first (`IsNext`), `GcClaim`, `GcDelete`, `GcUnlink`, or, when the delete fails, `GcRevert`,
which ends the pass. `older` is the order of `created_at`. `Age` is the end of the grace period. A delete fails
once with an unknown result (`GcDeleteFails`, a fault), or every time because the bucket refuses to
delete that object (`Undeletable`, `GcRefused`). Pushes, mounts, uploads, deletions and the collector
interleave freely. The histories tell apart what the code can and cannot promise: `doubtful` are keys whose
delete was answered with an error; `orphaned` are keys whose row the collector claimed, or committed
again, while it left the object behind; `racing` are the pushes that a claim of one of
their layers has met, or that began before the collector was done with such a claim, and `raced` what
such pushes were the last to store.

**Tags.** `rmLock` and `tagLock` are row locks, an uncommitted insert's included; `SelectSnapshot`
is the plan of a SELECT FOR UPDATE that found no row and therefore locks none. `tx.todo` are the rows that
a DELETE's snapshot saw. It visits them in any order (`Visit`), as PostgreSQL's plan may, and waits for each.
One that has been updated meanwhile is locked as it is now and looked at again: a tag that has moved is not
deleted, and its lock is kept until the end all the same (`Untag`). Hence two deletions whose tags are moved
away between scan and visit can wait for each other. `Deadlocked` is PostgreSQL's detector, which aborts one
of those that wait in a circle.

**PushClient.** The registry is what `UploadSession` promises: chunks at the accepted offset only, a
completed session takes no more. `Body`, `Check`, `Verify` are the outer retries of PATCH and PUT;
`Status` and `Exists` have inner ones. The saved offset is not modelled because no code reads it (only
`location` is used). The bytes of a body are known by the file position they were read from. The
HTTP client has no timeout configured, so an answer is lost only when the connection fails
("lost", and "late" when jcrd executes the request afterwards). A lost answer to POST leaves an
orphan session that expires. `Unused` and `Free` choose ids by CHOOSE; ids are never symmetric.

**ChunkedUpload and TagStore.** The abstract specifications. The mapping of a session (`Session` in
`UploadSession`) takes its status from the row, its offset from `accepted_offset`, and calls it
`intact` while every part holds the bytes of the offset at which it was accepted. A PUT is seen in two steps, as a
client can see it: it gives the session up, and it is over. The mapping of `Tags` is the committed
tables: what a transaction has written and not committed is in `tx`, so that the one step of
`TagStore` is its COMMIT.

**Registration.** `lock` is the row of `instance_settings`, which a signup reads FOR UPDATE first
and a starting jcrd updates; a pc of "insert" with an entry is the FOR UPDATE lock of that
entry, for which `Revoke` waits. Rows are numbered as inserted and never deleted. `tickets` are signed
tokens without a row: any of them can be posted at any time until `Expire` takes it, more than once.
`over` is the set of entries that had expired at BEGIN, the moment NOW() means. `Init` is the state
after a first start of jcrd, which seeds the administrator's entry in an empty database; later
starts are `Start`, `Configure`, `SeedSelect`, `SeedInsert`, whose SELECT and INSERT are apart because
ON CONFLICT decides on what others have committed. `Invite`, `Revoke`, `Disable` are SQL run by hand, as
the documentation has it, and `Rename` is Google: an email moves from
one account to another.

**ImagePush.** `Visit` is one iteration of the walk's stack with the checks of the manifest's files;
a missing or altered file fails it. A `docker image save` is a single manifest (`SaveImage`). An upload is
one step, `UploadBlob`, that ends with the blob linked. `CheckDescriptor` is one
query of `validate_manifest_dependencies`, `Persist` the transaction, `GiveUp` a lost answer after
which the retry starts over while the first attempt may still commit (`late`, `CommitLate`); one
such request is late at a time, a bound: another one could only put once more.
`undone` remembers for each client the manifests that were deleted since it last put them: what the
code cannot promise, because `delete_manifest` asks nobody. `Page` is one page of
`list_tags`, with the row beyond the page that says whether there is another: the rows of ORDER BY ...
LIMIT are those with at most so many before them, and a page is the set of its rows. Tags are numbers, in
the order of their names.

**Access.** `req.row` is the repository row read at the start, used by later steps as the code does.
`held` and `lacked` are history variables: what was true, and what was false, at some moment since the
request began. `Operator` stands for SQL run by hand: nothing in the code changes memberships, permissions
or `disabled_at`, and nothing sets `repositories.deleted_at`. `Tick` is time in units of a
token's life; the 60 s leeway of the JWT library belongs to `Lifetime`.

## 3. What the runs check

All runs but the last pass. "Handlers" are concurrent requests; any number follow each other.

| Run | Bounds | Shows |
|---|---|---|
| `UploadSession` | 2 handlers and the collector, a file of two chunks in all orders with and without ranges, the right and the empty digest, 1 fault | `PartsTile`, `SingleFinalizer`, `CommitsWhatItHashed`, `NoObjectUnlessFinalized`, `OutcomeIsFinal`, `ImplementsUpload` |
| `UploadSessionLive` | 2 handlers, one chunk, 1 fault | `SessionSettles`, `RequestsAnswered` |
| `BlobLifecycle` | 2 handlers, 2 repositories, 1 digest under up to 3 keys, 1 manifest, 1 fault | `CommittedHasObject`, `PullableUnlessRaced`, `NeverDeletesLiveObject` |
| `BlobLive` | 1 handler, 1 repository, 2 digests under 3 keys one of which cannot be deleted, 1 manifest, 1 fault | `GarbageIsCollected` |
| `Tags` | 2 handlers, 2 manifests, 3 tags of which 1 immutable, all of the same manifest at first, 4 transactions, 1 dropped | `TagTargetsLive`, `HistoryEndsAtTag`, `DeadlocksAreOverMovedTags`, `RequestsAnswered`, `ImplementsStore` |
| `PushClient` | 2 processes, 1 blob of two chunks and a rest, 2 attempts, 2 sessions, 2 faults of seven kinds | `SuccessIsReal`, `SessionsHoldPrefixes`, `UsesUploads` |
| `PushLive` | 1 process, 4 attempts, 3 faults, 4 sessions, 2 manifests | `FaultsAreSurvived`, `PushEnds` |
| `Access` | 1 request at a time, 2 repositories, every credential, 1 change by the operator | `GrantsJustified`, `ScopesAreEarned` |
| `AccessRace` | 2 requests, 1 repository, creation, visibility, reading, a new token | `DenialsJustified`, `VisibilityOnlyByAdmin` |
| `Registration` | 2 requests, 2 accounts, 2 emails, 2 names, 2 users, 2 entries, 1 ticket, 1 OAuth state and 1 session at a time, first started as allowlist, 2 changes by operators, Google or a restart | `ClaimsAgree`, `AccountsRegisterOnce`, `RegistrationAllowed` |
| `ImagePush` | 2 clients, an image, an index of it, an older manifest and two archives that share children, 1 blob, 2 tags, 2 attempts, pages of 1 tag, 1 deletion | `OrderIsWhole`, `RefusedOnlyWhenUndone`, `PushedIsWhole`, `ListingComplete` |
| `BlobPushRace` | as `BlobLifecycle`, no faults | `Pullable` is violated |

Why the bounds suffice for the cases the hazards name: two handlers are needed for each race in the
code, and no code path looks at more than two requests at a time; the slots are reused, so a third
request can follow within a behaviour. Two chunks give a first and a last part; three keys let a
digest be stored, lost, stored again and duplicated. One fault makes a dropped handler or a lost answer
meet any state; two or three faults are used where retries are the subject. Two
repositories let one delete what the other still refers to. Two digests give a blob an older one that blocks
it, for a while or for ever. Two movable tags and four transactions are two deletions and the two pushes that
move a tag away from each, the smallest deadlock there is. In `Registration` two accounts,
emails and entries are what a collision needs, and two changes let an entry be revoked and the mode
change within one signup; it starts as allowlist because the starts of jcrd lead to the other modes. In
`ImagePush` two clients meet on a shared child, a late first attempt makes a third writer, and pages of
one tag put every tag on a boundary. Symmetry is used for interchangeable slots, keys,
repositories and manifests, in safety runs only.

`CHECK_DEADLOCK FALSE` stands where the system may really stop: a session id whose row was never
inserted, a registry whose bound of requests is used up, a push that is done, tokens that have all
been spent, states, slots and rows of `Registration` that are used up, pushes of `ImagePush` that are done.

**Fairness.** tokio runs every started handler (weak fairness of its steps). In `UploadSession`
PostgreSQL grants the one row lock in queue order (strong fairness of the steps that need it). In `Tags`
nothing is assumed of that order; only that a circle of waits is ended by aborting one of those in it, which
its detector does (weak fairness of a request's steps and its abort). The collector runs every hour and
time passes. In `PushClient` nothing is assumed of jcrd but that it answers a request whose
answer is not lost, and of the user that a failed push is run again: `PushEnds` says that a push that
is run again gets done. Faults are never fair. Clients are not obliged to send anything.

### Disagreements found

**A layer can be collected under a push** (`BlobPushRace`). `put_manifest` validates outside of the
transaction that stores the manifest (`registry.rs` 784-785), and the collector's claim sees no push
in flight. The manifest goes live with a layer that is gone, against PLAN.md:57.

Further configurations, for reference, each with one property:

| Configuration | Property | Outcome |
|---|---|---|
| `PushStatus` | `ResumesAcknowledged`: `upload_blob` takes any error of `upload_status` for an unusable session (`jcr/src/registry.rs` 161-164), against PLAN.md:149-150 | violated |
| `TagsImmutable` | `ImmutableTagStays`: SELECT FOR UPDATE of a tag that does not exist locks nothing; of two first pushes the second moves the tag, against `registry.rs` 1142 | violated |
| `BlobShared` | `PullableUnlessRaced`, two manifests that share a layer, 4.1 million states | holds |
| `BlobStarve` | `OneFailureHoldsNobodyUp`: a pass takes the oldest blob first and ends at the first delete that fails (`gc.rs` 94, 138), so one object that can never be deleted keeps every younger one | violated |
| `BlobStaleKey` | `ClaimsWhatItDeletes`: the claim does not compare `object_key` with the one of its SELECT (`gc.rs` 103-129); a row that was repaired under another key meanwhile is tombstoned, the old key deleted, the new object left | violated |
| `BlobGrace` (module `BlobGrace`) | `RemovedOnlyAfterGrace`: the grace period counts from the row's first commit; an upload or push that finds an old row does not renew it | violated |
| `BlobUnlink` | `KeepsFreshLinks`: the collector's unlink also removes links made since its claim | violated |
| `BlobOnce` | `StoredOnce`: of two uploads that both find no row the second overwrites the key of the first, whose object stays | violated |
| `UploadSessionShort` | `ShortPartIsLast`: the subquery in `lock_upload` keeps its snapshot while the lock is awaited | violated |
| `TagsChain`, `TagsOrder` | the history is a chain and in the order of `created_at` (NOW() is the start of the transaction) | violated |
| `TagsWaits` | `OnlyDeletionsDeadlock`, `DeadlocksAreOverMovedTags`, 3 handlers, 2 manifests, 2 tags, 5 transactions, 3.3 million states | hold |
| `PushReplay` | `NoReplay`: jcrd may accept a body after the status query has been answered; the replay is refused | violated |
| `PushResumeFile` | `ResumesAcknowledged` with a crash: the entry of a chunk may be missing from the file | violated |

## 4. What is proved

For every value of the constants that satisfies the named assumptions, without bounds on handlers,
file size, chunks, tags, manifests, digests, keys, users or faults:

- `UploadSessionProofs`: `TypeCorrect`, `PartsAlwaysTile`, `OneFinalizer`, `OutcomesAreFinal`, by the
  inductive invariant `IInv == TypeOK /\ LockInv /\ PartsTile /\ SingleFinalizer /\ PostInv`. `LockInv`
  is what makes it inductive: the handler that is admitted, and only it, holds the lock, and the row is
  still as it read it (status, next part, offset), because every other step that changes
  `accepted_offset` or the status needs the lock or finds the row no longer uploading. Without it
  `PersistPart` could append at an offset that has moved on. `PostInv` says that one POST owns the
  session id before its row exists. `OutcomesAreFinal` follows from `IInv` step by step.
- Also in `UploadSessionProofs`: `CommitsAreHashed`, `ObjectsAreFinalized` and `Refinement` (`Spec =>
  ImplementsUpload`), by `RInv`, which adds three facts. `StrayInv`: a call to the bucket that was left
  behind and could still replace or remove the object belonged to the one finalizer, so the object
  stays as a living finalizer assembled it. `FollowInv`: what each handler relies on where it is.
  `ChainInv`: parts that continue each other hold the bytes of the offset at which they were accepted.
- `BlobProofs`: `TypeCorrect`, `CommittedIsStored`, `LiveObjectsStay`, by `IInv == TypeOK /\ KeyInv /\
  SafeInv`. `KeyInv` says who may speak of an object key: the upload it was made for until a row takes
  it, that row from then on, and the collector only of the row it selected. So a delete that lands
  late finds its key out of use. `SafeInv`: a row that is committed, or that the collector's revert may
  commit again, has its object and no delete of it is under way, unless one was answered with an error.
- Also in `BlobProofs`: `ManifestsPull`: `PullableUnlessRaced`, with pushes and collections interleaving freely, by
  `PullInv == FoundInv /\ EdgesInv /\ ClaimInv /\ KeptInv`. What a push has found stays linked and committed
  (`KeptInv`): only a claim and an unlink take that away. The claim looks for references, so it can hurt only a
  push that has not committed, which is `racing` from then on; the unlink, a step of its own, hurts in
  addition the pushes that came between (`ClaimInv`: whoever needs a claimed blob is in `racing` or `raced`). Where a
  repair tombstones a row whose object is missing, `SafeInv` says that its delete had an unknown result. What is
  in `raced` is what `BlobPushRace` shows to be lost; the theorem says that nothing else is, and that pushing
  the manifest again repairs it.
- `TagsProofs`: `TypeCorrect`, `TagsAlwaysPull`, `HistoryAgrees`, by `IInv == TypeOK /\ PointInv /\
  LockInv /\ ScanInv /\ TagTargetsLive /\ HistoryEndsAtTag`. `LockInv`: who has linked or unlinked a
  manifest holds its row, so that a tag upsert and a deletion of its target exclude each other, and a tag
  read FOR UPDATE is still what was read. `ScanInv`: no tag of the manifest being deleted is missed
  between the scan and the commit, although the scan's snapshot is old.
- Also in `TagsProofs`: `Refinement` (`Spec => ImplementsStore`), with `DeleteInv`: until its commit a
  deletion's manifest is live and the tags it has removed still name it for everybody else.
- Also in `TagsProofs`: `PushesNeverDeadlock` and `CirclesNeedMovedTags`, by `WaitInv == RInv /\ HolderInv /\ VisitInv /\
  RankInv`. Deletions do deadlock. `HolderInv`: who holds a row is past the statement that locks it, so
  nobody who holds a tag waits for a manifest, and a circle is of deletions only: a push is never the
  victim. `RankInv`: the deletions can be ranked such that each waits only for higher ones, as far as it waits for
  a tag of the other's own manifest: the push that moved the tag held the row of the new target, so it
  committed before the other deletion scanned. So in every circle some deletion holds a tag that has moved
  (`HoldsMoved`), which it is not going to delete.
- `RegistrationProofs`: `TypeCorrect`, `EntriesBuyOnce`, `OneUserPerAccount`, `OwnSessions`,
  `SignupsAreAllowed`, by `IInv == TypeOK /\ RequestInv /\ RowsInv`. `RequestInv`: what a signup has read
  is still so when it inserts, because a change of mode has to wait for the row of
  `instance_settings` and a revocation for the row of the entry, and it holds both.
- `PushProofs`: `TypeCorrect`, `UploadsAreReal`, `PrefixesOnly`, `SessionsAreUploads` (`Spec =>
  UsesUploads`), for any number of processes, blobs and attempts, by `IInv == ServerInv /\ ClientInv /\
  ProcInv /\ FaultInv`. `ClientInv` follows a location from hand to hand, through memory, bytes being
  written, the file, other processes and late requests: it is always of a session of the same blob.
  Of a task that is about to send a body it says that the position it reads from is the one it
  announces, and inside of the blob. So whatever jcrd accepts belongs where it goes, whoever else
  works on the session.
- Also in `PushProofs`: `FaultsSurvived`, for one process (`Procs = {q}` is its hypothesis: another process
  that resumes the same session takes its position away), by `CalmInv == IInv /\ (Calm => Steady)`. While
  faults are few, each session waits for exactly the chunk that is sent to it next, or has it and is
  about to be asked (`OnCourse`), and no attempt of any of the nested loops has been used without a fault.
- `ImagePushProofs`: `TypeCorrect`, `WalksAreWhole`, `RefusalsAreDue`, `PushesAreWhole`, `ListingsAreComplete`, for
  manifests of any shape without a cycle, by `IInv == TypeOK /\ WalkInv /\ RefusedOnlyWhenUndone /\ PutInv /\
  StoreInv /\ ListInv`. `WalkInv` is about the stack of the walk: manifests that it has left are closed under
  naming (`Ordered`); those it is visiting have falling heights, so that none is met again below itself, and
  what they have named so far has been left or is visited right above (`Open`). With an empty stack the
  order is closed and has the root, hence all that is `Needed`. `PutInv`: what has been put is there, but for
  deletions, so a refusal names a deleted manifest. `ListInv`: the names listed so far are those up to
  `last` that were there all along, and no name beyond it.
- `AccessProofs`: `TypeCorrect`, `GrantsAreJustified`, `EarnedScopes`, `OnlyAdminsPublish`, for any
  number of requests that interleave, by `IInv == RowsInv /\ FactsInv /\ HistoryInv /\ RequestInv`. What is
  true of a request's user and repositories now is in its history (`HistoryInv`), and what a
  request remembers, at each statement, it has evidence for (`RequestInv`): `Known` for its user, its instance role and its row,
  however stale, `Passed` for what `authorize` has allowed. Both are about a record, a history and
  the tokens, so one lemma per operator of the code (`Decide`, `Handle`, `AuthorizeRow`...) serves every statement.
- `AccessDenials`: `DenialsAreJustified`, by `DInv`, the same about what was missing. A no of a check is
  read from rows in which there was no right at that moment (`Wrong`), and what a request does not know, its
  user, its instance role, its row, was missing when it looked (`Seen`). A creation asks for push but is
  for an administrator: whoever may not push may not administer either (`Target`).

The proofs have one lemma per action or group of actions that change the same state, and a last step per
theorem by temporal logic. The invariants were checked by TLC on instances like those of section 3
first. Assumptions are the named ASSUMEs of the components' modules, which TLC evaluates in every run.

Of the runs' properties only liveness is model-checked alone (fairness and ENABLED are out of the prover's
reach). `SessionsAreOwn` is proved, in the inductive invariant of `Registration`, and no run of its own checks it.
`FaultsSurvived` needs one process; the theorems of `ImagePush` need what its assumptions say: finitely many manifests none of which contains itself (a digest cannot), and
images saved by docker that name no manifests (`prepare_docker_image` writes a config and layers).
Recursion (the walk of an image, the height of a manifest) is written as a stack, a fixed point or a function, so that all modules can be proved about.

## 5. Not modelled

- Credentials (`jcr/src/credentials.rs`): Docker's config file is read, changed and written by one
  command. Two logins at once can lose one another's entry; nothing else depends on the order of events.
- The command line, HTML and configuration: wiring. Of the configuration only the registration mode and the
  administrator's email matter, and are in `Registration`.
- Parsing, hashing, password hashing, JWT encoding, gzip and the unpacking of archives: values are model
  values; a forged or malformed one is simply one that does not exist. Of parsing, `ImagePush` has which
  descriptors a manifest yields.
- OAuth details (PKCE, nonce, `return_to`) and CSRF tokens: a callback has a state or has none.
- Audit rows: written by statements of their own after the change they record, so a change, of visibility for
  instance (`web.rs` 617), can lack its record; concurrent creations can log `repository.created` twice.
- Reads (GET of blobs and manifests): they change nothing. The listing of tags is modelled, because a page
  depends on the page before.
- The collector's limit of 100 rows (`gc.rs` 95) is `PassLimit`, which is never reached with two digests. 100 blobs
  older than another that are garbage at every scan and referenced at every claim would keep it for ever:
  with `PassLimit = 1` one such blob does. The limit of 100 expired sessions (`gc.rs` 48) is not modelled: a failed
  abort does not keep a session in the list.
- What the collector leaves behind. When jcrd stops, or a statement fails, between the commit of a tombstone and the
  delete of its object (`gc.rs` 124-129), no later pass selects the row, and nothing else deletes the object. The same
  happens to the new object of a row that was repaired between scan and claim (`BlobStaleKey`), and to the old one when
  its delete fails and the row has been committed again under another key, which the revert does
  not touch (`gc.rs` 130-137). `BlobLifecycle` has all three; `GarbageIsCollected` excepts them (`orphaned`), as it
  excepts what is behind an object that can never be deleted (`Blocked`, `BlobStarve`).
- The 10000 parts of S3: `MaxParts` bounds the model, the code has no guard (`registry.rs` 1278).
- An object assembled by a PUT whose handler was then dropped: nothing in the code removes it.
- A mount checks the user's right on the source, not the scope of the bearer token (`registry.rs` 496).
- The time of the collector in `ImagePush`: its blobs stay, as the grace period intends; `BlobLifecycle`
  has what happens when they do not.
- An instance administrator without membership may create by name in `authorize_repository_name` but is
  refused by `ensure_repository_for_push`; `Access` has both.
- A pending entry of the administrator's email that has expired keeps a start of jcrd from seeding a new one
  (`db.rs` 124-133, ON CONFLICT DO NOTHING), so that the configured administrator cannot register. The
  model has it (`SeedInsert`), no property speaks of it.

## 6. Plan

Done, in this order: `UploadSession`, `BlobLifecycle`, `Tags`, `PushClient`, `Access`, `ChunkedUpload` and
`TagStore` with the refinements to them, `Registration`, `ImagePush`, and the proofs of section 4. Next:

1. `Registry`: an abstract content-addressed store (which repository holds which blob, which manifests
   can be pulled) that `BlobLifecycle` implements, with the refinement proved, and `ImagePush` on it, with the
   collector at work.
2. Credentials: concurrent logins and pushes on one Docker config file.
