----------------------------- MODULE ImagePush -----------------------------
(***************************************************************************)
(* A whole image: jcr walks an OCI archive or a docker save, uploads the   *)
(* blobs it found and puts the manifests in the order of its walk; jcrd    *)
(* checks what each manifest names, one statement for each descriptor, and *)
(* then persists it.  Meanwhile others delete manifests and a client lists *)
(* the tags page by page.                                                  *)
(*                                                                         *)
(* The repository is the abstract TagStore that Tags implements.  A blob   *)
(* upload is one step that ends with the blob linked to the repository:    *)
(* PushClient and UploadSession are about its inside, and BlobLifecycle    *)
(* about the collector, whose grace period a push is supposed to be        *)
(* shorter than.                                                           *)
(***************************************************************************)
EXTENDS Integers, SequencesExt

CONSTANTS
    Clients,        \* pushes, each of one image
    Manifests, Blobs,
    Names,          \* tags, as numbers: the order that ORDER BY name gives
    NoManifest,
    Descriptors,    \* the descriptors of each manifest, in its order
    Archives,       \* the index.json documents of the archives that are pushed
    Saved,          \* images that docker image save can write: a config and layers
    Earlier,        \* what each tag points to at first, from pushes that have ended
    References,     \* what images are pushed as: tags, and digests of manifests
    Damages,        \* sets of files that may be missing from an archive or differ from their digest
    Attempts,       \* MAX_ATTEMPTS
    PageSize,       \* n of GET /v2/<name>/tags/list
    MaxDeletes      \* bound on deletions

Relations == {"blob", "manifest", "subject"}

ASSUME ImagePushAssumption ==
    /\ Names \subseteq Nat \ {0} /\ NoManifest \notin Manifests /\ Manifests \cap Blobs = {}
    /\ Descriptors \in [Manifests -> Seq([rel : Relations, of : Manifests \cup Blobs])]
    /\ \A m \in Manifests : \A k \in DOMAIN Descriptors[m] :
          Descriptors[m][k].of \in IF Descriptors[m][k].rel = "blob" THEN Blobs ELSE Manifests
    /\ Archives \cup Saved \subseteq Manifests /\ References \subseteq Names \cup Manifests
    /\ Names \cap Manifests = {} /\ Earlier \in [Names -> Manifests \cup {NoManifest}]
    /\ \A D \in Damages : D \subseteq Manifests \cup Blobs
    /\ Attempts \in Nat \ {0} /\ PageSize \in Nat \ {0} /\ MaxDeletes \in Nat

\* What a manifest needs.  A subject may be absent.
Named(m, rel) == {Descriptors[m][k].of : k \in {i \in DOMAIN Descriptors[m] : Descriptors[m][i].rel = rel}}

\* A digest names a manifest only if it is the hash of its bytes, so that no manifest contains itself.
ASSUME AcyclicAssumption ==
    /\ IsFiniteSet(Manifests)
    /\ \E height \in [Manifests -> 0 .. Cardinality(Manifests)] :
          \A m \in Manifests : \A c \in Named(m, "manifest") : height[c] < height[m]

\* prepare_docker_image lists a config and layers, no manifests.
ASSUME SavedAssumption == \A m \in Saved : Named(m, "manifest") = {}

\* Everything that is needed of an image: the least set with its root that is closed under naming.
Closed(S) == \A m \in S : Named(m, "manifest") \subseteq S
Needed == [root \in Manifests |->
              {m \in Manifests : \A S \in SUBSET Manifests : root \in S /\ Closed(S) => m \in S}]

VARIABLES
    live, tag, history,   \* the repository, as TagStore has them
    held,                 \* blobs linked to it
    push,                 \* local state of each client, and of its request at the server
    late,                 \* requests that their client has given up and the server still commits
    undone,               \* history: for each client, manifests deleted since it last put them
    listing,              \* the client that lists the tags
    deletes               \* deletions so far

repository == <<live, tag, history>>
vars == <<live, tag, history, held, push, late, undone, listing, deletes>>

Store == INSTANCE TagStore WITH Initial <- Earlier

-----------------------------------------------------------------------------
(* Types *)

Frame == [m : Manifests, next : Nat \ {0}]

\* next: the manifest of order that is put next; at: its descriptor that is checked next.
Locals == [pc : {"idle", "visit", "blobs", "put", "check", "persist", "done", "failed"},
           root : Manifests \cup {NoManifest}, ref : References \cup {NoManifest},
           broken : Damages \cup {{}}, stack : Seq(Frame), order : Seq(Manifests), blobs : SUBSET Blobs,
           left : SUBSET Blobs, next : Nat \ {0}, at : Nat \ {0}, tries : Nat,
           refused : Manifests \cup Blobs \cup {NoManifest}]

Idle == [pc |-> "idle", root |-> NoManifest, ref |-> NoManifest, broken |-> {}, stack |-> <<>>,
         order |-> <<>>, blobs |-> {}, left |-> {}, next |-> 1, at |-> 1, tries |-> 0, refused |-> NoManifest]

Listing == [pc : {"idle", "page", "done"}, last : Names \cup {0}, seen : Seq(SUBSET Names), always : SUBSET Names]

At(c, pc) == push[c].pc = pc
Stay(c, new) == push' = [push EXCEPT ![c] = new]
Fails(c) == Stay(c, [Idle EXCEPT !.pc = "failed"])

Init ==
    /\ tag = Earlier
    /\ live = UNION {Needed[m] : m \in Range(Earlier) \ {NoManifest}}
    /\ history = [n \in Names |-> IF Earlier[n] = NoManifest THEN <<>> ELSE <<Earlier[n]>>]
    /\ held = UNION {Named(m, "blob") : m \in live}
    /\ push = [c \in Clients |-> Idle] /\ late = {} /\ undone = [c \in Clients |-> {}]
    /\ listing = [pc |-> "idle", last |-> 0, seen |-> <<>>, always |-> {}]
    /\ deletes = 0

Local == UNCHANGED <<live, tag, history, held, late, undone, listing, deletes>>

-----------------------------------------------------------------------------
(* jcr: image.rs *)

\* verify_file: the file has the digest and the size of its descriptor.
Sound(file, broken) == file \notin broken

\* The descriptors of manifests in index.json of an archive.
Roots(a) == {k \in DOMAIN Descriptors[a] : Descriptors[a][k].rel = "manifest"}

\* prepare_oci_archive: an archive of one image is that image, one of several is their index.
ReadArchive(c) ==
    /\ At(c, "idle")
    /\ \E a \in Archives, ref \in References, broken \in Damages :
          LET alone == \E k \in Roots(a) : Roots(a) = {k}
              root == IF alone THEN Descriptors[a][CHOOSE k \in Roots(a) : TRUE].of ELSE a
              readable == Roots(a) # {} /\ (alone => Sound(root, broken))
          IN \/ ~readable /\ Fails(c)
             \/ readable /\ Stay(c, [Idle EXCEPT !.pc = "visit", !.root = root, !.ref = ref, !.broken = broken,
                                                  !.stack = <<[m |-> root, next |-> 1]>>])
    /\ Local

\* prepare_docker_image: jcr itself writes the manifest, with the digests of the files it wrote.
SaveImage(c) ==
    /\ At(c, "idle")
    /\ \/ Fails(c)
       \/ \E m \in Saved, ref \in References :
             Stay(c, [Idle EXCEPT !.pc = "visit", !.root = m, !.ref = ref, !.order = <<m>>, !.blobs = Named(m, "blob")])
    /\ Local

\* The manifest that is visited, and those whose visits wait for it.
Top(c) == Last(push[c].stack)
Below(c) == Front(push[c].stack)

\* Variant of Leave: a manifest is listed before the manifests it names.
LeaveFirst(c, p) == [p EXCEPT !.stack = Below(c), !.order = <<Top(c).m>> \o @]

\* visit_manifest returns: the manifest comes after everything it names.
Leave(c, p) == [p EXCEPT !.stack = Below(c), !.order = Append(@, Top(c).m)]

\* visit_manifest of a child, which returns at once if it was visited before.
Enter(c, p, m) ==
    IF m \in Range(p.order) THEN p ELSE [p EXCEPT !.stack = Append(@, [m |-> m, next |-> 1])]

\* Variant of IsFile: a subject is collected like a layer.
IsFileOrSubject(d) == d.rel # "manifest"

\* Config and layers: files of the archive that become blobs.
IsFile(d) == d.rel = "blob"

\* One descriptor of the manifest that is visited, or its end.
Visit(c) ==
    LET p == push[c]
        d == Descriptors[Top(c).m][Top(c).next]
        advanced == [p EXCEPT !.stack = Append(Below(c), [Top(c) EXCEPT !.next = @ + 1])]
    IN /\ At(c, "visit") /\ p.stack # <<>>
       /\ IF Top(c).next > Len(Descriptors[Top(c).m]) THEN Stay(c, Leave(c, p))
          ELSE \/ d.rel # "subject" /\ ~Sound(d.of, p.broken) /\ Fails(c)
               \/ IsFile(d) /\ Sound(d.of, p.broken) /\ Stay(c, [advanced EXCEPT !.blobs = @ \cup {d.of}])
               \/ d.rel = "manifest" /\ Sound(d.of, p.broken) /\ Stay(c, Enter(c, advanced, d.of))
               \/ d.rel = "subject" /\ Stay(c, advanced)
       /\ Local

-----------------------------------------------------------------------------
(* jcr: RegistryClient::push *)

\* A reference that is a digest has to be the root's.
Begin(c) ==
    /\ At(c, "visit") /\ push[c].stack = <<>>
    /\ IF push[c].ref \in Manifests \ {push[c].root} THEN Fails(c)
       ELSE Stay(c, [push[c] EXCEPT !.pc = "blobs", !.left = push[c].blobs, !.broken = {}])
    /\ Local

\* The uploads run side by side and end in any order.
UploadBlob(c) ==
    /\ At(c, "blobs")
    /\ \E b \in push[c].left : /\ held' = held \cup {b}
                               /\ Stay(c, [push[c] EXCEPT !.left = @ \ {b}])
    /\ UNCHANGED <<live, tag, history, late, undone, listing, deletes>>

\* Variant of BlobsDone: the manifests follow while uploads are still running.
BlobsUnderWay(c) == Stay(c, [push[c] EXCEPT !.pc = "put"]) /\ At(c, "blobs") /\ Local

BlobsDone(c) ==
    /\ At(c, "blobs") /\ push[c].left = {}
    /\ Stay(c, [push[c] EXCEPT !.pc = "put"])
    /\ Local

\* An upload fails for good, or the user interrupts the push.
Abandon(c) ==
    /\ push[c].pc \in {"blobs", "put"}
    /\ Fails(c)
    /\ Local

Current(c) == push[c].order[push[c].next]

SendManifest(c) ==
    /\ At(c, "put")
    /\ IF push[c].next > Len(push[c].order) THEN Stay(c, [push[c] EXCEPT !.pc = "done"])
       ELSE Stay(c, [push[c] EXCEPT !.pc = "check", !.at = 1])
    /\ Local

Put(c, n) == [push[c] EXCEPT !.pc = "put", !.next = n, !.tries = 0, !.at = 1]

\* The client sees a transient error: it tries again until its attempts are used up.
Again(c) == IF push[c].tries + 1 < Attempts THEN [push[c] EXCEPT !.pc = "put", !.tries = @ + 1, !.at = 1]
            ELSE [Idle EXCEPT !.pc = "failed"]

-----------------------------------------------------------------------------
(* jcrd: put_manifest *)

Available(d) == CASE d.rel = "blob" -> d.of \in held
                  [] d.rel = "manifest" -> d.of \in live
                  [] d.rel = "subject" -> TRUE

\* validate_manifest_dependencies: one statement for each descriptor.
CheckDescriptor(c) ==
    LET ds == Descriptors[Current(c)]
        d == ds[push[c].at]
    IN /\ At(c, "check")
       /\ IF push[c].at > Len(ds) THEN Stay(c, [push[c] EXCEPT !.pc = "persist", !.at = 1])
          ELSE IF Available(d) THEN Stay(c, [push[c] EXCEPT !.at = @ + 1])
          ELSE Stay(c, [Idle EXCEPT !.pc = "failed", !.refused = d.of])
       /\ Local

\* The root is put by the reference of the push, every other manifest by its digest.
Request(c) == [m |-> Current(c), ref |-> IF Current(c) = push[c].root THEN push[c].ref ELSE Current(c)]

Commit(q) == IF q.ref \in Names THEN Store!PushTag(q.m, q.ref) ELSE Store!Push(q.m)

\* persist_manifest, and the client that reads 201 or an error that a proxy or the audit row caused.
Persist(c) ==
    /\ At(c, "persist")
    /\ Commit(Request(c))
    /\ Stay(c, Put(c, push[c].next + 1)) \/ Stay(c, Again(c))
    /\ undone' = [undone EXCEPT ![c] = @ \ {Current(c)}]
    /\ UNCHANGED <<held, late, listing, deletes>>

\* Variant of GiveUp: a manifest whose answer does not come counts as put.
GiveUpAsPut(c) ==
    /\ push[c].pc \in {"check", "persist"}
    /\ late' = IF At(c, "persist") THEN late \cup {Request(c)} ELSE late
    /\ Stay(c, Put(c, push[c].next + 1))
    /\ UNCHANGED <<live, tag, history, held, undone, listing, deletes>>

\* The connection breaks or a proxy gives up: the handler ends, or has sent its COMMIT already.
\* Bound: one such request is late at a time.  A late commit only puts once more.
GiveUp(c) ==
    /\ push[c].pc \in {"check", "persist"}
    /\ \/ UNCHANGED late
       \/ At(c, "persist") /\ late = {} /\ late' = {Request(c)}
    /\ Stay(c, Again(c)) \/ Fails(c)
    /\ UNCHANGED <<live, tag, history, held, undone, listing, deletes>>

CommitLate ==
    /\ \E q \in late : Commit(q) /\ late' = late \ {q}
    /\ UNCHANGED <<held, push, undone, listing, deletes>>

-----------------------------------------------------------------------------
(* jcrd: delete_manifest, list_tags *)

\* Nobody asks whether a live index still names the manifest.
Delete(m) ==
    /\ deletes < MaxDeletes /\ deletes' = deletes + 1
    /\ Store!Delete(m)
    /\ undone' = [c \in Clients |-> undone[c] \cup {m}]
    /\ listing' = [listing EXCEPT !.always = {n \in @ : tag[n] # m}]
    /\ UNCHANGED <<held, push, late>>

Tagged == {n \in Names : tag[n] # NoManifest}

\* The rows of a page's query, and the first k of them.
After(last) == {n \in Tagged : n > last}
First(k, rows) == {n \in rows : Cardinality({i \in rows : i <= n}) <= k}

Ask ==
    /\ listing.pc = "idle"
    /\ listing' = [listing EXCEPT !.pc = "page", !.always = Tagged]
    /\ UNCHANGED <<live, tag, history, held, push, late, undone, deletes>>

\* Variant of PageEnd: the next page starts after the row that said there is more.
PageEndsPast(rows) == Max(First(PageSize + 1, rows))

\* The name that "last" of the next request has.
PageEnd(rows) == Max(First(PageSize, rows))

\* One page: LIMIT n + 1, of which the last row only says that there is a next page.
Page ==
    LET rows == After(listing.last)
        page == First(PageSize, rows)
        more == page # rows
    IN /\ listing.pc = "page"
       /\ listing' = [listing EXCEPT !.pc = IF more THEN "page" ELSE "done",
                                     !.last = IF more THEN PageEnd(rows) ELSE @,
                                     !.seen = Append(@, page)]
       /\ UNCHANGED <<live, tag, history, held, push, late, undone, deletes>>

-----------------------------------------------------------------------------
Prepare(c) == ReadArchive(c) \/ SaveImage(c) \/ Visit(c) \/ Begin(c)
Upload(c) == UploadBlob(c) \/ BlobsDone(c) \/ Abandon(c)
PutManifest(c) == SendManifest(c) \/ CheckDescriptor(c) \/ Persist(c) \/ GiveUp(c)

Next ==
    \/ \E c \in Clients : Prepare(c) \/ Upload(c) \/ PutManifest(c)
    \/ CommitLate \/ Ask \/ Page
    \/ \E m \in Manifests : Delete(m)

Spec == Init /\ [][Next]_vars

-----------------------------------------------------------------------------
(* Properties *)

Prepared(c) == push[c].root # NoManifest /\ push[c].stack = <<>>

\* Type invariant.
TypeOK ==
    /\ live \subseteq Manifests /\ held \subseteq Blobs /\ tag \in [Names -> Manifests \cup {NoManifest}]
    /\ push \in [Clients -> Locals] /\ undone \in [Clients -> SUBSET Manifests]
    /\ late \subseteq [m : Manifests, ref : References \cup Manifests]
    /\ listing \in Listing /\ deletes \in 0 .. MaxDeletes

\* The walk lists every manifest the image needs, each once and after the manifests it names, and the blobs of all of
\* them, also when two manifests share a child (visit_manifest).
OrderIsWhole ==
    \A c \in Clients : Prepared(c) /\ push[c].pc # "failed" =>
        LET p == push[c] IN
        /\ Range(p.order) = Needed[p.root] /\ IsInjective(p.order)
        /\ \A j \in DOMAIN p.order : Named(p.order[j], "manifest") \subseteq {p.order[i] : i \in 1 .. j - 1}
        /\ p.blobs = UNION {Named(m, "blob") : m \in Needed[p.root]}
        /\ p.blobs \cap p.broken = {}

\* jcrd refuses a manifest of a push for what it names only if somebody deleted that while the push was under way, not
\* because of the order, of retries or of other pushes (validate_manifest_dependencies).
RefusedOnlyWhenUndone == \A c \in Clients : push[c].refused # NoManifest => push[c].refused \in undone[c]

\* A push that has ended well left a whole image: all of its blobs, and its manifests, but for those that were deleted
\* since it put them; and its tag has pointed to its root (RegistryClient::push, put_manifest).
PushedIsWhole ==
    \A c \in Clients : At(c, "done") =>
        LET p == push[c] IN
        /\ Needed[p.root] \subseteq live \cup undone[c]
        /\ \A m \in Needed[p.root] : Named(m, "blob") \subseteq held
        /\ p.ref \in Names => p.root \in Range(history[p.ref])

\* A listing that follows the links to its end names each tag at most once, in order, and misses none that was there
\* all the time, however many tags came and went between its pages (list_tags).
ListingComplete ==
    /\ listing.pc = "done" => listing.always \subseteq UNION Range(listing.seen)
    /\ \A i, j \in DOMAIN listing.seen : i < j =>
          \A m \in listing.seen[i], n \in listing.seen[j] : m < n
=============================================================================
