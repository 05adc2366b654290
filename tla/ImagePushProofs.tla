-------------------------- MODULE ImagePushProofs --------------------------
(***************************************************************************)
(* Theorems about ImagePush, for any number of pushes, manifests of any    *)
(* shape, tags and pages.  The walk of an image is a recursion in the      *)
(* code; what it computes is proved from an invariant of its stack:        *)
(* manifests that have been left are closed under naming (Ordered), those  *)
(* being visited wait for each other in the order of their heights (Open), *)
(* so that none is met again below itself, and what they have named so far *)
(* has been left or is visited right above.  When the stack is empty the   *)
(* order is closed and has the root: it has everything that is Needed.     *)
(***************************************************************************)
EXTENDS ImagePush, SequenceTheorems, FiniteSetTheorems, TLAPS

\* A height that AcyclicAssumption promises.
Ranked(height) == \A m \in Manifests : \A c \in Named(m, "manifest") : height[c] < height[m]
Height == CHOOSE height \in [Manifests -> 0 .. Cardinality(Manifests)] : Ranked(height)

\* The manifests that have been left: each comes after those it names, and its blobs are collected.
Ordered(p) ==
    /\ IsInjective(p.order) /\ Range(p.order) \subseteq Needed[p.root]
    /\ \A j \in DOMAIN p.order :
          /\ \A m \in Named(p.order[j], "manifest") : \E i \in 1 .. j - 1 : p.order[i] = m
          /\ Named(p.order[j], "blob") \subseteq p.blobs

\* What has become of a descriptor that frame i of the stack has passed.
Settled(p, i, d) ==
    /\ d.rel = "blob" => d.of \in p.blobs
    /\ d.rel = "manifest" => \/ d.of \in Range(p.order)
                             \/ i < Len(p.stack) /\ d.of = p.stack[i + 1].m

\* The manifests that are being visited.
Open(p) ==
    /\ IF p.stack = <<>> THEN p.root \in Range(p.order) ELSE p.stack[1].m = p.root
    /\ \A i \in DOMAIN p.stack :
          /\ p.stack[i].m \in Needed[p.root] \ Range(p.order)
          /\ \A k \in DOMAIN Descriptors[p.stack[i].m] :
                k < p.stack[i].next => Settled(p, i, Descriptors[p.stack[i].m][k])
    /\ \A i, j \in DOMAIN p.stack : i < j => Height[p.stack[j].m] < Height[p.stack[i].m]

Collected(p) ==
    /\ p.blobs \subseteq UNION {Named(m, "blob") : m \in Needed[p.root]}
    /\ p.blobs \cap p.broken = {}

\* Where a client is and what it has.
Phase(p) ==
    /\ p.root = NoManifest <=> p.pc \in {"idle", "failed"}
    /\ p.root # NoManifest => p.ref \in References
    /\ p.stack # <<>> => p.pc = "visit"
    /\ p.refused # NoManifest => p.pc = "failed"
    /\ p.pc \in {"visit", "blobs"} => p.next = 1
    /\ p.pc \in {"check", "persist"} => p.next <= Len(p.order)
    /\ p.pc = "done" => p.next > Len(p.order)

WalkInv == \A c \in Clients :
    /\ Phase(push[c])
    /\ push[c].root # NoManifest => Ordered(push[c]) /\ Open(push[c]) /\ Collected(push[c])

\* A manifest of the push that has been put, and not deleted: past is the history of the tags.
Stored(p, m, alive, past) ==
    /\ m \in alive
    /\ m = p.root /\ p.ref \in Names => p.root \in Range(past[p.ref])

\* What the client has uploaded is there, and what it has put.
Progress(p, alive, there, past) ==
    p.pc \in {"blobs", "put", "check", "persist", "done"} =>
        /\ p.blobs \subseteq there \cup p.left
        /\ p.pc # "blobs" => p.left = {}
        /\ \A i \in DOMAIN p.order : i < p.next => Stored(p, p.order[i], alive, past)

PutInv == \A c \in Clients : Progress(push[c], live \cup undone[c], held, history)

StoreInv ==
    /\ history \in [Names -> Seq(Manifests \cup {NoManifest})]
    /\ \A n \in Names : tag[n] # NoManifest => tag[n] \in Range(history[n])

\* The listing: which names have been listed, and that they end at last.
ListInv ==
    /\ listing.pc # "idle" => listing.always \subseteq Tagged
    /\ listing.pc = "idle" => listing.seen = <<>> /\ listing.last = 0
    /\ listing.pc = "page" => /\ \A n \in listing.always : n <= listing.last => n \in UNION Range(listing.seen)
                              /\ \A n \in UNION Range(listing.seen) : n <= listing.last
    /\ ListingComplete

IInv == TypeOK /\ WalkInv /\ RefusedOnlyWhenUndone /\ PutInv /\ StoreInv /\ ListInv
-----------------------------------------------------------------------------
(* Descriptors, heights and what an image needs *)

LEMMA DescriptorTypes ==
    ASSUME NEW m \in Manifests
    PROVE  /\ Descriptors[m] \in Seq([rel : Relations, of : Manifests \cup Blobs])
           /\ Len(Descriptors[m]) \in Nat /\ DOMAIN Descriptors[m] = 1 .. Len(Descriptors[m])
           /\ \A k \in DOMAIN Descriptors[m] :
                 /\ Descriptors[m][k].rel \in Relations
                 /\ Descriptors[m][k].of \in Named(m, Descriptors[m][k].rel)
                 /\ Descriptors[m][k].of \in Manifests \cup Blobs
           /\ Named(m, "manifest") \subseteq Manifests /\ Named(m, "blob") \subseteq Blobs
<1>1. Descriptors[m] \in Seq([rel : Relations, of : Manifests \cup Blobs])
  BY ImagePushAssumption
<1>2. Len(Descriptors[m]) \in Nat /\ DOMAIN Descriptors[m] = 1 .. Len(Descriptors[m])
  BY <1>1
<1>3. ASSUME NEW k \in DOMAIN Descriptors[m]
      PROVE  /\ Descriptors[m][k].rel \in Relations /\ Descriptors[m][k].of \in Manifests \cup Blobs
             /\ Descriptors[m][k].of \in Named(m, Descriptors[m][k].rel)
             /\ Descriptors[m][k].of \in IF Descriptors[m][k].rel = "blob" THEN Blobs ELSE Manifests
  <2>1. Descriptors[m][k] \in [rel : Relations, of : Manifests \cup Blobs]
    BY <1>1, <1>3, ElementOfSeq, <1>2
  <2>2. Descriptors[m][k].of \in IF Descriptors[m][k].rel = "blob" THEN Blobs ELSE Manifests
    BY ImagePushAssumption
  <2>3. Descriptors[m][k].of \in Named(m, Descriptors[m][k].rel)
    BY DEF Named
  <2> QED BY <2>1, <2>2, <2>3
<1>4. Named(m, "manifest") \subseteq Manifests /\ Named(m, "blob") \subseteq Blobs
  BY <1>3 DEF Named
<1> QED BY <1>1, <1>2, <1>3, <1>4

LEMMA Heights ==
    /\ \A m \in Manifests : Height[m] \in Nat
    /\ \A m \in Manifests : \A c \in Named(m, "manifest") : Height[c] < Height[m]
<1>1. Height \in [Manifests -> 0 .. Cardinality(Manifests)] /\ Ranked(Height)
  BY AcyclicAssumption DEF Height, Ranked
<1>2. Cardinality(Manifests) \in Nat
  BY AcyclicAssumption, FS_CardinalityType
<1> QED BY <1>1, <1>2 DEF Ranked

LEMMA NeededClosed ==
    ASSUME NEW root \in Manifests
    PROVE  Needed[root] \subseteq Manifests /\ root \in Needed[root] /\ Closed(Needed[root])
<1>1. Needed[root] = {m \in Manifests : \A S \in SUBSET Manifests : root \in S /\ Closed(S) => m \in S}
  BY DEF Needed
<1>2. ASSUME NEW m \in Needed[root], NEW d \in Named(m, "manifest")
      PROVE  d \in Needed[root]
  <2>1. m \in Manifests /\ d \in Manifests
    BY <1>1, DescriptorTypes
  <2>2. ASSUME NEW S \in SUBSET Manifests, root \in S, Closed(S)
        PROVE  d \in S
    BY <1>1, <1>2, <2>2 DEF Closed
  <2> QED BY <1>1, <2>1, <2>2
<1>3. Closed(Needed[root])
  BY <1>2 DEF Closed
<1> QED BY <1>1, <1>3

LEMMA NeededLeast ==
    ASSUME NEW root \in Manifests, NEW S \in SUBSET Manifests, root \in S, Closed(S)
    PROVE  Needed[root] \subseteq S
BY DEF Needed

LEMMA Saves ==
    ASSUME NEW m \in Saved
    PROVE  m \in Manifests /\ Needed[m] = {m}
<1>1. m \in Manifests /\ Named(m, "manifest") = {}
  BY ImagePushAssumption, SavedAssumption
<1>2. Closed({m})
  BY <1>1 DEF Closed
<1>3. Needed[m] \subseteq {m}
  BY <1>1, <1>2, NeededLeast
<1> QED BY <1>1, <1>3, NeededClosed

LEMMA FrontOf ==
    ASSUME NEW S, NEW s \in Seq(S), s # <<>>
    PROVE  /\ Front(s) \in Seq(S) /\ Len(Front(s)) = Len(s) - 1 /\ Len(s) \in Nat \ {0}
           /\ \A i \in 1 .. Len(s) - 1 : Front(s)[i] = s[i]
           /\ Last(s) \in S /\ Last(s) = s[Len(s)]
<1>1. Len(s) \in Nat \ {0} /\ DOMAIN s = 1 .. Len(s)
  OBVIOUS
<1>2. s[Len(s)] \in S
  BY <1>1, ElementOfSeq
<1>3. /\ SubSeq(s, 1, Len(s) - 1) \in Seq(S) /\ Len(SubSeq(s, 1, Len(s) - 1)) = Len(s) - 1
      /\ \A i \in 1 .. Len(s) - 1 : SubSeq(s, 1, Len(s) - 1)[i] = s[i]
  BY <1>1, SubSeqProperties
<1> QED BY <1>1, <1>2, <1>3 DEF Front, Last

LEMMA RangeOf ==
    ASSUME NEW S, NEW s \in Seq(S)
    PROVE  Range(s) = {s[i] : i \in 1 .. Len(s)} /\ Range(s) \subseteq S
BY DEF Range

LEMMA Domains ==
    ASSUME NEW S, NEW s \in Seq(S)
    PROVE  DOMAIN s = 1 .. Len(s) /\ Len(s) \in Nat /\ (s = <<>> <=> Len(s) = 0)
OBVIOUS

LEMMA BelowOne == \A n \in Nat : n > 0 /\ n # 1 => 1 \in 1 .. n - 1
OBVIOUS

LEMMA AppendOf ==
    ASSUME NEW S, NEW s \in Seq(S), NEW e \in S
    PROVE  /\ Append(s, e) \in Seq(S) /\ Len(Append(s, e)) = Len(s) + 1 /\ Len(s) \in Nat
           /\ \A i \in 1 .. Len(s) : Append(s, e)[i] = s[i]
           /\ Append(s, e)[Len(s) + 1] = e
           /\ DOMAIN Append(s, e) = 1 .. Len(s) + 1 /\ DOMAIN s = 1 .. Len(s)
           /\ Range(Append(s, e)) = Range(s) \cup {e} /\ Append(s, e) # <<>>
<1>1. /\ Append(s, e) \in Seq(S) /\ Len(Append(s, e)) = Len(s) + 1 /\ Len(s) \in Nat
      /\ \A i \in 1 .. Len(s) : Append(s, e)[i] = s[i]
      /\ Append(s, e)[Len(s) + 1] = e
      /\ DOMAIN Append(s, e) = 1 .. Len(s) + 1 /\ DOMAIN s = 1 .. Len(s)
  OBVIOUS
<1>2. Append(s, e) # <<>>
  BY <1>1
<1>3. Range(Append(s, e)) = {Append(s, e)[i] : i \in 1 .. Len(s) + 1} /\ Range(s) = {s[i] : i \in 1 .. Len(s)}
  BY <1>1 DEF Range
<1>4. Range(Append(s, e)) = Range(s) \cup {e}
  <2>1. ASSUME NEW x \in Range(Append(s, e)) PROVE x \in Range(s) \cup {e}
    BY <1>1, <1>3
  <2>2. ASSUME NEW x \in Range(s) \cup {e} PROVE x \in Range(Append(s, e))
    BY <1>1, <1>3
  <2> QED BY <2>1, <2>2
<1> QED BY <1>1, <1>2, <1>4
-----------------------------------------------------------------------------
(* The walk of an image *)

LEMMA Fields ==
    ASSUME NEW p \in Locals
    PROVE  /\ p.pc \in {"idle", "visit", "blobs", "put", "check", "persist", "done", "failed"}
           /\ p.root \in Manifests \cup {NoManifest} /\ p.ref \in References \cup {NoManifest}
           /\ p.broken \in Damages \cup {{}} /\ p.stack \in Seq(Frame) /\ p.order \in Seq(Manifests)
           /\ p.blobs \in SUBSET Blobs /\ p.left \in SUBSET Blobs /\ p.next \in Nat \ {0} /\ p.at \in Nat \ {0}
           /\ p.tries \in Nat /\ p.refused \in Manifests \cup Blobs \cup {NoManifest}
BY DEF Locals

LEMMA Updates ==
    ASSUME NEW p \in Locals
    PROVE  /\ \A x \in {"idle", "visit", "blobs", "put", "check", "persist", "done", "failed"} :
                 [p EXCEPT !.pc = x] \in Locals
           /\ \A x \in Manifests : [p EXCEPT !.root = x] \in Locals
           /\ \A x \in References : [p EXCEPT !.ref = x] \in Locals
           /\ \A x \in Damages \cup {{}} : [p EXCEPT !.broken = x] \in Locals
           /\ \A x \in Seq(Frame) : [p EXCEPT !.stack = x] \in Locals
           /\ \A x \in Seq(Manifests) : [p EXCEPT !.order = x] \in Locals
           /\ \A x \in SUBSET Blobs : [p EXCEPT !.blobs = x] \in Locals
           /\ \A x \in SUBSET Blobs : [p EXCEPT !.left = x] \in Locals
           /\ \A x \in Nat \ {0} : [p EXCEPT !.next = x] \in Locals
           /\ \A x \in Nat \ {0} : [p EXCEPT !.at = x] \in Locals
           /\ \A x \in Nat : [p EXCEPT !.tries = x] \in Locals
           /\ \A x \in Manifests \cup Blobs : [p EXCEPT !.refused = x] \in Locals
<1>1. \A x \in {"idle", "visit", "blobs", "put", "check", "persist", "done", "failed"} : [p EXCEPT !.pc = x] \in Locals
  BY DEF Locals
<1>2. \A x \in Manifests : [p EXCEPT !.root = x] \in Locals
  BY DEF Locals
<1>3. \A x \in References : [p EXCEPT !.ref = x] \in Locals
  BY DEF Locals
<1>4. \A x \in Damages \cup {{}} : [p EXCEPT !.broken = x] \in Locals
  BY DEF Locals
<1>5. \A x \in Seq(Frame) : [p EXCEPT !.stack = x] \in Locals
  BY DEF Locals
<1>6. \A x \in Seq(Manifests) : [p EXCEPT !.order = x] \in Locals
  BY DEF Locals
<1>7. \A x \in SUBSET Blobs : [p EXCEPT !.blobs = x] \in Locals
  BY DEF Locals
<1>8. \A x \in SUBSET Blobs : [p EXCEPT !.left = x] \in Locals
  BY DEF Locals
<1>9. \A x \in Nat \ {0} : [p EXCEPT !.next = x] \in Locals
  BY DEF Locals
<1>10. \A x \in Nat \ {0} : [p EXCEPT !.at = x] \in Locals
  BY DEF Locals
<1>11. \A x \in Nat : [p EXCEPT !.tries = x] \in Locals
  BY DEF Locals
<1>12. \A x \in Manifests \cup Blobs : [p EXCEPT !.refused = x] \in Locals
  BY DEF Locals
<1> QED BY <1>1, <1>2, <1>3, <1>4, <1>5, <1>6, <1>7, <1>8, <1>9, <1>10, <1>11, <1>12

LEMMA Frames ==
    ASSUME NEW p \in Locals
    PROVE  /\ Len(p.stack) \in Nat /\ DOMAIN p.stack = 1 .. Len(p.stack) /\ (p.stack # <<>> <=> Len(p.stack) > 0)
           /\ \A i \in 1 .. Len(p.stack) : p.stack[i].m \in Manifests /\ p.stack[i].next \in Nat \ {0}
           /\ Len(p.order) \in Nat /\ DOMAIN p.order = 1 .. Len(p.order) /\ Range(p.order) \subseteq Manifests
           /\ Range(p.order) = {p.order[i] : i \in 1 .. Len(p.order)}
           /\ \A i \in 1 .. Len(p.order) : p.order[i] \in Manifests
<1>1. p.stack \in Seq(Frame) /\ p.order \in Seq(Manifests)
  BY Fields
<1>2. Len(p.stack) \in Nat /\ DOMAIN p.stack = 1 .. Len(p.stack) /\ (p.stack # <<>> <=> Len(p.stack) > 0)
  BY <1>1
<1>3. \A i \in 1 .. Len(p.stack) : p.stack[i] \in Frame
  BY <1>1, ElementOfSeq
<1>4. \A i \in 1 .. Len(p.order) : p.order[i] \in Manifests
  BY <1>1, ElementOfSeq
<1>5. Len(p.order) \in Nat /\ DOMAIN p.order = 1 .. Len(p.order)
  BY <1>1
<1>6. Range(p.order) \subseteq Manifests /\ Range(p.order) = {p.order[i] : i \in 1 .. Len(p.order)}
  BY <1>1, RangeOf
<1> QED BY <1>2, <1>3, <1>4, <1>5, <1>6 DEF Frame

LEMMA OrderedStays ==
    ASSUME NEW p, NEW q, Ordered(p), q.root = p.root, q.order = p.order, p.blobs \subseteq q.blobs
    PROVE  Ordered(q)
<1>1. IsInjective(q.order) /\ Range(q.order) \subseteq Needed[q.root]
  BY DEF Ordered
<1>2. ASSUME NEW j \in DOMAIN q.order
      PROVE  /\ \A m \in Named(q.order[j], "manifest") : \E i \in 1 .. j - 1 : q.order[i] = m
             /\ Named(q.order[j], "blob") \subseteq q.blobs
  <2>1. /\ \A m \in Named(p.order[j], "manifest") : \E i \in 1 .. j - 1 : p.order[i] = m
        /\ Named(p.order[j], "blob") \subseteq p.blobs
    BY DEF Ordered
  <2> QED BY <2>1, Zenon
<1> QED BY <1>1, <1>2 DEF Ordered

\* The manifest on top has passed a descriptor, whose manifest may be visited next.
LEMMA Advances ==
    ASSUME NEW p \in Locals, NEW q \in Locals, NEW n \in Nat, n = Len(p.stack), n > 0,
           p.root \in Manifests, Ordered(p), Open(p), Collected(q),
           q.root = p.root, q.order = p.order, p.blobs \subseteq q.blobs,
           \A i \in 1 .. n : q.stack[i].m = p.stack[i].m,
           \A i \in 1 .. n - 1 : q.stack[i].next = p.stack[i].next,
           q.stack[n].next = p.stack[n].next + 1,
           p.stack[n].next \in DOMAIN Descriptors[p.stack[n].m] =>
              Settled(q, n, Descriptors[p.stack[n].m][p.stack[n].next]),
           \/ Len(q.stack) = n
           \/ /\ Len(q.stack) = n + 1 /\ q.stack[n + 1].next = 1
              /\ q.stack[n + 1].m \in Named(p.stack[n].m, "manifest") \ Range(p.order)
    PROVE  Ordered(q) /\ Open(q) /\ Collected(q)
<1>1. Ordered(q)
  BY OrderedStays
<1>2. /\ Len(q.stack) \in Nat /\ DOMAIN q.stack = 1 .. Len(q.stack) /\ DOMAIN p.stack = 1 .. n
      /\ \A i \in 1 .. Len(q.stack) : q.stack[i].m \in Manifests /\ q.stack[i].next \in Nat \ {0}
      /\ \A i \in 1 .. n : p.stack[i].m \in Manifests /\ p.stack[i].next \in Nat \ {0}
      /\ p.stack # <<>> /\ q.stack # <<>>
  BY Frames
<1>3. q.stack[1].m = q.root
  BY <1>2 DEF Open
<1>4. ASSUME NEW i \in DOMAIN q.stack
      PROVE  /\ q.stack[i].m \in Needed[q.root] \ Range(q.order)
             /\ \A k \in DOMAIN Descriptors[q.stack[i].m] :
                   k < q.stack[i].next => Settled(q, i, Descriptors[q.stack[i].m][k])
  <2>1. CASE i \in 1 .. n
    <3>1. q.stack[i].m \in Needed[q.root] \ Range(q.order)
      BY <2>1, <1>2 DEF Open
    <3>2. ASSUME NEW k \in DOMAIN Descriptors[q.stack[i].m], k < q.stack[i].next
          PROVE  Settled(q, i, Descriptors[q.stack[i].m][k])
      <4>0. k \in Nat /\ i \in Nat
        BY <1>2, DescriptorTypes, SMTT(30)
      <4>1. CASE k < p.stack[i].next
        <5>1. Settled(p, i, Descriptors[q.stack[i].m][k])
          BY <2>1, <1>2, <3>2, <4>1 DEF Open
        <5> QED BY <5>1, <2>1, <1>2, <4>0, SMTT(30) DEF Settled
      <4>2. CASE ~(k < p.stack[i].next)
        <5>1. i = n
          <6>1. i # n => i \in 1 .. n - 1
            BY <2>1
          <6> QED BY <6>1, <3>2, <4>2
        <5>2. k < p.stack[n].next + 1 /\ p.stack[n].next \in Nat
          BY <5>1, <1>2, <3>2
        <5>3. k = p.stack[n].next
          BY <5>1, <5>2, <4>0, <4>2, SMTT(30)
        <5> QED BY <5>1, <5>3, <3>2, <2>1
      <4> QED BY <4>1, <4>2
    <3> QED BY <3>1, <3>2
  <2>2. CASE i \notin 1 .. n
    <3>1. i = n + 1 /\ q.stack[i].next = 1 /\ q.stack[i].m \in Named(p.stack[n].m, "manifest") \ Range(p.order)
      BY <2>2, <1>2
    <3>2. p.stack[n].m \in Needed[p.root]
      BY <1>2 DEF Open
    <3>3. q.stack[i].m \in Needed[q.root]
      BY <3>1, <3>2, NeededClosed DEF Closed
    <3>4. \A k \in DOMAIN Descriptors[q.stack[i].m] : ~(k < 1)
      BY <1>2, DescriptorTypes
    <3> QED BY <3>1, <3>3, <3>4
  <2> QED BY <2>1, <2>2
<1>5. ASSUME NEW i \in DOMAIN q.stack, NEW j \in DOMAIN q.stack, i < j
      PROVE  Height[q.stack[j].m] < Height[q.stack[i].m]
  <2>1. CASE j \in 1 .. n
    <3>1. i \in 1 .. n
      BY <1>2, <1>5, <2>1
    <3> QED BY <1>2, <1>5, <2>1, <3>1 DEF Open
  <2>2. CASE j \notin 1 .. n
    <3>1. j = n + 1 /\ q.stack[j].m \in Named(p.stack[n].m, "manifest") /\ i \in 1 .. n
      BY <2>2, <1>2, <1>5
    <3>2. Height[q.stack[j].m] < Height[p.stack[n].m]
      BY <3>1, <1>2, Heights
    <3>3. i = n \/ Height[p.stack[n].m] < Height[p.stack[i].m]
      <4>1. i = n \/ i < n
        BY <3>1
      <4>2. i \in DOMAIN p.stack /\ n \in DOMAIN p.stack
        BY <3>1, <1>2
      <4> QED BY <4>1, <4>2 DEF Open
    <3>4. /\ Height[q.stack[j].m] \in Nat /\ Height[p.stack[n].m] \in Nat /\ Height[p.stack[i].m] \in Nat
          /\ q.stack[i].m = p.stack[i].m
      BY <3>1, <1>2, Heights, SMTT(30)
    <3> QED BY <3>2, <3>3, <3>4, SMTT(30)
  <2> QED BY <2>1, <2>2
<1>6. Open(q)
  BY <1>2, <1>3, <1>4, <1>5 DEF Open
<1> QED BY <1>1, <1>6
\* visit_manifest returns.
LEMMA Leaves ==
    ASSUME NEW p \in Locals, NEW q \in Locals, NEW n \in Nat, n = Len(p.stack), n > 0,
           p.root \in Manifests, Ordered(p), Open(p), Collected(p),
           p.stack[n].next > Len(Descriptors[p.stack[n].m]),
           q.root = p.root, q.blobs = p.blobs, q.broken = p.broken,
           q.stack = Front(p.stack), q.order = Append(p.order, p.stack[n].m)
    PROVE  Ordered(q) /\ Open(q) /\ Collected(q)
<1> DEFINE m == p.stack[n].m
           l == Len(p.order)
<1>1. /\ DOMAIN p.stack = 1 .. n /\ p.stack # <<>> /\ m \in Manifests /\ p.stack[n].next \in Nat
      /\ \A i \in 1 .. n : p.stack[i].m \in Manifests
      /\ p.order \in Seq(Manifests) /\ p.stack \in Seq(Frame)
      /\ l \in Nat /\ DOMAIN p.order = 1 .. l /\ Range(p.order) = {p.order[i] : i \in 1 .. l}
  <2>1. /\ DOMAIN p.stack = 1 .. n /\ p.stack # <<>>
        /\ \A i \in 1 .. n : p.stack[i].m \in Manifests /\ p.stack[i].next \in Nat \ {0}
    BY Frames
  <2>2. l \in Nat /\ DOMAIN p.order = 1 .. l /\ Range(p.order) = {p.order[i] : i \in 1 .. l}
    BY Frames
  <2>3. p.order \in Seq(Manifests) /\ p.stack \in Seq(Frame)
    BY Fields
  <2>4. n \in 1 .. n
    OBVIOUS
  <2> QED BY <2>1, <2>2, <2>3, <2>4
<1>2. /\ q.stack \in Seq(Frame) /\ Len(q.stack) = n - 1 /\ \A i \in 1 .. n - 1 : q.stack[i] = p.stack[i]
      /\ DOMAIN q.stack = 1 .. n - 1 /\ (q.stack = <<>> <=> n = 1)
  <2>1. q.stack \in Seq(Frame) /\ Len(q.stack) = n - 1 /\ \A i \in 1 .. n - 1 : q.stack[i] = p.stack[i]
    <3>1. \A s \in Seq(Frame) : s # <<>> =>
             /\ Front(s) \in Seq(Frame) /\ Len(Front(s)) = Len(s) - 1
             /\ \A i \in 1 .. Len(s) - 1 : Front(s)[i] = s[i]
      BY FrontOf
    <3> QED BY <1>1, <3>1, Zenon
  <2>2. DOMAIN q.stack = 1 .. Len(q.stack) /\ (q.stack = <<>> <=> Len(q.stack) = 0)
    BY <2>1, Domains, Zenon
  <2>3. n - 1 = 0 <=> n = 1
    OBVIOUS
  <2> QED BY <2>1, <2>2, <2>3, Zenon
<1>3. /\ q.order \in Seq(Manifests) /\ Len(q.order) = l + 1 /\ \A i \in 1 .. l : q.order[i] = p.order[i]
      /\ q.order[l + 1] = m /\ DOMAIN q.order = 1 .. l + 1 /\ Range(q.order) = Range(p.order) \cup {m}
  BY <1>1, AppendOf
<1>4. m \in Needed[p.root] \ Range(p.order)
  BY <1>1, SMTT(30) DEF Open
<1>5. ASSUME NEW k \in DOMAIN Descriptors[m]
      PROVE  Settled(p, n, Descriptors[m][k])
  <2>1. k < p.stack[n].next
    <3>1. k \in 1 .. Len(Descriptors[m]) /\ Len(Descriptors[m]) \in Nat
      BY <1>1, DescriptorTypes
    <3> QED BY <1>1, <3>1
  <2>2. n \in DOMAIN p.stack
    BY <1>1
  <2>3. \A i \in DOMAIN p.stack : \A x \in DOMAIN Descriptors[p.stack[i].m] :
           x < p.stack[i].next => Settled(p, i, Descriptors[p.stack[i].m][x])
    BY SMTT(30) DEF Open
  <2> QED BY <2>1, <2>2, <2>3, Zenon
<1>6. \A d \in Named(m, "manifest") : \E i \in 1 .. l : p.order[i] = d
  <2>1. ASSUME NEW k \in DOMAIN Descriptors[m], Descriptors[m][k].rel = "manifest"
        PROVE  Descriptors[m][k].of \in Range(p.order)
    BY <1>5, <2>1 DEF Settled
  <2> QED BY <1>1, <2>1 DEF Named
<1>7. Named(m, "blob") \subseteq p.blobs
  BY <1>5 DEF Settled, Named
<1>8. Ordered(q)
  <2>1. IsInjective(q.order)
    <3>1. \A i, j \in 1 .. l : p.order[i] = p.order[j] => i = j
      BY <1>1 DEF Ordered, IsInjective
    <3>2. \A i \in 1 .. l : p.order[i] # m
      BY <1>1, <1>4
    <3>3. ASSUME NEW i \in 1 .. l + 1, NEW j \in 1 .. l + 1, q.order[i] = q.order[j]
          PROVE  i = j
      <4>1. (i \in 1 .. l \/ i = l + 1) /\ (j \in 1 .. l \/ j = l + 1)
        BY <1>1
      <4> QED BY <4>1, <3>1, <3>2, <3>3, <1>3
    <3> QED BY <3>3, <1>3 DEF IsInjective
  <2>2. Range(q.order) \subseteq Needed[q.root]
    BY <1>3, <1>4 DEF Ordered
  <2>3. ASSUME NEW j \in DOMAIN q.order
        PROVE  /\ \A d \in Named(q.order[j], "manifest") : \E i \in 1 .. j - 1 : q.order[i] = d
               /\ Named(q.order[j], "blob") \subseteq q.blobs
    <3>1. CASE j = l + 1
      <4>1. l + 1 - 1 = l
        BY <1>1
      <4> QED BY <1>3, <1>6, <1>7, <3>1, <4>1
    <3>2. CASE j \in 1 .. l
      <4>1. /\ \A d \in Named(p.order[j], "manifest") : \E i \in 1 .. j - 1 : p.order[i] = d
            /\ Named(p.order[j], "blob") \subseteq p.blobs
        BY <1>1, <3>2 DEF Ordered
      <4>2. \A i \in 1 .. j - 1 : i \in 1 .. l
        BY <1>1, <3>2
      <4> QED BY <1>3, <3>2, <4>1, <4>2
    <3>3. j \in 1 .. l + 1
      BY <1>3
    <3>4. j = l + 1 \/ j \in 1 .. l
      BY <1>1, <3>3, SMTT(30)
    <3> QED BY <3>1, <3>2, <3>4, Zenon
  <2> QED BY <2>1, <2>2, <2>3 DEF Ordered
<1>9. Open(q)
  <2>1. IF q.stack = <<>> THEN q.root \in Range(q.order) ELSE q.stack[1].m = q.root
    <3>1. p.stack[1].m = p.root
      BY <1>1 DEF Open
    <3>2. CASE n = 1
      <4>1. p.root = m
        BY <3>1, <3>2
      <4> QED BY <1>2, <1>3, <3>2, <4>1
    <3>3. CASE n # 1
      <4>1. 1 \in 1 .. n - 1
        BY <3>3, BelowOne, Zenon
      <4>2. q.stack[1] = p.stack[1] /\ q.stack # <<>>
        BY <1>2, <3>3, <4>1, Zenon
      <4> QED BY <3>1, <4>2
    <3> QED BY <3>2, <3>3
  <2>2. ASSUME NEW i \in 1 .. n - 1
        PROVE  /\ q.stack[i].m \in Needed[q.root] \ Range(q.order)
               /\ \A k \in DOMAIN Descriptors[q.stack[i].m] :
                     k < q.stack[i].next => Settled(q, i, Descriptors[q.stack[i].m][k])
    <3>0. i \in DOMAIN p.stack /\ n \in DOMAIN p.stack /\ i < n /\ q.stack[i] = p.stack[i]
      BY <1>1, <1>2
    <3>1. p.stack[i].m \in Needed[p.root] \ Range(p.order)
      BY <3>0 DEF Open
    <3>2. Height[m] < Height[p.stack[i].m] /\ Height[m] \in Nat
      BY <1>1, <3>0, Heights DEF Open
    <3>3. p.stack[i].m # m
      BY <3>2
    <3>4. ASSUME NEW k \in DOMAIN Descriptors[p.stack[i].m], k < p.stack[i].next
          PROVE  Settled(q, i, Descriptors[p.stack[i].m][k])
      <4>1. Settled(p, i, Descriptors[p.stack[i].m][k])
        BY <3>0, <3>4 DEF Open
      <4>2. i + 1 = n \/ (i + 1 \in 1 .. n - 1 /\ i < n - 1)
        OBVIOUS
      <4> QED BY <1>2, <1>3, <4>1, <4>2 DEF Settled
    <3> QED BY <1>3, <3>0, <3>1, <3>3, <3>4
  <2>3. ASSUME NEW i \in 1 .. n - 1, NEW j \in 1 .. n - 1, i < j
        PROVE  Height[q.stack[j].m] < Height[q.stack[i].m]
    <3>1. i \in DOMAIN p.stack /\ j \in DOMAIN p.stack
      BY <1>1
    <3> QED BY <1>2, <2>3, <3>1 DEF Open
  <2> QED BY <1>2, <2>1, <2>2, <2>3 DEF Open
<1>10. Collected(q)
  BY DEF Collected
<1> QED BY <1>8, <1>9, <1>10

LEMMA Starts ==
    ASSUME NEW q, q.root \in Manifests, q.stack = <<[m |-> q.root, next |-> 1]>>, q.order = <<>>, q.blobs = {}
    PROVE  Ordered(q) /\ Open(q) /\ Collected(q)
<1>1. Range(q.order) = {} /\ DOMAIN q.order = {}
  BY DEF Range
<1>2. Ordered(q)
  BY <1>1 DEF Ordered, IsInjective
<1>3. /\ q.stack # <<>> /\ DOMAIN q.stack = {1} /\ q.stack[1] = [m |-> q.root, next |-> 1]
  OBVIOUS
<1>4. q.stack[1].m = q.root /\ q.stack[1].next = 1 /\ q.root \in Needed[q.root]
  BY <1>3, NeededClosed
<1>5. \A k \in DOMAIN Descriptors[q.root] : ~(k < 1)
  BY DescriptorTypes
<1>6. Open(q)
  BY <1>1, <1>3, <1>4, <1>5 DEF Open
<1> QED BY <1>2, <1>6 DEF Collected

LEMMA SavedWalk ==
    ASSUME NEW q, NEW m \in Saved, q.root = m, q.stack = <<>>, q.order = <<m>>, q.blobs = Named(m, "blob"),
           q.broken = {}
    PROVE  Ordered(q) /\ Open(q) /\ Collected(q)
<1>1. m \in Manifests /\ Needed[m] = {m} /\ Named(m, "manifest") = {}
  BY Saves, SavedAssumption
<1>2. Range(q.order) = {m} /\ DOMAIN q.order = {1} /\ q.order[1] = m
  BY DEF Range
<1>3. Ordered(q)
  BY <1>1, <1>2 DEF Ordered, IsInjective
<1>4. DOMAIN q.stack = {}
  OBVIOUS
<1>5. Open(q)
  BY <1>2, <1>4 DEF Open
<1>6. Collected(q)
  BY <1>1 DEF Collected
<1> QED BY <1>3, <1>5, <1>6

LEMMA WalkStays ==
    ASSUME NEW p, NEW q, Ordered(p), Open(p), Collected(p), q.root = p.root, q.stack = p.stack, q.order = p.order,
           q.blobs = p.blobs, q.broken = p.broken \/ q.broken = {}
    PROVE  Ordered(q) /\ Open(q) /\ Collected(q)
<1>1. Ordered(q)
  BY OrderedStays
<1>2. Collected(q)
  BY DEF Collected
<1>3. \A i, d : Settled(p, i, d) => Settled(q, i, d)
  BY DEF Settled
<1>4. Open(q)
  BY <1>3 DEF Open
<1> QED BY <1>1, <1>2, <1>4

\* A walk that is over has found everything, in an order in which it can be put.
LEMMA WalkIsWhole ==
    ASSUME NEW p \in Locals, p.root \in Manifests, p.stack = <<>>, Ordered(p), Open(p), Collected(p)
    PROVE  /\ Range(p.order) = Needed[p.root] /\ IsInjective(p.order)
           /\ \A j \in DOMAIN p.order : Named(p.order[j], "manifest") \subseteq {p.order[i] : i \in 1 .. j - 1}
           /\ p.blobs = UNION {Named(m, "blob") : m \in Needed[p.root]}
           /\ p.blobs \cap p.broken = {}
<1>1. /\ Len(p.order) \in Nat /\ DOMAIN p.order = 1 .. Len(p.order) /\ Range(p.order) \subseteq Manifests
      /\ Range(p.order) = {p.order[i] : i \in 1 .. Len(p.order)}
  BY Frames
<1>2. Closed(Range(p.order))
  <2>1. ASSUME NEW j \in 1 .. Len(p.order), NEW d \in Named(p.order[j], "manifest")
        PROVE  d \in Range(p.order)
    <3>1. PICK i \in 1 .. j - 1 : p.order[i] = d
      BY <1>1 DEF Ordered
    <3>2. i \in 1 .. Len(p.order)
      BY <1>1
    <3> QED BY <1>1, <3>1, <3>2
  <2> QED BY <1>1, <2>1 DEF Closed
<1>3. Range(p.order) = Needed[p.root]
  <2>1. p.root \in Range(p.order)
    BY DEF Open
  <2>2. Needed[p.root] \subseteq Range(p.order)
    BY <1>1, <1>2, <2>1, NeededLeast
  <2> QED BY <2>2 DEF Ordered
<1>4. ASSUME NEW j \in DOMAIN p.order
      PROVE  Named(p.order[j], "manifest") \subseteq {p.order[i] : i \in 1 .. j - 1}
  BY DEF Ordered
<1>5. UNION {Named(m, "blob") : m \in Needed[p.root]} \subseteq p.blobs
  <2>1. ASSUME NEW m \in Needed[p.root]
        PROVE  Named(m, "blob") \subseteq p.blobs
    <3>1. PICK j \in 1 .. Len(p.order) : p.order[j] = m
      BY <1>1, <1>3
    <3> QED BY <1>1, <3>1 DEF Ordered
  <2> QED BY <2>1
<1> QED BY <1>3, <1>4, <1>5 DEF Ordered, Collected
-----------------------------------------------------------------------------
(* What the steps of clients and of the server do to the repository *)

\* A step takes nothing from the repository and leaves the listing alone.
Grows ==
    /\ live \subseteq live' /\ live' \subseteq Manifests /\ held \subseteq held' /\ held' \subseteq Blobs
    /\ tag' \in [Names -> Manifests \cup {NoManifest}] /\ Tagged \subseteq Tagged' /\ StoreInv'
    /\ \A n \in Names : Range(history[n]) \subseteq Range(history'[n])
    /\ late' \subseteq [m : Manifests, ref : References \cup Manifests]
    /\ UNCHANGED <<listing, deletes>>

LEMMA NothingGrows ==
    ASSUME IInv, UNCHANGED <<live, tag, history, held, late, listing, deletes>>
    PROVE  Grows
<1>1. StoreInv' /\ Tagged' = Tagged
  BY DEF IInv, StoreInv, Tagged
<1> QED BY <1>1 DEF IInv, TypeOK, Grows

LEMMA Commits ==
    ASSUME TypeOK, StoreInv, NEW q, q.m \in Manifests, Commit(q)
    PROVE  /\ live' = live \cup {q.m} /\ tag' \in [Names -> Manifests \cup {NoManifest}]
           /\ Tagged \subseteq Tagged' /\ StoreInv'
           /\ \A n \in Names : Range(history[n]) \subseteq Range(history'[n])
           /\ q.ref \in Names => q.m \in Range(history'[q.ref])
<1> USE DEF Commit
<1>1. CASE q.ref \notin Names
  <2>1. live' = live \cup {q.m} /\ tag' = tag /\ history' = history
    BY <1>1 DEF Store!Push
  <2>2. StoreInv' /\ Tagged' = Tagged
    BY <2>1 DEF StoreInv, Tagged
  <2> QED BY <1>1, <2>1, <2>2 DEF TypeOK
<1>2. CASE q.ref \in Names
  <2> DEFINE k == q.ref
  <2>1. /\ live' = live \cup {q.m} /\ tag' = [tag EXCEPT ![k] = q.m]
        /\ \/ history' = [history EXCEPT ![k] = Append(@, q.m)]
           \/ tag[k] = q.m /\ history' = history
    BY <1>2 DEF Store!PushTag
  <2>2. q.m # NoManifest
    BY ImagePushAssumption
  <2>3. tag' \in [Names -> Manifests \cup {NoManifest}] /\ \A n \in Names : tag'[n] = IF n = k THEN q.m ELSE tag[n]
    BY <1>2, <2>1 DEF TypeOK
  <2>4. Tagged \subseteq Tagged'
    BY <2>2, <2>3 DEF Tagged
  <2>5. /\ history' \in [Names -> Seq(Manifests \cup {NoManifest})]
        /\ \A n \in Names : Range(history[n]) \subseteq Range(history'[n])
        /\ q.m \in Range(history'[k])
    <3>1. CASE history' = [history EXCEPT ![k] = Append(@, q.m)]
      <4>1. history[k] \in Seq(Manifests \cup {NoManifest}) /\ q.m \in Manifests \cup {NoManifest}
        BY <1>2 DEF StoreInv
      <4>2. /\ Append(history[k], q.m) \in Seq(Manifests \cup {NoManifest})
            /\ Range(Append(history[k], q.m)) = Range(history[k]) \cup {q.m}
        BY <4>1, AppendOf
      <4>3. \A n \in Names : history'[n] = IF n = k THEN Append(history[k], q.m) ELSE history[n]
        BY <3>1 DEF StoreInv
      <4>4. history' \in [Names -> Seq(Manifests \cup {NoManifest})]
        BY <1>2, <3>1, <4>2 DEF StoreInv
      <4> QED BY <1>2, <4>2, <4>3, <4>4
    <3>2. CASE tag[k] = q.m /\ history' = history
      BY <1>2, <2>2, <3>2 DEF StoreInv
    <3> QED BY <2>1, <3>1, <3>2
  <2>6. \A n \in Names : tag'[n] # NoManifest => tag'[n] \in Range(history'[n])
    BY <2>3, <2>5 DEF StoreInv
  <2>7. StoreInv'
    BY <2>5, <2>6 DEF StoreInv
  <2> QED BY <2>1, <2>3, <2>4, <2>5, <2>7
<1> QED BY <1>1, <1>2

LEMMA ProgressStays ==
    ASSUME NEW p, NEW alive, NEW there, NEW past, NEW alive2, NEW there2, NEW past2,
           Progress(p, alive, there, past), alive \subseteq alive2, there \subseteq there2,
           \A n \in Names : Range(past[n]) \subseteq Range(past2[n])
    PROVE  Progress(p, alive2, there2, past2)
BY DEF Progress, Stored

LEMMA SharedStep ==
    ASSUME IInv, Grows
    PROVE  /\ live' \subseteq Manifests /\ held' \subseteq Blobs /\ tag' \in [Names -> Manifests \cup {NoManifest}]
           /\ late' \subseteq [m : Manifests, ref : References \cup Manifests]
           /\ listing' \in Listing /\ deletes' \in 0 .. MaxDeletes
           /\ StoreInv' /\ ListInv'
<1>1. ListInv'
  BY DEF IInv, Grows, ListInv, ListingComplete
<1> QED BY <1>1 DEF IInv, Grows, TypeOK

\* A step of one client, and of the request that it waits for.
LEMMA ClientStep ==
    ASSUME IInv, Grows, NEW c \in Clients, NEW new \in Locals, Stay(c, new),
           Phase(new), new.root # NoManifest => Ordered(new) /\ Open(new) /\ Collected(new),
           undone' \in [Clients -> SUBSET Manifests], \A d \in Clients \ {c} : undone'[d] = undone[d],
           new.refused # NoManifest => new.refused \in undone'[c],
           Progress(new, live' \cup undone'[c], held', history')
    PROVE  IInv'
<1>1. push \in [Clients -> Locals] /\ push' = [push EXCEPT ![c] = new]
  BY DEF IInv, TypeOK, Stay
<1>2. push' \in [Clients -> Locals] /\ push'[c] = new /\ \A d \in Clients \ {c} : push'[d] = push[d]
  BY <1>1
<1>3. TypeOK'
  BY <1>2, SharedStep DEF TypeOK
<1>4. WalkInv'
  BY <1>2 DEF IInv, WalkInv
<1>5. RefusedOnlyWhenUndone'
  BY <1>2 DEF IInv, RefusedOnlyWhenUndone
<1>6. PutInv'
  <2>1. ASSUME NEW d \in Clients \ {c}
        PROVE  Progress(push'[d], live' \cup undone'[d], held', history')
    <3>1. Progress(push[d], live \cup undone[d], held, history)
      BY DEF IInv, PutInv
    <3>2. /\ live \cup undone[d] \subseteq live' \cup undone'[d] /\ held \subseteq held'
          /\ \A n \in Names : Range(history[n]) \subseteq Range(history'[n])
      BY DEF Grows
    <3> QED BY <1>2, <3>1, <3>2, ProgressStays
  <2> QED BY <1>2, <2>1 DEF PutInv
<1> QED BY <1>3, <1>4, <1>5, <1>6, SharedStep DEF IInv

LEMMA CommitLateStep ==
    ASSUME IInv, CommitLate
    PROVE  IInv'
<1>1. PICK q \in late : Commit(q) /\ late' = late \ {q}
  BY DEF CommitLate
<1>2. UNCHANGED <<held, push, undone, listing, deletes>>
  BY DEF CommitLate
<1>3. q.m \in Manifests
  BY DEF IInv, TypeOK
<1>4. Grows
  BY <1>1, <1>2, <1>3, Commits DEF IInv, TypeOK, Grows
<1>5. TypeOK'
  BY <1>2, <1>4, SharedStep DEF IInv, TypeOK
<1>6. WalkInv' /\ RefusedOnlyWhenUndone'
  BY <1>2 DEF IInv, WalkInv, RefusedOnlyWhenUndone
<1>7. PutInv'
  <2>1. ASSUME NEW d \in Clients
        PROVE  Progress(push'[d], live' \cup undone'[d], held', history')
    <3>1. Progress(push[d], live \cup undone[d], held, history)
      BY DEF IInv, PutInv
    <3>2. /\ live \cup undone[d] \subseteq live' \cup undone'[d] /\ held \subseteq held'
          /\ \A n \in Names : Range(history[n]) \subseteq Range(history'[n])
      BY <1>2, <1>4 DEF Grows
    <3> QED BY <1>2, <3>1, <3>2, ProgressStays
  <2> QED BY <2>1 DEF PutInv
<1> QED BY <1>4, <1>5, <1>6, <1>7, SharedStep DEF IInv
-----------------------------------------------------------------------------
(* jcr *)

LEMMA Client ==
    ASSUME IInv, NEW c \in Clients
    PROVE  /\ push[c] \in Locals /\ Phase(push[c])
           /\ push[c].root # NoManifest =>
                 push[c].root \in Manifests /\ Ordered(push[c]) /\ Open(push[c]) /\ Collected(push[c])
           /\ Progress(push[c], live \cup undone[c], held, history)
           /\ push[c].refused # NoManifest => push[c].refused \in undone[c]
           /\ undone \in [Clients -> SUBSET Manifests]
<1>1. push[c] \in Locals /\ undone \in [Clients -> SUBSET Manifests]
  BY DEF IInv, TypeOK
<1>2. push[c].root \in Manifests \cup {NoManifest}
  BY <1>1, Fields
<1> QED BY <1>1, <1>2 DEF IInv, WalkInv, PutInv, RefusedOnlyWhenUndone

\* A step that changes nothing but the client.
LEMMA LocalStep ==
    ASSUME IInv, Local, NEW c \in Clients, NEW new \in Locals, Stay(c, new),
           Phase(new), new.root # NoManifest => Ordered(new) /\ Open(new) /\ Collected(new),
           new.refused # NoManifest => new.refused \in undone[c],
           Progress(new, live \cup undone[c], held, history)
    PROVE  IInv'
<1>1. Grows
  BY NothingGrows DEF Local
<1>2. live' = live /\ held' = held /\ history' = history /\ undone' = undone
  BY DEF Local
<1>3. /\ undone' \in [Clients -> SUBSET Manifests] /\ \A d \in Clients \ {c} : undone'[d] = undone[d]
      /\ new.refused # NoManifest => new.refused \in undone'[c]
      /\ Progress(new, live' \cup undone'[c], held', history')
  BY <1>2, Client
<1> QED BY <1>1, <1>3, ClientStep

LEMMA IdleIsTyped == Idle \in Locals /\ Idle.pc = "idle"
BY DEF Idle, Locals

LEMMA FailsStep ==
    ASSUME IInv, Grows, NEW c \in Clients, Fails(c), UNCHANGED undone
    PROVE  IInv'
<1> DEFINE new == [Idle EXCEPT !.pc = "failed"]
<1>1. /\ new \in Locals /\ new.pc = "failed" /\ new.root = NoManifest /\ new.stack = <<>>
      /\ new.refused = NoManifest
  <2>1. new \in Locals
    BY IdleIsTyped, Updates
  <2>2. /\ new.pc = "failed" /\ new.root = NoManifest /\ new.stack = <<>>
        /\ new.refused = NoManifest
    BY DEF Idle
  <2> QED BY <2>1, <2>2
<1>2. Stay(c, new)
  BY DEF Fails
<1> HIDE DEF new
<1>3. Phase(new) /\ Progress(new, live' \cup undone'[c], held', history')
  BY <1>1 DEF Phase, Progress
<1>4. undone' \in [Clients -> SUBSET Manifests] /\ \A d \in Clients \ {c} : undone'[d] = undone[d]
  BY Client
<1> QED BY <1>1, <1>2, <1>3, <1>4, ClientStep

LEMMA LocalFailsStep ==
    ASSUME IInv, Local, NEW c \in Clients, Fails(c)
    PROVE  IInv'
<1>1. Grows /\ UNCHANGED undone
  BY NothingGrows DEF Local
<1> QED BY <1>1, FailsStep

LEMMA ReadArchiveStep ==
    ASSUME IInv, NEW c \in Clients, ReadArchive(c)
    PROVE  IInv'
<1> DEFINE new(root, ref, broken) ==
              [Idle EXCEPT !.pc = "visit", !.root = root, !.ref = ref, !.broken = broken,
                           !.stack = <<[m |-> root, next |-> 1]>>]
<1>1. Local
  BY DEF ReadArchive
<1>2. CASE Fails(c)
  BY <1>1, <1>2, LocalFailsStep
<1>3. CASE ~Fails(c)
  <2>1. PICK a \in Archives, ref \in References, broken \in Damages :
          LET alone == \E k \in Roots(a) : Roots(a) = {k}
              root == IF alone THEN Descriptors[a][CHOOSE k \in Roots(a) : TRUE].of ELSE a
          IN Stay(c, new(root, ref, broken))
    BY <1>3 DEF ReadArchive
  <2> DEFINE alone == \E k \in Roots(a) : Roots(a) = {k}
             root == IF alone THEN Descriptors[a][CHOOSE k \in Roots(a) : TRUE].of ELSE a
             r == new(root, ref, broken)
  <2>2. Stay(c, r)
    BY <2>1
  <2>3. a \in Manifests
    BY ImagePushAssumption
  <2>4. root \in Manifests
    <3>1. ASSUME alone
          PROVE  Descriptors[a][CHOOSE k \in Roots(a) : TRUE].of \in Manifests
      <4>1. (CHOOSE k \in Roots(a) : TRUE) \in Roots(a)
        BY <3>1
      <4>2. PICK k \in Roots(a) : k = CHOOSE x \in Roots(a) : TRUE
        BY <4>1
      <4>3. Descriptors[a][k].of \in Manifests
        BY <2>3, ImagePushAssumption DEF Roots
      <4> QED BY <4>2, <4>3
    <3> QED BY <2>3, <3>1
  <2> HIDE DEF alone, root
  <2>5. <<[m |-> root, next |-> 1]>> \in Seq(Frame)
    BY <2>4 DEF Frame
  <2>6. /\ r \in Locals /\ r.pc = "visit" /\ r.root = root /\ r.ref = ref /\ r.order = <<>> /\ r.blobs = {}
        /\ r.stack = <<[m |-> root, next |-> 1]>> /\ r.refused = NoManifest /\ r.next = 1
    <3>1. r \in Locals
      BY <2>4, <2>5, IdleIsTyped, Updates
    <3>2. /\ r.pc = "visit" /\ r.root = root /\ r.ref = ref /\ r.order = <<>> /\ r.blobs = {}
          /\ r.stack = <<[m |-> root, next |-> 1]>> /\ r.refused = NoManifest /\ r.next = 1
      BY DEF Idle
    <3> QED BY <3>1, <3>2
  <2> HIDE DEF r, new
  <2>7. Ordered(r) /\ Open(r) /\ Collected(r)
    BY <2>4, <2>6, Starts
  <2>8. root # NoManifest
    BY <2>4, ImagePushAssumption
  <2>9. Phase(r) /\ Progress(r, live \cup undone[c], held, history)
    BY <2>6, <2>8 DEF Phase, Progress
  <2> QED BY <1>1, <2>2, <2>6, <2>7, <2>9, LocalStep
<1> QED BY <1>2, <1>3

LEMMA SaveImageStep ==
    ASSUME IInv, NEW c \in Clients, SaveImage(c)
    PROVE  IInv'
<1> DEFINE new(m, ref) == [Idle EXCEPT !.pc = "visit", !.root = m, !.ref = ref, !.order = <<m>>,
                                       !.blobs = Named(m, "blob")]
<1>1. Local
  BY DEF SaveImage
<1>2. CASE Fails(c)
  BY <1>1, <1>2, LocalFailsStep
<1>3. CASE ~Fails(c)
  <2>1. PICK m \in Saved, ref \in References : Stay(c, new(m, ref))
    BY <1>3 DEF SaveImage
  <2> DEFINE r == new(m, ref)
  <2>2. Stay(c, r)
    BY <2>1
  <2>3. m \in Manifests /\ Named(m, "blob") \subseteq Blobs
    BY Saves, DescriptorTypes
  <2>4. <<m>> \in Seq(Manifests)
    BY <2>3
  <2>5. /\ r \in Locals /\ r.pc = "visit" /\ r.root = m /\ r.ref = ref /\ r.order = <<m>>
        /\ r.blobs = Named(m, "blob") /\ r.broken = {}
        /\ r.stack = <<>> /\ r.refused = NoManifest /\ r.next = 1
    <3>1. r \in Locals
      BY <2>3, <2>4, IdleIsTyped, Updates
    <3>2. /\ r.pc = "visit" /\ r.root = m /\ r.ref = ref /\ r.order = <<m>>
          /\ r.blobs = Named(m, "blob") /\ r.broken = {}
          /\ r.stack = <<>> /\ r.refused = NoManifest /\ r.next = 1
      BY DEF Idle
    <3> QED BY <3>1, <3>2
  <2> HIDE DEF r, new
  <2>6. Ordered(r) /\ Open(r) /\ Collected(r)
    BY <2>5, SavedWalk
  <2>7. m # NoManifest
    BY <2>3, ImagePushAssumption
  <2>8. Phase(r) /\ Progress(r, live \cup undone[c], held, history)
    BY <2>5, <2>7 DEF Phase, Progress
  <2> QED BY <1>1, <2>2, <2>5, <2>6, <2>8, LocalStep
<1> QED BY <1>2, <1>3
\* The stack of a walk whose top has passed a descriptor.
Ahead(p) == Append(Front(p.stack), [Last(p.stack) EXCEPT !.next = @ + 1])

LEMMA FrameAhead ==
    \A e \in Frame : /\ [e EXCEPT !.next = @ + 1] \in Frame /\ [e EXCEPT !.next = @ + 1].m = e.m
                     /\ [e EXCEPT !.next = @ + 1].next = e.next + 1
BY DEF Frame

LEMMA FrameAppend ==
    \A s \in Seq(Frame), e \in Frame :
        /\ Append(s, e) \in Seq(Frame) /\ Len(Append(s, e)) = Len(s) + 1 /\ Append(s, e)[Len(s) + 1] = e
        /\ \A i \in 1 .. Len(s) : Append(s, e)[i] = s[i]
BY AppendOf

LEMMA Passed ==
    ASSUME NEW p \in Locals, Len(p.stack) > 0
    PROVE  /\ Ahead(p) \in Seq(Frame) /\ Len(Ahead(p)) = Len(p.stack) /\ Last(p.stack) = p.stack[Len(p.stack)]
           /\ Ahead(p)[Len(p.stack)].m = p.stack[Len(p.stack)].m
           /\ Ahead(p)[Len(p.stack)].next = p.stack[Len(p.stack)].next + 1
           /\ \A i \in 1 .. Len(p.stack) - 1 : Ahead(p)[i] = p.stack[i]
<1> DEFINE f == Front(p.stack)
           e == [Last(p.stack) EXCEPT !.next = @ + 1]
           n == Len(p.stack)
<1>1. p.stack \in Seq(Frame) /\ p.stack # <<>> /\ n \in Nat
  BY Fields, Frames
<1>2. /\ f \in Seq(Frame) /\ Len(f) = n - 1 /\ \A i \in 1 .. n - 1 : f[i] = p.stack[i]
      /\ Last(p.stack) \in Frame /\ Last(p.stack) = p.stack[n]
  BY <1>1, FrontOf
<1>3. e \in Frame /\ e.m = p.stack[n].m /\ e.next = p.stack[n].next + 1
  BY <1>2, FrameAhead
<1>4. Ahead(p) = Append(f, e)
  BY DEF Ahead
<1> HIDE DEF f, e
<1>5. /\ Ahead(p) \in Seq(Frame) /\ Len(Ahead(p)) = Len(f) + 1 /\ \A i \in 1 .. Len(f) : Ahead(p)[i] = f[i]
      /\ Ahead(p)[Len(f) + 1] = e
  <2>1. f \in Seq(Frame) /\ e \in Frame
    BY <1>2, <1>3
  <2>2. /\ Append(f, e) \in Seq(Frame) /\ Len(Append(f, e)) = Len(f) + 1 /\ Append(f, e)[Len(f) + 1] = e
        /\ \A i \in 1 .. Len(f) : Append(f, e)[i] = f[i]
    BY <2>1, FrameAppend, Zenon
  <2> QED BY <1>4, <2>2, Zenon
<1>6. Len(f) + 1 = n
  BY <1>1, <1>2
<1> QED BY <1>2, <1>3, <1>5, <1>6

LEMMA VisitingStep ==
    ASSUME IInv, Local, NEW c \in Clients, At(c, "visit"), NEW new \in Locals, Stay(c, new),
           new.pc = "visit", new.root = push[c].root, new.ref = push[c].ref, new.next = push[c].next,
           new.refused = push[c].refused, Ordered(new) /\ Open(new) /\ Collected(new)
    PROVE  IInv'
<1>1. /\ Phase(push[c]) /\ push[c].pc = "visit"
      /\ push[c].refused # NoManifest => push[c].refused \in undone[c]
  BY Client DEF At
<1>2. Phase(new) /\ Progress(new, live \cup undone[c], held, history)
  BY <1>1 DEF Phase, Progress
<1> QED BY <1>1, <1>2, LocalStep

\* A client in the middle of a walk, what a step of the walk keeps, and the descriptor it passes.
Walking(p) == p \in Locals /\ p.stack # <<>> /\ p.root \in Manifests /\ Ordered(p) /\ Open(p) /\ Collected(p)
Same(p, q) == q.pc = p.pc /\ q.root = p.root /\ q.ref = p.ref /\ q.next = p.next /\ q.refused = p.refused
Onward(p, q) == q \in Locals /\ Same(p, q) /\ Ordered(q) /\ Open(q) /\ Collected(q)
Passing(p, n, d) ==
    /\ n = Len(p.stack) /\ d = Descriptors[p.stack[n].m][p.stack[n].next]
    /\ d.of \in Named(p.stack[n].m, d.rel)

LEMMA OnwardStep ==
    ASSUME IInv, Local, NEW c \in Clients, At(c, "visit"), NEW new, Stay(c, new), Onward(push[c], new)
    PROVE  IInv'
<1>1. new \in Locals /\ Ordered(new) /\ Open(new) /\ Collected(new)
  BY DEF Onward
<1>2. new.root = push[c].root /\ new.ref = push[c].ref /\ new.next = push[c].next /\ new.refused = push[c].refused
  BY DEF Onward, Same
<1>3. new.pc = "visit"
  BY DEF Onward, Same, At
<1> QED BY <1>1, <1>2, <1>3, VisitingStep

\* Fields of the client that change in a walk.
LEMMA StackSet ==
    ASSUME NEW p \in Locals, NEW x \in Seq(Frame)
    PROVE  LET q == [p EXCEPT !.stack = x]
           IN  /\ q \in Locals /\ Same(p, q)
               /\ q.order = p.order /\ q.blobs = p.blobs /\ q.broken = p.broken /\ q.stack = x
<1>1. [p EXCEPT !.stack = x] \in Locals
  BY Updates
<1> QED BY <1>1 DEF Locals, Same

LEMMA BlobsSet ==
    ASSUME NEW p \in Locals, NEW x \in SUBSET Blobs
    PROVE  LET q == [p EXCEPT !.blobs = x]
           IN  /\ q \in Locals /\ Same(p, q)
               /\ q.order = p.order /\ q.blobs = x /\ q.broken = p.broken /\ q.stack = p.stack
<1>1. [p EXCEPT !.blobs = x] \in Locals
  BY Updates
<1> QED BY <1>1 DEF Locals, Same

LEMMA OrderSet ==
    ASSUME NEW p \in Locals, NEW x \in Seq(Manifests)
    PROVE  LET q == [p EXCEPT !.order = x]
           IN  /\ q \in Locals /\ Same(p, q)
               /\ q.order = x /\ q.blobs = p.blobs /\ q.broken = p.broken /\ q.stack = p.stack
<1>1. [p EXCEPT !.order = x] \in Locals
  BY Updates
<1> QED BY <1>1 DEF Locals, Same

LEMMA SameSame ==
    ASSUME NEW p, NEW q, NEW r, Same(p, q), Same(q, r)
    PROVE  Same(p, r)
  BY DEF Same

\* The manifest that is visited.
LEMMA WalkingTop ==
    ASSUME NEW p, Walking(p), NEW n, n = Len(p.stack)
    PROVE  /\ n \in Nat /\ n > 0 /\ DOMAIN p.stack = 1 .. n /\ n \in 1 .. n
           /\ p.stack[n].m \in Manifests /\ p.stack[n].next \in Nat \ {0}
           /\ p.stack[n].m \in Needed[p.root] /\ Last(p.stack) = p.stack[n]
           /\ Ahead(p) \in Seq(Frame) /\ Len(Ahead(p)) = n
<1>1. p \in Locals /\ p.stack # <<>> /\ Open(p)
  BY DEF Walking
<1>2. n \in Nat /\ n > 0 /\ DOMAIN p.stack = 1 .. n
  BY <1>1, Frames
<1>3. n \in 1 .. n
  BY <1>2
<1>4. p.stack[n].m \in Manifests /\ p.stack[n].next \in Nat \ {0}
  BY <1>1, <1>2, <1>3, Frames
<1>5. p.stack[n].m \in Needed[p.root]
  BY <1>1, <1>2, <1>3 DEF Open
<1>6. Last(p.stack) = p.stack[n] /\ Ahead(p) \in Seq(Frame) /\ Len(Ahead(p)) = n
  BY <1>1, <1>2, Passed
<1> QED BY <1>2, <1>3, <1>4, <1>5, <1>6

\* Its visit ends.
LEMMA WalkLeaves ==
    ASSUME NEW p, Walking(p), NEW n, n = Len(p.stack), p.stack[n].next > Len(Descriptors[p.stack[n].m]),
           NEW q \in Locals, Same(p, q), q.blobs = p.blobs, q.broken = p.broken,
           q.stack = Front(p.stack), q.order = Append(p.order, p.stack[n].m)
    PROVE  Onward(p, q)
<1>1. /\ p \in Locals /\ p.root \in Manifests /\ Ordered(p) /\ Open(p) /\ Collected(p)
      /\ n \in Nat /\ n > 0
  BY WalkingTop DEF Walking
<1>2. q.root = p.root
  BY DEF Same
<1>3. Ordered(q) /\ Open(q) /\ Collected(q)
  BY <1>1, <1>2, Leaves, Zenon
<1> QED BY <1>3 DEF Onward

\* It passes a descriptor; a child on top of it starts at its first descriptor.
LEMMA WalkPasses ==
    ASSUME NEW p, Walking(p), NEW n, NEW d, Passing(p, n, d),
           NEW q \in Locals, Same(p, q), q.order = p.order, p.blobs \subseteq q.blobs, Collected(q), Settled(q, n, d),
           \A i \in 1 .. n : q.stack[i] = Ahead(p)[i],
           \/ Len(q.stack) = n
           \/ /\ Len(q.stack) = n + 1 /\ q.stack[n + 1].next = 1
              /\ q.stack[n + 1].m \in Named(p.stack[n].m, "manifest") \ Range(p.order)
    PROVE  Onward(p, q)
<1>1. /\ p \in Locals /\ p.root \in Manifests /\ Ordered(p) /\ Open(p)
      /\ n = Len(p.stack) /\ n \in Nat /\ n > 0
  BY WalkingTop, Zenon DEF Walking, Passing
<1>2. /\ Ahead(p)[n].m = p.stack[n].m /\ Ahead(p)[n].next = p.stack[n].next + 1
      /\ \A i \in 1 .. n - 1 : Ahead(p)[i] = p.stack[i]
  BY <1>1, Passed
<1>3. n \in 1 .. n /\ \A i \in 1 .. n - 1 : i \in 1 .. n
  BY <1>1
<1>4. q.stack[n].m = p.stack[n].m /\ q.stack[n].next = p.stack[n].next + 1
  BY <1>2, <1>3
<1>5. \A i \in 1 .. n - 1 : q.stack[i] = p.stack[i]
  BY <1>2, <1>3, Zenon
<1>6. \A i \in 1 .. n : i = n \/ i \in 1 .. n - 1
  BY <1>1
<1>7. /\ \A i \in 1 .. n : q.stack[i].m = p.stack[i].m
      /\ \A i \in 1 .. n - 1 : q.stack[i].next = p.stack[i].next
  BY <1>4, <1>5, <1>6, Zenon
<1>8. q.root = p.root /\ Settled(q, n, Descriptors[p.stack[n].m][p.stack[n].next])
  BY Zenon DEF Same, Passing
<1>9. Ordered(q) /\ Open(q) /\ Collected(q)
  BY <1>1, <1>4, <1>7, <1>8, Advances, Zenon
<1> QED BY <1>9 DEF Onward

LEMMA WalkSettles ==
    ASSUME NEW p, Walking(p), NEW n, NEW d, Passing(p, n, d), d.rel = "blob" => d.of \notin p.broken,
           d.rel = "manifest" => d.of \in Range(p.order),
           NEW q \in Locals, Same(p, q), q.order = p.order, q.stack = Ahead(p), q.broken = p.broken,
           d.rel = "blob" => q.blobs = p.blobs \cup {d.of}, d.rel # "blob" => q.blobs = p.blobs
    PROVE  Onward(p, q)
<1>1. /\ Collected(p) /\ n = Len(p.stack) /\ q.root = p.root /\ d.of \in Named(p.stack[n].m, d.rel)
  BY Zenon DEF Walking, Passing, Same
<1>2. p.stack[n].m \in Needed[p.root] /\ Len(q.stack) = n
  BY <1>1, WalkingTop
<1>3. Collected(q)
  <2>1. CASE d.rel = "blob"
    <3>1. d.of \in UNION {Named(m, "blob") : m \in Needed[p.root]} /\ d.of \notin p.broken
      BY <1>1, <1>2, <2>1
    <3>2. q.blobs = p.blobs \cup {d.of}
      BY <2>1
    <3> QED BY <1>1, <3>1, <3>2 DEF Collected
  <2>2. CASE d.rel # "blob"
    BY <1>1, <2>2 DEF Collected
  <2> QED BY <2>1, <2>2
<1>4. Settled(q, n, d)
  BY DEF Settled
<1>5. p.blobs \subseteq q.blobs /\ \A i \in 1 .. n : q.stack[i] = Ahead(p)[i]
  OBVIOUS
<1> QED BY <1>2, <1>3, <1>4, <1>5, WalkPasses, Zenon

LEMMA WalkEnters ==
    ASSUME NEW p, Walking(p), NEW n, NEW d, Passing(p, n, d), d.rel = "manifest", d.of \notin Range(p.order),
           NEW e \in Frame, e.m = d.of, e.next = 1,
           NEW q \in Locals, Same(p, q), q.order = p.order, q.stack = Append(Ahead(p), e), q.broken = p.broken,
           q.blobs = p.blobs
    PROVE  Onward(p, q)
<1>1. /\ Collected(p) /\ n = Len(p.stack) /\ q.root = p.root /\ d.of \in Named(p.stack[n].m, "manifest")
  BY DEF Walking, Passing, Same
<1>2. n \in Nat /\ Ahead(p) \in Seq(Frame) /\ Len(Ahead(p)) = n
  BY <1>1, WalkingTop
<1>3. Len(q.stack) = n + 1 /\ q.stack[n + 1] = e /\ \A i \in 1 .. n : q.stack[i] = Ahead(p)[i]
  <2> DEFINE s == Ahead(p)
             t == Append(s, e)
  <2>1. s \in Seq(Frame) /\ Len(s) = n /\ q.stack = t
    BY <1>2
  <2> HIDE DEF s
  <2>2. Len(t) = Len(s) + 1 /\ t[Len(s) + 1] = e /\ \A i \in 1 .. Len(s) : t[i] = s[i]
    BY <2>1, FrameAppend, Zenon
  <2> HIDE DEF t
  <2>3. Len(q.stack) = n + 1 /\ q.stack[n + 1] = e /\ \A i \in 1 .. n : q.stack[i] = s[i]
    BY <2>1, <2>2, Zenon
  <2> QED BY <2>3 DEF s
<1>4. n < Len(q.stack)
  BY <1>2, <1>3
<1>5. Collected(q)
  BY <1>1 DEF Collected
<1>6. Settled(q, n, d)
  BY <1>3, <1>4 DEF Settled
<1>7. q.stack[n + 1].next = 1 /\ q.stack[n + 1].m \in Named(p.stack[n].m, "manifest") \ Range(p.order)
  BY <1>1, <1>3
<1> QED BY <1>3, <1>5, <1>6, <1>7, WalkPasses

LEMMA WalkLeavesStep ==
    ASSUME NEW p, Walking(p), NEW n, n = Len(p.stack), p.stack[n].next > Len(Descriptors[p.stack[n].m])
    PROVE  Onward(p, [p EXCEPT !.stack = Front(p.stack), !.order = Append(@, p.stack[n].m)])
<1> DEFINE r == [p EXCEPT !.stack = Front(p.stack)]
           q == [r EXCEPT !.order = Append(p.order, p.stack[n].m)]
<1>1. p \in Locals /\ n > 0 /\ p.stack # <<>> /\ p.stack[n].m \in Manifests
  BY WalkingTop DEF Walking
<1>2. Front(p.stack) \in Seq(Frame) /\ Append(p.order, p.stack[n].m) \in Seq(Manifests)
  BY <1>1, Fields, FrontOf, AppendOf
<1>3. /\ r \in Locals /\ Same(p, r)
      /\ r.order = p.order /\ r.blobs = p.blobs /\ r.broken = p.broken /\ r.stack = Front(p.stack)
  BY <1>1, <1>2, StackSet
<1>4. q = [p EXCEPT !.stack = Front(p.stack), !.order = Append(@, p.stack[n].m)]
  OBVIOUS
<1> HIDE DEF r
<1>5. /\ q \in Locals /\ Same(r, q) /\ q.order = Append(p.order, p.stack[n].m)
      /\ q.blobs = p.blobs /\ q.broken = p.broken /\ q.stack = Front(p.stack)
  BY <1>2, <1>3, OrderSet
<1> HIDE DEF q
<1>6. Same(p, q)
  BY <1>3, <1>5, SameSame
<1>7. Onward(p, q)
  BY <1>5, <1>6, WalkLeaves
<1> QED BY <1>4, <1>7

LEMMA WalkAhead ==
    ASSUME NEW p, Walking(p), NEW a, a = [p EXCEPT !.stack = Ahead(p)]
    PROVE  /\ a \in Locals /\ Same(p, a)
           /\ a.order = p.order /\ a.blobs = p.blobs /\ a.broken = p.broken /\ a.stack = Ahead(p)
<1>1. p \in Locals /\ Ahead(p) \in Seq(Frame)
  BY WalkingTop DEF Walking
<1> QED BY <1>1, StackSet

LEMMA WalkBlobStep ==
    ASSUME NEW p, Walking(p), NEW n, NEW d, Passing(p, n, d), d.rel = "blob", d.of \notin p.broken, NEW a \in Locals,
           Same(p, a), a.order = p.order, a.blobs = p.blobs, a.broken = p.broken, a.stack = Ahead(p)
    PROVE  Onward(p, [a EXCEPT !.blobs = @ \cup {d.of}])
<1> DEFINE q == [a EXCEPT !.blobs = p.blobs \cup {d.of}]
<1>1. p \in Locals /\ n = Len(p.stack) /\ d.of \in Named(p.stack[n].m, "blob")
  BY DEF Walking, Passing
<1>2. p.blobs \cup {d.of} \in SUBSET Blobs
  <2>1. p.blobs \in SUBSET Blobs
    BY <1>1, Fields
  <2>2. d.of \in Blobs
    BY <1>1, WalkingTop, DescriptorTypes
  <2> QED BY <2>1, <2>2
<1>3. /\ q \in Locals /\ Same(a, q)
      /\ q.order = p.order /\ q.blobs = p.blobs \cup {d.of} /\ q.broken = p.broken /\ q.stack = Ahead(p)
  BY <1>2, BlobsSet
<1>4. q = [a EXCEPT !.blobs = @ \cup {d.of}]
  OBVIOUS
<1> HIDE DEF q
<1>5. Same(p, q)
  BY <1>3, SameSame
<1>6. Onward(p, q)
  BY <1>3, <1>5, WalkSettles
<1> QED BY <1>4, <1>6

LEMMA WalkChildStep ==
    ASSUME NEW p, Walking(p), NEW n, NEW d, Passing(p, n, d), d.rel = "manifest", NEW c, NEW a \in Locals,
           Same(p, a), a.order = p.order, a.blobs = p.blobs, a.broken = p.broken, a.stack = Ahead(p)
    PROVE  Onward(p, Enter(c, a, d.of))
<1> DEFINE e == [m |-> d.of, next |-> 1]
           q == [a EXCEPT !.stack = Append(Ahead(p), e)]
<1>1. CASE d.of \in Range(p.order)
  <2>1. Enter(c, a, d.of) = a
    BY <1>1 DEF Enter
  <2>2. Onward(p, a)
    BY <1>1, WalkSettles
  <2> QED BY <2>1, <2>2
<1>2. CASE d.of \notin Range(p.order)
  <2>1. Enter(c, a, d.of) = q
    BY <1>2 DEF Enter
  <2>2. e \in Frame /\ e.m = d.of /\ e.next = 1
    <3>1. n = Len(p.stack) /\ d.of \in Named(p.stack[n].m, "manifest")
      BY DEF Passing
    <3>2. d.of \in Manifests
      BY <3>1, WalkingTop, DescriptorTypes
    <3> QED BY <3>2 DEF Frame
  <2> HIDE DEF e
  <2>3. Append(Ahead(p), e) \in Seq(Frame)
    <3>1. Ahead(p) \in Seq(Frame)
      BY WalkingTop
    <3> QED BY <2>2, <3>1, FrameAppend, Zenon
  <2>4. /\ q \in Locals /\ Same(a, q)
        /\ q.order = p.order /\ q.blobs = p.blobs /\ q.broken = p.broken /\ q.stack = Append(Ahead(p), e)
    BY <2>3, StackSet
  <2> HIDE DEF q
  <2>5. Same(p, q)
    BY <2>4, SameSame
  <2>6. Onward(p, q)
    BY <1>2, <2>2, <2>4, <2>5, WalkEnters
  <2> QED BY <2>1, <2>6
<1> QED BY <1>1, <1>2

LEMMA VisitStep ==
    ASSUME IInv, NEW c \in Clients, Visit(c)
    PROVE  IInv'
<1> DEFINE p == push[c]
           n == Len(p.stack)
           m == p.stack[n].m
           d == Descriptors[m][p.stack[n].next]
           advanced == [p EXCEPT !.stack = Ahead(p)]
<1>1. Local /\ At(c, "visit") /\ p.stack # <<>>
  BY DEF Visit
<1>2. Walking(p)
  BY <1>1, Client DEF At, Phase, Walking
<1>3. Last(p.stack) = p.stack[n] /\ m \in Manifests /\ p.stack[n].next \in Nat \ {0}
  BY <1>2, WalkingTop
<1>4. CASE p.stack[n].next > Len(Descriptors[m])
  <2> DEFINE new == [p EXCEPT !.stack = Front(p.stack), !.order = Append(@, m)]
  <2>1. Stay(c, new)
    BY <1>3, <1>4, ZenonT(30) DEF Visit, Top, Below, Leave
  <2>2. Onward(p, new)
    BY <1>2, <1>4, WalkLeavesStep
  <2> HIDE DEF new
  <2> QED BY <1>1, <2>1, <2>2, OnwardStep, Zenon
<1>5. CASE ~(p.stack[n].next > Len(Descriptors[m]))
  <2> DEFINE blob == [advanced EXCEPT !.blobs = @ \cup {d.of}]
             child == Enter(c, advanced, d.of)
  <2>1. \/ Fails(c)
        \/ d.rel = "blob" /\ d.of \notin p.broken /\ Stay(c, blob)
        \/ d.rel = "manifest" /\ Stay(c, child)
        \/ d.rel = "subject" /\ Stay(c, advanced)
    BY <1>3, <1>5, ZenonT(30) DEF Visit, Top, Below, IsFile, Ahead, Sound
  <2>2. Passing(p, n, d)
    <3>1. Len(Descriptors[m]) \in Nat /\ DOMAIN Descriptors[m] = 1 .. Len(Descriptors[m])
      BY <1>3, DescriptorTypes
    <3>2. p.stack[n].next \in DOMAIN Descriptors[m]
      BY <1>3, <1>5, <3>1
    <3>3. d.of \in Named(m, d.rel)
      BY <1>3, <3>2, DescriptorTypes, Zenon
    <3> QED BY <3>3 DEF Passing
  <2> HIDE DEF n, m, d
  <2>3. /\ advanced \in Locals /\ Same(p, advanced) /\ advanced.order = p.order /\ advanced.blobs = p.blobs
        /\ advanced.broken = p.broken /\ advanced.stack = Ahead(p)
    BY <1>2, WalkAhead
  <2> HIDE DEF p, advanced
  <2>4. d.rel = "blob" /\ d.of \notin p.broken => Onward(p, blob)
    BY <1>2, <2>2, <2>3, WalkBlobStep
  <2>5. d.rel = "manifest" => Onward(p, child)
    BY <1>2, <2>2, <2>3, WalkChildStep
  <2>6. d.rel = "subject" => Onward(p, advanced)
    BY <1>2, <2>2, <2>3, WalkSettles
  <2> HIDE DEF blob, child
  <2> USE DEF p
  <2>7. CASE Fails(c)
    BY <1>1, <2>7, LocalFailsStep
  <2>8. CASE d.rel = "blob" /\ d.of \notin p.broken /\ Stay(c, blob)
    BY <1>1, <2>4, <2>8, OnwardStep
  <2>9. CASE d.rel = "manifest" /\ Stay(c, child)
    BY <1>1, <2>5, <2>9, OnwardStep
  <2>10. CASE d.rel = "subject" /\ Stay(c, advanced)
    BY <1>1, <2>6, <2>10, OnwardStep
  <2> QED BY <2>1, <2>7, <2>8, <2>9, <2>10
<1> QED BY <1>4, <1>5, Zenon

\* A push whose walk is over keeps what it has found.
LEMMA Pushes ==
    ASSUME IInv, NEW c \in Clients, push[c].pc \in {"blobs", "put", "check", "persist"}
    PROVE  /\ push[c] \in Locals /\ push[c].root \in Manifests /\ push[c].ref \in References /\ push[c].stack = <<>>
           /\ push[c].refused = NoManifest
           /\ Ordered(push[c]) /\ Open(push[c]) /\ Collected(push[c])
           /\ push[c].blobs \subseteq held \cup push[c].left /\ (push[c].pc # "blobs" => push[c].left = {})
           /\ \A i \in DOMAIN push[c].order : i < push[c].next =>
                 Stored(push[c], push[c].order[i], live \cup undone[c], history)
           /\ push[c].next \in Nat \ {0}
           /\ push[c].pc \in {"check", "persist"} => push[c].next \in DOMAIN push[c].order
<1>1. push[c] \in Locals /\ Phase(push[c]) /\ Progress(push[c], live \cup undone[c], held, history)
  BY Client
<1>2. push[c].root # NoManifest /\ push[c].stack = <<>> /\ push[c].refused = NoManifest /\ push[c].ref \in References
  BY <1>1 DEF Phase
<1>3. push[c].root \in Manifests /\ Ordered(push[c]) /\ Open(push[c]) /\ Collected(push[c])
  BY <1>2, Client
<1>4. /\ push[c].blobs \subseteq held \cup push[c].left /\ (push[c].pc # "blobs" => push[c].left = {})
      /\ \A i \in DOMAIN push[c].order : i < push[c].next =>
            Stored(push[c], push[c].order[i], live \cup undone[c], history)
  BY <1>1 DEF Progress
<1>5. push[c].next \in Nat \ {0} /\ Len(push[c].order) \in Nat /\ DOMAIN push[c].order = 1 .. Len(push[c].order)
  BY <1>1, Fields, Frames
<1>6. push[c].pc \in {"check", "persist"} => push[c].next \in DOMAIN push[c].order
  BY <1>1, <1>5 DEF Phase
<1> QED BY <1>1, <1>2, <1>3, <1>4, <1>5, <1>6

LEMMA BeginStep ==
    ASSUME IInv, NEW c \in Clients, Begin(c)
    PROVE  IInv'
<1> DEFINE p == push[c]
           new == [p EXCEPT !.pc = "blobs", !.left = p.blobs, !.broken = {}]
<1>1. Local /\ p.pc = "visit" /\ p.stack = <<>> /\ (Fails(c) \/ Stay(c, new))
  BY DEF Begin, At
<1>2. CASE Fails(c)
  BY <1>1, <1>2, LocalFailsStep
<1>3. CASE Stay(c, new)
  <2>1. /\ p \in Locals /\ Phase(p) /\ p.root # NoManifest /\ p.next = 1 /\ p.refused = NoManifest /\ p.ref \in References
        /\ Ordered(p) /\ Open(p) /\ Collected(p)
    BY <1>1, Client DEF Phase
  <2>2. p.blobs \in SUBSET Blobs
    BY <2>1, Fields
  <2>3. new \in Locals
    BY <2>1, <2>2, Updates
  <2>4. /\ new.pc = "blobs" /\ new.left = p.blobs /\ new.broken = {} /\ new.root = p.root /\ new.ref = p.ref
        /\ new.stack = p.stack /\ new.order = p.order /\ new.blobs = p.blobs /\ new.next = p.next
        /\ new.refused = p.refused
    BY <2>1 DEF Locals
  <2> HIDE DEF new, p
  <2>5. Ordered(new) /\ Open(new) /\ Collected(new)
    BY <2>1, <2>4, WalkStays
  <2>6. Phase(new)
    BY <1>1, <2>1, <2>4 DEF Phase
  <2>7. DOMAIN p.order = 1 .. Len(p.order)
    BY <2>1, Frames
  <2>8. Progress(new, live \cup undone[c], held, history)
    BY <2>1, <2>4, <2>7 DEF Progress
  <2> QED BY <1>1, <1>3, <2>1, <2>3, <2>4, <2>5, <2>6, <2>8, LocalStep
<1> QED BY <1>1, <1>2, <1>3

LEMMA UploadBlobStep ==
    ASSUME IInv, NEW c \in Clients, UploadBlob(c)
    PROVE  IInv'
<1> DEFINE p == push[c]
<1>1. PICK b \in p.left : held' = held \cup {b} /\ Stay(c, [p EXCEPT !.left = @ \ {b}])
  BY DEF UploadBlob
<1> DEFINE new == [p EXCEPT !.left = p.left \ {b}]
<1>2. Stay(c, new)
  BY <1>1
<1>3. /\ p.pc = "blobs" /\ UNCHANGED <<live, tag, history, late, undone, listing, deletes>>
  BY DEF UploadBlob, At
<1>4. /\ p \in Locals /\ p.root \in Manifests /\ p.ref \in References /\ p.stack = <<>> /\ p.refused = NoManifest
      /\ Ordered(p) /\ Open(p) /\ Collected(p) /\ p.blobs \subseteq held \cup p.left
      /\ \A i \in DOMAIN p.order : i < p.next => Stored(p, p.order[i], live \cup undone[c], history)
  BY <1>3, Pushes
<1>5. p.left \in SUBSET Blobs /\ Phase(p)
  BY <1>4, Fields, Client
<1>6. new \in Locals
  BY <1>4, <1>5, Updates
<1>7. /\ new.pc = "blobs" /\ new.left = p.left \ {b} /\ new.broken = p.broken /\ new.root = p.root /\ new.ref = p.ref
      /\ new.stack = p.stack /\ new.order = p.order /\ new.blobs = p.blobs /\ new.next = p.next
      /\ new.refused = p.refused
  BY <1>3, <1>4 DEF Locals
<1> HIDE DEF new, p
<1>8. Ordered(new) /\ Open(new) /\ Collected(new)
  BY <1>4, <1>7, WalkStays
<1>9. Phase(new)
  BY <1>3, <1>5, <1>7 DEF Phase
<1>10. Grows
  <2>1. StoreInv' /\ Tagged' = Tagged
    BY <1>3 DEF IInv, StoreInv, Tagged
  <2>2. TypeOK
    BY DEF IInv
  <2> QED BY <1>1, <1>3, <1>5, <2>1, <2>2 DEF TypeOK, Grows
<1>11. Progress(new, live' \cup undone'[c], held', history')
  <2>1. new.blobs \subseteq held' \cup new.left
    BY <1>1, <1>4, <1>7
  <2>2. \A i \in DOMAIN new.order : i < new.next => Stored(new, new.order[i], live' \cup undone'[c], history')
    BY <1>3, <1>4, <1>7 DEF Stored
  <2> QED BY <1>7, <2>1, <2>2 DEF Progress
<1>12. /\ undone' \in [Clients -> SUBSET Manifests] /\ \A d \in Clients \ {c} : undone'[d] = undone[d]
       /\ new.refused = NoManifest
  BY <1>3, <1>4, <1>7, Client
<1> QED BY <1>2, <1>6, <1>8, <1>9, <1>10, <1>11, <1>12, ClientStep

\* A step of a push that changes nothing but where it is.
LEMMA PushingStep ==
    ASSUME IInv, Local, NEW c \in Clients, push[c].pc \in {"blobs", "put", "check", "persist"},
           NEW new \in Locals, Stay(c, new), new.pc \in {"put", "check", "persist", "done"},
           new.root = push[c].root, new.ref = push[c].ref, new.stack = push[c].stack, new.order = push[c].order,
           new.blobs = push[c].blobs, new.broken = push[c].broken, new.next = push[c].next,
           new.left = push[c].left, new.refused = push[c].refused, new.left = {},
           new.pc \in {"check", "persist"} => new.next <= Len(new.order),
           new.pc = "done" => new.next > Len(new.order)
    PROVE  IInv'
<1> DEFINE p == push[c]
<1>1. /\ p.root \in Manifests /\ p.ref \in References /\ p.stack = <<>> /\ p.refused = NoManifest
      /\ Ordered(p) /\ Open(p) /\ Collected(p) /\ p.blobs \subseteq held \cup p.left
      /\ \A i \in DOMAIN p.order : i < p.next => Stored(p, p.order[i], live \cup undone[c], history)
  BY Pushes
<1> HIDE DEF p
<1>2. /\ new.root = p.root /\ new.ref = p.ref /\ new.stack = p.stack /\ new.order = p.order
      /\ new.blobs = p.blobs /\ new.broken = p.broken /\ new.next = p.next /\ new.left = p.left
      /\ new.refused = p.refused
  BY DEF p
<1>3. Ordered(new) /\ Open(new) /\ Collected(new)
  BY <1>1, <1>2, WalkStays
<1>4. p.root # NoManifest
  BY <1>1, ImagePushAssumption
<1>5. Phase(new)
  BY <1>1, <1>2, <1>4 DEF Phase
<1>6. Progress(new, live \cup undone[c], held, history)
  <2>1. \A i \in DOMAIN new.order : i < new.next => Stored(new, new.order[i], live \cup undone[c], history)
    BY <1>1, <1>2 DEF Stored
  <2> QED BY <1>1, <1>2, <2>1 DEF Progress
<1> QED BY <1>1, <1>2, <1>3, <1>5, <1>6, LocalStep

LEMMA BlobsDoneStep ==
    ASSUME IInv, NEW c \in Clients, BlobsDone(c)
    PROVE  IInv'
<1> DEFINE p == push[c]
           new == [p EXCEPT !.pc = "put"]
<1>1. Local /\ p.pc = "blobs" /\ p.left = {} /\ Stay(c, new) /\ p \in Locals
  BY Client DEF BlobsDone, At
<1>2. new \in Locals
  BY <1>1, Updates
<1>3. /\ new.pc = "put" /\ new.root = p.root /\ new.ref = p.ref /\ new.stack = p.stack /\ new.order = p.order
      /\ new.blobs = p.blobs /\ new.broken = p.broken /\ new.next = p.next /\ new.left = p.left
      /\ new.refused = p.refused
  BY <1>1 DEF Locals
<1> HIDE DEF new
<1> QED BY <1>1, <1>2, <1>3, PushingStep

LEMMA AbandonStep ==
    ASSUME IInv, NEW c \in Clients, Abandon(c)
    PROVE  IInv'
BY LocalFailsStep DEF Abandon

LEMMA SendManifestStep ==
    ASSUME IInv, NEW c \in Clients, SendManifest(c)
    PROVE  IInv'
<1> DEFINE p == push[c]
<1>1. Local /\ p.pc = "put"
  BY DEF SendManifest, At
<1>2. p \in Locals /\ p.left = {} /\ p.next \in Nat \ {0} /\ Len(p.order) \in Nat
  BY <1>1, Pushes, Frames
<1>3. CASE p.next > Len(p.order)
  <2> DEFINE new == [p EXCEPT !.pc = "done"]
  <2>1. Stay(c, new)
    BY <1>3 DEF SendManifest
  <2>2. new \in Locals
    BY <1>2, Updates
  <2>3. /\ new.pc = "done" /\ new.root = p.root /\ new.ref = p.ref /\ new.stack = p.stack /\ new.order = p.order
        /\ new.blobs = p.blobs /\ new.broken = p.broken /\ new.next = p.next /\ new.left = p.left
        /\ new.refused = p.refused
    BY <1>2 DEF Locals
  <2> HIDE DEF new
  <2> QED BY <1>1, <1>2, <1>3, <2>1, <2>2, <2>3, PushingStep
<1>4. CASE ~(p.next > Len(p.order))
  <2> DEFINE new == [p EXCEPT !.pc = "check", !.at = 1]
  <2>1. Stay(c, new)
    BY <1>4 DEF SendManifest
  <2>2. new \in Locals
    <3>1. [p EXCEPT !.pc = "check"] \in Locals
      BY <1>2, Updates
    <3>2. 1 \in Nat \ {0}
      OBVIOUS
    <3> QED BY <3>1, <3>2, Updates, Zenon
  <2>3. /\ new.pc = "check" /\ new.root = p.root /\ new.ref = p.ref /\ new.stack = p.stack /\ new.order = p.order
        /\ new.blobs = p.blobs /\ new.broken = p.broken /\ new.next = p.next /\ new.left = p.left
        /\ new.refused = p.refused
    BY <1>2 DEF Locals
  <2>4. p.next <= Len(p.order)
    BY <1>2, <1>4
  <2> HIDE DEF new
  <2> QED BY <1>1, <1>2, <2>1, <2>2, <2>3, <2>4, PushingStep
<1> QED BY <1>3, <1>4
-----------------------------------------------------------------------------
(* jcrd *)

LEMMA CurrentIs ==
    ASSUME IInv, NEW c \in Clients, push[c].pc \in {"check", "persist"}
    PROVE  /\ Current(c) \in Manifests /\ push[c].next \in DOMAIN push[c].order
           /\ Request(c).m = Current(c) /\ Request(c) \in [m : Manifests, ref : References \cup Manifests]
           /\ Current(c) = push[c].root => Request(c).ref = push[c].ref
<1>1. push[c].next \in DOMAIN push[c].order /\ push[c] \in Locals /\ push[c].ref \in References
  BY Pushes
<1>2. Current(c) \in Manifests
  BY <1>1, Frames DEF Current
<1> QED BY <1>1, <1>2 DEF Request

\* What an order lists can be put when what comes before it is there.
LEMMA RefusalIsDue ==
    ASSUME IInv, NEW c \in Clients, At(c, "check"), push[c].at \in DOMAIN Descriptors[Current(c)],
           ~Available(Descriptors[Current(c)][push[c].at])
    PROVE  Descriptors[Current(c)][push[c].at].of \in undone[c]
<1> DEFINE p == push[c]
           m == Current(c)
           d == Descriptors[m][p.at]
<1>1. /\ p.left = {} /\ p.blobs \subseteq held /\ p.next \in DOMAIN p.order /\ Ordered(p)
      /\ \A i \in DOMAIN p.order : i < p.next => Stored(p, p.order[i], live \cup undone[c], history)
      /\ p \in Locals
  BY Pushes DEF At
<1>2. m \in Manifests /\ m = p.order[p.next]
  BY CurrentIs DEF At, Current
<1>3. d.rel \in Relations /\ d.of \in Named(m, d.rel)
  BY <1>2, DescriptorTypes
<1>4. DOMAIN p.order = 1 .. Len(p.order) /\ Len(p.order) \in Nat
  BY <1>1, Frames
<1>5. Named(m, "blob") \subseteq p.blobs
  BY <1>1, <1>2 DEF Ordered
<1>6. \A x \in Named(m, "manifest") : \E i \in 1 .. p.next - 1 : p.order[i] = x
  BY <1>1, <1>2 DEF Ordered
<1> HIDE DEF m, d
<1>7. CASE d.rel = "blob"
  BY <1>1, <1>3, <1>5, <1>7 DEF Available, d, m
<1>8. CASE d.rel = "manifest"
  <2>1. PICK i \in 1 .. p.next - 1 : p.order[i] = d.of
    BY <1>3, <1>6, <1>8
  <2>2. i \in DOMAIN p.order /\ i < p.next
    BY <1>1, <1>4
  <2>3. d.of \in live \cup undone[c]
    BY <1>1, <2>1, <2>2 DEF Stored
  <2>4. d.of \notin live
    BY <1>8 DEF Available, d, m
  <2> QED BY <2>3, <2>4 DEF d, m
<1>9. CASE d.rel = "subject"
  BY <1>9 DEF Available, d, m
<1> QED BY <1>3, <1>7, <1>8, <1>9 DEF Relations

LEMMA CheckDescriptorStep ==
    ASSUME IInv, NEW c \in Clients, CheckDescriptor(c)
    PROVE  IInv'
<1> DEFINE p == push[c]
           ds == Descriptors[Current(c)]
           d == ds[p.at]
<1>1. Local /\ p.pc = "check" /\ At(c, "check")
  BY DEF CheckDescriptor, At
<1>2. /\ p \in Locals /\ p.left = {} /\ p.next \in DOMAIN p.order /\ Current(c) \in Manifests
      /\ p.at \in Nat \ {0} /\ p.next <= Len(p.order)
  <2>1. p \in Locals /\ p.left = {} /\ p.next \in DOMAIN p.order /\ Current(c) \in Manifests
    BY <1>1, Pushes, CurrentIs
  <2>2. p.at \in Nat \ {0}
    BY <2>1, Fields
  <2>3. DOMAIN p.order = 1 .. Len(p.order) /\ Len(p.order) \in Nat
    BY <2>1, Frames
  <2> QED BY <2>1, <2>2, <2>3
<1>3. CASE p.at > Len(ds)
  <2> DEFINE new == [p EXCEPT !.pc = "persist", !.at = 1]
  <2>1. Stay(c, new)
    BY <1>3 DEF CheckDescriptor
  <2>2. new \in Locals
    <3>1. [p EXCEPT !.pc = "persist"] \in Locals
      BY <1>2, Updates
    <3>2. 1 \in Nat \ {0}
      OBVIOUS
    <3> QED BY <3>1, <3>2, Updates, Zenon
  <2>3. /\ new.pc = "persist" /\ new.root = p.root /\ new.ref = p.ref /\ new.stack = p.stack /\ new.order = p.order
        /\ new.blobs = p.blobs /\ new.broken = p.broken /\ new.next = p.next /\ new.left = p.left
        /\ new.refused = p.refused
    BY <1>2 DEF Locals
  <2> HIDE DEF new
  <2> QED BY <1>1, <1>2, <2>1, <2>2, <2>3, PushingStep
<1>4. CASE ~(p.at > Len(ds))
  <2>1. p.at \in DOMAIN ds /\ d.of \in Manifests \cup Blobs
    <3>1. Len(ds) \in Nat /\ DOMAIN ds = 1 .. Len(ds)
      BY <1>2, DescriptorTypes
    <3>2. p.at \in DOMAIN ds
      BY <1>2, <1>4, <3>1
    <3> QED BY <1>2, <3>2, DescriptorTypes
  <2>2. CASE Available(d)
    <3> DEFINE new == [p EXCEPT !.at = p.at + 1]
    <3>1. Stay(c, new)
      BY <1>4, <2>2 DEF CheckDescriptor
    <3>2. new \in Locals
      <4>1. p.at + 1 \in Nat \ {0}
        BY <1>2
      <4> QED BY <1>2, <4>1, Updates, Zenon
    <3>3. /\ new.pc = "check" /\ new.root = p.root /\ new.ref = p.ref /\ new.stack = p.stack
          /\ new.order = p.order /\ new.blobs = p.blobs /\ new.broken = p.broken /\ new.next = p.next
          /\ new.left = p.left /\ new.refused = p.refused
      BY <1>1, <1>2 DEF Locals
    <3> HIDE DEF new
    <3> QED BY <1>1, <1>2, <3>1, <3>2, <3>3, PushingStep
  <2>3. CASE ~Available(d)
    <3> DEFINE failed == [Idle EXCEPT !.pc = "failed"]
               new == [failed EXCEPT !.refused = d.of]
    <3>1. Stay(c, new)
      BY <1>4, <2>3 DEF CheckDescriptor
    <3>2. d.of \in undone[c]
      BY <1>1, <2>1, <2>3, RefusalIsDue
    <3>3. new \in Locals
      <4>1. failed \in Locals
        BY IdleIsTyped, Updates
      <4> HIDE DEF failed, d
      <4> QED BY <2>1, <4>1, Updates
    <3>4. new.pc = "failed" /\ new.root = NoManifest /\ new.stack = <<>> /\ new.refused = d.of
      BY DEF Idle
    <3> HIDE DEF new
    <3>5. Phase(new) /\ Progress(new, live \cup undone[c], held, history)
      BY <3>4 DEF Phase, Progress
    <3> QED BY <1>1, <3>1, <3>2, <3>3, <3>4, <3>5, LocalStep
  <2> QED BY <2>2, <2>3
<1> QED BY <1>3, <1>4

LEMMA AgainIs ==
    ASSUME IInv, NEW c \in Clients, push[c].pc \in {"check", "persist"}, NEW new, new = Again(c)
    PROVE  \/ /\ new \in Locals /\ new.pc = "put" /\ new.root = push[c].root /\ new.ref = push[c].ref
              /\ new.stack = push[c].stack /\ new.order = push[c].order /\ new.blobs = push[c].blobs
              /\ new.broken = push[c].broken /\ new.next = push[c].next /\ new.left = push[c].left
              /\ new.refused = push[c].refused
           \/ new = [Idle EXCEPT !.pc = "failed"]
<1> DEFINE p == push[c]
           next == [[[p EXCEPT !.pc = "put"] EXCEPT !.tries = p.tries + 1] EXCEPT !.at = 1]
<1>1. p \in Locals
  BY Pushes
<1>2. p.tries \in Nat
  BY <1>1, Fields
<1>3. CASE p.tries + 1 < Attempts
  <2>1. new = next
    BY <1>1, <1>3 DEF Again, Locals
  <2>2. next \in Locals
    <3>1. p.tries + 1 \in Nat /\ 1 \in Nat \ {0}
      BY <1>2
    <3>2. [p EXCEPT !.pc = "put"] \in Locals
      BY <1>1, Updates
    <3>3. [[p EXCEPT !.pc = "put"] EXCEPT !.tries = p.tries + 1] \in Locals
      BY <3>1, <3>2, Updates, Zenon
    <3> QED BY <3>1, <3>3, Updates, Zenon
  <2>3. /\ next.pc = "put" /\ next.root = p.root /\ next.ref = p.ref /\ next.stack = p.stack
        /\ next.order = p.order /\ next.blobs = p.blobs /\ next.broken = p.broken /\ next.next = p.next
        /\ next.left = p.left /\ next.refused = p.refused
    BY <1>1 DEF Locals
  <2> HIDE DEF next
  <2> QED BY <2>1, <2>2, <2>3
<1>4. CASE ~(p.tries + 1 < Attempts)
  BY <1>4 DEF Again
<1> QED BY <1>3, <1>4
\* The client goes on, or tries again, after an answer: what had been put is still there, and so is the current
\* manifest if it goes on.
LEMMA AnswerStep ==
    ASSUME IInv, Grows, NEW c \in Clients, push[c].pc \in {"check", "persist"},
           undone' \in [Clients -> SUBSET Manifests], \A d \in Clients \ {c} : undone'[d] = undone[d],
           live \cup undone[c] \subseteq live' \cup undone'[c],
           \/ /\ Stay(c, Put(c, push[c].next + 1))
              /\ Stored(push[c], Current(c), live' \cup undone'[c], history')
           \/ Stay(c, Again(c))
    PROVE  IInv'
<1> DEFINE p == push[c]
           alive == live' \cup undone'[c]
           failed == [Idle EXCEPT !.pc = "failed"]
<1>1. /\ p \in Locals /\ p.root \in Manifests /\ p.ref \in References /\ p.stack = <<>> /\ p.refused = NoManifest
      /\ Ordered(p) /\ Open(p) /\ Collected(p) /\ p.left = {} /\ p.blobs \subseteq held
      /\ \A i \in DOMAIN p.order : i < p.next => Stored(p, p.order[i], live \cup undone[c], history)
      /\ p.next \in Nat \ {0} /\ p.next \in DOMAIN p.order
  BY Pushes
<1>2. DOMAIN p.order = 1 .. Len(p.order)
  BY <1>1, Frames
<1>3. \A i \in DOMAIN p.order : i < p.next => Stored(p, p.order[i], alive, history')
  BY <1>1 DEF Stored, Grows
<1>4. ASSUME NEW new \in Locals, Stay(c, new), new.pc = "put", new.root = p.root, new.ref = p.ref,
             new.stack = p.stack, new.order = p.order, new.blobs = p.blobs, new.broken = p.broken,
             new.left = p.left, new.refused = p.refused,
             \A i \in DOMAIN new.order : i < new.next => Stored(p, new.order[i], alive, history')
      PROVE  IInv'
  <2> HIDE DEF p, alive
  <2>1. Ordered(new) /\ Open(new) /\ Collected(new)
    BY <1>1, <1>4, WalkStays
  <2>2. p.root # NoManifest
    BY <1>1, ImagePushAssumption
  <2>3. Phase(new)
    BY <1>1, <1>4, <2>2 DEF Phase
  <2>4. \A i \in DOMAIN new.order : i < new.next => Stored(new, new.order[i], alive, history')
    BY <1>4 DEF Stored
  <2>5. new.blobs \subseteq held' \cup new.left
    BY <1>1, <1>4 DEF Grows
  <2>6. Progress(new, alive, held', history')
    BY <1>1, <1>4, <2>4, <2>5 DEF Progress
  <2> QED BY <1>1, <1>4, <2>1, <2>3, <2>6, ClientStep DEF alive
<1>5. CASE Stay(c, Put(c, p.next + 1)) /\ Stored(p, Current(c), alive, history')
  <2> DEFINE put == [p EXCEPT !.pc = "put"]
             forth == [put EXCEPT !.next = p.next + 1]
             fresh == [forth EXCEPT !.tries = 0]
             new == [fresh EXCEPT !.at = 1]
  <2>1. Put(c, p.next + 1) = new
    BY DEF Put
  <2>2. new \in Locals
    <3>1. p.next + 1 \in Nat \ {0}
      BY <1>1
    <3>2. 0 \in Nat
      OBVIOUS
    <3>3. 1 \in Nat \ {0}
      OBVIOUS
    <3>4. put \in Locals
      BY <1>1, Updates
    <3> HIDE DEF put
    <3>5. forth \in Locals
      BY <3>1, <3>4, Updates, Zenon
    <3> HIDE DEF forth
    <3>6. fresh \in Locals
      BY <3>2, <3>5, Updates, Zenon
    <3> HIDE DEF fresh
    <3> QED BY <3>3, <3>6, Updates, Zenon
  <2>3. /\ new.pc = "put" /\ new.root = p.root /\ new.ref = p.ref /\ new.stack = p.stack /\ new.order = p.order
        /\ new.blobs = p.blobs /\ new.broken = p.broken /\ new.left = p.left /\ new.refused = p.refused
        /\ new.next = p.next + 1
    BY <1>1 DEF Locals
  <2> HIDE DEF new
  <2>4. \A i \in DOMAIN new.order : i < new.next => Stored(p, new.order[i], alive, history')
    <3>1. \A i \in DOMAIN p.order : i < p.next + 1 => i < p.next \/ i = p.next
      BY <1>1, <1>2
    <3> HIDE DEF alive
    <3> QED BY <1>3, <1>5, <2>3, <3>1 DEF Current
  <2> QED BY <1>4, <1>5, <2>1, <2>2, <2>3, <2>4
<1>6. CASE Stay(c, Again(c))
  <2> DEFINE new == Again(c)
  <2>1. \/ /\ new \in Locals /\ new.pc = "put" /\ new.root = p.root /\ new.ref = p.ref /\ new.stack = p.stack
           /\ new.order = p.order /\ new.blobs = p.blobs /\ new.broken = p.broken /\ new.next = p.next
           /\ new.left = p.left /\ new.refused = p.refused
        \/ new = failed
    BY AgainIs
  <2>2. Stay(c, new)
    BY <1>6
  <2> HIDE DEF new
  <2>3. CASE new = failed
    <3>1. failed \in Locals
      BY IdleIsTyped, Updates
    <3>2. failed.pc = "failed" /\ failed.root = NoManifest /\ failed.stack = <<>> /\ failed.refused = NoManifest
      BY DEF Idle
    <3> HIDE DEF failed
    <3>3. Phase(new) /\ Progress(new, alive, held', history')
      BY <2>3, <3>2 DEF Phase, Progress
    <3> QED BY <2>2, <2>3, <3>1, <3>2, <3>3, ClientStep
  <2>4. CASE new # failed
    <3>1. \A i \in DOMAIN new.order : i < new.next => Stored(p, new.order[i], alive, history')
      <4> HIDE DEF alive, failed, p
      <4> QED BY <1>3, <2>1, <2>4
    <3> HIDE DEF alive, failed, p
    <3> QED BY <1>4, <2>1, <2>2, <2>4, <3>1
  <2> QED BY <2>3, <2>4
<1> QED BY <1>5, <1>6

LEMMA PersistStep ==
    ASSUME IInv, NEW c \in Clients, Persist(c)
    PROVE  IInv'
<1> DEFINE p == push[c]
           m == Current(c)
           q == Request(c)
<1>1. /\ p.pc = "persist" /\ Commit(q) /\ undone' = [undone EXCEPT ![c] = @ \ {m}]
      /\ UNCHANGED <<held, late, listing, deletes>>
      /\ Stay(c, Put(c, p.next + 1)) \/ Stay(c, Again(c))
  BY DEF Persist, At
<1>2. m \in Manifests /\ q.m = m /\ (m = p.root => q.ref = p.ref)
  BY <1>1, CurrentIs
<1> HIDE DEF m, q
<1>3. TypeOK /\ StoreInv
  BY DEF IInv
<1>4. /\ live' = live \cup {m} /\ tag' \in [Names -> Manifests \cup {NoManifest}]
      /\ Tagged \subseteq Tagged' /\ StoreInv'
      /\ \A n \in Names : Range(history[n]) \subseteq Range(history'[n])
      /\ q.ref \in Names => m \in Range(history'[q.ref])
  BY <1>1, <1>2, <1>3, Commits
<1>5. Grows
  BY <1>1, <1>2, <1>3, <1>4 DEF TypeOK, Grows
<1>6. /\ undone' \in [Clients -> SUBSET Manifests] /\ undone'[c] = undone[c] \ {m}
      /\ \A d \in Clients \ {c} : undone'[d] = undone[d]
  BY <1>1, <1>3 DEF TypeOK
<1>7. live \cup undone[c] \subseteq live' \cup undone'[c]
  BY <1>4, <1>6
<1>8. Stored(p, m, live' \cup undone'[c], history')
  BY <1>2, <1>4 DEF Stored
<1> QED BY <1>1, <1>5, <1>6, <1>7, <1>8, AnswerStep DEF m

LEMMA GiveUpStep ==
    ASSUME IInv, NEW c \in Clients, GiveUp(c)
    PROVE  IInv'
<1>1. /\ push[c].pc \in {"check", "persist"} /\ UNCHANGED <<live, tag, history, held, undone, listing, deletes>>
      /\ late' = late \/ late' = {Request(c)}
      /\ Stay(c, Again(c)) \/ Fails(c)
  BY DEF GiveUp
<1>2. StoreInv' /\ Tagged' = Tagged
  BY <1>1 DEF IInv, StoreInv, Tagged
<1>3. Request(c) \in [m : Manifests, ref : References \cup Manifests]
  BY <1>1, CurrentIs
<1>4. Grows
  BY <1>1, <1>2, <1>3 DEF IInv, TypeOK, Grows
<1>5. undone' \in [Clients -> SUBSET Manifests] /\ \A d \in Clients \ {c} : undone'[d] = undone[d]
  BY <1>1, Client
<1>6. CASE Fails(c)
  BY <1>1, <1>4, <1>6, FailsStep
<1>7. CASE Stay(c, Again(c))
  BY <1>1, <1>4, <1>5, <1>7, AnswerStep
<1> QED BY <1>1, <1>6, <1>7

LEMMA DeleteStep ==
    ASSUME IInv, NEW m \in Manifests, Delete(m)
    PROVE  IInv'
<1>1. /\ deletes < MaxDeletes /\ deletes' = deletes + 1 /\ UNCHANGED <<held, push, late>>
      /\ undone' = [c \in Clients |-> undone[c] \cup {m}]
      /\ listing' = [listing EXCEPT !.always = {n \in @ : tag[n] # m}]
      /\ live' = live \ {m} /\ tag' = [n \in Names |-> IF tag[n] = m THEN NoManifest ELSE tag[n]]
      /\ history' = [n \in Names |-> IF tag[n] = m THEN Append(history[n], NoManifest) ELSE history[n]]
  BY DEF Delete, Store!Delete
<1>2. TypeOK /\ StoreInv
  BY DEF IInv
<1>3. /\ tag' \in [Names -> Manifests \cup {NoManifest}]
      /\ \A n \in Names : tag'[n] = IF tag[n] = m THEN NoManifest ELSE tag[n]
  BY <1>1, <1>2 DEF TypeOK
<1>4. ASSUME NEW n \in Names
      PROVE  /\ history'[n] \in Seq(Manifests \cup {NoManifest}) /\ Range(history[n]) \subseteq Range(history'[n])
             /\ tag'[n] # NoManifest => tag'[n] \in Range(history'[n])
  <2>1. history[n] \in Seq(Manifests \cup {NoManifest})
    BY <1>2 DEF StoreInv
  <2>2. history'[n] = IF tag[n] = m THEN Append(history[n], NoManifest) ELSE history[n]
    BY <1>1
  <2>3. /\ Append(history[n], NoManifest) \in Seq(Manifests \cup {NoManifest})
        /\ Range(history[n]) \subseteq Range(Append(history[n], NoManifest))
    BY <2>1, AppendOf
  <2> QED BY <1>2, <1>3, <2>1, <2>2, <2>3 DEF StoreInv
<1>5. StoreInv'
  <2>1. history' \in [Names -> Seq(Manifests \cup {NoManifest})]
    BY <1>1, <1>4
  <2> QED BY <1>4, <2>1 DEF StoreInv
<1>6. /\ listing' \in Listing /\ listing'.pc = listing.pc /\ listing'.last = listing.last
      /\ listing'.seen = listing.seen /\ listing'.always = {n \in listing.always : tag[n] # m}
  BY <1>1, <1>2 DEF TypeOK, Listing
<1>7. undone' \in [Clients -> SUBSET Manifests] /\ \A c \in Clients : undone'[c] = undone[c] \cup {m}
  BY <1>1, <1>2 DEF TypeOK
<1>8. TypeOK'
  <2>1. deletes' \in 0 .. MaxDeletes
    BY <1>1, <1>2, ImagePushAssumption DEF TypeOK
  <2> QED BY <1>1, <1>2, <1>3, <1>6, <1>7, <2>1 DEF TypeOK
<1>9. WalkInv'
  BY <1>1 DEF IInv, WalkInv
<1>10. RefusedOnlyWhenUndone'
  BY <1>1, <1>7 DEF IInv, RefusedOnlyWhenUndone
<1>11. PutInv'
  <2>1. ASSUME NEW d \in Clients
        PROVE  Progress(push'[d], live' \cup undone'[d], held', history')
    <3>1. Progress(push[d], live \cup undone[d], held, history) /\ push'[d] = push[d]
      BY <1>1 DEF IInv, PutInv
    <3>2. live \cup undone[d] \subseteq live' \cup undone'[d] /\ held \subseteq held'
      BY <1>1, <1>7
    <3> QED BY <1>4, <3>1, <3>2, ProgressStays
  <2> QED BY <2>1 DEF PutInv
<1>12. ListInv'
  <2>1. listing.pc # "idle" => listing'.always \subseteq Tagged'
    <3>1. ASSUME NEW n \in Tagged, tag[n] # m
          PROVE  n \in Tagged'
      BY <1>3, <3>1 DEF Tagged
    <3> QED BY <1>6, <3>1 DEF IInv, ListInv
  <2>2. ListingComplete'
    BY <1>6 DEF IInv, ListInv, ListingComplete
  <2> QED BY <1>6, <2>1, <2>2 DEF IInv, ListInv
<1> QED BY <1>5, <1>8, <1>9, <1>10, <1>11, <1>12 DEF IInv
-----------------------------------------------------------------------------
(* Pages of tags: the least and the greatest element of a set of numbers *)

Less == {p \in Nat \X Nat : p[1] < p[2]}

LEMMA LessWellFounded == IsWellFoundedOn(Less, Nat)
BY NatLessThanWellFounded DEF OpToRel, Less

LEMMA Smallest ==
    ASSUME NEW T \in SUBSET Nat, T # {}
    PROVE  \E x \in T : \A y \in T : x <= y
<1>1. PICK x \in T : \A y \in T : <<y, x>> \notin Less
  BY LessWellFounded, WFMin
<1>2. ASSUME NEW y \in T
      PROVE  x <= y
  <2>1. x \in Nat /\ y \in Nat /\ <<y, x>> \notin Less
    BY <1>1
  <2>2. <<y, x>> \in Nat \X Nat /\ <<y, x>>[1] = y /\ <<y, x>>[2] = x
    BY <2>1
  <2>3. ~(y < x)
    BY <2>1, <2>2 DEF Less
  <2> QED BY <2>1, <2>3
<1> QED BY <1>2

LEMMA Greatest ==
    ASSUME NEW T \in SUBSET Nat, T # {}, NEW b \in Nat, \A t \in T : t <= b
    PROVE  Max(T) \in T /\ \A t \in T : t <= Max(T)
<1> DEFINE U == {u \in Nat : \A t \in T : t <= u}
<1>1. PICK x \in U : \A u \in U : x <= u
  <2>1. b \in U
    OBVIOUS
  <2> HIDE DEF U
  <2>2. U \in SUBSET Nat
    BY DEF U
  <2> QED BY <2>1, <2>2, Smallest
<1>2. x \in Nat /\ \A t \in T : t <= x
  BY <1>1
<1>3. x \in T
  <2>1. SUFFICES ASSUME x \notin T PROVE FALSE
    OBVIOUS
  <2>2. PICK t \in T : TRUE
    OBVIOUS
  <2>3. t \in Nat /\ t <= x /\ t # x
    BY <1>2, <2>1
  <2>4. x - 1 \in Nat
    BY <1>2, <2>3
  <2>5. ASSUME NEW s \in T PROVE s <= x - 1
    <3>1. s \in Nat /\ s <= x /\ s # x
      BY <1>2, <2>1
    <3> QED BY <1>2, <3>1
  <2>6. x - 1 \in U
    BY <2>4, <2>5
  <2>7. x <= x - 1
    BY <1>1, <2>6
  <2> QED BY <1>2, <2>7
<1>4. \A t \in T : x >= t
  BY <1>2
<1>5. Max(T) \in T /\ \A t \in T : Max(T) >= t
  BY <1>3, <1>4 DEF Max
<1>6. ASSUME NEW t \in T PROVE t <= Max(T)
  <2>1. t \in Nat /\ Max(T) \in Nat /\ Max(T) >= t
    BY <1>5
  <2> QED BY <2>1
<1> QED BY <1>5, <1>6

\* The first k numbers of a set: at least one if there is any, and never a later one without an earlier.
LEMMA FirstOnes ==
    ASSUME NEW S \in SUBSET Nat, NEW k \in Nat \ {0}
    PROVE  /\ First(k, S) \subseteq S /\ (S # {} => First(k, S) # {})
           /\ \A n \in First(k, S), i \in S : i <= n => i \in First(k, S)
<1> DEFINE upto(n) == {i \in S : i <= n}
<1>1. ASSUME NEW n \in S
      PROVE  IsFiniteSet(upto(n)) /\ Cardinality(upto(n)) \in Nat
  <2>1. n \in Nat /\ upto(n) \in SUBSET Nat /\ \A s \in upto(n) : s <= n
    OBVIOUS
  <2>2. IsFiniteSet(upto(n))
    <3> HIDE DEF upto
    <3> QED BY <2>1, FS_BoundedSetOfNaturals
  <2> QED BY <2>2, FS_CardinalityType
<1>2. \A n \in S : n \in First(k, S) <=> Cardinality(upto(n)) <= k
  BY DEF First
<1>3. ASSUME S # {}
      PROVE  First(k, S) # {}
  <2>1. PICK x \in S : \A y \in S : x <= y
    BY <1>3, Smallest
  <2>2. upto(x) = {x}
    <3>1. ASSUME NEW i \in S, i <= x PROVE i = x
      <4>1. i \in Nat /\ x \in Nat /\ x <= i
        BY <2>1
      <4> QED BY <3>1, <4>1
    <3>2. x <= x
      BY <2>1
    <3> QED BY <3>1, <3>2
  <2>3. Cardinality(upto(x)) = 1
    BY <2>2, FS_Singleton
  <2>4. 1 <= k
    OBVIOUS
  <2> QED BY <1>2, <2>1, <2>3, <2>4
<1>4. ASSUME NEW n \in First(k, S), NEW i \in S, i <= n
      PROVE  i \in First(k, S)
  <2>1. n \in S /\ Cardinality(upto(n)) <= k
    BY <1>2 DEF First
  <2>2. upto(i) \in SUBSET upto(n)
    <3>1. ASSUME NEW j \in S, j <= i PROVE j <= n
      <4>1. j \in Nat /\ i \in Nat /\ n \in Nat
        BY <2>1
      <4> QED BY <1>4, <3>1, <4>1
    <3> QED BY <3>1
  <2>3. Cardinality(upto(i)) <= Cardinality(upto(n))
    <3> HIDE DEF upto
    <3> QED BY <1>1, <2>1, <2>2, FS_Subset
  <2>4. Cardinality(upto(i)) \in Nat /\ Cardinality(upto(n)) \in Nat
    BY <1>1, <2>1
  <2> HIDE DEF upto
  <2>5. Cardinality(upto(i)) <= k
    BY <2>1, <2>3, <2>4
  <2> QED BY <1>2, <2>5
<1> QED BY <1>3, <1>4 DEF First

LEMMA NamesAreNumbers == Names \subseteq Nat /\ \A n \in Names : ~(n <= 0)
<1>1. Names \subseteq Nat \ {0}
  BY ImagePushAssumption
<1> QED BY <1>1

LEMMA AskStep ==
    ASSUME IInv, Ask
    PROVE  IInv'
<1>1. /\ listing.pc = "idle" /\ listing' = [listing EXCEPT !.pc = "page", !.always = Tagged]
      /\ UNCHANGED <<live, tag, history, held, push, late, undone, deletes>>
  BY DEF Ask
<1>2. listing \in Listing /\ listing.seen = <<>> /\ listing.last = 0 /\ Tagged \subseteq Names /\ Tagged' = Tagged
  BY <1>1 DEF IInv, TypeOK, ListInv, Tagged
<1>3. /\ listing' \in Listing /\ listing'.pc = "page" /\ listing'.always = Tagged /\ listing'.seen = <<>>
      /\ listing'.last = 0
  BY <1>1, <1>2 DEF Listing
<1>4. ListInv'
  <2>1. \A n \in Names : ~(n <= 0)
    BY NamesAreNumbers
  <2>2. Range(<<>>) = {} /\ DOMAIN <<>> = {}
    BY DEF Range
  <2> QED BY <1>2, <1>3, <2>1, <2>2 DEF ListInv, ListingComplete
<1>5. TypeOK' /\ StoreInv'
  BY <1>1, <1>3 DEF IInv, TypeOK, StoreInv
<1>6. WalkInv' /\ RefusedOnlyWhenUndone' /\ PutInv'
  BY <1>1 DEF IInv, WalkInv, RefusedOnlyWhenUndone, PutInv
<1> QED BY <1>4, <1>5, <1>6 DEF IInv

LEMMA NumbersOrZero == \A x \in Names \cup {0} : x \in Nat
  BY NamesAreNumbers

LEMMA PageStep ==
    ASSUME IInv, Page
    PROVE  IInv'
<1> DEFINE last == listing.last
           seen == listing.seen
           rows == After(last)
           page == First(PageSize, rows)
           more == page # rows
           last2 == IF more THEN PageEnd(rows) ELSE last
<1>1. /\ listing.pc = "page"
      /\ listing' = [listing EXCEPT !.pc = IF more THEN "page" ELSE "done", !.last = last2, !.seen = Append(@, page)]
      /\ UNCHANGED <<live, tag, history, held, push, late, undone, deletes>>
  BY DEF Page
<1>2. /\ listing \in Listing /\ listing.always \subseteq Tagged
      /\ \A n \in listing.always : n <= last => n \in UNION Range(seen)
      /\ \A n \in UNION Range(seen) : n <= last
      /\ \A i, j \in DOMAIN seen : i < j => \A m \in seen[i], n \in seen[j] : m < n
  BY <1>1 DEF IInv, TypeOK, ListInv, ListingComplete
<1>3. last \in Nat /\ last \in Names \cup {0} /\ seen \in Seq(SUBSET Names) /\ listing.always \subseteq Names
  <2>1. last \in Names \cup {0} /\ seen \in Seq(SUBSET Names) /\ listing.always \subseteq Names
    BY <1>2 DEF Listing
  <2>2. last \in Nat
    BY <2>1, NumbersOrZero, Zenon
  <2> QED BY <2>1, <2>2
<1>4. rows \in SUBSET Nat /\ rows \subseteq Names /\ \A n \in Tagged : n \in rows <=> n > last
  BY ImagePushAssumption DEF After, Tagged
<1>5. rows \subseteq Tagged /\ Tagged' = Tagged /\ Tagged \subseteq Nat
  BY <1>1, ImagePushAssumption DEF After, Tagged
<1>6. PageSize \in Nat \ {0}
  BY ImagePushAssumption
<1> HIDE DEF rows
<1>7. /\ page \subseteq rows /\ (rows # {} => page # {})
      /\ \A n \in page, i \in rows : i <= n => i \in page
  BY <1>4, <1>6, FirstOnes
<1> HIDE DEF page
<1>8. ASSUME more
      PROVE  last2 \in page /\ \A n \in page : n <= last2
  <2>1. PICK r \in rows : r \notin page
    BY <1>7, <1>8
  <2>2. page \in SUBSET Nat /\ page # {} /\ r \in Nat
    BY <1>4, <1>7, <2>1
  <2>3. ASSUME NEW t \in page PROVE t <= r
    <3>1. t \in Nat
      BY <2>2
    <3>2. ~(r <= t)
      BY <1>7, <2>1
    <3> QED BY <2>2, <3>1, <3>2
  <2>4. Max(page) \in page /\ \A t \in page : t <= Max(page)
    BY <2>2, <2>3, Greatest
  <2>5. last2 = Max(page)
    BY <1>8 DEF PageEnd, page
  <2> QED BY <2>4, <2>5
<1>9. last2 \in Names \cup {0} /\ last2 \in Nat /\ last <= last2
  <2>1. CASE more
    <3>1. last2 \in rows
      BY <1>7, <1>8, <2>1
    <3>2. last2 \in Nat /\ last2 > last /\ last2 \in Names
      BY <1>4, <1>5, <3>1
    <3> QED BY <1>3, <3>2
  <2>2. CASE ~more
    BY <1>3, <2>2
  <2> QED BY <2>1, <2>2
<1>10. page \in SUBSET Names
  BY <1>4, <1>7
<1> HIDE DEF last2
<1>11. Append(seen, page) \in Seq(SUBSET Names)
  BY <1>3, <1>10, AppendOf
<1>12. /\ listing' \in Listing /\ listing'.pc = (IF more THEN "page" ELSE "done") /\ listing'.last = last2
       /\ listing'.seen = Append(seen, page) /\ listing'.always = listing.always
  <2> DEFINE new == Append(seen, page)
  <2>1. listing' = [listing EXCEPT !.pc = IF more THEN "page" ELSE "done", !.last = last2, !.seen = new]
    BY <1>1
  <2>2. new \in Seq(SUBSET Names)
    BY <1>11
  <2> HIDE DEF new
  <2>3. (IF more THEN "page" ELSE "done") \in {"idle", "page", "done"}
    OBVIOUS
  <2>4. listing' \in Listing
    BY <1>2, <1>9, <2>1, <2>2, <2>3 DEF Listing
  <2>5. /\ listing'.pc = (IF more THEN "page" ELSE "done") /\ listing'.last = last2
        /\ listing'.seen = new /\ listing'.always = listing.always
    BY <1>2, <2>1 DEF Listing
  <2> QED BY <2>4, <2>5 DEF new
<1>13. /\ Range(Append(seen, page)) = Range(seen) \cup {page}
       /\ DOMAIN Append(seen, page) = 1 .. Len(seen) + 1 /\ DOMAIN seen = 1 .. Len(seen) /\ Len(seen) \in Nat
       /\ \A i \in 1 .. Len(seen) : Append(seen, page)[i] = seen[i]
       /\ Append(seen, page)[Len(seen) + 1] = page
  BY <1>3, <1>10, AppendOf
<1>14. \A n \in UNION Range(Append(seen, page)) : n \in UNION Range(seen) \/ n \in page
  BY <1>13
<1>15. \A n : n \in UNION Range(seen) \/ n \in page => n \in UNION Range(Append(seen, page))
  BY <1>13
<1>16. ASSUME NEW n \in listing.always, more => n <= last2
       PROVE  n \in UNION Range(Append(seen, page))
  <2>1. n \in Nat /\ n \in Tagged
    BY <1>2, <1>5
  <2>2. CASE n <= last
    BY <1>2, <1>15, <2>2
  <2>3. CASE ~(n <= last)
    <3>1. n \in rows
      BY <1>3, <1>4, <2>1, <2>3
    <3>2. n \in page
      BY <1>7, <1>8, <1>16, <3>1
    <3> QED BY <1>15, <3>2
  <2> QED BY <2>2, <2>3
<1>17. ASSUME more, NEW n \in UNION Range(Append(seen, page))
       PROVE  n <= last2
  <2>1. CASE n \in page
    BY <1>8, <1>17, <2>1
  <2>2. CASE n \in UNION Range(seen)
    <3>1. n <= last /\ n \in Names /\ n \in Nat
      <4>1. Range(seen) \subseteq SUBSET Names
        BY <1>3, RangeOf
      <4> QED BY <1>2, <2>2, <4>1, ImagePushAssumption
    <3> QED BY <1>3, <1>9, <3>1
  <2> QED BY <1>14, <1>17, <2>1, <2>2
<1>18. ASSUME NEW i \in 1 .. Len(seen) + 1, NEW j \in 1 .. Len(seen) + 1, i < j,
              NEW m \in Append(seen, page)[i], NEW n \in Append(seen, page)[j]
       PROVE  m < n
  <2>1. i \in 1 .. Len(seen) /\ (j \in 1 .. Len(seen) \/ j = Len(seen) + 1)
    BY <1>13, <1>18
  <2>2. m \in seen[i]
    BY <1>13, <1>18, <2>1
  <2>3. CASE j \in 1 .. Len(seen)
    BY <1>2, <1>13, <1>18, <2>1, <2>2, <2>3
  <2>4. CASE j = Len(seen) + 1
    <3>1. n \in Nat /\ n > last
      BY <1>4, <1>5, <1>7, <1>13, <1>18, <2>4
    <3>2. m \in UNION Range(seen)
      BY <1>13, <2>1, <2>2 DEF Range
    <3>3. m <= last /\ m \in Names
      <4>1. Range(seen) \subseteq SUBSET Names
        BY <1>3, RangeOf
      <4> QED BY <1>2, <3>2, <4>1
    <3>4. m \in Nat
      BY <3>3, ImagePushAssumption
    <3> QED BY <1>3, <3>1, <3>3, <3>4
  <2> QED BY <2>1, <2>3, <2>4
<1>19. ListingComplete'
  <2>1. listing'.pc = "done" => listing'.always \subseteq UNION Range(listing'.seen)
    BY <1>12, <1>16
  <2>2. \A i, j \in DOMAIN listing'.seen : i < j => \A m \in listing'.seen[i], n \in listing'.seen[j] : m < n
    BY <1>12, <1>13, <1>18
  <2> QED BY <2>1, <2>2 DEF ListingComplete
<1>20. ListInv'
  <2>1. listing'.pc # "idle" /\ listing'.always \subseteq Tagged'
    BY <1>2, <1>5, <1>12
  <2>2. listing'.pc = "page" => /\ \A n \in listing'.always : n <= listing'.last => n \in UNION Range(listing'.seen)
                                /\ \A n \in UNION Range(listing'.seen) : n <= listing'.last
    BY <1>12, <1>16, <1>17
  <2> QED BY <1>19, <2>1, <2>2 DEF ListInv
<1>21. TypeOK' /\ StoreInv'
  BY <1>1, <1>12 DEF IInv, TypeOK, StoreInv
<1>22. WalkInv' /\ RefusedOnlyWhenUndone' /\ PutInv'
  BY <1>1 DEF IInv, WalkInv, RefusedOnlyWhenUndone, PutInv
<1> QED BY <1>20, <1>21, <1>22 DEF IInv
-----------------------------------------------------------------------------
(* The theorems *)

LEMMA InitInvariant == Init => IInv
<1> SUFFICES ASSUME Init PROVE IInv
  OBVIOUS
<1>1. /\ tag = Earlier /\ Earlier \in [Names -> Manifests \cup {NoManifest}]
      /\ live = UNION {Needed[m] : m \in Range(Earlier) \ {NoManifest}}
      /\ history = [n \in Names |-> IF Earlier[n] = NoManifest THEN <<>> ELSE <<Earlier[n]>>]
      /\ held = UNION {Named(m, "blob") : m \in live}
      /\ push = [c \in Clients |-> Idle] /\ late = {} /\ undone = [c \in Clients |-> {}]
      /\ listing = [pc |-> "idle", last |-> 0, seen |-> <<>>, always |-> {}] /\ deletes = 0
  BY ImagePushAssumption DEF Init
<1>2. live \subseteq Manifests
  <2>1. \A m \in Range(Earlier) \ {NoManifest} : m \in Manifests
    BY <1>1 DEF Range
  <2> QED BY <1>1, <2>1, NeededClosed
<1>3. held \subseteq Blobs
  BY <1>1, <1>2, DescriptorTypes
<1>4. listing \in Listing
  <2>1. <<>> \in Seq(SUBSET Names)
    OBVIOUS
  <2> QED BY <1>1, <2>1 DEF Listing
<1>5. push \in [Clients -> Locals] /\ \A c \in Clients : push[c] = Idle
  BY <1>1, IdleIsTyped
<1>6. TypeOK
  <2>1. deletes \in 0 .. MaxDeletes
    BY <1>1, ImagePushAssumption
  <2> QED BY <1>1, <1>2, <1>3, <1>4, <1>5, <2>1 DEF TypeOK
<1>7. /\ Idle.pc = "idle" /\ Idle.root = NoManifest /\ Idle.stack = <<>> /\ Idle.refused = NoManifest
  BY DEF Idle
<1>8. WalkInv /\ RefusedOnlyWhenUndone /\ PutInv
  BY <1>5, <1>7 DEF WalkInv, Phase, RefusedOnlyWhenUndone, PutInv, Progress
<1>9. StoreInv
  <2>1. ASSUME NEW n \in Names
        PROVE  /\ history[n] \in Seq(Manifests \cup {NoManifest})
               /\ tag[n] # NoManifest => tag[n] \in Range(history[n])
    <3>1. CASE Earlier[n] = NoManifest
      BY <1>1, <3>1
    <3>2. CASE Earlier[n] # NoManifest
      <4>1. history[n] = <<Earlier[n]>> /\ tag[n] = Earlier[n] /\ Earlier[n] \in Manifests
        BY <1>1, <3>2
      <4>2. <<Earlier[n]>> \in Seq(Manifests \cup {NoManifest}) /\ Earlier[n] \in Range(<<Earlier[n]>>)
        BY <4>1 DEF Range
      <4> QED BY <4>1, <4>2
    <3> QED BY <3>1, <3>2
  <2>2. history \in [Names -> Seq(Manifests \cup {NoManifest})]
    BY <1>1, <2>1
  <2> QED BY <2>1, <2>2 DEF StoreInv
<1>10. ListInv
  <2>1. listing.pc = "idle" /\ listing.seen = <<>> /\ listing.last = 0 /\ DOMAIN listing.seen = {}
    BY <1>1
  <2> QED BY <2>1 DEF ListInv, ListingComplete
<1> QED BY <1>6, <1>8, <1>9, <1>10 DEF IInv

LEMMA StutterInvariant == IInv /\ UNCHANGED vars => IInv'
BY DEF vars, IInv, TypeOK, WalkInv, RefusedOnlyWhenUndone, PutInv, StoreInv, ListInv, ListingComplete, Tagged

LEMMA NextInvariant == IInv /\ Next => IInv'
<1> SUFFICES ASSUME IInv, Next PROVE IInv'
  OBVIOUS
<1>1. ASSUME NEW c \in Clients, Prepare(c) PROVE IInv'
  BY <1>1, ReadArchiveStep, SaveImageStep, VisitStep, BeginStep DEF Prepare
<1>2. ASSUME NEW c \in Clients, Upload(c) PROVE IInv'
  BY <1>2, UploadBlobStep, BlobsDoneStep, AbandonStep DEF Upload
<1>3. ASSUME NEW c \in Clients, PutManifest(c) PROVE IInv'
  BY <1>3, SendManifestStep, CheckDescriptorStep, PersistStep, GiveUpStep DEF PutManifest
<1>4. ASSUME NEW m \in Manifests, Delete(m) PROVE IInv'
  BY <1>4, DeleteStep
<1> QED BY <1>1, <1>2, <1>3, <1>4, CommitLateStep, AskStep, PageStep DEF Next

\* The inductive invariant of ImagePush holds in every reachable state.
THEOREM Invariance == Spec => []IInv
<1>1. IInv /\ [Next]_vars => IInv'
  BY NextInvariant, StutterInvariant
<1> QED BY <1>1, InitInvariant, PTL DEF Spec

\* Every reachable state of the pushes, the repository and the listing is well formed.
THEOREM TypeCorrect == Spec => []TypeOK
<1>1. IInv => TypeOK
  BY DEF IInv
<1> QED BY <1>1, Invariance, PTL

\* When visit_manifest has returned from the root, jcr has every manifest and blob of the image, each manifest once and
\* after those it names, however they share children and nest.
THEOREM WalksAreWhole == Spec => []OrderIsWhole
<1>1. ASSUME IInv, NEW c \in Clients, Prepared(c)
      PROVE  /\ Range(push[c].order) = Needed[push[c].root] /\ IsInjective(push[c].order)
             /\ \A j \in DOMAIN push[c].order :
                   Named(push[c].order[j], "manifest") \subseteq {push[c].order[i] : i \in 1 .. j - 1}
             /\ push[c].blobs = UNION {Named(m, "blob") : m \in Needed[push[c].root]}
             /\ push[c].blobs \cap push[c].broken = {}
  <2>1. /\ push[c] \in Locals /\ push[c].root \in Manifests /\ push[c].stack = <<>>
        /\ Ordered(push[c]) /\ Open(push[c]) /\ Collected(push[c])
    BY <1>1, Client DEF Prepared
  <2> QED BY <2>1, WalkIsWhole
<1>2. IInv => OrderIsWhole
  BY <1>1 DEF OrderIsWhole
<1> QED BY <1>2, Invariance, PTL

\* jcrd refuses no manifest of a push but for what somebody has deleted while the push was under way.
THEOREM RefusalsAreDue == Spec => []RefusedOnlyWhenUndone
<1>1. IInv => RefusedOnlyWhenUndone
  BY DEF IInv
<1> QED BY <1>1, Invariance, PTL

\* What jcr reports as pushed is a whole image but for later deletions, and its tag has pointed to it.
THEOREM PushesAreWhole == Spec => []PushedIsWhole
<1>1. ASSUME IInv, NEW c \in Clients, At(c, "done")
      PROVE  /\ Needed[push[c].root] \subseteq live \cup undone[c]
             /\ \A m \in Needed[push[c].root] : Named(m, "blob") \subseteq held
             /\ push[c].ref \in Names => push[c].root \in Range(history[push[c].ref])
  <2> DEFINE p == push[c]
  <2>1. /\ p \in Locals /\ Phase(p) /\ Progress(p, live \cup undone[c], held, history) /\ p.pc = "done"
    BY <1>1, Client DEF At
  <2>2. /\ p.root # NoManifest /\ p.stack = <<>> /\ p.next > Len(p.order)
        /\ p.blobs \subseteq held
        /\ \A i \in DOMAIN p.order : i < p.next => Stored(p, p.order[i], live \cup undone[c], history)
    BY <2>1 DEF Phase, Progress
  <2>3. p.root \in Manifests /\ Ordered(p) /\ Open(p) /\ Collected(p)
    BY <1>1, <2>2, Client
  <2> HIDE DEF p
  <2>4. Range(p.order) = Needed[p.root] /\ p.blobs = UNION {Named(m, "blob") : m \in Needed[p.root]}
    BY <2>1, <2>2, <2>3, WalkIsWhole
  <2>5. /\ DOMAIN p.order = 1 .. Len(p.order) /\ Len(p.order) \in Nat /\ p.next \in Nat
        /\ Range(p.order) = {p.order[i] : i \in 1 .. Len(p.order)}
    BY <2>1, Frames, Fields
  <2>6. \A i \in 1 .. Len(p.order) : i < p.next
    BY <2>2, <2>5
  <2>7. \A m \in Range(p.order) : Stored(p, m, live \cup undone[c], history)
    BY <2>2, <2>5, <2>6
  <2>8. Needed[p.root] \subseteq live \cup undone[c]
    BY <2>4, <2>7 DEF Stored
  <2>9. \A m \in Needed[p.root] : Named(m, "blob") \subseteq held
    BY <2>2, <2>4
  <2>10. p.root \in Needed[p.root]
    BY <2>3, NeededClosed
  <2>11. p.ref \in Names => p.root \in Range(history[p.ref])
    BY <2>4, <2>7, <2>10 DEF Stored
  <2> QED BY <2>8, <2>9, <2>11 DEF p
<1>2. IInv => PushedIsWhole
  BY <1>1 DEF PushedIsWhole
<1> QED BY <1>2, Invariance, PTL

\* A listing of tags, however long, in whatever pages and whatever is pushed and deleted between them, misses no tag
\* that was there all the time and names none twice.
THEOREM ListingsAreComplete == Spec => []ListingComplete
<1>1. IInv => ListingComplete
  BY DEF IInv, ListInv
<1> QED BY <1>1, Invariance, PTL


=============================================================================
