---------------------------- MODULE AccessProofs ----------------------------
(***************************************************************************)
(* Proofs about Access for any number of requests, users, tokens,          *)
(* repositories and changes by the operator.                               *)
(*                                                                         *)
(* The invariant follows the evidence.  What a request has found true it   *)
(* finds in its history (HistoryInv), and where it stands it has found     *)
(* enough (RecordOK): Known says so of what it remembers, the user, the    *)
(* instance role, the repository's row, the actions granted so far; Place  *)
(* of the statement it goes on with.                                       *)
(*                                                                         *)
(* What is said of a request is an operator on its record, its history and *)
(* the bearer tokens, so that it can be said of the record a step leaves.  *)
(***************************************************************************)
EXTENDS Access, TLAPS

\* The user of a credential, by the tokens as they are.
Holder(tokens, c) ==
    CASE c.by = "pat" -> Owner[c.pat]
      [] c.by = "bearer" /\ tokens[c.slot].pat # NoPat -> Owner[tokens[c.slot].pat]
      [] c.by = "session" -> c.user
      [] OTHER -> NoUser

CredentialOK(c) ==
    /\ c \in Credentials
    /\ c.by = "pat" => c.pat \in Pats
    /\ c.by = "bearer" => c.slot \in Slots
    /\ c.by = "session" => c.user \in Users

\* Had, of a history.
HadIn(h, a) ==
    \/ a = "pull" /\ Fact("public") \in h
    \/ Fact("enabled") \in h /\ {Fact("instance"), <<"role", a>>, <<"perm", a>>} \cap h # {}

\* authorize has said yes.
Passed(tokens, h, r) ==
    \A a \in r.scope : /\ HadIn(h, a)
                       /\ r.cred.by = "bearer" => Covers(tokens[r.cred.slot], r.name, a)

KindOK(r) ==
    /\ r.kind \in AllKinds /\ CredentialOK(r.cred)
    /\ r.kind \in {"access", "start"} =>
          /\ r.stage \in {"api", "ensure", "mount"} /\ r.name \in Repos
          /\ \E a \in Actions : r.scope = {a} /\ r.todo = {a}
          /\ r.cred.by \in {"none", "pat", "bearer"}
          /\ r.kind = "start" => r.scope = {"push"}
    /\ r.kind = "token" =>
          /\ r.stage = "token" /\ r.name \in Repos /\ r.todo \subseteq r.scope /\ r.granted \subseteq r.scope
          /\ r.cred.by \in {"none", "pat"}
    /\ r.kind \in {"create", "visibility"} =>
          r.stage \in {"admin", "ensure"} /\ r.name \in Repos /\ r.scope = {"admin"}
    /\ r.kind \in {"newpat", "revoke"} => r.stage = "api"

Known(tokens, h, r) ==
    /\ r.user # NoUser => r.user = Holder(tokens, r.cred) /\ r.user \in Users /\ Fact("enabled") \in h
    /\ r.admin => r.user # NoUser /\ Fact("instance") \in h
    /\ r.admin /\ r.from # NoRepo => Fact("source") \in h
    /\ r.row = "public" => Fact("public") \in h
    /\ \A a \in r.granted : HadIn(h, a)
    /\ r.mounted => Fact("source") \in h

\* A check is under way.
Deciding(tokens, h, r) ==
    /\ r.kind \in {"access", "start", "token", "create", "visibility"}
    /\ r.stage = "api" => r.kind \in {"access", "start"}
    /\ r.stage = "token" => r.todo # {}
    /\ r.stage = "ensure" => r.kind = "create" \/ (r.kind = "start" /\ Passed(tokens, h, r))
    /\ r.stage = "mount" => r.kind = "start" /\ r.from # NoRepo /\ Passed(tokens, h, r)
    /\ Fact("valid") \in h

Place(tokens, h, r) ==
    /\ r.pc \in {"find", "authn"} => r.stage \in {"api", "token", "admin"}
    /\ r.pc = "find" => r.kind \in {"access", "start"}
    /\ r.pc \in {"lookup", "nsrole", "role", "perm"} => Deciding(tokens, h, r)
    /\ r.pc = "lookup" => r.stage \in {"api", "token", "admin"} /\ r.kind # "create"
    /\ r.pc \in {"nsrole", "role", "perm"} => r.user # NoUser
    /\ r.pc = "nsrole" => r.stage \in {"api", "token"}
    /\ r.pc \in {"ensure", "member", "insert", "refind", "ready"} =>
          r.stage # "mount" /\ Fact("valid") \in h /\ (r.kind = "create" \/ (r.kind = "start" /\ Passed(tokens, h, r)))
    /\ r.pc = "mount" =>
          Fact("valid") \in h /\ r.kind = "start" /\ r.from # NoRepo /\ Passed(tokens, h, r)
    /\ r.pc = "granted" =>
          Fact("valid") \in h /\ r.kind \in {"access", "start"} /\ Passed(tokens, h, r)
    /\ r.pc = "mint" => Fact("valid") \in h /\ r.kind = "token"
    /\ r.pc = "apply" => \/ r.kind \in {"newpat", "revoke"}
                         \/ r.kind \in {"create", "visibility"} /\ HadIn(h, "admin")

RecordOK(tokens, h, r) ==
    /\ r \in Locals
    /\ r.pc # "idle" => KindOK(r) /\ Known(tokens, h, r) /\ Place(tokens, h, r)

\* What is true now is in the history.
HistoryInv == \A q \in Requests : req[q].pc # "idle" => TrueFacts(q) \subseteq held[q]

RequestInv ==
    /\ req \in [Requests -> Locals]
    /\ \A q \in Requests : RecordOK(token, held[q], req[q])

TokenRows == [pat : Pats \cup {NoPat}, repo : Repos \cup {NoRepo}, scope : SUBSET Actions, left : 0..Lifetime]

RowsInv ==
    /\ pat \in [Pats -> {"none", "live", "revoked", "expired"}]
    /\ repo \in [Repos -> Visibilities \cup {"absent"}]
    /\ enabled \subseteq Users /\ admins \subseteq Users
    /\ role \in [Users \X Namespaces -> Roles] /\ perm \subseteq Users \X Repos \X Actions
    /\ token \in [Slots -> TokenRows] /\ changes \in 0..MaxChanges

FactsInv == held \in [Requests -> SUBSET Facts] /\ lacked \in [Requests -> SUBSET Facts]

IInv == RowsInv /\ FactsInv /\ HistoryInv /\ RequestInv

-----------------------------------------------------------------------------
(* A request's record *)

\* The action a check is about is one that was asked for.
LEMMA AskedOK ==
    ASSUME NEW r, r.todo \subseteq Actions, r.todo # {}, r.stage \in {"api", "token"}
    PROVE  Asked(r) \in r.todo
<1>1. \E a \in r.todo : \A b \in r.todo : Rank[a] <= Rank[b]
    <2>1. Rank["pull"] = 1 /\ Rank["push"] = 2 /\ Rank["delete"] = 3 /\ Rank["admin"] = 4
        BY DEF Rank
    <2> HIDE DEF Rank
    <2>2. CASE "pull" \in r.todo
        BY <2>1, <2>2 DEF Actions
    <2>3. CASE "pull" \notin r.todo /\ "push" \in r.todo
        BY <2>1, <2>3 DEF Actions
    <2>4. CASE "pull" \notin r.todo /\ "push" \notin r.todo /\ "delete" \in r.todo
        BY <2>1, <2>4 DEF Actions
    <2>5. CASE "pull" \notin r.todo /\ "push" \notin r.todo /\ "delete" \notin r.todo
        BY <2>1, <2>5 DEF Actions
    <2> QED BY <2>2, <2>3, <2>4, <2>5
<1>2. Asked(r) = CHOOSE a \in r.todo : \A b \in r.todo : Rank[a] <= Rank[b]
    BY DEF Asked
<1> QED BY <1>1, <1>2

\* Evidence is not lost, and a token that a request presents stays the same.
LEMMA RecordKept ==
    ASSUME NEW tokens, NEW after, NEW h, NEW more, h \subseteq more, NEW r, RecordOK(tokens, h, r),
           r.cred.by = "bearer" => /\ after[r.cred.slot].pat = tokens[r.cred.slot].pat
                                   /\ after[r.cred.slot].repo = tokens[r.cred.slot].repo
                                   /\ after[r.cred.slot].scope = tokens[r.cred.slot].scope
    PROVE  RecordOK(after, more, r)
<1> SUFFICES ASSUME r.pc # "idle"
             PROVE  Known(after, more, r) /\ Place(after, more, r)
    BY DEF RecordOK
<1>1. KindOK(r) /\ Known(tokens, h, r) /\ Place(tokens, h, r)
    BY DEF RecordOK
<1>2. Holder(after, r.cred) = Holder(tokens, r.cred)
    BY DEF Holder
<1>3. \A a : HadIn(h, a) => HadIn(more, a)
    BY DEF HadIn
<1>4. Known(after, more, r)
    BY <1>1, <1>2, <1>3 DEF Known
<1>5. Passed(tokens, h, r) => Passed(after, more, r)
    BY <1>3 DEF Passed, Covers
<1>6. Deciding(tokens, h, r) => Deciding(after, more, r)
    BY <1>5 DEF Deciding
<1>7. Place(after, more, r)
    BY <1>1, <1>3, <1>5, <1>6 DEF Place
<1> QED BY <1>4, <1>7

\* The places of a request.
Places == {"idle", "find", "authn", "lookup", "nsrole", "role", "perm", "ensure", "member",
           "insert", "refind", "ready", "mount", "apply", "mint", "granted", "denied"}

\* Only the place changes.
LEMMA GoesTo ==
    ASSUME NEW tokens, NEW h, NEW r \in Locals, NEW pc \in Places
    PROVE  LET new == [r EXCEPT !.pc = pc] IN
           /\ new \in Locals /\ new.pc = pc /\ new.kind = r.kind /\ new.stage = r.stage
           /\ new.user = r.user /\ new.from = r.from
           /\ KindOK(r) => KindOK(new)
           /\ Known(tokens, h, r) => Known(tokens, h, new)
           /\ Deciding(tokens, h, r) => Deciding(tokens, h, new)
           /\ Passed(tokens, h, r) => Passed(tokens, h, new)
<1> DEFINE new == [r EXCEPT !.pc = pc]
<1>1. new \in Locals
    BY ZenonT(60) DEF Locals, Places
<1>2. /\ new.pc = pc /\ new.kind = r.kind /\ new.cred = r.cred /\ new.name = r.name
      /\ new.from = r.from /\ new.want = r.want /\ new.scope = r.scope /\ new.todo = r.todo
      /\ new.granted = r.granted /\ new.row = r.row /\ new.user = r.user
      /\ new.admin = r.admin /\ new.stage = r.stage /\ new.mounted = r.mounted
    BY DEF Locals
<1> HIDE DEF new
<1>3. KindOK(r) => KindOK(new)
    BY <1>2 DEF KindOK
<1>4. Known(tokens, h, r) => Known(tokens, h, new)
    BY <1>2 DEF Known
<1>5. Passed(tokens, h, r) => Passed(tokens, h, new)
    BY <1>2 DEF Passed
<1>6. Deciding(tokens, h, r) => Deciding(tokens, h, new)
    BY <1>2, <1>5 DEF Deciding
<1> QED BY <1>1, <1>2, <1>3, <1>4, <1>5, <1>6 DEF new

\* A request that ends, or is turned away, has no more to show for itself.
LEMMA DeniedOK ==
    ASSUME NEW tokens, NEW h, NEW r \in Locals, KindOK(r), Known(tokens, h, r)
    PROVE  RecordOK(tokens, h, [r EXCEPT !.pc = "denied"])
<1> DEFINE new == [r EXCEPT !.pc = "denied"]
<1>1. "denied" \in Places
    BY DEF Places
<1>2. new \in Locals /\ new.pc = "denied" /\ KindOK(new) /\ Known(tokens, h, new)
    BY <1>1, GoesTo
<1> HIDE DEF new
<1> QED BY <1>2 DEF RecordOK, Place, new

\* A request that is over.
LEMMA IdleOK ==
    ASSUME NEW tokens, NEW h
    PROVE  Idle \in Locals /\ Idle.pc = "idle" /\ RecordOK(tokens, h, Idle)
<1>1. Idle \in Locals /\ Idle.pc = "idle"
    BY DEF Idle, Locals, NoCredential, Credentials, Visibilities, Actions
<1> QED BY <1>1 DEF RecordOK

\* A place where a request that has passed may go.
LEMMA PassedOn ==
    ASSUME NEW tokens, NEW h, NEW r \in Locals, KindOK(r), Known(tokens, h, r), Fact("valid") \in h,
           Passed(tokens, h, r),
           NEW pc, \/ pc = "granted" /\ r.kind \in {"access", "start"}
                   \/ pc = "ensure" /\ r.kind = "start" /\ r.stage # "mount"
                   \/ pc = "mount" /\ r.kind = "start" /\ r.from # NoRepo
    PROVE  RecordOK(tokens, h, [r EXCEPT !.pc = pc])
<1> DEFINE new == [r EXCEPT !.pc = pc]
<1>1. pc \in Places
    BY DEF Places
<1>2. /\ new \in Locals /\ new.pc = pc /\ KindOK(new) /\ Known(tokens, h, new) /\ Passed(tokens, h, new)
      /\ new.kind = r.kind /\ new.from = r.from /\ new.stage = r.stage
    BY <1>1, GoesTo
<1> HIDE DEF new
<1> QED BY <1>2 DEF RecordOK, Place, new

\* start_upload goes on with its repository row.
LEMMA StartedOK ==
    ASSUME NEW tokens, NEW h, NEW r \in Locals, KindOK(r), Known(tokens, h, r), Fact("valid") \in h,
           Passed(tokens, h, r), r.kind = "start"
    PROVE  RecordOK(tokens, h, Started(r))
<1>1. CASE r.from # NoRepo
    BY <1>1, PassedOn DEF Started
<1>2. CASE r.from = NoRepo
    BY <1>2, PassedOn DEF Started
<1> QED BY <1>1, <1>2

\* The handler runs once authorize has said yes.
LEMMA HandleOK ==
    ASSUME NEW tokens, NEW h, NEW r \in Locals, KindOK(r), Known(tokens, h, r), Fact("valid") \in h,
           Passed(tokens, h, r), r.kind \in {"access", "start"}, r.stage # "mount"
    PROVE  RecordOK(tokens, h, Handle(r))
<1>1. CASE r.row = "absent" /\ r.kind = "start"
    BY <1>1, PassedOn DEF Handle
<1>2. CASE r.row = "absent" /\ r.kind # "start"
    BY <1>2, DeniedOK DEF Handle
<1>3. CASE r.row # "absent" /\ r.kind = "start"
    BY <1>3, StartedOK DEF Handle
<1>4. CASE r.row # "absent" /\ r.kind # "start"
    BY <1>4, PassedOn DEF Handle
<1> QED BY <1>1, <1>2, <1>3, <1>4
-----------------------------------------------------------------------------
(* Checks *)

\* The evidence for a yes.
Right(h, r) ==
    /\ r.stage \in {"api", "token", "admin"} => HadIn(h, Asked(r))
    /\ r.stage = "mount" => Fact("source") \in h

\* What a check says is taken for what it has found.
LEMMA DecideOK ==
    ASSUME NEW h, NEW r \in Locals, KindOK(r), Known(token, h, r), Deciding(token, h, r),
           NEW ok \in BOOLEAN, ok => Right(h, r)
    PROVE  RecordOK(token, h, Decide(r, ok))
<1> USE DEF Right
<1>1. r.stage \in {"api", "token", "ensure", "admin", "mount"} /\ Fact("valid") \in h
    BY DEF Locals, Deciding
<1>2. CASE r.stage = "api"
    <2>1. CASE ok /\ InScope(r)
        <3>1. r.kind \in {"access", "start"}
            BY <1>2 DEF Deciding
        <3>2. PICK a \in Actions : r.scope = {a} /\ r.todo = {a}
            BY <3>1 DEF KindOK
        <3>3. Asked(r) = a
            BY <1>2, <3>2, AskedOK
        <3>4. Passed(token, h, r)
            BY <1>2, <2>1, <3>2, <3>3 DEF Passed, InScope
        <3>5. Decide(r, ok) = Handle(r)
            BY <1>2, <2>1 DEF Decide
        <3> QED BY <1>1, <1>2, <3>1, <3>4, <3>5, HandleOK
    <2>2. CASE ~(ok /\ InScope(r))
        BY <1>2, <2>2, DeniedOK DEF Decide
    <2> QED BY <2>1, <2>2
<1>3. CASE r.stage = "token"
    <2> DEFINE rest == r.todo \ {Asked(r)}
               some == IF ok THEN r.granted \cup {Asked(r)} ELSE r.granted
               pc == IF rest = {} THEN "mint" ELSE "lookup"
               new == [r EXCEPT !.todo = rest, !.granted = some, !.pc = pc]
    <2>1. Decide(r, ok) = new
        BY <1>3 DEF Decide, Locals
    <2>2. r.kind = "token" /\ r.todo # {} /\ r.todo \subseteq r.scope /\ r.granted \subseteq r.scope
        BY <1>3 DEF KindOK, Deciding
    <2>3. Asked(r) \in r.todo /\ r.todo \subseteq Actions /\ r.granted \subseteq Actions
        BY <1>3, <2>2, AskedOK DEF Locals
    <2>4. /\ rest \subseteq Actions /\ some \subseteq Actions /\ rest \subseteq r.scope /\ some \subseteq r.scope
          /\ pc \in {"mint", "lookup"} /\ (pc = "lookup" => rest # {})
        BY <2>2, <2>3
    <2>5. \A a \in some : HadIn(h, a)
        BY <1>3 DEF Known
    <2> HIDE DEF rest, some, pc
    <2>6. new \in Locals
        BY <2>4, ZenonT(60) DEF Locals
    <2>7. /\ new.pc = pc /\ new.kind = r.kind /\ new.cred = r.cred /\ new.name = r.name
          /\ new.from = r.from /\ new.scope = r.scope /\ new.todo = rest
          /\ new.granted = some /\ new.row = r.row /\ new.user = r.user
          /\ new.admin = r.admin /\ new.stage = r.stage /\ new.mounted = r.mounted
        BY DEF Locals
    <2> HIDE DEF new
    <2>8. KindOK(new)
        BY <2>2, <2>4, <2>7 DEF KindOK
    <2>9. Known(token, h, new)
        BY <2>5, <2>7 DEF Known
    <2>10. Place(token, h, new)
        BY <1>1, <1>3, <2>2, <2>4, <2>7 DEF Place, Deciding
    <2> QED BY <2>1, <2>6, <2>8, <2>9, <2>10 DEF RecordOK
<1>4. CASE r.stage = "ensure"
    <2>1. CASE ok
        <3> DEFINE new == [r EXCEPT !.pc = "ready"]
        <3>1. "ready" \in Places
            BY DEF Places
        <3>2. /\ new \in Locals /\ new.pc = "ready" /\ new.kind = r.kind /\ KindOK(new)
              /\ Known(token, h, new) /\ Deciding(token, h, new) /\ new.stage = "ensure"
            BY <1>4, <3>1, GoesTo
        <3>3. Decide(r, ok) = new
            BY <1>4, <2>1 DEF Decide
        <3> HIDE DEF new
        <3> QED BY <3>2, <3>3 DEF RecordOK, Place, Deciding
    <2>2. CASE ~ok
        BY <1>4, <2>2, DeniedOK DEF Decide
    <2> QED BY <2>1, <2>2
<1>5. CASE r.stage = "admin"
    <2>1. CASE ok
        <3> DEFINE new == [r EXCEPT !.pc = "apply"]
        <3>1. "apply" \in Places
            BY DEF Places
        <3>2. /\ new \in Locals /\ new.pc = "apply" /\ new.kind = r.kind /\ KindOK(new)
              /\ Known(token, h, new)
            BY <3>1, GoesTo
        <3>3. Decide(r, ok) = new
            BY <1>5, <2>1 DEF Decide
        <3>4. HadIn(h, "admin") /\ r.kind \in {"create", "visibility"}
            BY <1>5, <2>1 DEF Asked, KindOK, AllKinds, Deciding
        <3> HIDE DEF new
        <3> QED BY <3>2, <3>3, <3>4 DEF RecordOK, Place
    <2>2. CASE ~ok
        BY <1>5, <2>2, DeniedOK DEF Decide
    <2> QED BY <2>1, <2>2
<1>6. CASE r.stage = "mount"
    <2> DEFINE new == [r EXCEPT !.mounted = ok, !.pc = "granted"]
    <2>1. Decide(r, ok) = new
        BY <1>6 DEF Decide
    <2>2. new \in Locals
        BY ZenonT(60) DEF Locals
    <2>3. /\ new.pc = "granted" /\ new.kind = r.kind /\ new.cred = r.cred /\ new.name = r.name
          /\ new.from = r.from /\ new.scope = r.scope /\ new.todo = r.todo
          /\ new.granted = r.granted /\ new.row = r.row /\ new.user = r.user
          /\ new.admin = r.admin /\ new.stage = r.stage /\ new.mounted = ok
        BY DEF Locals
    <2> HIDE DEF new
    <2>4. KindOK(new)
        BY <2>3 DEF KindOK
    <2>5. Known(token, h, new)
        BY <1>6, <2>3 DEF Known
    <2>6. r.kind = "start" /\ Passed(token, h, r)
        BY <1>6 DEF Deciding
    <2>7. Passed(token, h, new)
        BY <2>3, <2>6 DEF Passed
    <2>8. Place(token, h, new)
        BY <1>1, <2>3, <2>6, <2>7 DEF Place
    <2> QED BY <2>1, <2>2, <2>4, <2>5, <2>8 DEF RecordOK
<1> QED BY <1>1, <1>2, <1>3, <1>4, <1>5, <1>6

\* authorize_repository: what its caller says of the row is a right.
LEMMA AuthorizeRowOK ==
    ASSUME NEW h, NEW r \in Locals, KindOK(r), Known(token, h, r), Deciding(token, h, r),
           NEW row, Asked(r) = "pull" /\ row = "public" => Right(h, r)
    PROVE  RecordOK(token, h, AuthorizeRow(r, row))
<1>1. CASE Asked(r) = "pull" /\ row = "public"
    BY <1>1, DecideOK DEF AuthorizeRow
<1>2. CASE ~(Asked(r) = "pull" /\ row = "public") /\ r.user = NoUser
    BY <1>2, DecideOK DEF AuthorizeRow
<1>3. CASE ~(Asked(r) = "pull" /\ row = "public") /\ r.user # NoUser /\ r.admin
    <2>1. Right(h, r)
        BY <1>3 DEF Known, Right, HadIn, Deciding
    <2> QED BY <1>3, <2>1, DecideOK DEF AuthorizeRow
<1>4. CASE ~(Asked(r) = "pull" /\ row = "public") /\ r.user # NoUser /\ ~r.admin
    <2> DEFINE new == [r EXCEPT !.pc = "role"]
    <2>1. "role" \in Places
        BY DEF Places
    <2>2. /\ new \in Locals /\ new.pc = "role" /\ KindOK(new) /\ Known(token, h, new)
          /\ Deciding(token, h, new) /\ new.user = r.user
        BY <2>1, GoesTo
    <2>3. AuthorizeRow(r, row) = new
        BY <1>4 DEF AuthorizeRow
    <2> HIDE DEF new
    <2> QED BY <1>4, <2>2, <2>3 DEF RecordOK, Place
<1> QED BY <1>1, <1>2, <1>3, <1>4

\* authorize_repository_name, on the row it has just read.
LEMMA AuthorizeNameOK ==
    ASSUME NEW h, NEW r \in Locals, KindOK(r), Known(token, h, r), Deciding(token, h, r),
           r.stage \in {"api", "token"},
           NEW row, Asked(r) = "pull" /\ row = "public" => Right(h, r)
    PROVE  RecordOK(token, h, AuthorizeName(r, row))
<1>1. CASE row # "absent"
    BY <1>1, AuthorizeRowOK DEF AuthorizeName
<1>2. CASE row = "absent" /\ r.user = NoUser
    BY <1>2, DecideOK DEF AuthorizeName
<1>3. CASE row = "absent" /\ r.user # NoUser /\ r.admin
    <2>1. Right(h, r)
        BY <1>3 DEF Known, Right, HadIn
    <2> QED BY <1>3, <2>1, DecideOK DEF AuthorizeName
<1>4. CASE row = "absent" /\ r.user # NoUser /\ ~r.admin /\ Asked(r) \notin {"pull", "push"}
    BY <1>4, DecideOK DEF AuthorizeName
<1>5. CASE row = "absent" /\ r.user # NoUser /\ ~r.admin /\ Asked(r) \in {"pull", "push"}
    <2> DEFINE new == [r EXCEPT !.pc = "nsrole"]
    <2>1. "nsrole" \in Places
        BY DEF Places
    <2>2. /\ new \in Locals /\ new.pc = "nsrole" /\ KindOK(new) /\ Known(token, h, new)
          /\ Deciding(token, h, new) /\ new.user = r.user /\ new.stage = r.stage
        BY <2>1, GoesTo
    <2>3. AuthorizeName(r, row) = new
        BY <1>5 DEF AuthorizeName
    <2> HIDE DEF new
    <2> QED BY <1>5, <2>2, <2>3 DEF RecordOK, Place
<1> QED BY <1>1, <1>2, <1>3, <1>4, <1>5

\* A check of an endpoint, a scope or the web is about what the request asks for.
LEMMA AskedInScope ==
    ASSUME NEW h, NEW r \in Locals, KindOK(r), Deciding(token, h, r),
           r.stage \in {"api", "token", "admin"}
    PROVE  Asked(r) \in r.scope /\ r.name \in Repos /\ Subject(r) = r.name
<1>1. r.todo \subseteq Actions
    BY DEF Locals
<1>2. CASE r.stage = "admin"
    BY <1>2 DEF Asked, KindOK, Deciding, Subject
<1>3. CASE r.stage = "token"
    BY <1>1, <1>3, AskedOK DEF KindOK, Deciding, Subject
<1>4. CASE r.stage = "api"
    <2>1. r.todo # {} /\ r.todo = r.scope
        BY <1>4 DEF KindOK, Deciding
    <2> QED BY <1>1, <1>4, <2>1, AskedOK DEF KindOK, Deciding, Subject
<1> QED BY <1>2, <1>3, <1>4

-----------------------------------------------------------------------------
(* What is true *)

\* The facts of a history, one by one: the credential's,
LEMMA ValidFact ==
    ASSUME NEW q \in Requests, Good(req[q].cred)
    PROVE  Fact("valid") \in TrueFacts(q)
BY DEF TrueFacts, If

\* The user's,
LEMMA UserFacts ==
    ASSUME NEW q \in Requests
    PROVE  /\ UserOf(req[q].cred) \in enabled => Fact("enabled") \in TrueFacts(q)
           /\ UserOf(req[q].cred) \in admins => Fact("instance") \in TrueFacts(q)
BY DEF TrueFacts, If

\* the repository's,
LEMMA PublicFact ==
    ASSUME NEW q \in Requests, req[q].name \in Repos, repo[req[q].name] = "public"
    PROVE  Fact("public") \in TrueFacts(q)
BY AccessAssumption DEF TrueFacts, If

\* the rights of the user there,
LEMMA RightFacts ==
    ASSUME NEW q \in Requests, req[q].name \in Repos, NEW a \in req[q].scope
    PROVE  /\ RoleGrants(MemberRole(UserOf(req[q].cred), req[q].name), a) => <<"role", a>> \in TrueFacts(q)
           /\ PermGrants(UserOf(req[q].cred), req[q].name, a) => <<"perm", a>> \in TrueFacts(q)
<1>1. req[q].name # NoRepo
    BY AccessAssumption
<1>2. /\ {<<"role", x>> : x \in {y \in req[q].scope : RoleGrants(MemberRole(UserOf(req[q].cred), req[q].name), y)}}
            \subseteq TrueFacts(q)
      /\ {<<"perm", x>> : x \in {y \in req[q].scope : PermGrants(UserOf(req[q].cred), req[q].name, y)}}
            \subseteq TrueFacts(q)
    BY <1>1 DEF TrueFacts
<1> QED BY <1>2

\* and on the source of a mount.
LEMMA SourceFact ==
    ASSUME NEW q \in Requests, req[q].from \in Repos,
           LET u == UserOf(req[q].cred) IN
           \/ repo[req[q].from] = "public" \/ u \in admins
           \/ RoleGrants(MemberRole(u, req[q].from), "pull") \/ PermGrants(u, req[q].from, "pull")
    PROVE  Fact("source") \in TrueFacts(q)
BY AccessAssumption DEF TrueFacts, If
-----------------------------------------------------------------------------
(* Steps *)

\* What is true of a request is a fact.
LEMMA FactsTyped == req \in [Requests -> Locals] => \A q \in Requests : TrueFacts(q) \subseteq Facts
<1> SUFFICES ASSUME req \in [Requests -> Locals], NEW q \in Requests
             PROVE  TrueFacts(q) \subseteq Facts
    OBVIOUS
<1>1. req[q].scope \subseteq Actions
    BY DEF Locals
<1> QED BY <1>1 DEF TrueFacts, Facts, Fact, If

\* So it is after a step.
LEMMA FactsTypedNext == req' \in [Requests -> Locals] => \A q \in Requests : TrueFacts(q)' \subseteq Facts
<1>1. (req \in [Requests -> Locals] => \A q \in Requests : TrueFacts(q) \subseteq Facts)'
    BY FactsTyped, PTL
<1> QED BY <1>1 DEF Facts

\* What a request has seen stays in its history, and what is true is added to it.
LEMMA Observed ==
    ASSUME Observe, FactsInv, req' \in [Requests -> Locals]
    PROVE  /\ HistoryInv' /\ FactsInv'
           /\ \A q \in Requests : req'[q].pc # "idle" => Before(held, q) \subseteq held'[q]
<1>1. /\ held' = [q \in Requests |-> IF req'[q].pc = "idle" THEN {}
                                      ELSE Before(held, q) \cup TrueFacts(q)']
      /\ lacked' = [q \in Requests |-> IF req'[q].pc = "idle" THEN {}
                                        ELSE Before(lacked, q) \cup (Facts \ TrueFacts(q)')]
    BY DEF Observe
<1>2. \A q \in Requests : req'[q].pc # "idle" => TrueFacts(q)' \subseteq held'[q]
    BY <1>1
<1>3. HistoryInv'
    BY <1>2 DEF HistoryInv
<1>4. \A q \in Requests : Before(held, q) \subseteq Facts /\ Before(lacked, q) \subseteq Facts
    BY DEF Before, FactsInv
<1>5. FactsInv'
    BY <1>1, <1>4, FactsTypedNext DEF FactsInv
<1> QED BY <1>1, <1>3, <1>5

\* A step of one request, whose record is as good as its history makes it.
LEMMA RecordStep ==
    ASSUME RequestInv, FactsInv, Observe, NEW q \in Requests, NEW new, RecordOK(token, Before(held, q), new),
           req' = [req EXCEPT ![q] = new],
           \A x \in Requests : req'[x].pc # "idle" /\ req'[x].cred.by = "bearer" =>
              LET s == req'[x].cred.slot IN
              /\ token'[s].pat = token[s].pat /\ token'[s].repo = token[s].repo
              /\ token'[s].scope = token[s].scope
    PROVE  RequestInv' /\ HistoryInv' /\ FactsInv'
<1>1. new \in Locals
    BY DEF RecordOK
<1>2. /\ req' \in [Requests -> Locals] /\ req'[q] = new
      /\ \A x \in Requests : x # q => req'[x] = req[x]
    BY <1>1 DEF RequestInv
<1>3. \A x \in Requests : req'[x].pc # "idle" => Before(held, x) \subseteq held'[x]
    BY <1>2, Observed
<1>4. \A x \in Requests : RecordOK(token, Before(held, x), req'[x])
    <2>1. \A x \in Requests : x # q => RecordOK(token, Before(held, x), req[x])
        BY DEF RequestInv, RecordOK, Before
    <2> QED BY <1>2, <2>1
<1>5. ASSUME NEW x \in Requests
      PROVE  RecordOK(token', held'[x], req'[x])
    <2>1. CASE req'[x].pc = "idle"
        BY <1>2, <2>1 DEF RecordOK
    <2>2. CASE req'[x].pc # "idle"
        <3> DEFINE r == req'[x]
        <3>1. /\ RecordOK(token, Before(held, x), r) /\ Before(held, x) \subseteq held'[x]
              /\ r.cred.by = "bearer" => /\ token'[r.cred.slot].pat = token[r.cred.slot].pat
                                         /\ token'[r.cred.slot].repo = token[r.cred.slot].repo
                                         /\ token'[r.cred.slot].scope = token[r.cred.slot].scope
            BY <1>3, <1>4, <2>2
        <3> HIDE DEF r
        <3>2. RecordOK(token', held'[x], r)
            BY <3>1, RecordKept
        <3> QED BY <3>2 DEF r
    <2> QED BY <2>1, <2>2
<1> QED BY <1>2, <1>5, Observed DEF RequestInv
-----------------------------------------------------------------------------
(* The statements *)

\* A request under way.
LEMMA UnderWay ==
    ASSUME IInv, NEW q \in Requests, req[q].pc # "idle"
    PROVE  /\ req[q] \in Locals /\ KindOK(req[q]) /\ Known(token, held[q], req[q])
           /\ Place(token, held[q], req[q]) /\ TrueFacts(q) \subseteq held[q]
           /\ Before(held, q) = held[q]
BY DEF IInv, RequestInv, RecordOK, HistoryInv, Before

\* The user of a credential, as the requests read it.
LEMMA KnownHolder == \A c : UserOf(c) = Holder(token, c)
BY DEF UserOf, Holder

\* The rows a check reads are evidence.
LEMMA RowsAreEvidence ==
    ASSUME IInv, NEW q \in Requests, req[q].pc # "idle", Deciding(token, held[q], req[q]),
           req[q].user # NoUser
    PROVE  /\ RoleGrants(RoleOf(q), Asked(req[q])) => Right(held[q], req[q])
           /\ PermGrants(req[q].user, Subject(req[q]), Asked(req[q])) => Right(held[q], req[q])
<1> DEFINE r == req[q]
           u == UserOf(r.cred)
<1>1. /\ r \in Locals /\ KindOK(r) /\ r.user = u /\ Fact("enabled") \in held[q]
      /\ TrueFacts(q) \subseteq held[q]
    BY UnderWay, KnownHolder DEF Known
<1>2. CASE r.stage \in {"api", "token", "admin"}
    <2>1. Asked(r) \in r.scope /\ r.name \in Repos /\ Subject(r) = r.name
        BY <1>1, <1>2, AskedInScope
    <2>2. RoleOf(q) = MemberRole(u, r.name)
        BY <1>1, <2>1 DEF RoleOf, MemberRole
    <2>3. /\ RoleGrants(RoleOf(q), Asked(r)) => <<"role", Asked(r)>> \in held[q]
          /\ PermGrants(r.user, Subject(r), Asked(r)) => <<"perm", Asked(r)>> \in held[q]
        BY <1>1, <2>1, <2>2, RightFacts
    <2> QED BY <1>1, <1>2, <2>3 DEF Right, HadIn
<1>3. CASE r.stage = "mount"
    <2>1. r.from \in Repos /\ Subject(r) = r.from /\ Asked(r) = "pull"
        BY <1>1, <1>3 DEF Deciding, Locals, Subject, Asked
    <2>2. RoleOf(q) = MemberRole(u, r.from)
        BY <1>1, <2>1 DEF RoleOf, MemberRole
    <2>3. RoleGrants(RoleOf(q), Asked(r)) \/ PermGrants(r.user, Subject(r), Asked(r)) =>
              Fact("source") \in held[q]
        BY <1>1, <2>1, <2>2, SourceFact
    <2> QED BY <1>3, <2>3 DEF Right
<1>4. CASE r.stage = "ensure"
    BY <1>4 DEF Right
<1> QED BY <1>1, <1>2, <1>3, <1>4 DEF Locals

\* The three checks on rows.
LEMMA CheckRecord ==
    ASSUME IInv, NEW q \in Requests
    PROVE  /\ At(q, "nsrole") =>
                RecordOK(token, held[q], Decide(req[q], RoleGrantsName(RoleOf(q), Asked(req[q]))))
           /\ At(q, "role") =>
                RecordOK(token, held[q], IF RoleGrants(RoleOf(q), Asked(req[q])) THEN Decide(req[q], TRUE)
                                         ELSE [req[q] EXCEPT !.pc = "perm"])
           /\ At(q, "perm") =>
                RecordOK(token, held[q],
                         Decide(req[q], PermGrants(req[q].user, Subject(req[q]), Asked(req[q]))))
<1> DEFINE r == req[q]
<1> SUFFICES ASSUME r.pc \in {"nsrole", "role", "perm"}
             PROVE  /\ RecordOK(token, held[q], Decide(r, RoleGrantsName(RoleOf(q), Asked(r))))
                    /\ RecordOK(token, held[q], IF RoleGrants(RoleOf(q), Asked(r)) THEN Decide(r, TRUE)
                                                ELSE [r EXCEPT !.pc = "perm"])
                    /\ RecordOK(token, held[q], Decide(r, PermGrants(r.user, Subject(r), Asked(r))))
    BY DEF At
<1>1. /\ r \in Locals /\ KindOK(r) /\ Known(token, held[q], r) /\ Deciding(token, held[q], r)
      /\ r.user # NoUser
    BY UnderWay DEF Place
<1> DEFINE yes == RoleGrants(RoleOf(q), Asked(r))
           named == RoleGrantsName(RoleOf(q), Asked(r))
           permitted == PermGrants(r.user, Subject(r), Asked(r))
<1>2. (yes => Right(held[q], r)) /\ (permitted => Right(held[q], r)) /\ (named => yes)
    BY <1>1, RowsAreEvidence DEF RoleGrantsName
<1>3. yes \in BOOLEAN /\ named \in BOOLEAN /\ permitted \in BOOLEAN
    BY DEF RoleGrants, RoleGrantsName, PermGrants
<1> HIDE DEF yes, named, permitted
<1>4. RecordOK(token, held[q], Decide(r, named)) /\ RecordOK(token, held[q], Decide(r, permitted))
    BY <1>1, <1>2, <1>3, DecideOK
<1>5. CASE yes
    BY <1>1, <1>2, <1>4, <1>5, DecideOK DEF yes, named, permitted
<1>6. CASE ~yes
    <2> DEFINE new == [r EXCEPT !.pc = "perm"]
    <2>1. "perm" \in Places
        BY DEF Places
    <2>2. /\ new \in Locals /\ new.pc = "perm" /\ KindOK(new) /\ Known(token, held[q], new)
          /\ Deciding(token, held[q], new) /\ new.user = r.user
        BY <1>1, <2>1, GoesTo
    <2> HIDE DEF new
    <2>3. RecordOK(token, held[q], new)
        BY <1>1, <2>2 DEF RecordOK, Place
    <2> QED BY <1>4, <1>6, <2>3 DEF yes, named, permitted, new
<1> QED BY <1>5, <1>6

\* The first read of the repository.
LEMMA FindRecord ==
    ASSUME IInv, NEW q \in Requests, At(q, "find")
    PROVE  RecordOK(token, held[q], [req[q] EXCEPT !.row = RepoOf(q), !.pc = "authn"])
<1> DEFINE r == req[q]
           row == RepoOf(q)
           new == [r EXCEPT !.row = row, !.pc = "authn"]
<1>1. /\ r \in Locals /\ KindOK(r) /\ Known(token, held[q], r) /\ TrueFacts(q) \subseteq held[q]
      /\ r.kind \in {"access", "start"} /\ r.stage = "api" /\ r.name \in Repos
    BY UnderWay DEF At, Place, KindOK
<1>2. row = repo[r.name] /\ row \in Visibilities \cup {"absent"}
    BY <1>1 DEF RepoOf, Subject, IInv, RowsInv
<1>3. row = "public" => Fact("public") \in held[q]
    BY <1>1, <1>2, PublicFact
<1> HIDE DEF row
<1>4. new \in Locals
    BY <1>1, <1>2, ZenonT(60) DEF Locals
<1>5. /\ new.pc = "authn" /\ new.kind = r.kind /\ new.cred = r.cred /\ new.name = r.name
      /\ new.from = r.from /\ new.scope = r.scope /\ new.todo = r.todo
      /\ new.granted = r.granted /\ new.row = row /\ new.user = r.user
      /\ new.admin = r.admin /\ new.stage = r.stage /\ new.mounted = r.mounted
    BY <1>1 DEF Locals
<1> HIDE DEF new
<1>6. KindOK(new)
    BY <1>1, <1>5 DEF KindOK
<1>7. Known(token, held[q], new)
    BY <1>1, <1>3, <1>5 DEF Known
<1>8. Place(token, held[q], new)
    BY <1>1, <1>5 DEF Place
<1> QED BY <1>4, <1>6, <1>7, <1>8 DEF RecordOK, new, row

\* The row of a repository that is there, inserted or not by this request.
LEMMA FindCreatedRecord ==
    ASSUME IInv, NEW q \in Requests, At(q, "refind")
    PROVE  RecordOK(token, held[q], [req[q] EXCEPT !.row = RepoOf(q), !.pc = "ready"])
<1> DEFINE r == req[q]
           row == RepoOf(q)
           new == [r EXCEPT !.row = row, !.pc = "ready"]
<1>1. /\ r \in Locals /\ KindOK(r) /\ Known(token, held[q], r) /\ TrueFacts(q) \subseteq held[q]
      /\ r.stage # "mount" /\ Fact("valid") \in held[q]
      /\ r.kind = "create" \/ (r.kind = "start" /\ Passed(token, held[q], r))
    BY UnderWay DEF At, Place
<1>2. r.name \in Repos
    BY <1>1 DEF KindOK
<1>3. row = repo[r.name] /\ row \in Visibilities \cup {"absent"}
    BY <1>1, <1>2 DEF RepoOf, Subject, IInv, RowsInv
<1>4. row = "public" => Fact("public") \in held[q]
    BY <1>1, <1>2, <1>3, PublicFact
<1> HIDE DEF row
<1>5. new \in Locals
    BY <1>1, <1>3, ZenonT(60) DEF Locals
<1>6. /\ new.pc = "ready" /\ new.kind = r.kind /\ new.cred = r.cred /\ new.name = r.name
      /\ new.from = r.from /\ new.scope = r.scope /\ new.todo = r.todo
      /\ new.granted = r.granted /\ new.row = row /\ new.user = r.user
      /\ new.admin = r.admin /\ new.stage = r.stage /\ new.mounted = r.mounted
    BY <1>1 DEF Locals
<1> HIDE DEF new
<1>7. KindOK(new) /\ (Passed(token, held[q], r) => Passed(token, held[q], new))
    BY <1>1, <1>6 DEF KindOK, Passed
<1>8. Known(token, held[q], new)
    BY <1>1, <1>4, <1>6 DEF Known
<1>9. Place(token, held[q], new)
    BY <1>1, <1>6, <1>7 DEF Place
<1> QED BY <1>5, <1>7, <1>8, <1>9 DEF RecordOK, new, row

\* The second read of the repository, and the first of the token endpoint.
LEMMA LookupRecord ==
    ASSUME IInv, NEW q \in Requests, At(q, "lookup")
    PROVE  RecordOK(token, held[q],
                    IF req[q].kind # "visibility" THEN AuthorizeName(req[q], RepoOf(q))
                    ELSE IF RepoOf(q) = "absent" THEN [req[q] EXCEPT !.pc = "denied"]
                    ELSE AuthorizeRow(req[q], RepoOf(q)))
<1> DEFINE r == req[q]
           row == RepoOf(q)
<1>1. /\ r \in Locals /\ KindOK(r) /\ Known(token, held[q], r) /\ TrueFacts(q) \subseteq held[q]
      /\ Deciding(token, held[q], r) /\ r.stage \in {"api", "token", "admin"} /\ r.kind # "create"
    BY UnderWay DEF At, Place
<1>2. r.name \in Repos /\ Subject(r) = r.name
    BY <1>1, AskedInScope
<1>3. Asked(r) = "pull" /\ row = "public" => Right(held[q], r)
    <2>1. row = "public" => Fact("public") \in held[q]
        BY <1>1, <1>2, PublicFact DEF RepoOf
    <2> QED BY <1>1, <2>1 DEF Right, HadIn
<1> HIDE DEF row
<1>4. CASE r.kind # "visibility"
    <2>1. r.stage \in {"api", "token"}
        BY <1>1, <1>4 DEF KindOK, AllKinds
    <2> QED BY <1>1, <1>3, <1>4, <2>1, AuthorizeNameOK DEF row
<1>5. CASE r.kind = "visibility"
    BY <1>1, <1>3, <1>5, AuthorizeRowOK, DeniedOK DEF row
<1> QED BY <1>4, <1>5

\* What a request keeps when its stage changes, and the row with it.
Staged(h, r, row, stage) ==
    LET new == [r EXCEPT !.row = row, !.stage = stage] IN
    /\ new \in Locals /\ KindOK(new) /\ Known(token, h, new)
    /\ Passed(token, h, r) => Passed(token, h, new)
    /\ new.kind = r.kind /\ new.from = r.from /\ new.stage = stage

\* The stages follow one another.
LEMMA NextStage ==
    ASSUME NEW h, NEW r \in Locals, KindOK(r), Known(token, h, r), NEW row \in Visibilities \cup {"absent"},
           row = "public" => Fact("public") \in h,
           NEW stage, \/ stage = "ensure" /\ r.kind \in {"start", "create"}
                      \/ stage = "admin" /\ r.kind = "create"
                      \/ stage = "mount" /\ r.kind = "start"
    PROVE  Staged(h, r, row, stage)
<1> DEFINE new == [r EXCEPT !.row = row, !.stage = stage]
<1>1. new \in Locals
    <2>1. stage \in {"api", "token", "ensure", "admin", "mount"}
        OBVIOUS
    <2> QED BY <2>1 DEF Locals
<1>2. /\ new.kind = r.kind /\ new.cred = r.cred /\ new.name = r.name
      /\ new.from = r.from /\ new.scope = r.scope /\ new.todo = r.todo
      /\ new.granted = r.granted /\ new.row = row /\ new.user = r.user
      /\ new.admin = r.admin /\ new.stage = stage /\ new.mounted = r.mounted
    BY DEF Locals
<1> HIDE DEF new
<1>3. KindOK(new) /\ (Passed(token, h, r) => Passed(token, h, new))
    BY <1>2 DEF KindOK, Passed
<1>4. Known(token, h, new)
    BY <1>2 DEF Known
<1> QED BY <1>1, <1>2, <1>3, <1>4 DEF new, Staged

\* A request that keeps the row it has.
LEMMA SameRow ==
    ASSUME NEW r \in Locals, NEW stage
    PROVE  [r EXCEPT !.row = r.row, !.stage = stage] = [r EXCEPT !.stage = stage]
BY DEF Locals

\* ensure_repository_for_push reads the repository.
LEMMA EnsureRecord ==
    ASSUME IInv, NEW q \in Requests, At(q, "ensure")
    PROVE  LET r == [req[q] EXCEPT !.row = RepoOf(q), !.stage = "ensure"] IN
           RecordOK(token, held[q], IF RepoOf(q) = "absent" THEN [r EXCEPT !.pc = "member"]
                                    ELSE AuthorizeRow(r, RepoOf(q)))
<1> DEFINE r == req[q]
           row == RepoOf(q)
           new == [r EXCEPT !.row = row, !.stage = "ensure"]
<1>1. /\ r \in Locals /\ KindOK(r) /\ Known(token, held[q], r) /\ TrueFacts(q) \subseteq held[q]
      /\ r.stage # "mount" /\ Fact("valid") \in held[q]
      /\ r.kind = "create" \/ (r.kind = "start" /\ Passed(token, held[q], r))
    BY UnderWay DEF At, Place
<1>2. r.name \in Repos
    BY <1>1 DEF KindOK
<1>3. row = repo[r.name] /\ row \in Visibilities \cup {"absent"}
    BY <1>1, <1>2 DEF RepoOf, Subject, IInv, RowsInv
<1>4. row = "public" => Fact("public") \in held[q]
    BY <1>1, <1>2, <1>3, PublicFact
<1> HIDE DEF row
<1>5. /\ new \in Locals /\ KindOK(new) /\ Known(token, held[q], new) /\ new.kind = r.kind
      /\ Passed(token, held[q], r) => Passed(token, held[q], new)
      /\ new.stage = "ensure"
    <2>1. Staged(held[q], r, row, "ensure")
        BY <1>1, <1>3, <1>4, NextStage
    <2> QED BY <2>1 DEF Staged
<1> HIDE DEF new
<1>6. CASE row = "absent"
    <2> DEFINE last == [new EXCEPT !.pc = "member"]
    <2>1. "member" \in Places
        BY DEF Places
    <2>2. /\ last \in Locals /\ last.pc = "member" /\ KindOK(last) /\ Known(token, held[q], last)
          /\ last.kind = new.kind /\ last.stage = new.stage
          /\ Passed(token, held[q], new) => Passed(token, held[q], last)
        BY <1>5, <2>1, GoesTo
    <2> HIDE DEF last
    <2>3. RecordOK(token, held[q], last)
        BY <1>1, <1>5, <2>2 DEF RecordOK, Place
    <2> QED BY <1>6, <2>3 DEF last, new, row
<1>7. CASE row # "absent"
    <2>1. Deciding(token, held[q], new) /\ Asked(new) = "push"
        BY <1>1, <1>5 DEF Deciding, Asked
    <2>2. RecordOK(token, held[q], AuthorizeRow(new, row))
        BY <1>5, <2>1, AuthorizeRowOK
    <2> QED BY <1>7, <2>2 DEF new, row
<1> QED BY <1>6, <1>7

\* The check of the membership and the INSERT that follows it.
LEMMA MemberRecord ==
    ASSUME IInv, NEW q \in Requests, req[q].pc \in {"member", "insert"},
           NEW pc \in {"insert", "denied", "refind"}
    PROVE  RecordOK(token, held[q], [req[q] EXCEPT !.pc = pc])
<1> DEFINE r == req[q]
           new == [r EXCEPT !.pc = pc]
<1>1. /\ r \in Locals /\ KindOK(r) /\ Known(token, held[q], r)
      /\ r.stage # "mount" /\ Fact("valid") \in held[q]
      /\ r.kind = "create" \/ (r.kind = "start" /\ Passed(token, held[q], r))
    BY UnderWay DEF Place
<1>2. pc \in Places
    BY DEF Places
<1>3. /\ new \in Locals /\ new.pc = pc /\ KindOK(new) /\ Known(token, held[q], new)
      /\ new.kind = r.kind /\ new.stage = r.stage
      /\ Passed(token, held[q], r) => Passed(token, held[q], new)
    BY <1>1, <1>2, GoesTo
<1> HIDE DEF new
<1>4. Place(token, held[q], new)
    BY <1>1, <1>3 DEF Place
<1> QED BY <1>3, <1>4 DEF RecordOK, new

\* ensure_repository_for_push returns.
LEMMA ReadyRecord ==
    ASSUME IInv, NEW q \in Requests, At(q, "ready")
    PROVE  RecordOK(token, held[q], IF req[q].kind = "start" THEN Started(req[q])
                                    ELSE AuthorizeRow([req[q] EXCEPT !.stage = "admin"], req[q].row))
<1> DEFINE r == req[q]
           new == [r EXCEPT !.stage = "admin"]
<1>1. /\ r \in Locals /\ KindOK(r) /\ Known(token, held[q], r) /\ Fact("valid") \in held[q]
      /\ r.kind = "create" \/ (r.kind = "start" /\ Passed(token, held[q], r))
    BY UnderWay DEF At, Place
<1>2. CASE r.kind = "start"
    BY <1>1, <1>2, StartedOK
<1>3. CASE r.kind = "create"
    <2>0. new = [r EXCEPT !.row = r.row, !.stage = "admin"]
        BY <1>1, SameRow
    <2>1. r.row \in Visibilities \cup {"absent"} /\ (r.row = "public" => Fact("public") \in held[q])
        BY <1>1 DEF Locals, Known
    <2>2. new \in Locals /\ KindOK(new) /\ Known(token, held[q], new) /\ new.kind = r.kind /\ new.stage = "admin"
        <3>1. Staged(held[q], r, r.row, "admin")
            BY <1>1, <1>3, <2>1, NextStage
        <3> QED BY <2>0, <3>1 DEF Staged
    <2> HIDE DEF new
    <2>3. Deciding(token, held[q], new) /\ Asked(new) = "admin"
        BY <1>1, <1>3, <2>2 DEF Deciding, Asked
    <2>4. RecordOK(token, held[q], AuthorizeRow(new, r.row))
        BY <2>2, <2>3, AuthorizeRowOK
    <2> QED BY <1>3, <2>4 DEF new
<1> QED BY <1>1, <1>2, <1>3

\* mount_blob reads its source.
LEMMA SourceRecord ==
    ASSUME IInv, NEW q \in Requests, At(q, "mount")
    PROVE  LET r == [req[q] EXCEPT !.stage = "mount"] IN
           RecordOK(token, held[q], IF repo[r.from] = "absent" THEN [r EXCEPT !.pc = "granted"]
                                    ELSE AuthorizeRow(r, repo[r.from]))
<1> DEFINE r == req[q]
           new == [r EXCEPT !.stage = "mount"]
<1>1. /\ r \in Locals /\ KindOK(r) /\ Known(token, held[q], r) /\ Fact("valid") \in held[q]
      /\ r.kind = "start" /\ r.from # NoRepo /\ Passed(token, held[q], r)
      /\ TrueFacts(q) \subseteq held[q]
    BY UnderWay DEF At, Place
<1>2. r.row \in Visibilities \cup {"absent"} /\ (r.row = "public" => Fact("public") \in held[q])
    BY <1>1 DEF Locals, Known
<1>3. /\ new \in Locals /\ KindOK(new) /\ Known(token, held[q], new) /\ new.kind = r.kind
      /\ new.stage = "mount" /\ new.from = r.from /\ Passed(token, held[q], new)
    <2>1. new = [r EXCEPT !.row = r.row, !.stage = "mount"]
        BY <1>1, SameRow
    <2>2. Staged(held[q], r, r.row, "mount")
        BY <1>1, <1>2, NextStage
    <2> QED BY <1>1, <2>1, <2>2 DEF Staged
<1>4. r.from \in Repos
    BY <1>1 DEF Locals
<1> HIDE DEF new
<1>5. CASE repo[r.from] = "absent"
    <2>1. RecordOK(token, held[q], [new EXCEPT !.pc = "granted"])
        BY <1>1, <1>3, PassedOn
    <2> QED BY <1>3, <1>5, <2>1 DEF new
<1>6. CASE repo[r.from] # "absent"
    <2>1. Deciding(token, held[q], new)
        BY <1>1, <1>3 DEF Deciding
    <2>2. repo[r.from] = "public" => Right(held[q], new)
        BY <1>1, <1>3, <1>4, SourceFact DEF Right
    <2>3. RecordOK(token, held[q], AuthorizeRow(new, repo[r.from]))
        BY <1>3, <2>1, <2>2, AuthorizeRowOK
    <2> QED BY <1>3, <1>6, <2>3 DEF new
<1> QED BY <1>5, <1>6

\* Who a request is for, from its credential.
LEMMA UserKnown ==
    ASSUME IInv, NEW q \in Requests, At(q, "authn"), Accepted(req[q].cred)
    PROVE  LET u == KnownUser(req[q].cred)
               new == [req[q] EXCEPT !.user = u, !.admin = u \in admins]
           IN  /\ new \in Locals /\ KindOK(new) /\ Known(token, held[q], new)
               /\ Fact("valid") \in held[q] /\ new.stage \in {"api", "token", "admin"}
<1> DEFINE r == req[q]
           c == r.cred
           u == KnownUser(c)
           admin == u \in admins
           new == [r EXCEPT !.user = u, !.admin = admin]
<1>1. /\ r \in Locals /\ KindOK(r) /\ Known(token, held[q], r) /\ TrueFacts(q) \subseteq held[q]
      /\ r.stage \in {"api", "token", "admin"}
    BY UnderWay DEF At, Place
<1>2. enabled \subseteq Users /\ admins \subseteq Users /\ NoUser \notin Users
    BY AccessAssumption DEF IInv, RowsInv
<1>3. Good(c)
    BY DEF Accepted, Good
<1>4. Fact("valid") \in held[q]
    BY <1>1, <1>3, ValidFact
<1>5. u # NoUser => u = UserOf(c) /\ u \in enabled
    BY <1>2 DEF KnownUser
<1>6. u # NoUser => u = Holder(token, c) /\ u \in Users /\ Fact("enabled") \in held[q]
    BY <1>1, <1>2, <1>5, UserFacts, KnownHolder
<1>7. admin => u # NoUser /\ Fact("instance") \in held[q]
    BY <1>1, <1>2, <1>5, UserFacts
<1>8. admin /\ r.from # NoRepo => Fact("source") \in held[q]
    <2>1. r.from \in Repos \cup {NoRepo}
        BY <1>1 DEF Locals
    <2>2. admin => UserOf(c) \in admins
        BY <1>2, <1>5
    <2> QED BY <1>1, <2>1, <2>2, SourceFact
<1>9. u \in Users \cup {NoUser} /\ admin \in BOOLEAN
    BY <1>6
<1> HIDE DEF u, admin
<1>10. new \in Locals
    BY <1>1, <1>9, ZenonT(60) DEF Locals
<1>11. /\ new.pc = r.pc /\ new.kind = r.kind /\ new.cred = r.cred /\ new.name = r.name
       /\ new.from = r.from /\ new.scope = r.scope /\ new.todo = r.todo
       /\ new.granted = r.granted /\ new.row = r.row /\ new.user = u
       /\ new.admin = admin /\ new.stage = r.stage /\ new.mounted = r.mounted
    BY <1>1 DEF Locals
<1> HIDE DEF new
<1>12. KindOK(new)
    BY <1>1, <1>11 DEF KindOK
<1>13. Known(token, held[q], new)
    BY <1>1, <1>6, <1>7, <1>8, <1>11 DEF Known
<1> QED BY <1>1, <1>4, <1>10, <1>11, <1>12, <1>13 DEF new, u, admin

\* A good credential leads to a first check, or past all of them.
LEMMA AuthenticatedOK ==
    ASSUME NEW h, NEW r \in Locals, KindOK(r), Known(token, h, r), Fact("valid") \in h,
           r.stage \in {"api", "token", "admin"}
    PROVE  RecordOK(token, h, Authenticated(r))
<1>1. CASE r.kind = "token"
    <2> DEFINE pc == IF r.todo = {} THEN "mint" ELSE "lookup"
               new == [r EXCEPT !.pc = pc]
    <2>1. pc \in Places
        BY DEF Places
    <2>2. Deciding(token, h, r) \/ r.todo = {}
        BY <1>1 DEF Deciding, KindOK
    <2>3. r.stage = "token"
        BY <1>1 DEF KindOK
    <2>4. /\ new \in Locals /\ new.pc = pc /\ KindOK(new) /\ Known(token, h, new) /\ new.stage = "token"
          /\ new.kind = "token" /\ (Deciding(token, h, r) => Deciding(token, h, new))
        BY <1>1, <2>1, <2>3, GoesTo
    <2>5. Authenticated(r) = new
        BY <1>1 DEF Authenticated
    <2> HIDE DEF new
    <2>6. Place(token, h, new)
        BY <2>2, <2>4 DEF Place
    <2> QED BY <2>4, <2>5, <2>6 DEF RecordOK
<1>2. CASE r.kind \in {"newpat", "revoke"}
    <2> DEFINE new == [r EXCEPT !.pc = "apply"]
    <2>1. "apply" \in Places
        BY DEF Places
    <2>2. new \in Locals /\ new.pc = "apply" /\ KindOK(new) /\ Known(token, h, new) /\ new.kind = r.kind
        BY <2>1, GoesTo
    <2>3. Authenticated(r) = new
        BY <1>2 DEF Authenticated
    <2> HIDE DEF new
    <2> QED BY <1>2, <2>2, <2>3 DEF RecordOK, Place
<1>3. CASE r.kind = "create"
    <2> DEFINE new == [r EXCEPT !.pc = "ensure"]
    <2>1. "ensure" \in Places
        BY DEF Places
    <2>2. /\ new \in Locals /\ new.pc = "ensure" /\ KindOK(new) /\ Known(token, h, new)
          /\ new.kind = r.kind /\ new.stage = r.stage
        BY <2>1, GoesTo
    <2>3. Authenticated(r) = new
        BY <1>3 DEF Authenticated
    <2> HIDE DEF new
    <2> QED BY <1>3, <2>2, <2>3 DEF RecordOK, Place
<1>4. CASE r.kind = "visibility" \/ (r.kind \in {"access", "start"} /\ r.cred.by # "none" /\ r.row = "absent")
    <2> DEFINE new == [r EXCEPT !.pc = "lookup"]
    <2>1. "lookup" \in Places
        BY DEF Places
    <2>2. Deciding(token, h, r) /\ r.kind # "create"
        BY <1>4 DEF Deciding, KindOK
    <2>3. /\ new \in Locals /\ new.pc = "lookup" /\ KindOK(new) /\ Known(token, h, new)
          /\ new.kind = r.kind /\ new.stage = r.stage /\ Deciding(token, h, new)
        BY <2>1, <2>2, GoesTo
    <2>4. Authenticated(r) = new
        BY <1>4 DEF Authenticated
    <2> HIDE DEF new
    <2> QED BY <1>4, <2>2, <2>3, <2>4 DEF RecordOK, Place
<1>5. CASE r.kind \in {"access", "start"}
    <2>1. r.stage = "api" /\ Deciding(token, h, r)
        BY <1>5 DEF Deciding, KindOK
    <2>2. PICK a \in Actions : r.scope = {a} /\ r.todo = {a}
        BY <1>5 DEF KindOK
    <2>3. Asked(r) = a
        BY <2>1, <2>2, AskedOK
    <2>4. a = "pull" /\ r.row = "public" => HadIn(h, a)
        BY DEF Known, HadIn
    <2>5. CASE r.cred.by = "none" /\ Asked(r) = "pull" /\ r.row = "public"
        <3>1. Passed(token, h, r)
            BY <2>2, <2>3, <2>4, <2>5 DEF Passed
        <3> QED BY <1>5, <2>1, <2>5, <3>1, HandleOK DEF Authenticated
    <2>6. CASE r.cred.by = "none" /\ ~(Asked(r) = "pull" /\ r.row = "public")
        BY <1>5, <2>6, DeniedOK DEF Authenticated
    <2>7. CASE r.cred.by # "none" /\ r.row # "absent"
        <3>1. Asked(r) = "pull" /\ r.row = "public" => Right(h, r)
            BY <2>1, <2>3, <2>4 DEF Right
        <3>2. RecordOK(token, h, AuthorizeRow(r, r.row))
            BY <2>1, <3>1, AuthorizeRowOK
        <3> QED BY <1>5, <2>7, <3>2 DEF Authenticated
    <2> QED BY <1>4, <1>5, <2>5, <2>6, <2>7
<1> QED BY <1>1, <1>2, <1>3, <1>4, <1>5 DEF KindOK, AllKinds

\* The credential is looked at.
LEMMA AuthenticateRecord ==
    ASSUME IInv, NEW q \in Requests, At(q, "authn")
    PROVE  LET c == req[q].cred
               u == KnownUser(c)
           IN  RecordOK(token, held[q], IF Accepted(c)
                    THEN Authenticated([req[q] EXCEPT !.user = u, !.admin = u \in admins])
                    ELSE [req[q] EXCEPT !.pc = "denied"])
<1>1. req[q] \in Locals /\ KindOK(req[q]) /\ Known(token, held[q], req[q])
    BY UnderWay DEF At
<1>2. CASE Accepted(req[q].cred)
    <2> DEFINE u == KnownUser(req[q].cred)
               new == [req[q] EXCEPT !.user = u, !.admin = u \in admins]
    <2>1. /\ new \in Locals /\ KindOK(new) /\ Known(token, held[q], new)
          /\ Fact("valid") \in held[q] /\ new.stage \in {"api", "token", "admin"}
        BY <1>2, UserKnown
    <2> HIDE DEF new
    <2>2. RecordOK(token, held[q], Authenticated(new))
        BY <2>1, AuthenticatedOK
    <2> QED BY <1>2, <2>2 DEF new
<1>3. CASE ~Accepted(req[q].cred)
    BY <1>1, <1>3, DeniedOK
<1> QED BY <1>2, <1>3
-----------------------------------------------------------------------------
(* Requests begin *)

\* The credentials a request may come with.
LEMMA CredentialsOK ==
    /\ \A c \in Anonymous : CredentialOK(c) /\ c.by = "none"
    /\ \A c \in Basic : CredentialOK(c) /\ c.by = "pat"
    /\ \A c \in Bearer : CredentialOK(c) /\ c.by = "bearer"
    /\ \A c \in Sessions : CredentialOK(c) /\ c.by = "session"
<1> USE DEF NoCredential, Credential
<1>1. ASSUME NEW c \in Anonymous
      PROVE  CredentialOK(c) /\ c.by = "none"
    BY <1>1 DEF Anonymous, CredentialOK, Credentials
<1>2. ASSUME NEW c \in Basic
      PROVE  CredentialOK(c) /\ c.by = "pat"
    <2>1. PICK p \in Pats : c = [Credential("pat") EXCEPT !.pat = p]
        BY <1>2 DEF Basic
    <2>2. c = [by |-> "pat", pat |-> p, slot |-> NoSlot, user |-> NoUser]
        BY <2>1
    <2> QED BY <2>2 DEF CredentialOK, Credentials
<1>3. ASSUME NEW c \in Bearer
      PROVE  CredentialOK(c) /\ c.by = "bearer"
    <2>1. PICK s \in Slots : c = [Credential("bearer") EXCEPT !.slot = s]
        BY <1>3 DEF Bearer
    <2>2. c = [by |-> "bearer", pat |-> NoPat, slot |-> s, user |-> NoUser]
        BY <2>1
    <2> QED BY <2>2 DEF CredentialOK, Credentials
<1>4. ASSUME NEW c \in Sessions
      PROVE  CredentialOK(c) /\ c.by = "session"
    <2>1. PICK u \in Users : c = [Credential("session") EXCEPT !.user = u]
        BY <1>4 DEF Sessions
    <2>2. c = [by |-> "session", pat |-> NoPat, slot |-> NoSlot, user |-> u]
        BY <2>1
    <2> QED BY <2>2 DEF CredentialOK, Credentials
<1> QED BY <1>1, <1>2, <1>3, <1>4

\* A request that has only begun owes no evidence.
LEMMA FreshOK ==
    ASSUME NEW r \in Locals, KindOK(r), r.pc \in {"find", "authn"}, r.pc = "find" => r.kind \in {"access", "start"},
           r.stage \in {"api", "token", "admin"}, r.row = "absent", r.user = NoUser, r.admin = FALSE,
           r.granted = {}, r.mounted = FALSE
    PROVE  RecordOK(token, {}, r)
<1>1. Known(token, {}, r)
    BY DEF Known
<1>2. Place(token, {}, r)
    BY DEF Place
<1> QED BY <1>1, <1>2 DEF RecordOK

\* A step of one request that changes no bearer token.
LEMMA MoveStep ==
    ASSUME IInv, Observe, NEW q \in Requests, NEW new, RecordOK(token, Before(held, q), new),
           req' = [req EXCEPT ![q] = new], token' = token, RowsInv'
    PROVE  IInv'
BY RecordStep DEF IInv

\* A request begins.
LEMMA BeginStep ==
    ASSUME IInv, Observe, NEW q \in Requests, NEW r, RecordOK(token, {}, r), Begin(q, r)
    PROVE  IInv'
<1>1. Before(held, q) = {} /\ req' = [req EXCEPT ![q] = r] /\ token' = token
    BY DEF Begin, Before
<1>2. RowsInv'
    BY DEF Begin, rows, operated, IInv, RowsInv
<1> QED BY <1>1, <1>2, MoveStep

\* Every request that begins.
LEMMA StartStep ==
    ASSUME IInv, Observe, NEW q \in Requests, Start(q)
    PROVE  IInv'
<1>1. CASE StartApi(q)
    <2>1. PICK c \in Anonymous \cup Basic \cup Bearer, n \in Repos, a \in ApiActions,
               k \in {"access", "start"}, f \in Repos \cup {NoRepo} :
            /\ k = "start" => a = "push"
            /\ f # NoRepo => k = "start" /\ f # n
            /\ Begin(q, [Idle EXCEPT !.pc = "find", !.kind = k, !.cred = c, !.name = n, !.from = f,
                                     !.scope = {a}, !.todo = {a}])
        BY <1>1, Zenon DEF StartApi
    <2> DEFINE r == [Idle EXCEPT !.pc = "find", !.kind = k, !.cred = c, !.name = n, !.from = f,
                                 !.scope = {a}, !.todo = {a}]
    <2>2. CredentialOK(c) /\ c.by \in {"none", "pat", "bearer"} /\ c \in Credentials
        BY CredentialsOK DEF CredentialOK
    <2>3. a \in Actions
        BY AccessAssumption
    <2>4. r \in Locals
        BY <2>2, <2>3, ZenonT(60) DEF Idle, Locals, AllKinds, Visibilities
    <2>5. /\ r.pc = "find" /\ r.kind = k /\ r.cred = c /\ r.name = n /\ r.from = f /\ r.scope = {a}
          /\ r.todo = {a} /\ r.granted = {} /\ r.row = "absent" /\ r.user = NoUser
          /\ r.admin = FALSE /\ r.stage = "api" /\ r.mounted = FALSE
        BY DEF Idle
    <2> HIDE DEF r
    <2>6. KindOK(r)
        BY <2>1, <2>2, <2>3, <2>5 DEF KindOK, AllKinds
    <2>7. RecordOK(token, {}, r)
        BY <2>4, <2>5, <2>6, FreshOK
    <2>8. Begin(q, r)
        BY <2>1 DEF r
    <2> QED BY <2>7, <2>8, BeginStep
<1>2. CASE StartToken(q)
    <2>1. PICK c \in Anonymous \cup Basic, n \in Repos, as \in SUBSET ApiActions :
            Begin(q, [Idle EXCEPT !.pc = "authn", !.kind = "token", !.cred = c, !.name = n,
                                  !.scope = as, !.todo = as, !.stage = "token"])
        BY <1>2, Zenon DEF StartToken
    <2> DEFINE r == [Idle EXCEPT !.pc = "authn", !.kind = "token", !.cred = c, !.name = n,
                                 !.scope = as, !.todo = as, !.stage = "token"]
    <2>2. CredentialOK(c) /\ c.by \in {"none", "pat"} /\ c \in Credentials
        BY CredentialsOK DEF CredentialOK
    <2>3. as \subseteq Actions
        BY AccessAssumption
    <2>4. r \in Locals
        BY <2>2, <2>3, ZenonT(60) DEF Idle, Locals, AllKinds, Visibilities
    <2>5. /\ r.pc = "authn" /\ r.kind = "token" /\ r.cred = c /\ r.name = n /\ r.scope = as
          /\ r.todo = as /\ r.granted = {} /\ r.row = "absent" /\ r.user = NoUser
          /\ r.admin = FALSE /\ r.stage = "token" /\ r.mounted = FALSE
        BY DEF Idle
    <2> HIDE DEF r
    <2>6. KindOK(r)
        BY <2>2, <2>5 DEF KindOK, AllKinds
    <2>7. RecordOK(token, {}, r)
        BY <2>4, <2>5, <2>6, FreshOK
    <2>8. Begin(q, r)
        BY <2>1 DEF r
    <2> QED BY <2>7, <2>8, BeginStep
<1>3. CASE StartWeb(q)
    <2>1. PICK c \in Sessions, n \in Repos, v \in Visibilities, k \in {"create", "visibility"} :
            Begin(q, [Idle EXCEPT !.pc = "authn", !.kind = k, !.cred = c, !.name = n, !.want = v,
                                  !.scope = {"admin"}, !.stage = "admin"])
        BY <1>3, Zenon DEF StartWeb
    <2> DEFINE r == [Idle EXCEPT !.pc = "authn", !.kind = k, !.cred = c, !.name = n, !.want = v,
                                 !.scope = {"admin"}, !.stage = "admin"]
    <2>2. CredentialOK(c) /\ c \in Credentials
        BY CredentialsOK DEF CredentialOK
    <2>3. r \in Locals
        BY <2>2, ZenonT(60) DEF Idle, Locals, AllKinds, Visibilities, Actions
    <2>4. /\ r.pc = "authn" /\ r.kind = k /\ r.cred = c /\ r.name = n /\ r.scope = {"admin"}
          /\ r.granted = {} /\ r.row = "absent" /\ r.user = NoUser
          /\ r.admin = FALSE /\ r.stage = "admin" /\ r.mounted = FALSE
        BY DEF Idle
    <2> HIDE DEF r
    <2>5. KindOK(r)
        BY <2>2, <2>4 DEF KindOK, AllKinds
    <2>6. RecordOK(token, {}, r)
        BY <2>3, <2>4, <2>5, FreshOK
    <2>7. Begin(q, r)
        BY <2>1 DEF r
    <2> QED BY <2>6, <2>7, BeginStep
<1>4. CASE StartPat(q)
    <2>1. PICK c \in Sessions, p \in Pats, k \in {"newpat", "revoke"} :
            /\ k = "newpat" => pat[p] = "none" /\ Owner[p] = c.user
            /\ Begin(q, [Idle EXCEPT !.pc = "authn", !.kind = k, !.cred = [c EXCEPT !.pat = p]])
        BY <1>4, Zenon DEF StartPat
    <2> DEFINE d == [c EXCEPT !.pat = p]
               r == [Idle EXCEPT !.pc = "authn", !.kind = k, !.cred = d]
    <2>2. CredentialOK(d) /\ d \in Credentials
        BY CredentialsOK DEF CredentialOK, Credentials
    <2> HIDE DEF d
    <2>3. r \in Locals
        BY <2>2, ZenonT(60) DEF Idle, Locals, AllKinds, Visibilities
    <2>4. /\ r.pc = "authn" /\ r.kind = k /\ r.cred = d
          /\ r.granted = {} /\ r.row = "absent" /\ r.user = NoUser
          /\ r.admin = FALSE /\ r.stage = "api" /\ r.mounted = FALSE
        BY DEF Idle
    <2> HIDE DEF r
    <2>5. KindOK(r)
        BY <2>2, <2>4 DEF KindOK, AllKinds
    <2>6. RecordOK(token, {}, r)
        BY <2>3, <2>4, <2>5, FreshOK
    <2>7. Begin(q, r)
        BY <2>1 DEF r, d
    <2> QED BY <2>6, <2>7, BeginStep
<1> QED BY <1>1, <1>2, <1>3, <1>4 DEF Start
-----------------------------------------------------------------------------
(* A request runs *)

\* A statement that only changes what its request knows.
LEMMA MovesStep ==
    ASSUME IInv, Observe, NEW q \in Requests, req[q].pc # "idle", NEW new, RecordOK(token, held[q], new),
           Moves(q, new)
    PROVE  IInv'
<1>1. Before(held, q) = held[q] /\ req' = [req EXCEPT ![q] = new] /\ token' = token
    BY DEF Moves, Before
<1>2. RowsInv'
    BY DEF Moves, rows, operated, IInv, RowsInv
<1> QED BY <1>1, <1>2, MoveStep

\* A request that is over.
LEMMA EndStep ==
    ASSUME IInv, Observe, NEW q \in Requests, req' = [req EXCEPT ![q] = Idle], token' = token, RowsInv'
    PROVE  IInv'
<1>1. RecordOK(token, Before(held, q), Idle)
    BY IdleOK
<1> QED BY <1>1, MoveStep

\* Statements that change a row.
LEMMA WriteStep ==
    ASSUME IInv, Observe, NEW q \in Requests,
           Insert(q) \/ SetVisibility(q) \/ CreatePat(q) \/ RevokePat(q)
    PROVE  IInv'
<1>1. req[q] \in Locals
    BY DEF IInv, RequestInv
<1>2. CASE Insert(q)
    <2> DEFINE new == [req[q] EXCEPT !.pc = "refind"]
    <2>1. RowsInv'
        BY <1>2 DEF Insert, operated, IInv, RowsInv, Visibilities
    <2>2. Before(held, q) = held[q] /\ req' = [req EXCEPT ![q] = new] /\ token' = token /\ req[q].pc = "insert"
        BY <1>2 DEF Insert, At, Before
    <2> HIDE DEF new
    <2>3. RecordOK(token, held[q], new)
        BY <2>2, MemberRecord DEF new
    <2> QED BY <2>1, <2>2, <2>3, MoveStep
<1>3. CASE SetVisibility(q)
    <2>1. req[q].want \in Visibilities
        BY <1>1 DEF Locals
    <2>2. RowsInv'
        BY <1>3, <2>1 DEF SetVisibility, operated, IInv, RowsInv, Visibilities
    <2> QED BY <1>3, <2>2, EndStep DEF SetVisibility
<1>4. CASE CreatePat(q)
    <2>1. RowsInv'
        BY <1>4 DEF CreatePat, operated, IInv, RowsInv
    <2> QED BY <1>4, <2>1, EndStep DEF CreatePat
<1>5. CASE RevokePat(q)
    <2>1. pat' \in [Pats -> {"none", "live", "revoked", "expired"}]
        BY <1>5 DEF RevokePat, IInv, RowsInv
    <2>2. RowsInv'
        BY <1>5, <2>1 DEF RevokePat, operated, IInv, RowsInv
    <2> QED BY <1>5, <2>2, EndStep DEF RevokePat
<1> QED BY <1>2, <1>3, <1>4, <1>5

\* Every statement of a request.
LEMMA StatementStep ==
    ASSUME IInv, Observe, NEW q \in Requests, Statement(q)
    PROVE  IInv'
<1>1. CASE FindRepository(q)
    <2>1. RecordOK(token, held[q], [req[q] EXCEPT !.row = RepoOf(q), !.pc = "authn"])
        BY <1>1, FindRecord DEF FindRepository
    <2> QED BY <1>1, <2>1, MovesStep DEF FindRepository, At
<1>2. CASE Authenticate(q)
    <2>1. RecordOK(token, held[q], IF Accepted(req[q].cred)
              THEN Authenticated([req[q] EXCEPT !.user = KnownUser(req[q].cred),
                                                !.admin = KnownUser(req[q].cred) \in admins])
              ELSE [req[q] EXCEPT !.pc = "denied"])
        BY <1>2, AuthenticateRecord DEF Authenticate
    <2> QED BY <1>2, <2>1, MovesStep DEF Authenticate, At
<1>3. CASE Lookup(q)
    <2>1. RecordOK(token, held[q],
                   IF req[q].kind # "visibility" THEN AuthorizeName(req[q], RepoOf(q))
                   ELSE IF RepoOf(q) = "absent" THEN [req[q] EXCEPT !.pc = "denied"]
                   ELSE AuthorizeRow(req[q], RepoOf(q)))
        BY <1>3, LookupRecord DEF Lookup
    <2> QED BY <1>3, <2>1, MovesStep DEF Lookup, At
<1>4. CASE CheckRoleByName(q)
    BY <1>4, CheckRecord, MovesStep DEF CheckRoleByName, At
<1>5. CASE CheckRole(q)
    BY <1>5, CheckRecord, MovesStep DEF CheckRole, At
<1>6. CASE CheckPermission(q)
    BY <1>6, CheckRecord, MovesStep DEF CheckPermission, At
<1>7. CASE Ensure(q)
    BY <1>7, EnsureRecord, MovesStep DEF Ensure, At
<1>8. CASE CheckMember(q)
    <2> DEFINE pc == IF RoleOf(q) # "none" /\ (req[q].admin \/ RoleOf(q) \in {"writer", "admin"})
                     THEN "insert" ELSE "denied"
    <2>1. RecordOK(token, held[q], [req[q] EXCEPT !.pc = pc])
        BY <1>8, MemberRecord DEF CheckMember, At
    <2> QED BY <1>8, <2>1, MovesStep DEF CheckMember, At
<1>9. CASE FindCreated(q)
    BY <1>9, FindCreatedRecord, MovesStep DEF FindCreated, At
<1>10. CASE Ready(q)
    BY <1>10, ReadyRecord, MovesStep DEF Ready, At
<1>11. CASE FindSource(q)
    BY <1>11, SourceRecord, MovesStep DEF FindSource, At
<1>12. CASE Insert(q) \/ SetVisibility(q) \/ CreatePat(q) \/ RevokePat(q)
    BY <1>12, WriteStep
<1> QED BY <1>1, <1>2, <1>3, <1>4, <1>5, <1>6, <1>7, <1>8, <1>9, <1>10, <1>11, <1>12 DEF Statement
-----------------------------------------------------------------------------
(* Tokens, time and the operator *)

\* A request that is under way presents a real slot.
LEMMA PresentedSlot ==
    ASSUME IInv, NEW x \in Requests, req[x].pc # "idle", req[x].cred.by = "bearer"
    PROVE  req[x].cred.slot \in Slots
BY UnderWay DEF KindOK, CredentialOK

\* A token goes into a slot that no request presents.
LEMMA MintStep ==
    ASSUME IInv, Observe, NEW q \in Requests, Mint(q)
    PROVE  IInv'
<1>1. PICK s \in Slots :
        /\ Free(s)
        /\ token' = [token EXCEPT ![s] = [pat |-> req[q].cred.pat, repo |-> req[q].name,
                                          scope |-> req[q].granted, left |-> Lifetime]]
    BY DEF Mint
<1>2. req \in [Requests -> Locals] /\ req' = [req EXCEPT ![q] = Idle]
    BY DEF Mint, IInv, RequestInv
<1>3. /\ req[q].cred.pat \in Pats \cup {NoPat} /\ req[q].name \in Repos \cup {NoRepo}
      /\ req[q].granted \in SUBSET Actions
    BY <1>2 DEF Locals, Credentials
<1>4. token' \in [Slots -> TokenRows]
    <2>1. Lifetime \in 0..Lifetime
        BY AccessAssumption
    <2> QED BY <1>1, <1>3, <2>1 DEF IInv, RowsInv, TokenRows
<1>5. RowsInv'
    BY <1>4 DEF Mint, rows, operated, IInv, RowsInv, TokenRows
<1>6. \A x \in Slots : x # s => token'[x] = token[x]
    BY <1>1 DEF IInv, RowsInv
<1>7. ASSUME NEW x \in Requests, req'[x].pc # "idle", req'[x].cred.by = "bearer"
      PROVE  token'[req'[x].cred.slot] = token[req'[x].cred.slot]
    <2>1. x # q /\ req'[x] = req[x]
        BY <1>2, <1>7, IdleOK
    <2>2. req[x].cred.slot \in Slots /\ req[x].cred.slot # s
        BY <1>1, <1>7, <2>1, PresentedSlot DEF Free
    <2> QED BY <1>6, <2>1, <2>2
<1>8. RecordOK(token, Before(held, q), Idle)
    BY IdleOK
<1>9. RequestInv /\ FactsInv
    BY DEF IInv
<1>10. RequestInv' /\ HistoryInv' /\ FactsInv'
    BY <1>2, <1>7, <1>8, <1>9, RecordStep
<1> QED BY <1>5, <1>10 DEF IInv

\* A step of nobody's: what the requests know stays true of their histories.
LEMMA StillStep ==
    ASSUME IInv, Observe, req' = req, RowsInv',
           \A x \in Requests : req[x].pc # "idle" /\ req[x].cred.by = "bearer" =>
              LET s == req[x].cred.slot IN
              /\ token'[s].pat = token[s].pat /\ token'[s].repo = token[s].repo
              /\ token'[s].scope = token[s].scope
    PROVE  IInv'
<1>1. RequestInv /\ FactsInv /\ req \in [Requests -> Locals]
    BY DEF IInv, RequestInv
<1>2. CASE Requests = {}
    <2>1. RequestInv'
        BY <1>1, <1>2 DEF RequestInv
    <2> QED BY <1>1, <2>1, Observed DEF IInv
<1>3. ASSUME NEW q \in Requests
      PROVE  IInv'
    <2> DEFINE new == req[q]
    <2>1. RecordOK(token, Before(held, q), new)
        <3>1. RecordOK(token, held[q], new)
            BY <1>1 DEF RequestInv
        <3> QED BY <3>1 DEF RecordOK, Before
    <2>2. req' = [req EXCEPT ![q] = new]
        BY <1>1
    <2> HIDE DEF new
    <2>3. RequestInv' /\ HistoryInv' /\ FactsInv'
        BY <1>1, <2>1, <2>2, RecordStep
    <2> QED BY <2>3 DEF IInv
<1> QED BY <1>2, <1>3

\* Time only takes from the life of a token, and forgets none that is presented.
LEMMA TickStep ==
    ASSUME IInv, Observe, Tick
    PROVE  IInv'
<1>1. /\ req' = req
      /\ token' = [s \in Slots |->
                     IF token[s].left <= 1 /\ \A q \in Requests : req[q].cred.slot # s THEN NoToken
                     ELSE [token[s] EXCEPT !.left = IF @ > 0 THEN @ - 1 ELSE 0]]
    BY DEF Tick
<1>2. token \in [Slots -> TokenRows] /\ Lifetime \in Nat \ {0}
    BY AccessAssumption DEF IInv, RowsInv
<1>3. \A s \in Slots : token[s].left \in 0..Lifetime
    BY <1>2 DEF TokenRows
<1>4. NoToken \in TokenRows
    BY <1>2 DEF NoToken, TokenRows
<1>5. ASSUME NEW s \in Slots
      PROVE  [token[s] EXCEPT !.left = IF @ > 0 THEN @ - 1 ELSE 0] \in TokenRows
    <2> DEFINE left == IF token[s].left > 0 THEN token[s].left - 1 ELSE 0
    <2>1. left \in 0..Lifetime
        BY <1>2, <1>3
    <2> HIDE DEF left
    <2>2. [token[s] EXCEPT !.left = left] \in TokenRows
        BY <1>2, <2>1 DEF TokenRows
    <2> QED BY <2>2 DEF left
<1>6. token' \in [Slots -> TokenRows]
    BY <1>1, <1>4, <1>5
<1>7. RowsInv'
    BY <1>6 DEF Tick, rows, operated, IInv, RowsInv, TokenRows
<1>8. ASSUME NEW x \in Requests, req[x].pc # "idle", req[x].cred.by = "bearer"
      PROVE  LET s == req[x].cred.slot IN
             /\ token'[s].pat = token[s].pat /\ token'[s].repo = token[s].repo
             /\ token'[s].scope = token[s].scope
    <2> DEFINE s == req[x].cred.slot
    <2>1. s \in Slots
        BY <1>8, PresentedSlot
    <2>2. token'[s] = [token[s] EXCEPT !.left = IF @ > 0 THEN @ - 1 ELSE 0]
        BY <1>1, <2>1
    <2> HIDE DEF s
    <2>3. /\ token'[s].pat = token[s].pat /\ token'[s].repo = token[s].repo
          /\ token'[s].scope = token[s].scope
        BY <2>2
    <2> QED BY <2>3 DEF s
<1> QED BY <1>1, <1>7, <1>8, StillStep

\* A personal access token expires under the requests that use it.
LEMMA ExpireStep ==
    ASSUME IInv, Observe, ExpirePat
    PROVE  IInv'
<1>1. RowsInv' /\ req' = req /\ token' = token
    BY DEF ExpirePat, operated, IInv, RowsInv
<1> QED BY <1>1, StillStep

\* The operator changes rows that requests have read, or are about to.
LEMMA OperatorStep ==
    ASSUME IInv, Observe, Operator
    PROVE  IInv'
<1>1. /\ req' = req /\ token' = token /\ pat' = pat /\ repo' = repo
      /\ changes < MaxChanges /\ changes' = changes + 1
      /\ \/ /\ \E u \in Users : enabled' \in {enabled \cup {u}, enabled \ {u}}
            /\ UNCHANGED <<admins, role, perm>>
         \/ /\ \E u \in Users : admins' \in {admins \cup {u}, admins \ {u}}
            /\ UNCHANGED <<enabled, role, perm>>
         \/ /\ \E m \in DOMAIN role, r \in RoleChoices : role' = [role EXCEPT ![m] = r]
            /\ UNCHANGED <<enabled, admins, perm>>
         \/ /\ \E t \in PermChoices : perm' \in {perm \cup {t}, perm \ {t}}
            /\ UNCHANGED <<enabled, admins, role>>
    BY DEF Operator, rows
<1>2. /\ enabled \subseteq Users /\ admins \subseteq Users /\ changes \in 0..MaxChanges
      /\ role \in [Users \X Namespaces -> Roles] /\ perm \subseteq Users \X Repos \X Actions
    BY DEF IInv, RowsInv
<1>3. RoleChoices \subseteq Roles /\ PermChoices \subseteq Users \X Repos \X Actions /\ MaxChanges \in Nat
    BY AccessAssumption
<1>4. enabled' \subseteq Users /\ admins' \subseteq Users
    BY <1>1, <1>2
<1>5. role' \in [Users \X Namespaces -> Roles]
    BY <1>1, <1>2, <1>3
<1>6. perm' \subseteq Users \X Repos \X Actions
    BY <1>1, <1>2, <1>3
<1>7. changes' \in 0..MaxChanges
    BY <1>1, <1>2, <1>3
<1>8. RowsInv'
    BY <1>1, <1>4, <1>5, <1>6, <1>7 DEF IInv, RowsInv
<1> QED BY <1>1, <1>8, StillStep

-----------------------------------------------------------------------------
(* The invariant *)

\* The invariant holds at the start.
LEMMA InitInv == Init => IInv
<1> SUFFICES ASSUME Init PROVE IInv
    OBVIOUS
<1>1. RowsInv
    <2>1. NoToken \in TokenRows
        BY AccessAssumption DEF NoToken, TokenRows
    <2> QED BY <2>1, AccessAssumption DEF Init, RowsInv, TokenRows
<1>2. FactsInv
    BY DEF Init, FactsInv
<1>3. HistoryInv /\ RequestInv
    BY IdleOK DEF Init, HistoryInv, RequestInv
<1> QED BY <1>1, <1>2, <1>3 DEF IInv

\* Every step keeps it.
LEMMA NextInv == IInv /\ [Next]_vars => IInv'
<1>1. ASSUME IInv, UNCHANGED vars
      PROVE  IInv'
    <2>1. RowsInv'
        BY <1>1 DEF vars, IInv, RowsInv
    <2>2. FactsInv' /\ RequestInv'
        BY <1>1 DEF vars, IInv, FactsInv, RequestInv
    <2>3. HistoryInv'
        <3>1. /\ pat' = pat /\ repo' = repo /\ enabled' = enabled /\ admins' = admins /\ role' = role
              /\ perm' = perm /\ token' = token /\ req' = req /\ held' = held
            BY <1>1 DEF vars
        <3>2. ASSUME NEW q \in Requests
              PROVE  TrueFacts(q)' = TrueFacts(q)
            <4>1. \A c : UserOf(c)' = UserOf(c) /\ Good(c)' = Good(c)
                BY <3>1 DEF UserOf, Good, Minted
            <4>2. \A u, n, a : MemberRole(u, n)' = MemberRole(u, n) /\ PermGrants(u, n, a)' = PermGrants(u, n, a)
                BY <3>1 DEF MemberRole, PermGrants
            <4> QED BY <3>1, <4>1, <4>2 DEF TrueFacts, UserOf, Good, Minted, MemberRole, PermGrants
        <3> QED BY <1>1, <3>1, <3>2 DEF IInv, HistoryInv
    <2> QED BY <2>1, <2>2, <2>3 DEF IInv
<1>2. ASSUME IInv, Next
      PROVE  IInv'
    <2>1. Observe
        BY <1>2 DEF Next
    <2>2. ASSUME NEW q \in Requests, Answer(q) \/ Drop(q)
          PROVE  IInv'
        <3>1. RecordOK(token, held[q], Idle)
            BY IdleOK
        <3> QED BY <1>2, <2>1, <2>2, <3>1, MovesStep DEF Answer, Drop
    <2> QED BY <1>2, <2>1, <2>2, StartStep, StatementStep, MintStep, TickStep, ExpireStep, OperatorStep
            DEF Next, Step
<1> QED BY <1>1, <1>2

\* The invariant holds in every reachable state.
THEOREM Invariance == Spec => []IInv
BY InitInv, NextInv, PTL DEF Spec

\* Every variable has its type, whatever requests, tokens and changes there are.
THEOREM TypeCorrect == Spec => []TypeOK
<1>1. IInv => TypeOK
    BY DEF IInv, RowsInv, FactsInv, RequestInv, TokenRows, TypeOK
<1> QED BY <1>1, Invariance, PTL

\* Whoever is let in had the right while the request ran, on a repository that was there
\* when it was read and with a credential that was good when it was looked at.
THEOREM GrantsAreJustified == Spec => []GrantsJustified
<1>1. IInv => GrantsJustified
    <2> SUFFICES ASSUME IInv, NEW q \in Requests, req[q].pc = "granted"
                 PROVE  LET r == req[q] IN
                        /\ Fact("valid") \in held[q] /\ \A a \in r.scope : Had(q, a)
                        /\ r.cred.by = "bearer" => \A a \in r.scope : Covers(token[r.cred.slot], r.name, a)
                        /\ r.mounted => Fact("source") \in held[q]
        BY DEF GrantsJustified
    <2>1. Fact("valid") \in held[q] /\ Passed(token, held[q], req[q]) /\ Known(token, held[q], req[q])
        BY UnderWay DEF Place
    <2> QED BY <2>1 DEF Passed, Known, HadIn, Had
<1> QED BY <1>1, Invariance, PTL
-----------------------------------------------------------------------------
(* Steps that may only happen on evidence *)

\* Which steps write bearer tokens and repositories, and which requests they end.
LEMMA WhoWrites ==
    ASSUME IInv, Next
    PROVE  /\ token' = token \/ Tick \/ \E q \in Requests : Mint(q)
           /\ \/ repo' = repo
              \/ \E q \in Requests : Insert(q) \/ SetVisibility(q)
<1>1. ASSUME NEW q \in Requests, Start(q)
      PROVE  token' = token /\ repo' = repo
    BY <1>1 DEF Start, StartApi, StartToken, StartWeb, StartPat, Begin, rows
<1>2. ASSUME NEW q \in Requests, Statement(q), ~Insert(q), ~SetVisibility(q)
      PROVE  token' = token /\ repo' = repo
    BY <1>2 DEF Statement, FindRepository, Authenticate, Lookup, CheckRoleByName, CheckRole, CheckPermission,
                Ensure, CheckMember, FindCreated, Ready, FindSource, CreatePat, RevokePat, Moves, rows
<1>3. ASSUME NEW q \in Requests, Insert(q) \/ SetVisibility(q)
      PROVE  token' = token
    BY <1>3 DEF Insert, SetVisibility
<1>4. ASSUME NEW q \in Requests, Answer(q) \/ Drop(q)
      PROVE  token' = token /\ repo' = repo
    BY <1>4 DEF Answer, Drop, Moves, rows
<1>5. ASSUME NEW q \in Requests, Mint(q)
      PROVE  repo' = repo
    BY <1>5 DEF Mint, rows
<1>6. /\ Tick => repo' = repo
      /\ ExpirePat => token' = token /\ repo' = repo
      /\ Operator => token' = token /\ repo' = repo
    BY DEF Tick, ExpirePat, Operator, rows
<1> QED BY <1>1, <1>2, <1>3, <1>4, <1>5, <1>6 DEF Next, Step

\* A bearer token is worth no more than its holder was while the token request ran: each
\* action in it was the holder's, and the personal access token was good.
THEOREM EarnedScopes == Spec => ScopesAreEarned
<1>1. ASSUME IInv, [Next]_vars
      PROVE  [\A q \in Requests, s \in Slots :
                req[q].pc = "mint" /\ req'[q].pc = "idle" /\ token'[s].left > token[s].left
                => Fact("valid") \in held[q] /\ \A a \in token'[s].scope : Had(q, a)]_vars
    <2>1. CASE UNCHANGED vars
        BY <2>1
    <2>2. ASSUME Next, NEW q \in Requests, NEW s \in Slots, req[q].pc = "mint", req'[q].pc = "idle",
                 token'[s].left > token[s].left
          PROVE  Fact("valid") \in held[q] /\ \A a \in token'[s].scope : Had(q, a)
        <3>1. req \in [Requests -> Locals] /\ token \in [Slots -> TokenRows] /\ token[s].left \in 0..Lifetime
            BY <1>1 DEF IInv, RequestInv, RowsInv, TokenRows
        <3>2. token' # token
            BY <2>2, <3>1
        <3>3. ~Tick
            BY <2>2 DEF Tick
        <3>4. PICK p \in Requests : Mint(p)
            BY <1>1, <2>2, <3>2, <3>3, WhoWrites
        <3>5. p = q
            BY <2>2, <3>1, <3>4 DEF Mint
        <3>6. PICK t \in Slots :
                token' = [token EXCEPT ![t] = [pat |-> req[p].cred.pat, repo |-> req[p].name,
                                               scope |-> req[p].granted, left |-> Lifetime]]
            BY <3>4 DEF Mint
        <3>7. t = s
            BY <2>2, <3>1, <3>6
        <3>8. token'[s].scope = req[q].granted
            BY <3>1, <3>5, <3>6, <3>7
        <3>9. Fact("valid") \in held[q] /\ \A a \in req[q].granted : HadIn(held[q], a)
            BY <1>1, <2>2, UnderWay DEF Known, Place
        <3> QED BY <3>8, <3>9 DEF HadIn, Had
    <2> QED BY <1>1, <2>1, <2>2
<1> QED BY <1>1, Invariance, PTL DEF Spec, ScopesAreEarned

\* A repository changes its visibility only by the web request of a user who was an
\* administrator of it while that request ran: a push that raced its creation does not.
THEOREM OnlyAdminsPublish == Spec => VisibilityOnlyByAdmin
<1>1. ASSUME IInv, [Next]_vars
      PROVE  [\A n \in Repos :
                repo[n] # "absent" /\ repo'[n] # repo[n] =>
                  \E q \in Requests : /\ req[q].kind \in {"create", "visibility"} /\ req[q].name = n
                                      /\ req'[q].pc = "idle" /\ Had(q, "admin")]_vars
    <2>1. CASE UNCHANGED vars
        BY <2>1
    <2>2. ASSUME Next, NEW n \in Repos, repo[n] # "absent", repo'[n] # repo[n]
          PROVE  \E q \in Requests : /\ req[q].kind \in {"create", "visibility"} /\ req[q].name = n
                                     /\ req'[q].pc = "idle" /\ Had(q, "admin")
        <3>1. req \in [Requests -> Locals] /\ repo \in [Repos -> Visibilities \cup {"absent"}]
            BY <1>1 DEF IInv, RequestInv, RowsInv
        <3>2. PICK q \in Requests : Insert(q) \/ SetVisibility(q)
            BY <1>1, <2>2, WhoWrites
        <3>3. ~Insert(q)
            BY <2>2, <3>1 DEF Insert
        <3>4. req[q].pc = "apply" /\ req[q].kind \in {"create", "visibility"} /\ req[q].name = n /\ req'[q] = Idle
            BY <2>2, <3>1, <3>2, <3>3 DEF SetVisibility, At
        <3>5. HadIn(held[q], "admin")
            BY <1>1, <3>4, UnderWay DEF Place
        <3> QED BY <3>4, <3>5, IdleOK DEF HadIn, Had
    <2> QED BY <1>1, <2>1, <2>2
<1> QED BY <1>1, Invariance, PTL DEF Spec, VisibilityOnlyByAdmin
=============================================================================
