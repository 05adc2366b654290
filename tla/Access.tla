------------------------------- MODULE Access ------------------------------
(***************************************************************************)
(* Who may do what in jcrd: personal access tokens, the bearer tokens of   *)
(* GET /v2/token, the authorization that precedes every registry endpoint, *)
(* the creation of a repository by its first push, the mount of a blob of  *)
(* another repository, and the handlers of the web UI that publish a       *)
(* repository or issue and revoke tokens.                                  *)
(*                                                                         *)
(* None of it runs in a transaction: a request reads its repository, its   *)
(* credential, its user, a membership and a permission with one statement  *)
(* each, and what it read may be stale when it acts.  A step is one        *)
(* statement with the code up to the next one.  Memberships, permissions,  *)
(* disabled_at and the role of a user are only ever changed by an operator *)
(* with SQL: the code reads them.                                          *)
(***************************************************************************)
EXTENDS Integers, FiniteSets

CONSTANTS
    Requests,           \* slots for concurrently running requests
    Users, Pats, Repos, Namespaces,
    Owner,              \* the user of each personal access token
    NamespaceOf,        \* the namespace in the name of each repository
    Slots,              \* bound: bearer tokens that are alive at one time
    Lifetime,           \* TOKEN_LIFETIME_MINUTES, in ticks
    RoleChoices,        \* namespace roles that occur
    PermChoices,        \* rows of repository_permissions that occur
    Kinds,              \* requests that are made
    ApiActions,         \* actions asked of the API and in the scope of a token
    MaxChanges,         \* bound: changes the operator makes
    NoUser, NoPat, NoRepo, NoSlot

Actions == {"pull", "push", "delete", "admin"}
Roles == {"none", "reader", "writer", "admin"}
AllKinds == {"access", "start", "token", "create", "visibility", "newpat", "revoke"}

ASSUME AccessAssumption ==
    /\ Owner \in [Pats -> Users] /\ NamespaceOf \in [Repos -> Namespaces]
    /\ Lifetime \in Nat \ {0} /\ MaxChanges \in Nat
    /\ RoleChoices \subseteq Roles /\ PermChoices \subseteq Users \X Repos \X Actions
    /\ Kinds \subseteq AllKinds /\ ApiActions \subseteq Actions
    /\ NoUser \notin Users /\ NoPat \notin Pats /\ NoRepo \notin Repos /\ NoSlot \notin Slots

VARIABLES
    pat,       \* each row of personal_access_tokens
    repo,      \* each row of repositories: its visibility, or "absent"
    enabled,   \* users whose disabled_at is NULL
    admins,    \* users whose instance_role is admin
    role,      \* namespace_memberships
    perm,      \* repository_permissions
    token,     \* bearer tokens handed out and the ticks left to their exp
    req,       \* local state of each running request
    held,      \* history: what was true at some moment since a request began
    lacked,    \* history: what was false at some moment since it began
    changes    \* changes the operator made

rows == <<pat, repo>>
operated == <<enabled, admins, role, perm, changes>>
vars == <<pat, repo, enabled, admins, role, perm, token, req, held, lacked, changes>>

-----------------------------------------------------------------------------
(* Types *)

Visibilities == {"private", "public"}

Credentials == [by : {"none", "pat", "bearer", "session"},
                pat : Pats \cup {NoPat}, slot : Slots \cup {NoSlot}, user : Users \cup {NoUser}]

NoCredential == [by |-> "none", pat |-> NoPat, slot |-> NoSlot, user |-> NoUser]

Locals == [pc : {"idle", "find", "authn", "lookup", "nsrole", "role", "perm", "ensure", "member",
                 "insert", "refind", "ready", "mount", "apply", "mint", "granted", "denied"},
           kind : AllKinds \cup {"none"}, cred : Credentials,
           name : Repos \cup {NoRepo}, from : Repos \cup {NoRepo},
           want : Visibilities, scope : SUBSET Actions, todo : SUBSET Actions, granted : SUBSET Actions,
           row : Visibilities \cup {"absent"}, user : Users \cup {NoUser}, admin : BOOLEAN,
           stage : {"api", "token", "ensure", "admin", "mount"}, mounted : BOOLEAN]

Idle == [pc |-> "idle", kind |-> "none", cred |-> NoCredential, name |-> NoRepo, from |-> NoRepo,
         want |-> "private", scope |-> {}, todo |-> {}, granted |-> {}, row |-> "absent", user |-> NoUser,
         admin |-> FALSE, stage |-> "api", mounted |-> FALSE]

NoToken == [pat |-> NoPat, repo |-> NoRepo, scope |-> {}, left |-> 0]

Minted(s) == token[s].left > 0

\* The user a credential stands for, before anybody looks whether it is good.
UserOf(c) ==
    CASE c.by = "pat" -> Owner[c.pat]
      [] c.by = "bearer" /\ token[c.slot].pat # NoPat -> Owner[token[c.slot].pat]
      [] c.by = "session" -> c.user
      [] OTHER -> NoUser

-----------------------------------------------------------------------------
(* Rights *)

\* What a namespace role allows on an existing repository, and without one.
RoleGrants(r, a) ==
    \/ a = "pull" /\ r \in {"reader", "writer", "admin"}
    \/ a = "push" /\ r \in {"writer", "admin"}
    \/ a \in {"delete", "admin"} /\ r = "admin"

RoleGrantsName(r, a) == a \in {"pull", "push"} /\ RoleGrants(r, a)

PermGrants(u, n, a) == <<u, n, a>> \in perm \/ <<u, n, "admin">> \in perm

\* The scope of a bearer token covers an action (RepositoryScope::permits).
Covers(t, n, a) == t.repo = n /\ (a \in t.scope \/ "admin" \in t.scope)

\* The action the next check of a request is about; a scope is a BTreeSet.
Rank == [pull |-> 1, push |-> 2, delete |-> 3, admin |-> 4]
Asked(r) ==
    CASE r.stage = "ensure" -> "push"
      [] r.stage = "admin" -> "admin"
      [] r.stage = "mount" -> "pull"
      [] OTHER -> CHOOSE a \in r.todo : \A b \in r.todo : Rank[a] <= Rank[b]

\* The repository it is about: a mount checks its source.
Subject(r) == IF r.stage = "mount" THEN r.from ELSE r.name

-----------------------------------------------------------------------------
(* What a request does with the answer of a check *)

\* start_upload with its repository row: try the mount, or open a session.
Started(r) == [r EXCEPT !.pc = IF r.from # NoRepo THEN "mount" ELSE "granted"]

\* authorize has said yes: run the handler.
Handle(r) ==
    IF r.row = "absent" THEN [r EXCEPT !.pc = IF r.kind = "start" THEN "ensure" ELSE "denied"]
    ELSE IF r.kind = "start" THEN Started(r) ELSE [r EXCEPT !.pc = "granted"]

\* token_allowed of authorize.
InScope(r) == r.cred.by = "bearer" => Covers(token[r.cred.slot], r.name, Asked(r))

Decide(r, ok) ==
    CASE r.stage = "api" -> IF ok /\ InScope(r) THEN Handle(r) ELSE [r EXCEPT !.pc = "denied"]
      [] r.stage = "token" ->
           LET rest == r.todo \ {Asked(r)} IN
           [r EXCEPT !.todo = rest, !.granted = IF ok THEN @ \cup {Asked(r)} ELSE @,
                     !.pc = IF rest = {} THEN "mint" ELSE "lookup"]
      [] r.stage = "ensure" -> [r EXCEPT !.pc = IF ok THEN "ready" ELSE "denied"]
      [] r.stage = "admin" -> [r EXCEPT !.pc = IF ok THEN "apply" ELSE "denied"]
      [] r.stage = "mount" -> [r EXCEPT !.mounted = ok, !.pc = "granted"]

\* Variant: a public repository is for its members.
AuthorizeRowMembers(r, row) ==
    IF r.user = NoUser THEN Decide(r, FALSE)
    ELSE IF r.admin THEN Decide(r, TRUE)
    ELSE [r EXCEPT !.pc = "role"]

\* authorize_repository up to its first query.
AuthorizeRow(r, row) ==
    IF Asked(r) = "pull" /\ row = "public" THEN Decide(r, TRUE)
    ELSE IF r.user = NoUser THEN Decide(r, FALSE)
    ELSE IF r.admin THEN Decide(r, TRUE)
    ELSE [r EXCEPT !.pc = "role"]

\* authorize_repository_name up to its second query.
AuthorizeName(r, row) ==
    IF row # "absent" THEN AuthorizeRow(r, row)
    ELSE IF r.user = NoUser THEN Decide(r, FALSE)
    ELSE IF r.admin THEN Decide(r, TRUE)
    ELSE IF Asked(r) \notin {"pull", "push"} THEN Decide(r, FALSE)
    ELSE [r EXCEPT !.pc = "nsrole"]

-----------------------------------------------------------------------------
(* Requests begin *)

Credential(by) == [NoCredential EXCEPT !.by = by]
Anonymous == {NoCredential}
Basic == {[Credential("pat") EXCEPT !.pat = p] : p \in {x \in Pats : pat[x] # "none"}}
Bearer == {[Credential("bearer") EXCEPT !.slot = s] : s \in {x \in Slots : Minted(x)}}
Sessions == {[Credential("session") EXCEPT !.user = u] : u \in Users}

Begin(q, r) ==
    /\ req[q].pc = "idle" /\ r.kind \in Kinds
    /\ req' = [req EXCEPT ![q] = r]
    /\ UNCHANGED <<rows, operated, token>>

\* A registry endpoint: the start of an upload, which may mount a blob of another
\* repository, or any other.
StartApi(q) ==
    \E c \in Anonymous \cup Basic \cup Bearer, n \in Repos, a \in ApiActions,
       k \in {"access", "start"}, f \in Repos \cup {NoRepo} :
        /\ k = "start" => a = "push"
        /\ f # NoRepo => k = "start" /\ f # n
        /\ Begin(q, [Idle EXCEPT !.pc = "find", !.kind = k, !.cred = c, !.name = n, !.from = f,
                                 !.scope = {a}, !.todo = {a}])

StartToken(q) ==
    \E c \in Anonymous \cup Basic, n \in Repos, as \in SUBSET ApiActions :
        Begin(q, [Idle EXCEPT !.pc = "authn", !.kind = "token", !.cred = c, !.name = n,
                              !.scope = as, !.todo = as, !.stage = "token"])

StartWeb(q) ==
    \E c \in Sessions, n \in Repos, v \in Visibilities, k \in {"create", "visibility"} :
        Begin(q, [Idle EXCEPT !.pc = "authn", !.kind = k, !.cred = c, !.name = n, !.want = v,
                              !.scope = {"admin"}, !.stage = "admin"])

StartPat(q) ==
    \E c \in Sessions, p \in Pats, k \in {"newpat", "revoke"} :
        /\ k = "newpat" => pat[p] = "none" /\ Owner[p] = c.user
        /\ Begin(q, [Idle EXCEPT !.pc = "authn", !.kind = k, !.cred = [c EXCEPT !.pat = p]])

-----------------------------------------------------------------------------
(* The statements of a request *)

At(q, pc) == req[q].pc = pc

\* A statement that only changes what its request knows.
Moves(q, r) == req' = [req EXCEPT ![q] = r] /\ UNCHANGED <<rows, operated, token>>

\* The rows a check of request q reads.
RoleOf(q) == role[<<req[q].user, NamespaceOf[Subject(req[q])]>>]
RepoOf(q) == repo[Subject(req[q])]

\* authorize reads the repository first and keeps the row.
FindRepository(q) ==
    /\ At(q, "find")
    /\ Moves(q, [req[q] EXCEPT !.row = RepoOf(q), !.pc = "authn"])

\* validate_pat, the decoding of a bearer token, and require_session.
Accepted(c) ==
    CASE c.by = "pat" -> pat[c.pat] = "live" /\ Owner[c.pat] \in enabled
      [] c.by = "bearer" -> Minted(c.slot)
      [] c.by = "session" -> c.user \in enabled
      [] OTHER -> TRUE

\* Variant: a bearer token is taken at its word for its user.
KnownUserWord(c) == UserOf(c)

\* The user of an accepted credential: none if a bearer token's user is disabled.
KnownUser(c) == IF UserOf(c) \in enabled THEN UserOf(c) ELSE NoUser

\* The credential is good: go to the first check.
Authenticated(r) ==
    CASE r.kind = "token" -> [r EXCEPT !.pc = IF r.todo = {} THEN "mint" ELSE "lookup"]
      [] r.kind \in {"newpat", "revoke"} -> [r EXCEPT !.pc = "apply"]
      [] r.kind = "create" -> [r EXCEPT !.pc = "ensure"]
      [] r.kind = "visibility" -> [r EXCEPT !.pc = "lookup"]
      [] r.kind \in {"access", "start"} /\ r.cred.by = "none" ->
           IF Asked(r) = "pull" /\ r.row = "public" THEN Handle(r) ELSE [r EXCEPT !.pc = "denied"]
      [] OTHER -> IF r.row = "absent" THEN [r EXCEPT !.pc = "lookup"] ELSE AuthorizeRow(r, r.row)

Authenticate(q) ==
    /\ At(q, "authn")
    /\ LET c == req[q].cred
           u == KnownUser(c)
       IN  Moves(q, IF Accepted(c)
                    THEN Authenticated([req[q] EXCEPT !.user = u, !.admin = u \in admins])
                    ELSE [req[q] EXCEPT !.pc = "denied"])

\* The repository is read again, or for the first time: by authorize_repository_name,
\* and by authorize_repository_id, which knows of no access to a missing repository.
Lookup(q) ==
    /\ At(q, "lookup")
    /\ Moves(q, IF req[q].kind # "visibility" THEN AuthorizeName(req[q], RepoOf(q))
                ELSE IF RepoOf(q) = "absent" THEN [req[q] EXCEPT !.pc = "denied"]
                ELSE AuthorizeRow(req[q], RepoOf(q)))

CheckRoleByName(q) ==
    /\ At(q, "nsrole")
    /\ Moves(q, Decide(req[q], RoleGrantsName(RoleOf(q), Asked(req[q]))))

CheckRole(q) ==
    /\ At(q, "role")
    /\ Moves(q, IF RoleGrants(RoleOf(q), Asked(req[q])) THEN Decide(req[q], TRUE)
                ELSE [req[q] EXCEPT !.pc = "perm"])

CheckPermission(q) ==
    /\ At(q, "perm")
    /\ Moves(q, Decide(req[q], PermGrants(req[q].user, Subject(req[q]), Asked(req[q]))))

\* ensure_repository_for_push: an existing repository is checked for push.
Ensure(q) ==
    /\ At(q, "ensure")
    /\ LET r == [req[q] EXCEPT !.row = RepoOf(q), !.stage = "ensure"]
       IN  Moves(q, IF RepoOf(q) = "absent" THEN [r EXCEPT !.pc = "member"]
                    ELSE AuthorizeRow(r, RepoOf(q)))

\* A missing one takes a membership, which an instance administrator needs as well.
CheckMember(q) ==
    /\ At(q, "member")
    /\ Moves(q, [req[q] EXCEPT !.pc =
                    IF RoleOf(q) # "none" /\ (req[q].admin \/ RoleOf(q) \in {"writer", "admin"})
                    THEN "insert" ELSE "denied"])

\* Variant: the loser of two creations sets the visibility of the repository again.
InsertOverwrites(q) ==
    /\ At(q, "insert")
    /\ repo' = [repo EXCEPT ![req[q].name] = "private"]
    /\ req' = [req EXCEPT ![q].pc = "refind"]
    /\ UNCHANGED <<pat, operated, token>>

\* INSERT ... ON CONFLICT DO NOTHING.
Insert(q) ==
    /\ At(q, "insert")
    /\ repo' = [repo EXCEPT ![req[q].name] = IF @ = "absent" THEN "private" ELSE @]
    /\ req' = [req EXCEPT ![q].pc = "refind"]
    /\ UNCHANGED <<pat, operated, token>>

FindCreated(q) ==
    /\ At(q, "refind")
    /\ Moves(q, [req[q] EXCEPT !.row = RepoOf(q), !.pc = "ready"])

\* The caller of ensure_repository_for_push goes on.
Ready(q) ==
    /\ At(q, "ready")
    /\ Moves(q, IF req[q].kind = "start" THEN Started(req[q])
                ELSE AuthorizeRow([req[q] EXCEPT !.stage = "admin"], req[q].row))

\* mount_blob reads its source; the blob is taken to be linked there.
FindSource(q) ==
    /\ At(q, "mount")
    /\ LET r == [req[q] EXCEPT !.stage = "mount"]
       IN  Moves(q, IF repo[r.from] = "absent" THEN [r EXCEPT !.pc = "granted"]
                    ELSE AuthorizeRow(r, repo[r.from]))

\* The UPDATE of create_repository and update_visibility.
SetVisibility(q) ==
    /\ At(q, "apply") /\ req[q].kind \in {"create", "visibility"}
    /\ repo' = [repo EXCEPT ![req[q].name] = req[q].want]
    /\ req' = [req EXCEPT ![q] = Idle]
    /\ UNCHANGED <<pat, operated, token>>

CreatePat(q) ==
    /\ At(q, "apply") /\ req[q].kind = "newpat"
    /\ pat[req[q].cred.pat] = "none" /\ Owner[req[q].cred.pat] = req[q].user
    /\ pat' = [pat EXCEPT ![req[q].cred.pat] = "live"]
    /\ req' = [req EXCEPT ![q] = Idle]
    /\ UNCHANGED <<repo, operated, token>>

\* Only the user's own token, and only once.
RevokePat(q) ==
    /\ At(q, "apply") /\ req[q].kind = "revoke"
    /\ LET p == req[q].cred.pat
       IN  IF Owner[p] = req[q].user /\ pat[p] \in {"live", "expired"}
           THEN pat' = [pat EXCEPT ![p] = "revoked"] ELSE UNCHANGED pat
    /\ req' = [req EXCEPT ![q] = Idle]
    /\ UNCHANGED <<repo, operated, token>>

Free(s) == ~Minted(s) /\ \A q \in Requests : req[q].cred.slot # s

\* Variant: a token carries the scope that was asked for.
MintAsked(q) ==
    /\ At(q, "mint")
    /\ \E s \in Slots :
        /\ Free(s)
        /\ token' = [token EXCEPT ![s] = [pat |-> req[q].cred.pat, repo |-> req[q].name,
                                          scope |-> req[q].scope, left |-> Lifetime]]
    /\ req' = [req EXCEPT ![q] = Idle]
    /\ UNCHANGED <<rows, operated>>

\* The expiry counts from the moment of signing.
Mint(q) ==
    /\ At(q, "mint")
    /\ \E s \in Slots :
        /\ Free(s)
        /\ token' = [token EXCEPT ![s] = [pat |-> req[q].cred.pat, repo |-> req[q].name,
                                          scope |-> req[q].granted, left |-> Lifetime]]
    /\ req' = [req EXCEPT ![q] = Idle]
    /\ UNCHANGED <<rows, operated>>

\* The request is answered, or its connection is closed and its handler dropped.
Answer(q) == req[q].pc \in {"granted", "denied"} /\ Moves(q, Idle)
Drop(q) == req[q].pc \notin {"idle", "granted", "denied"} /\ Moves(q, Idle)

-----------------------------------------------------------------------------
(* Time, and the operator *)

\* Variant: a token's age goes on past its exp.
TickBelowZero ==
    /\ \E s \in Slots : Minted(s) \/ \E q \in Requests : req[q].cred.slot = s
    /\ token' = [s \in Slots |->
                   IF token[s].left <= 1 /\ \A q \in Requests : req[q].cred.slot # s THEN NoToken
                   ELSE [token[s] EXCEPT !.left = @ - 1]]
    /\ UNCHANGED <<rows, operated, req>>

\* A token past its exp is forgotten as soon as no request presents it.
Tick ==
    /\ \E s \in Slots : Minted(s)
    /\ token' = [s \in Slots |->
                   IF token[s].left <= 1 /\ \A q \in Requests : req[q].cred.slot # s THEN NoToken
                   ELSE [token[s] EXCEPT !.left = IF @ > 0 THEN @ - 1 ELSE 0]]
    /\ UNCHANGED <<rows, operated, req>>

ExpirePat ==
    /\ \E p \in Pats : pat[p] = "live" /\ pat' = [pat EXCEPT ![p] = "expired"]
    /\ UNCHANGED <<repo, operated, token, req>>

Operator ==
    /\ changes < MaxChanges /\ changes' = changes + 1
    /\ \/ /\ \E u \in Users : enabled' \in {enabled \cup {u}, enabled \ {u}}
          /\ UNCHANGED <<admins, role, perm>>
       \/ /\ \E u \in Users : admins' \in {admins \cup {u}, admins \ {u}}
          /\ UNCHANGED <<enabled, role, perm>>
       \/ /\ \E m \in DOMAIN role, r \in RoleChoices : role' = [role EXCEPT ![m] = r]
          /\ UNCHANGED <<enabled, admins, perm>>
       \/ /\ \E t \in PermChoices : perm' \in {perm \cup {t}, perm \ {t}}
          /\ UNCHANGED <<enabled, admins, role>>
    /\ operated' # operated
    /\ UNCHANGED <<rows, token, req>>

-----------------------------------------------------------------------------
(* History: the facts about a request, each true or false at every moment  *)

Fact(name) == <<name, "any">>
Facts == ({"valid", "enabled", "exists", "public", "instance", "source"} \X {"any"})
            \cup ({"role", "perm"} \X Actions)

If(condition, name) == IF condition THEN {Fact(name)} ELSE {}

Good(c) == /\ c.by = "pat" => pat[c.pat] = "live"
           /\ c.by = "bearer" => Minted(c.slot)

MemberRole(u, n) == IF u = NoUser THEN "none" ELSE role[<<u, NamespaceOf[n]>>]

TrueFacts(q) ==
    LET r == req[q]
        u == UserOf(r.cred)
    IN  If(Good(r.cred), "valid") \cup If(u \in enabled, "enabled") \cup If(u \in admins, "instance")
          \cup (IF r.name = NoRepo THEN {} ELSE
                  If(repo[r.name] # "absent", "exists") \cup If(repo[r.name] = "public", "public")
                    \cup {<<"role", a>> : a \in {x \in r.scope : RoleGrants(MemberRole(u, r.name), x)}}
                    \cup {<<"perm", a>> : a \in {x \in r.scope : PermGrants(u, r.name, x)}})
          \cup (IF r.from = NoRepo THEN {} ELSE
                  If(\/ repo[r.from] = "public" \/ u \in admins
                     \/ RoleGrants(MemberRole(u, r.from), "pull") \/ PermGrants(u, r.from, "pull"),
                     "source"))

Before(history, q) == IF req[q].pc = "idle" THEN {} ELSE history[q]

Observe ==
    /\ held' = [q \in Requests |-> IF req'[q].pc = "idle" THEN {}
                                    ELSE Before(held, q) \cup TrueFacts(q)']
    /\ lacked' = [q \in Requests |-> IF req'[q].pc = "idle" THEN {}
                                      ELSE Before(lacked, q) \cup (Facts \ TrueFacts(q)')]

-----------------------------------------------------------------------------
(* Specification *)

Init ==
    /\ pat = [p \in Pats |-> "none"]
    /\ repo \in [Repos -> Visibilities \cup {"absent"}]
    /\ enabled = Users /\ admins = {} /\ perm = {}
    /\ role \in [Users \X Namespaces -> RoleChoices]
    /\ token = [s \in Slots |-> NoToken]
    /\ req = [q \in Requests |-> Idle]
    /\ held = [q \in Requests |-> {}] /\ lacked = [q \in Requests |-> {}]
    /\ changes = 0

Start(q) == StartApi(q) \/ StartToken(q) \/ StartWeb(q) \/ StartPat(q)

Statement(q) ==
    \/ FindRepository(q) \/ Authenticate(q) \/ Lookup(q)
    \/ CheckRoleByName(q) \/ CheckRole(q) \/ CheckPermission(q)
    \/ Ensure(q) \/ CheckMember(q) \/ Insert(q) \/ FindCreated(q) \/ Ready(q)
    \/ FindSource(q) \/ SetVisibility(q) \/ CreatePat(q) \/ RevokePat(q)

Step ==
    \/ \E q \in Requests : Start(q) \/ Statement(q) \/ Mint(q) \/ Answer(q) \/ Drop(q)
    \/ Tick \/ ExpirePat \/ Operator

Next == Step /\ Observe

Spec == Init /\ [][Next]_vars

-----------------------------------------------------------------------------
(* Properties *)

\* Every variable has its type.
TypeOK ==
    /\ pat \in [Pats -> {"none", "live", "revoked", "expired"}]
    /\ repo \in [Repos -> Visibilities \cup {"absent"}]
    /\ enabled \subseteq Users /\ admins \subseteq Users
    /\ role \in [Users \X Namespaces -> Roles] /\ perm \subseteq Users \X Repos \X Actions
    /\ token \in [Slots -> [pat : Pats \cup {NoPat}, repo : Repos \cup {NoRepo},
                            scope : SUBSET Actions, left : 0..Lifetime]]
    /\ req \in [Requests -> Locals]
    /\ held \in [Requests -> SUBSET Facts] /\ lacked \in [Requests -> SUBSET Facts]
    /\ changes \in 0..MaxChanges

\* What request q had, or missed, at some moment while it ran.
Had(q, a) ==
    \/ a = "pull" /\ Fact("public") \in held[q]
    \/ Fact("enabled") \in held[q] /\ {Fact("instance"), <<"role", a>>, <<"perm", a>>} \cap held[q] # {}

Missed(q, a) ==
    LET absent == Fact("exists") \in lacked[q] IN
    /\ a = "pull" => Fact("public") \in lacked[q]
    /\ Fact("instance") \in lacked[q] \/ (req[q].kind \in {"start", "create"} /\ absent)
    /\ <<"role", a>> \in lacked[q] \/ (a \in {"delete", "admin"} /\ req[q].kind # "create" /\ absent)
    /\ <<"perm", a>> \in lacked[q] \/ absent

\* Nothing is allowed on evidence older than the request: whoever is let in had the
\* right while the request ran, as an enabled user or through a public repository, a
\* bearer token never widens it, and the source of a mount was readable.  authorize
\* reads the repository before the credential and uses its row after (registry.rs 273-345).
GrantsJustified ==
    \A q \in Requests :
        LET r == req[q] IN
        r.pc = "granted" =>
             /\ Fact("valid") \in held[q] /\ \A a \in r.scope : Had(q, a)
             /\ r.cred.by = "bearer" => \A a \in r.scope : Covers(token[r.cred.slot], r.name, a)
             /\ r.mounted => Fact("source") \in held[q]

\* Nobody is turned away who had every right all along, whatever else changed in
\* between: in particular an anonymous pull of a repository that stays public succeeds.
DenialsJustified ==
    \A q \in Requests :
        LET r == req[q]
            Excused == \/ Fact("valid") \in lacked[q]
                       \/ UserOf(r.cred) # NoUser /\ Fact("enabled") \in lacked[q]
        IN
        /\ r.pc = "denied" =>
             \/ Excused
             \/ r.kind \in {"access", "visibility"} /\ Fact("exists") \in lacked[q]
             \/ r.cred.by = "bearer" /\ \E a \in r.scope : ~Covers(token[r.cred.slot], r.name, a)
             \/ \E a \in r.scope : Missed(q, a)
        /\ r.pc = "mint" => \A a \in r.scope \ r.granted : Excused \/ Missed(q, a)

\* A bearer token is worth no more than its holder was: every action in its scope was
\* the user's at some moment while the token request ran, and so was the personal access
\* token it was got with (auth.rs 86-114), revoked or expired as it may be by now.
ScopesAreEarned ==
    [][\A q \in Requests, s \in Slots :
         req[q].pc = "mint" /\ req'[q].pc = "idle" /\ token'[s].left > token[s].left
         => Fact("valid") \in held[q] /\ \A a \in token'[s].scope : Had(q, a)]_vars

\* A repository, once there, changes its visibility only by the web request of an
\* administrator of it: neither a push that raced its creation nor a stale check does.
VisibilityOnlyByAdmin ==
    [][\A n \in Repos :
         repo[n] # "absent" /\ repo'[n] # repo[n] =>
           \E q \in Requests : /\ req[q].kind \in {"create", "visibility"} /\ req[q].name = n
                               /\ req'[q].pc = "idle" /\ Had(q, "admin")]_vars
=============================================================================
