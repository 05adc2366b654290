---------------------------- MODULE AccessDenials ----------------------------
(***************************************************************************)
(* The other half of AccessProofs: nobody is refused without a reason.     *)
(*                                                                         *)
(* What was false at some moment of a request is in its second history,    *)
(* lacked.  A no of a check is backed by it (Wrong): the statement that    *)
(* found no right read rows in which there was none, and what earlier      *)
(* statements have not found (Seen) was missing when they looked.          *)
(***************************************************************************)
EXTENDS AccessProofs

\* Nobody is owed an answer on a credential, or for a user, that was no good.
Excuse(tokens, l, r) ==
    \/ Fact("valid") \in l
    \/ Holder(tokens, r.cred) # NoUser /\ Fact("enabled") \in l

\* Missed, of a history.
MissedIn(l, r, a) ==
    LET absent == Fact("exists") \in l IN
    /\ a = "pull" => Fact("public") \in l
    /\ Fact("instance") \in l \/ (r.kind \in {"start", "create"} /\ absent)
    /\ <<"role", a>> \in l \/ (a \in {"delete", "admin"} /\ r.kind # "create" /\ absent)
    /\ <<"perm", a>> \in l \/ absent

\* The right of the request that a check is about: a creation that asks for push is for admin.
Target(r) == IF r.stage = "ensure" /\ r.kind = "create" THEN "admin" ELSE Asked(r)

\* The evidence for a no, which the check of a mount's source does not need.
Wrong(tokens, l, r) == r.stage # "mount" => Excuse(tokens, l, r) \/ MissedIn(l, r, Target(r))

\* A user without rights, in the request's repository.
Stranger(l, r) == Fact("instance") \in l /\ \A a \in r.scope : <<"role", a>> \in l /\ <<"perm", a>> \in l

UserSeen(tokens, l, r) ==
    /\ r.user = NoUser => Excuse(tokens, l, r) \/ Stranger(l, r)
    /\ ~r.admin => Excuse(tokens, l, r) \/ Fact("instance") \in l

RowSeen(l, r) ==
    r.kind \in {"access", "start"} =>
        /\ r.row # "public" => Fact("public") \in l
        /\ r.row = "absent" => Fact("exists") \in l

ScopeSeen(tokens, l, r) ==
    r.kind = "token" =>
        \A a \in r.scope \ (r.granted \cup r.todo) : Excuse(tokens, l, r) \/ MissedIn(l, r, a)

Seen(tokens, l, r) == UserSeen(tokens, l, r) /\ RowSeen(l, r) /\ ScopeSeen(tokens, l, r)

\* The reason of a refusal.
Reason(tokens, l, r) ==
    \/ Excuse(tokens, l, r)
    \/ r.kind \in {"access", "visibility"} /\ Fact("exists") \in l
    \/ r.cred.by = "bearer" /\ \E a \in r.scope : ~Covers(tokens[r.cred.slot], r.name, a)
    \/ \E a \in r.scope : MissedIn(l, r, a)

Closed(l, r) == r.stage # "mount" /\ Asked(r) = "pull" => Fact("public") \in l

Spot(tokens, l, r) ==
    /\ r.pc = "member" => Fact("exists") \in l
    /\ r.pc = "nsrole" => Fact("exists") \in l /\ Asked(r) \in {"pull", "push"}
    /\ r.pc \in {"nsrole", "role", "perm"} => ~r.admin /\ Closed(l, r)
    /\ r.pc = "perm" /\ r.stage # "mount" => <<"role", Target(r)>> \in l
    /\ r.pc = "mint" => r.todo = {}
    /\ r.pc = "denied" => Reason(tokens, l, r)

LackOK(tokens, l, r) ==
    r.pc # "idle" =>
        /\ ScopeSeen(tokens, l, r)
        /\ r.pc # "find" => RowSeen(l, r)
        /\ r.pc \notin {"find", "authn"} => UserSeen(tokens, l, r)
        /\ Spot(tokens, l, r)

\* What is false now is in the history.
LackedInv == \A q \in Requests : req[q].pc # "idle" => Facts \ TrueFacts(q) \subseteq lacked[q]

DInv == LackedInv /\ \A q \in Requests : LackOK(token, lacked[q], req[q])

-----------------------------------------------------------------------------
(* A request's record *)

\* Evidence is not lost, and a token that a request presents stays the same.
LEMMA LackKept ==
    ASSUME NEW tokens, NEW after, NEW l, NEW more, l \subseteq more, NEW r, LackOK(tokens, l, r),
           r.cred.by = "bearer" => /\ after[r.cred.slot].pat = tokens[r.cred.slot].pat
                                   /\ after[r.cred.slot].repo = tokens[r.cred.slot].repo
                                   /\ after[r.cred.slot].scope = tokens[r.cred.slot].scope
    PROVE  LackOK(after, more, r)
<1>1. Holder(after, r.cred) = Holder(tokens, r.cred)
    BY DEF Holder
<1>2. Excuse(tokens, l, r) => Excuse(after, more, r)
    BY <1>1 DEF Excuse
<1>3. \A a : MissedIn(l, r, a) => MissedIn(more, r, a)
    BY DEF MissedIn
<1>4. UserSeen(tokens, l, r) => UserSeen(after, more, r)
    BY <1>2 DEF UserSeen, Stranger
<1>5. RowSeen(l, r) => RowSeen(more, r)
    BY DEF RowSeen
<1>6. ScopeSeen(tokens, l, r) => ScopeSeen(after, more, r)
    BY <1>2, <1>3 DEF ScopeSeen
<1>7. Reason(tokens, l, r) => Reason(after, more, r)
    BY <1>2, <1>3 DEF Reason, Covers
<1>8. Spot(tokens, l, r) => Spot(after, more, r)
    BY <1>7 DEF Spot, Closed
<1> QED BY <1>4, <1>5, <1>6, <1>8 DEF LackOK

\* Only the place changes.
LEMMA SeenThere ==
    ASSUME NEW tokens, NEW l, NEW r \in Locals, NEW pc \in Places
    PROVE  LET new == [r EXCEPT !.pc = pc] IN
           /\ new.pc = pc /\ new.stage = r.stage /\ new.todo = r.todo /\ new.admin = r.admin
           /\ Asked(new) = Asked(r) /\ Target(new) = Target(r)
           /\ Seen(tokens, l, r) => Seen(tokens, l, new)
           /\ Reason(tokens, l, r) => Reason(tokens, l, new)
<1> DEFINE new == [r EXCEPT !.pc = pc]
<1>1. /\ new.pc = pc /\ new.kind = r.kind /\ new.cred = r.cred /\ new.name = r.name
      /\ new.from = r.from /\ new.scope = r.scope /\ new.todo = r.todo
      /\ new.granted = r.granted /\ new.row = r.row /\ new.user = r.user
      /\ new.admin = r.admin /\ new.stage = r.stage
    BY DEF Locals
<1> HIDE DEF new
<1>2. Excuse(tokens, l, new) <=> Excuse(tokens, l, r)
    BY <1>1 DEF Excuse
<1>3. \A a : MissedIn(l, new, a) <=> MissedIn(l, r, a)
    BY <1>1 DEF MissedIn
<1>4. Seen(tokens, l, r) => Seen(tokens, l, new)
    BY <1>1, <1>2, <1>3 DEF Seen, UserSeen, Stranger, RowSeen, ScopeSeen
<1>5. Reason(tokens, l, r) => Reason(tokens, l, new)
    BY <1>1, <1>2, <1>3 DEF Reason
<1>6. Asked(new) = Asked(r)
    BY <1>1 DEF Asked
<1>7. Target(new) = Target(r)
    BY <1>1, <1>6 DEF Target
<1> QED BY <1>1, <1>4, <1>5, <1>6, <1>7 DEF new

\* A request is turned away for a reason.
LEMMA RefusedOK ==
    ASSUME NEW tokens, NEW l, NEW r \in Locals, Seen(tokens, l, r), Reason(tokens, l, r)
    PROVE  LackOK(tokens, l, [r EXCEPT !.pc = "denied"])
<1> DEFINE new == [r EXCEPT !.pc = "denied"]
<1>1. "denied" \in Places
    BY DEF Places
<1>2. new.pc = "denied" /\ Seen(tokens, l, new) /\ Reason(tokens, l, new)
    BY <1>1, SeenThere
<1> HIDE DEF new
<1> QED BY <1>2 DEF LackOK, Spot, Seen, new

\* Places that ask for no evidence of their own.
LEMMA GoesOn ==
    ASSUME NEW tokens, NEW l, NEW r \in Locals, Seen(tokens, l, r),
           NEW pc \in {"lookup", "ensure", "insert", "refind", "ready", "mount", "apply", "granted"}
    PROVE  LackOK(tokens, l, [r EXCEPT !.pc = pc])
<1> DEFINE new == [r EXCEPT !.pc = pc]
<1>1. pc \in Places
    BY DEF Places
<1>2. new.pc = pc /\ Seen(tokens, l, new)
    BY <1>1, SeenThere
<1> HIDE DEF new
<1> QED BY <1>2 DEF LackOK, Spot, Seen, new

\* The handler finds its repository, or nothing.
LEMMA HandleLack ==
    ASSUME NEW tokens, NEW l, NEW r \in Locals, Seen(tokens, l, r), r.kind \in {"access", "start"}
    PROVE  LackOK(tokens, l, Handle(r))
<1>1. CASE r.row = "absent" /\ r.kind # "start"
    <2>1. Reason(tokens, l, r)
        BY <1>1 DEF Seen, RowSeen, Reason
    <2> QED BY <1>1, <2>1, RefusedOK DEF Handle
<1>2. CASE r.row = "absent" /\ r.kind = "start"
    BY <1>2, GoesOn DEF Handle
<1>3. CASE r.row # "absent" /\ r.kind = "start" /\ r.from # NoRepo
    BY <1>3, GoesOn DEF Handle, Started
<1>4. CASE r.row # "absent" /\ r.kind = "start" /\ r.from = NoRepo
    BY <1>4, GoesOn DEF Handle, Started
<1>5. CASE r.row # "absent" /\ r.kind # "start"
    BY <1>5, GoesOn DEF Handle
<1> QED BY <1>1, <1>2, <1>3, <1>4, <1>5
-----------------------------------------------------------------------------
(* Checks *)

\* A no of a check is a reason, and what it leaves out of a scope has one.
LEMMA DecideLack ==
    ASSUME NEW h, NEW l, NEW r \in Locals, KindOK(r), Deciding(token, h, r), Seen(token, l, r),
           NEW ok \in BOOLEAN, ~ok => Wrong(token, l, r)
    PROVE  LackOK(token, l, Decide(r, ok))
<1>1. r.stage \in {"api", "token", "ensure", "admin", "mount"}
    BY DEF Locals
<1>2. CASE r.stage = "api"
    <2>1. r.kind \in {"access", "start"}
        BY <1>2 DEF Deciding
    <2>2. PICK a \in Actions : r.scope = {a} /\ r.todo = {a}
        BY <2>1 DEF KindOK
    <2>3. Asked(r) = a /\ Target(r) = a
        BY <1>2, <2>2, AskedOK DEF Target
    <2>4. CASE ok /\ InScope(r)
        BY <1>2, <2>1, <2>4, HandleLack DEF Decide
    <2>5. CASE ~(ok /\ InScope(r))
        <3>1. Reason(token, l, r)
            BY <1>2, <2>2, <2>3, <2>5 DEF Reason, Wrong, InScope
        <3> QED BY <1>2, <2>5, <3>1, RefusedOK DEF Decide
    <2> QED BY <2>4, <2>5
<1>3. CASE r.stage = "token"
    <2> DEFINE rest == r.todo \ {Asked(r)}
               some == IF ok THEN r.granted \cup {Asked(r)} ELSE r.granted
               pc == IF rest = {} THEN "mint" ELSE "lookup"
               new == [r EXCEPT !.todo = rest, !.granted = some, !.pc = pc]
    <2>1. Decide(r, ok) = new
        BY <1>3 DEF Decide, Locals
    <2>2. ~ok => Excuse(token, l, r) \/ MissedIn(l, r, Asked(r))
        BY <1>3 DEF Wrong, Target
    <2>3. (pc = "mint" => rest = {}) /\ pc \in {"mint", "lookup"}
        OBVIOUS
    <2>4. \A a \in r.scope \ (some \cup rest) :
            a \notin r.granted \cup r.todo \/ (~ok /\ a = Asked(r))
        OBVIOUS
    <2> HIDE DEF rest, some, pc
    <2>5. /\ new.pc = pc /\ new.kind = r.kind /\ new.cred = r.cred /\ new.name = r.name
          /\ new.from = r.from /\ new.scope = r.scope /\ new.todo = rest
          /\ new.granted = some /\ new.row = r.row /\ new.user = r.user
          /\ new.admin = r.admin /\ new.stage = r.stage
        BY DEF Locals
    <2> HIDE DEF new
    <2>6. (Excuse(token, l, new) <=> Excuse(token, l, r)) /\ \A a : MissedIn(l, new, a) <=> MissedIn(l, r, a)
        BY <2>5 DEF Excuse, MissedIn
    <2>7. ScopeSeen(token, l, new)
        BY <2>2, <2>4, <2>5, <2>6 DEF Seen, ScopeSeen
    <2>8. UserSeen(token, l, new) /\ RowSeen(l, new)
        BY <2>5, <2>6 DEF Seen, UserSeen, RowSeen, Stranger
    <2> QED BY <2>1, <2>3, <2>5, <2>7, <2>8 DEF LackOK, Spot
<1>4. CASE r.stage = "ensure"
    <2>1. CASE ok
        BY <1>4, <2>1, GoesOn DEF Decide
    <2>2. CASE ~ok
        <3>1. Target(r) \in r.scope
            BY <1>4 DEF Deciding, KindOK, Target, Asked
        <3>2. Reason(token, l, r)
            BY <1>4, <2>2, <3>1 DEF Reason, Wrong
        <3> QED BY <1>4, <2>2, <3>2, RefusedOK DEF Decide
    <2> QED BY <2>1, <2>2
<1>5. CASE r.stage = "admin"
    <2>1. CASE ok
        BY <1>5, <2>1, GoesOn DEF Decide
    <2>2. CASE ~ok
        <3>1. Target(r) \in r.scope
            BY <1>5 DEF Deciding, KindOK, Target, Asked
        <3>2. Reason(token, l, r)
            BY <1>5, <2>2, <3>1 DEF Reason, Wrong
        <3> QED BY <1>5, <2>2, <3>2, RefusedOK DEF Decide
    <2> QED BY <2>1, <2>2
<1>6. CASE r.stage = "mount"
    <2> DEFINE new == [r EXCEPT !.mounted = ok, !.pc = "granted"]
    <2>1. Decide(r, ok) = new
        BY <1>6 DEF Decide
    <2>2. /\ new.pc = "granted" /\ new.kind = r.kind /\ new.cred = r.cred /\ new.name = r.name
          /\ new.from = r.from /\ new.scope = r.scope /\ new.todo = r.todo
          /\ new.granted = r.granted /\ new.row = r.row /\ new.user = r.user
          /\ new.admin = r.admin /\ new.stage = r.stage
        BY DEF Locals
    <2> HIDE DEF new
    <2>3. r.kind = "start"
        BY <1>6 DEF Deciding
    <2>4. (Excuse(token, l, new) <=> Excuse(token, l, r)) /\ \A a : MissedIn(l, new, a) <=> MissedIn(l, r, a)
        BY <2>2 DEF Excuse, MissedIn
    <2>5. UserSeen(token, l, new) /\ RowSeen(l, new) /\ ScopeSeen(token, l, new)
        BY <2>2, <2>3, <2>4 DEF Seen, UserSeen, RowSeen, Stranger, ScopeSeen
    <2> QED BY <2>1, <2>2, <2>5 DEF LackOK, Spot
<1> QED BY <1>1, <1>2, <1>3, <1>4, <1>5, <1>6

\* The right that a check is about is one of the request's.
LEMMA TargetInScope ==
    ASSUME NEW h, NEW r \in Locals, KindOK(r), Deciding(token, h, r), r.stage # "mount"
    PROVE  Target(r) \in r.scope /\ Target(r) \in Actions /\ r.name \in Repos /\ Subject(r) = r.name
<1>1. r.scope \subseteq Actions
    BY DEF Locals
<1>2. CASE r.stage = "ensure"
    BY <1>1, <1>2 DEF Deciding, KindOK, Target, Asked, Subject
<1>3. CASE r.stage # "ensure"
    <2>1. r.stage \in {"api", "token", "admin"}
        BY <1>3 DEF Locals
    <2> QED BY <1>1, <1>3, <2>1, AskedInScope DEF Target
<1> QED BY <1>2, <1>3

\* Nobody has the right of a user without rights.
LEMMA NoUserWrong ==
    ASSUME NEW h, NEW l, NEW r \in Locals, KindOK(r), Deciding(token, h, r), Seen(token, l, r), r.user = NoUser,
           Closed(l, r)
    PROVE  Wrong(token, l, r)
<1> SUFFICES ASSUME r.stage # "mount"
             PROVE  Excuse(token, l, r) \/ MissedIn(l, r, Target(r))
    BY DEF Wrong
<1>1. Target(r) \in r.scope
    BY TargetInScope
<1>2. Target(r) = "pull" => Fact("public") \in l
    BY DEF Target, Closed, Asked
<1> QED BY <1>1, <1>2 DEF Seen, UserSeen, Stranger, MissedIn

\* authorize_repository: a repository that is not public is no reason by itself.
LEMMA AuthorizeRowLack ==
    ASSUME NEW h, NEW l, NEW r \in Locals, KindOK(r), Deciding(token, h, r), Seen(token, l, r),
           NEW row, row # "public" => Closed(l, r)
    PROVE  LackOK(token, l, AuthorizeRow(r, row))
<1>1. CASE Asked(r) = "pull" /\ row = "public"
    BY <1>1, DecideLack DEF AuthorizeRow
<1>2. CASE ~(Asked(r) = "pull" /\ row = "public")
    <2>1. Closed(l, r)
        BY <1>2 DEF Closed
    <2>2. CASE r.user = NoUser
        BY <1>2, <2>1, <2>2, NoUserWrong, DecideLack DEF AuthorizeRow
    <2>3. CASE r.user # NoUser /\ r.admin
        BY <1>2, <2>3, DecideLack DEF AuthorizeRow
    <2>4. CASE r.user # NoUser /\ ~r.admin
        <3> DEFINE new == [r EXCEPT !.pc = "role"]
        <3>1. "role" \in Places
            BY DEF Places
        <3>2. /\ new.pc = "role" /\ Seen(token, l, new) /\ new.stage = r.stage
              /\ new.admin = r.admin /\ Asked(new) = Asked(r)
            BY <3>1, SeenThere
        <3>3. AuthorizeRow(r, row) = new
            BY <1>2, <2>4 DEF AuthorizeRow
        <3> HIDE DEF new
        <3> QED BY <2>1, <2>4, <3>2, <3>3 DEF LackOK, Spot, Seen, Closed
    <2> QED BY <2>2, <2>3, <2>4
<1> QED BY <1>1, <1>2

\* authorize_repository_name: a repository that is not there lets only members of its
\* namespace in, to pull or push.
LEMMA AuthorizeNameLack ==
    ASSUME NEW h, NEW l, NEW r \in Locals, KindOK(r), Deciding(token, h, r), Seen(token, l, r),
           r.stage \in {"api", "token"},
           NEW row, row # "public" => Closed(l, r), row = "absent" => Fact("exists") \in l
    PROVE  LackOK(token, l, AuthorizeName(r, row))
<1>1. CASE row # "absent"
    BY <1>1, AuthorizeRowLack DEF AuthorizeName
<1>2. CASE row = "absent" /\ r.user = NoUser
    BY <1>2, NoUserWrong, DecideLack DEF AuthorizeName
<1>3. CASE row = "absent" /\ r.user # NoUser /\ r.admin
    BY <1>3, DecideLack DEF AuthorizeName
<1>4. CASE row = "absent" /\ r.user # NoUser /\ ~r.admin /\ Asked(r) \notin {"pull", "push"}
    <2>1. Target(r) = Asked(r) /\ Asked(r) \in Actions
        <3>1. Target(r) = Asked(r)
            BY DEF Target
        <3> QED BY <3>1, TargetInScope
    <2>2. r.kind # "create"
        BY DEF KindOK
    <2>3. Wrong(token, l, r)
        BY <1>4, <2>1, <2>2 DEF Wrong, MissedIn, Seen, UserSeen, Actions
    <2> QED BY <1>4, <2>3, DecideLack DEF AuthorizeName
<1>5. CASE row = "absent" /\ r.user # NoUser /\ ~r.admin /\ Asked(r) \in {"pull", "push"}
    <2> DEFINE new == [r EXCEPT !.pc = "nsrole"]
    <2>1. "nsrole" \in Places
        BY DEF Places
    <2>2. /\ new.pc = "nsrole" /\ Seen(token, l, new) /\ new.stage = r.stage
          /\ new.admin = r.admin /\ Asked(new) = Asked(r)
        BY <2>1, SeenThere
    <2>3. AuthorizeName(r, row) = new
        BY <1>5 DEF AuthorizeName
    <2> HIDE DEF new
    <2> QED BY <1>5, <2>2, <2>3 DEF LackOK, Spot, Seen, Closed
<1> QED BY <1>1, <1>2, <1>3, <1>4, <1>5

\* A good credential is turned away only if it is nobody's and the row is not public.
LEMMA AuthenticatedLack ==
    ASSUME NEW h, NEW l, NEW r \in Locals, KindOK(r), Known(token, h, r), Fact("valid") \in h,
           r.stage \in {"api", "token", "admin"}, Seen(token, l, r)
    PROVE  LackOK(token, l, Authenticated(r))
<1>1. CASE r.kind = "token"
    <2>1. CASE r.todo # {}
        BY <1>1, <2>1, GoesOn DEF Authenticated
    <2>2. CASE r.todo = {}
        <3> DEFINE new == [r EXCEPT !.pc = "mint"]
        <3>1. "mint" \in Places
            BY DEF Places
        <3>2. new.pc = "mint" /\ Seen(token, l, new) /\ new.todo = r.todo
            BY <3>1, SeenThere
        <3>3. Authenticated(r) = new
            BY <1>1, <2>2 DEF Authenticated
        <3> HIDE DEF new
        <3> QED BY <2>2, <3>2, <3>3 DEF LackOK, Spot, Seen
    <2> QED BY <2>1, <2>2
<1>2. CASE r.kind \in {"newpat", "revoke"}
    BY <1>2, GoesOn DEF Authenticated
<1>3. CASE r.kind = "create"
    BY <1>3, GoesOn DEF Authenticated
<1>4. CASE r.kind = "visibility"
    BY <1>4, GoesOn DEF Authenticated
<1>5. CASE r.kind \in {"access", "start"} /\ r.cred.by # "none" /\ r.row = "absent"
    BY <1>5, GoesOn DEF Authenticated
<1>6. CASE r.kind \in {"access", "start"}
    <2>1. r.stage = "api" /\ Deciding(token, h, r)
        BY <1>6 DEF Deciding, KindOK
    <2>2. PICK a \in Actions : r.scope = {a} /\ r.todo = {a}
        BY <1>6 DEF KindOK
    <2>3. Asked(r) = a
        BY <2>1, <2>2, AskedOK
    <2>4. r.row # "public" => Fact("public") \in l
        BY <1>6 DEF Seen, RowSeen
    <2>5. CASE r.cred.by = "none" /\ Asked(r) = "pull" /\ r.row = "public"
        BY <1>6, <2>5, HandleLack DEF Authenticated
    <2>6. CASE r.cred.by = "none" /\ ~(Asked(r) = "pull" /\ r.row = "public")
        <3>1. r.user = NoUser
            BY <2>6 DEF Known, Holder
        <3>2. Closed(l, r)
            BY <2>4, <2>6 DEF Closed
        <3>3. Target(r) \in r.scope /\ Wrong(token, l, r)
            BY <2>1, <3>1, <3>2, NoUserWrong, TargetInScope
        <3>4. Reason(token, l, r)
            BY <2>1, <3>3 DEF Wrong, Reason
        <3> QED BY <1>6, <2>6, <3>4, RefusedOK DEF Authenticated
    <2>7. CASE r.cred.by # "none" /\ r.row # "absent"
        <3>1. r.row # "public" => Closed(l, r)
            BY <2>4 DEF Closed
        <3>2. LackOK(token, l, AuthorizeRow(r, r.row))
            BY <2>1, <3>1, AuthorizeRowLack
        <3> QED BY <1>6, <2>7, <3>2 DEF Authenticated
    <2> QED BY <1>5, <1>6, <2>5, <2>6, <2>7
<1> QED BY <1>1, <1>2, <1>3, <1>4, <1>6 DEF KindOK, AllKinds

-----------------------------------------------------------------------------
(* What is false *)

\* A request under way, and what it lacks.
LEMMA LackWay ==
    ASSUME IInv, DInv, NEW q \in Requests, req[q].pc # "idle"
    PROVE  /\ req[q] \in Locals /\ KindOK(req[q]) /\ Known(token, held[q], req[q])
           /\ Place(token, held[q], req[q]) /\ ScopeSeen(token, lacked[q], req[q])
           /\ req[q].pc # "find" => RowSeen(lacked[q], req[q])
           /\ req[q].pc \notin {"find", "authn"} => Seen(token, lacked[q], req[q])
           /\ Spot(token, lacked[q], req[q])
           /\ Facts \ TrueFacts(q) \subseteq lacked[q]
BY UnderWay DEF DInv, LackedInv, LackOK, Seen

\* The names of the facts.
LEMMA FactNames ==
    /\ \A n \in {"valid", "enabled", "exists", "public", "instance", "source"} : Fact(n) \in Facts
    /\ \A a \in Actions : <<"role", a>> \in Facts /\ <<"perm", a>> \in Facts
BY DEF Fact, Facts

\* What is false of a request's credential and user is lacked.
LEMMA UserLacks ==
    ASSUME IInv, DInv, NEW q \in Requests, req[q].pc # "idle"
    PROVE  /\ ~Good(req[q].cred) => Fact("valid") \in lacked[q]
           /\ UserOf(req[q].cred) \notin enabled => Fact("enabled") \in lacked[q]
           /\ UserOf(req[q].cred) \notin admins => Fact("instance") \in lacked[q]
<1>1. Facts \ TrueFacts(q) \subseteq lacked[q]
    BY LackWay
<1>2. ~Good(req[q].cred) => Fact("valid") \notin TrueFacts(q)
    BY DEF TrueFacts, If, Fact
<1>3. UserOf(req[q].cred) \notin enabled => Fact("enabled") \notin TrueFacts(q)
    BY DEF TrueFacts, If, Fact
<1>4. UserOf(req[q].cred) \notin admins => Fact("instance") \notin TrueFacts(q)
    BY DEF TrueFacts, If, Fact
<1> QED BY <1>1, <1>2, <1>3, <1>4, FactNames

\* What is false of its repository.
LEMMA RowLacks ==
    ASSUME IInv, DInv, NEW q \in Requests, req[q].pc # "idle", req[q].name \in Repos
    PROVE  /\ repo[req[q].name] = "absent" => Fact("exists") \in lacked[q]
           /\ repo[req[q].name] # "public" => Fact("public") \in lacked[q]
<1>1. Facts \ TrueFacts(q) \subseteq lacked[q]
    BY LackWay
<1>2. repo[req[q].name] = "absent" => Fact("exists") \notin TrueFacts(q)
    BY DEF TrueFacts, If, Fact
<1>3. repo[req[q].name] # "public" => Fact("public") \notin TrueFacts(q)
    BY DEF TrueFacts, If, Fact
<1> QED BY <1>1, <1>2, <1>3, FactNames

\* And of its user's rights there.
LEMMA RightLacks ==
    ASSUME IInv, DInv, NEW q \in Requests, req[q].pc # "idle", NEW a \in Actions
    PROVE  LET r == req[q]
               u == UserOf(r.cred)
           IN  /\ r.name = NoRepo \/ ~RoleGrants(MemberRole(u, r.name), a) => <<"role", a>> \in lacked[q]
               /\ r.name = NoRepo \/ ~PermGrants(u, r.name, a) => <<"perm", a>> \in lacked[q]
<1> DEFINE r == req[q]
           u == UserOf(r.cred)
<1>1. Facts \ TrueFacts(q) \subseteq lacked[q]
    BY LackWay
<1>2. r.name = NoRepo \/ ~RoleGrants(MemberRole(u, r.name), a) => <<"role", a>> \notin TrueFacts(q)
    BY DEF TrueFacts, If, Fact
<1>3. r.name = NoRepo \/ ~PermGrants(u, r.name, a) => <<"perm", a>> \notin TrueFacts(q)
    BY DEF TrueFacts, If, Fact
<1> QED BY <1>1, <1>2, <1>3, FactNames

\* A credential without a user has no rights.
LEMMA StrangerLacks ==
    ASSUME IInv, DInv, NEW q \in Requests, req[q].pc # "idle", UserOf(req[q].cred) = NoUser
    PROVE  Stranger(lacked[q], req[q])
<1> DEFINE r == req[q]
<1>1. /\ enabled \subseteq Users /\ admins \subseteq Users /\ NoUser \notin Users
      /\ perm \subseteq Users \X Repos \X Actions
    BY AccessAssumption DEF IInv, RowsInv
<1>2. r.scope \subseteq Actions
    BY LackWay DEF Locals
<1>3. ASSUME NEW a \in r.scope
      PROVE  <<"role", a>> \in lacked[q] /\ <<"perm", a>> \in lacked[q]
    <2>1. ~RoleGrants(MemberRole(NoUser, r.name), a)
        BY DEF RoleGrants, MemberRole
    <2>2. ~PermGrants(NoUser, r.name, a)
        BY <1>1 DEF PermGrants
    <2> QED BY <1>2, <2>1, <2>2, RightLacks
<1>4. Fact("instance") \in lacked[q]
    BY <1>1, UserLacks
<1> QED BY <1>3, <1>4 DEF Stranger

-----------------------------------------------------------------------------
(* The statements *)

\* The user of a good credential, and a bad one.
LEMMA AuthenticateLack ==
    ASSUME IInv, DInv, NEW q \in Requests, At(q, "authn")
    PROVE  LET c == req[q].cred
               u == KnownUser(c)
           IN  LackOK(token, lacked[q], IF Accepted(c)
                    THEN Authenticated([req[q] EXCEPT !.user = u, !.admin = u \in admins])
                    ELSE [req[q] EXCEPT !.pc = "denied"])
<1> DEFINE r == req[q]
           c == r.cred
           l == lacked[q]
<1>1. /\ r \in Locals /\ KindOK(r) /\ RowSeen(l, r) /\ ScopeSeen(token, l, r) /\ r.pc = "authn"
      /\ r.stage \in {"api", "token", "admin"}
    BY LackWay DEF At, Place
<1>2. enabled \subseteq Users /\ admins \subseteq Users /\ NoUser \notin Users
    BY AccessAssumption DEF IInv, RowsInv
<1>3. UserOf(c) = Holder(token, c)
    BY KnownHolder
<1>4. CASE ~Accepted(c)
    <2>1. CredentialOK(c) /\ Owner \in [Pats -> Users]
        BY <1>1, AccessAssumption DEF KindOK
    <2>2. ~Good(c) \/ (UserOf(c) # NoUser /\ UserOf(c) \notin enabled)
        BY <1>2, <1>4, <2>1 DEF Accepted, Good, UserOf, CredentialOK
    <2>3. Excuse(token, l, r)
        BY <1>1, <1>3, <2>2, UserLacks DEF Excuse
    <2>4. Seen(token, l, r) /\ Reason(token, l, r)
        BY <1>1, <2>3 DEF Seen, UserSeen, Reason
    <2> QED BY <1>1, <1>4, <2>4, RefusedOK
<1>5. CASE Accepted(c)
    <2> DEFINE u == KnownUser(c)
               admin == u \in admins
               new == [r EXCEPT !.user = u, !.admin = admin]
    <2>1. /\ new \in Locals /\ KindOK(new) /\ Known(token, held[q], new)
          /\ Fact("valid") \in held[q] /\ new.stage \in {"api", "token", "admin"}
        BY <1>5, UserKnown
    <2>2. (u = NoUser /\ UserOf(c) \notin enabled) \/ (u = UserOf(c) /\ u # NoUser)
        BY <1>2 DEF KnownUser
    <2>3. u = NoUser => Excuse(token, l, r) \/ Stranger(l, r)
        <3>1. CASE UserOf(c) = NoUser
            BY <1>1, <3>1, StrangerLacks
        <3>2. CASE UserOf(c) # NoUser /\ u = NoUser
            BY <1>1, <1>3, <2>2, <3>2, UserLacks DEF Excuse
        <3> QED BY <3>1, <3>2
    <2>4. ~admin => Excuse(token, l, r) \/ Fact("instance") \in l
        <3>1. CASE u = NoUser
            BY <2>3, <3>1 DEF Stranger
        <3>2. CASE u # NoUser
            BY <1>1, <2>2, <3>2, UserLacks
        <3> QED BY <3>1, <3>2
    <2> HIDE DEF u, admin
    <2>5. /\ new.kind = r.kind /\ new.cred = r.cred /\ new.name = r.name
          /\ new.from = r.from /\ new.scope = r.scope /\ new.todo = r.todo
          /\ new.granted = r.granted /\ new.row = r.row /\ new.user = u
          /\ new.admin = admin /\ new.stage = r.stage
        BY <1>1 DEF Locals
    <2> HIDE DEF new
    <2>6. (Excuse(token, l, new) <=> Excuse(token, l, r)) /\ \A a : MissedIn(l, new, a) <=> MissedIn(l, r, a)
        BY <2>5 DEF Excuse, MissedIn
    <2>7. Seen(token, l, new)
        BY <1>1, <2>3, <2>4, <2>5, <2>6 DEF Seen, UserSeen, RowSeen, ScopeSeen, Stranger
    <2>8. LackOK(token, l, Authenticated(new))
        BY <2>1, <2>7, AuthenticatedLack
    <2> QED BY <1>5, <2>8 DEF new, u, admin
<1> QED BY <1>4, <1>5

\* The first read of the repository.
LEMMA FindLack ==
    ASSUME IInv, DInv, NEW q \in Requests, At(q, "find")
    PROVE  LackOK(token, lacked[q], [req[q] EXCEPT !.row = RepoOf(q), !.pc = "authn"])
<1> DEFINE r == req[q]
           row == RepoOf(q)
           new == [r EXCEPT !.row = row, !.pc = "authn"]
<1>1. /\ r \in Locals /\ KindOK(r) /\ ScopeSeen(token, lacked[q], r)
      /\ r.kind \in {"access", "start"} /\ r.stage = "api" /\ r.name \in Repos
    BY LackWay DEF At, Place, KindOK
<1>2. /\ row # "public" => Fact("public") \in lacked[q]
      /\ row = "absent" => Fact("exists") \in lacked[q]
    BY <1>1, RowLacks DEF RepoOf, Subject, At
<1> HIDE DEF row
<1>3. new.pc = "authn" /\ new.kind = r.kind /\ new.row = row
    BY <1>1 DEF Locals
<1> HIDE DEF new
<1> QED BY <1>1, <1>2, <1>3 DEF LackOK, Spot, ScopeSeen, RowSeen, new, row

\* What is lacked on the rows a lookup reads.
LEMMA LookupLack ==
    ASSUME IInv, DInv, NEW q \in Requests, At(q, "lookup")
    PROVE  LackOK(token, lacked[q],
                  IF req[q].kind # "visibility" THEN AuthorizeName(req[q], RepoOf(q))
                  ELSE IF RepoOf(q) = "absent" THEN [req[q] EXCEPT !.pc = "denied"]
                  ELSE AuthorizeRow(req[q], RepoOf(q)))
<1> DEFINE r == req[q]
           row == RepoOf(q)
           l == lacked[q]
<1>1. /\ r \in Locals /\ KindOK(r) /\ Seen(token, l, r) /\ Deciding(token, held[q], r)
      /\ r.stage \in {"api", "token", "admin"} /\ r.kind # "create"
    BY LackWay DEF At, Place
<1>2. r.name \in Repos /\ Subject(r) = r.name
    BY <1>1, AskedInScope
<1>3. (row # "public" => Closed(l, r)) /\ (row = "absent" => Fact("exists") \in l)
    BY <1>2, RowLacks DEF RepoOf, Closed, At
<1> HIDE DEF row
<1>4. CASE r.kind # "visibility"
    <2>1. r.stage \in {"api", "token"}
        BY <1>1, <1>4 DEF KindOK, AllKinds
    <2> QED BY <1>1, <1>3, <1>4, <2>1, AuthorizeNameLack DEF row
<1>5. CASE r.kind = "visibility" /\ row = "absent"
    <2>1. Reason(token, l, r)
        BY <1>3, <1>5 DEF Reason
    <2> QED BY <1>1, <1>5, <2>1, RefusedOK DEF row
<1>6. CASE r.kind = "visibility" /\ row # "absent"
    BY <1>1, <1>3, <1>6, AuthorizeRowLack DEF row
<1> QED BY <1>4, <1>5, <1>6

\* The rows a check reads, when they hold no right for what it is about, hold none for its target.
LEMMA RowsLack ==
    ASSUME IInv, DInv, NEW q \in Requests, req[q].pc # "idle", Deciding(token, held[q], req[q]),
           req[q].user # NoUser, req[q].stage # "mount"
    PROVE  /\ ~RoleGrants(RoleOf(q), Asked(req[q])) => <<"role", Target(req[q])>> \in lacked[q]
           /\ ~PermGrants(req[q].user, Subject(req[q]), Asked(req[q])) => <<"perm", Target(req[q])>> \in lacked[q]
<1> DEFINE r == req[q]
           u == UserOf(r.cred)
<1>1. r \in Locals /\ KindOK(r) /\ r.user = u
    BY LackWay, KnownHolder DEF Known
<1>2. Target(r) \in Actions /\ r.name \in Repos /\ Subject(r) = r.name
    BY <1>1, TargetInScope
<1>3. Target(r) = Asked(r) \/ (Target(r) = "admin" /\ Asked(r) = "push")
    BY DEF Target, Asked
<1>4. RoleOf(q) = MemberRole(u, r.name)
    BY <1>1, <1>2 DEF RoleOf, MemberRole
<1>5. ~RoleGrants(RoleOf(q), Asked(r)) => ~RoleGrants(MemberRole(u, r.name), Target(r))
    BY <1>3, <1>4 DEF RoleGrants
<1>6. ~PermGrants(r.user, Subject(r), Asked(r)) => ~PermGrants(u, r.name, Target(r))
    BY <1>1, <1>2, <1>3 DEF PermGrants
<1> QED BY <1>2, <1>5, <1>6, RightLacks

\* The three checks on rows.
LEMMA CheckLack ==
    ASSUME IInv, DInv, NEW q \in Requests
    PROVE  /\ At(q, "nsrole") =>
                LackOK(token, lacked[q], Decide(req[q], RoleGrantsName(RoleOf(q), Asked(req[q]))))
           /\ At(q, "role") =>
                LackOK(token, lacked[q], IF RoleGrants(RoleOf(q), Asked(req[q])) THEN Decide(req[q], TRUE)
                                         ELSE [req[q] EXCEPT !.pc = "perm"])
           /\ At(q, "perm") =>
                LackOK(token, lacked[q],
                       Decide(req[q], PermGrants(req[q].user, Subject(req[q]), Asked(req[q]))))
<1> DEFINE r == req[q]
           l == lacked[q]
           yes == RoleGrants(RoleOf(q), Asked(r))
           named == RoleGrantsName(RoleOf(q), Asked(r))
           permitted == PermGrants(r.user, Subject(r), Asked(r))
<1> SUFFICES ASSUME r.pc \in {"nsrole", "role", "perm"}
             PROVE  /\ r.pc = "nsrole" => LackOK(token, l, Decide(r, named))
                    /\ r.pc = "role" => LackOK(token, l, IF yes THEN Decide(r, TRUE) ELSE [r EXCEPT !.pc = "perm"])
                    /\ r.pc = "perm" => LackOK(token, l, Decide(r, permitted))
    BY DEF At
<1>1. /\ r \in Locals /\ KindOK(r) /\ Seen(token, l, r) /\ Deciding(token, held[q], r)
      /\ r.user # NoUser /\ ~r.admin /\ Closed(l, r)
      /\ r.pc = "nsrole" => Fact("exists") \in l /\ Asked(r) \in {"pull", "push"} /\ r.stage \in {"api", "token"}
      /\ r.pc = "perm" /\ r.stage # "mount" => <<"role", Target(r)>> \in l
    BY LackWay DEF Place, Spot
<1>2. Excuse(token, l, r) \/ Fact("instance") \in l
    BY <1>1 DEF Seen, UserSeen
<1>3. Target(r) = "pull" /\ r.stage # "mount" => Fact("public") \in l
    BY <1>1 DEF Target, Closed
<1>4. r.stage # "mount" => /\ ~yes => <<"role", Target(r)>> \in l
                           /\ ~permitted => <<"perm", Target(r)>> \in l
    BY <1>1, RowsLack
<1>5. yes \in BOOLEAN /\ named \in BOOLEAN /\ permitted \in BOOLEAN
    BY DEF RoleGrants, RoleGrantsName, PermGrants
<1>6. r.pc = "nsrole" => named = yes
    BY <1>1 DEF RoleGrantsName, RoleGrants
<1> HIDE DEF yes, named, permitted
<1>7. CASE r.pc = "nsrole"
    <2>1. ~named => Wrong(token, l, r)
        BY <1>1, <1>2, <1>3, <1>4, <1>6, <1>7 DEF Wrong, MissedIn
    <2> QED BY <1>1, <1>5, <1>7, <2>1, DecideLack
<1>8. CASE r.pc = "perm"
    <2>1. ~permitted => Wrong(token, l, r)
        BY <1>1, <1>2, <1>3, <1>4, <1>8 DEF Wrong, MissedIn
    <2> QED BY <1>1, <1>5, <1>8, <2>1, DecideLack
<1>9. CASE r.pc = "role" /\ yes
    BY <1>1, <1>9, DecideLack
<1>10. CASE r.pc = "role" /\ ~yes
    <2> DEFINE new == [r EXCEPT !.pc = "perm"]
    <2>1. "perm" \in Places
        BY DEF Places
    <2>2. /\ new.pc = "perm" /\ Seen(token, l, new) /\ new.stage = r.stage /\ new.admin = r.admin
          /\ Asked(new) = Asked(r) /\ Target(new) = Target(r)
        BY <1>1, <2>1, SeenThere
    <2> HIDE DEF new
    <2>3. LackOK(token, l, new)
        BY <1>1, <1>4, <1>10, <2>2 DEF LackOK, Spot, Seen, Closed
    <2> QED BY <1>10, <2>3 DEF new
<1> QED BY <1>7, <1>8, <1>9, <1>10

\* A request whose stage changes has seen what it has seen.
LEMMA SeenStaged ==
    ASSUME NEW l, NEW r \in Locals, r.kind \in {"start", "create"}, UserSeen(token, l, r), NEW row, NEW stage,
           r.kind = "start" => /\ row # "public" => Fact("public") \in l
                               /\ row = "absent" => Fact("exists") \in l
    PROVE  Seen(token, l, [r EXCEPT !.row = row, !.stage = stage])
<1> DEFINE new == [r EXCEPT !.row = row, !.stage = stage]
<1>1. /\ new.kind = r.kind /\ new.cred = r.cred /\ new.scope = r.scope /\ new.row = row /\ new.user = r.user
      /\ new.admin = r.admin
    BY DEF Locals
<1> HIDE DEF new
<1>2. Excuse(token, l, new) <=> Excuse(token, l, r)
    BY <1>1 DEF Excuse
<1> QED BY <1>1, <1>2 DEF Seen, UserSeen, RowSeen, ScopeSeen, Stranger, new

\* ensure_repository_for_push reads the repository.
LEMMA EnsureLack ==
    ASSUME IInv, DInv, NEW q \in Requests, At(q, "ensure")
    PROVE  LET r == [req[q] EXCEPT !.row = RepoOf(q), !.stage = "ensure"] IN
           LackOK(token, lacked[q], IF RepoOf(q) = "absent" THEN [r EXCEPT !.pc = "member"]
                                    ELSE AuthorizeRow(r, RepoOf(q)))
<1> DEFINE r == req[q]
           row == RepoOf(q)
           l == lacked[q]
           new == [r EXCEPT !.row = row, !.stage = "ensure"]
<1>1. /\ r \in Locals /\ KindOK(r) /\ Known(token, held[q], r) /\ Seen(token, l, r)
      /\ r.stage # "mount" /\ Fact("valid") \in held[q]
      /\ r.kind = "create" \/ (r.kind = "start" /\ Passed(token, held[q], r))
    BY LackWay DEF At, Place
<1>2. r.name \in Repos
    BY <1>1 DEF KindOK
<1>3. row = repo[r.name] /\ row \in Visibilities \cup {"absent"}
    BY <1>1, <1>2 DEF RepoOf, Subject, IInv, RowsInv
<1>4. /\ row # "public" => Fact("public") \in l
      /\ row = "absent" => Fact("exists") \in l
      /\ row = "public" => Fact("public") \in held[q]
    <2>1. TrueFacts(q) \subseteq held[q] /\ req[q].pc # "idle"
        BY UnderWay DEF At
    <2> QED BY <1>2, <1>3, <2>1, RowLacks, PublicFact
<1> HIDE DEF row
<1>5. Staged(held[q], r, row, "ensure")
    BY <1>1, <1>3, <1>4, NextStage
<1>6. /\ new \in Locals /\ KindOK(new) /\ new.kind = r.kind /\ new.stage = "ensure"
      /\ Passed(token, held[q], r) => Passed(token, held[q], new)
    BY <1>5 DEF Staged
<1>7. Seen(token, l, new)
    <2>1. UserSeen(token, l, r)
        BY <1>1 DEF Seen
    <2> QED BY <1>1, <1>4, <2>1, SeenStaged
<1> HIDE DEF new
<1>8. CASE row = "absent"
    <2> DEFINE last == [new EXCEPT !.pc = "member"]
    <2>1. "member" \in Places
        BY DEF Places
    <2>2. last.pc = "member" /\ Seen(token, l, last)
        BY <1>6, <1>7, <2>1, SeenThere
    <2> HIDE DEF last
    <2>3. LackOK(token, l, last)
        BY <1>4, <1>8, <2>2 DEF LackOK, Spot, Seen
    <2> QED BY <1>8, <2>3 DEF last, new, row
<1>9. CASE row # "absent"
    <2>1. Deciding(token, held[q], new) /\ Asked(new) = "push"
        BY <1>1, <1>6 DEF Deciding, Asked
    <2>2. Closed(l, new)
        BY <2>1 DEF Closed
    <2>3. LackOK(token, l, AuthorizeRow(new, row))
        BY <1>6, <1>7, <2>1, <2>2, AuthorizeRowLack
    <2> QED BY <1>9, <2>3 DEF new, row
<1> QED BY <1>8, <1>9

\* A creation takes a membership that may write.
LEMMA MemberLack ==
    ASSUME IInv, DInv, NEW q \in Requests, At(q, "member")
    PROVE  LackOK(token, lacked[q],
                  [req[q] EXCEPT !.pc =
                     IF RoleOf(q) # "none" /\ (req[q].admin \/ RoleOf(q) \in {"writer", "admin"})
                     THEN "insert" ELSE "denied"])
<1> DEFINE r == req[q]
           l == lacked[q]
           let == RoleOf(q) # "none" /\ (r.admin \/ RoleOf(q) \in {"writer", "admin"})
<1>1. /\ r \in Locals /\ KindOK(r) /\ Known(token, held[q], r) /\ Seen(token, l, r)
      /\ r.kind \in {"start", "create"} /\ Fact("exists") \in l
    BY LackWay DEF At, Place, Spot
<1>2. CASE let
    BY <1>1, <1>2, GoesOn
<1>3. CASE ~let
    <2>1. PICK a \in Actions : a \in {"push", "admin"} /\ a \in r.scope
        BY <1>1 DEF KindOK, Actions
    <2>2. <<"role", a>> \in l \/ Excuse(token, l, r)
        <3>1. CASE r.user = NoUser
            BY <1>1, <2>1, <3>1 DEF Seen, UserSeen, Stranger
        <3>2. CASE r.user # NoUser
            <4>1. r.user = UserOf(r.cred) /\ r.name \in Repos /\ Subject(r) = r.name
                BY <1>1, <3>2, KnownHolder, LackWay DEF Known, KindOK, Subject, At, Place
            <4>2. RoleOf(q) = MemberRole(r.user, r.name)
                BY <3>2, <4>1 DEF RoleOf, MemberRole
            <4>3. ~RoleGrants(RoleOf(q), a)
                BY <1>3, <2>1 DEF RoleGrants
            <4> QED BY <2>1, <4>1, <4>2, <4>3, RightLacks DEF At
        <3> QED BY <3>1, <3>2
    <2>3. Reason(token, l, r)
        BY <1>1, <2>1, <2>2 DEF Reason, MissedIn
    <2> QED BY <1>1, <1>3, <2>3, RefusedOK
<1> QED BY <1>2, <1>3

\* The row of a repository that is there.
LEMMA FindCreatedLack ==
    ASSUME IInv, DInv, NEW q \in Requests, At(q, "refind")
    PROVE  LackOK(token, lacked[q], [req[q] EXCEPT !.row = RepoOf(q), !.pc = "ready"])
<1> DEFINE r == req[q]
           row == RepoOf(q)
           l == lacked[q]
           new == [r EXCEPT !.row = row, !.pc = "ready"]
<1>1. /\ r \in Locals /\ KindOK(r) /\ Seen(token, l, r) /\ r.stage # "mount"
      /\ r.kind = "create" \/ r.kind = "start"
    BY LackWay DEF At, Place
<1>2. row = repo[r.name] /\ r.name \in Repos
    BY <1>1 DEF RepoOf, Subject, KindOK
<1>3. (row # "public" => Fact("public") \in l) /\ (row = "absent" => Fact("exists") \in l)
    BY <1>2, RowLacks DEF At
<1> HIDE DEF row
<1>4. /\ new.pc = "ready" /\ new.kind = r.kind /\ new.cred = r.cred /\ new.scope = r.scope /\ new.row = row
      /\ new.user = r.user /\ new.admin = r.admin
    BY <1>1 DEF Locals
<1> HIDE DEF new
<1>5. Excuse(token, l, new) <=> Excuse(token, l, r)
    BY <1>4 DEF Excuse
<1> QED BY <1>1, <1>3, <1>4, <1>5 DEF LackOK, Spot, Seen, UserSeen, RowSeen, ScopeSeen, Stranger, new, row

\* ensure_repository_for_push returns.
LEMMA ReadyLack ==
    ASSUME IInv, DInv, NEW q \in Requests, At(q, "ready")
    PROVE  LackOK(token, lacked[q], IF req[q].kind = "start" THEN Started(req[q])
                                    ELSE AuthorizeRow([req[q] EXCEPT !.stage = "admin"], req[q].row))
<1> DEFINE r == req[q]
           l == lacked[q]
           new == [r EXCEPT !.stage = "admin"]
<1>1. /\ r \in Locals /\ KindOK(r) /\ Known(token, held[q], r) /\ Seen(token, l, r) /\ Fact("valid") \in held[q]
      /\ r.kind = "create" \/ r.kind = "start"
    BY LackWay DEF At, Place
<1>2. CASE r.kind = "start" /\ r.from # NoRepo
    BY <1>1, <1>2, GoesOn DEF Started
<1>3. CASE r.kind = "start" /\ r.from = NoRepo
    BY <1>1, <1>3, GoesOn DEF Started
<1>4. CASE r.kind = "create"
    <2>1. new = [r EXCEPT !.row = r.row, !.stage = "admin"]
        BY <1>1, SameRow
    <2>2. r.row \in Visibilities \cup {"absent"} /\ (r.row = "public" => Fact("public") \in held[q])
        BY <1>1 DEF Locals, Known
    <2>3. new \in Locals /\ KindOK(new) /\ new.kind = r.kind /\ new.stage = "admin"
        <3>1. Staged(held[q], r, r.row, "admin")
            BY <1>1, <1>4, <2>2, NextStage
        <3> QED BY <2>1, <3>1 DEF Staged
    <2>4. Seen(token, l, new)
        <3>1. UserSeen(token, l, r)
            BY <1>1 DEF Seen
        <3>2. Seen(token, l, [r EXCEPT !.row = r.row, !.stage = "admin"])
            BY <1>1, <1>4, <3>1, SeenStaged
        <3> QED BY <2>1, <3>2
    <2> HIDE DEF new
    <2>5. Deciding(token, held[q], new) /\ Closed(l, new)
        BY <1>1, <1>4, <2>3 DEF Deciding, Closed, Asked
    <2>6. LackOK(token, l, AuthorizeRow(new, r.row))
        BY <2>3, <2>4, <2>5, AuthorizeRowLack
    <2> QED BY <1>4, <2>6 DEF new
<1> QED BY <1>1, <1>2, <1>3, <1>4

\* mount_blob reads its source, and refuses nobody.
LEMMA SourceLack ==
    ASSUME IInv, DInv, NEW q \in Requests, At(q, "mount")
    PROVE  LET r == [req[q] EXCEPT !.stage = "mount"] IN
           LackOK(token, lacked[q], IF repo[r.from] = "absent" THEN [r EXCEPT !.pc = "granted"]
                                    ELSE AuthorizeRow(r, repo[r.from]))
<1> DEFINE r == req[q]
           l == lacked[q]
           new == [r EXCEPT !.stage = "mount"]
<1>1. /\ r \in Locals /\ KindOK(r) /\ Known(token, held[q], r) /\ Seen(token, l, r) /\ Fact("valid") \in held[q]
      /\ r.kind = "start" /\ r.from # NoRepo /\ Passed(token, held[q], r)
    BY LackWay DEF At, Place
<1>2. new = [r EXCEPT !.row = r.row, !.stage = "mount"]
    BY <1>1, SameRow
<1>3. r.row \in Visibilities \cup {"absent"} /\ (r.row = "public" => Fact("public") \in held[q])
    BY <1>1 DEF Locals, Known
<1>4. /\ new \in Locals /\ KindOK(new) /\ new.kind = r.kind /\ new.stage = "mount" /\ new.from = r.from
      /\ Passed(token, held[q], new)
    <2>1. Staged(held[q], r, r.row, "mount")
        BY <1>1, <1>3, NextStage
    <2> QED BY <1>1, <1>2, <2>1 DEF Staged
<1>5. Seen(token, l, new)
    <2>1. UserSeen(token, l, r) /\ RowSeen(l, r)
        BY <1>1 DEF Seen
    <2>2. Seen(token, l, [r EXCEPT !.row = r.row, !.stage = "mount"])
        <3>1. (r.row # "public" => Fact("public") \in l) /\ (r.row = "absent" => Fact("exists") \in l)
            BY <1>1, <2>1 DEF RowSeen
        <3> QED BY <1>1, <2>1, <3>1, SeenStaged
    <2> QED BY <1>2, <2>2
<1> HIDE DEF new
<1>6. CASE repo[new.from] = "absent"
    BY <1>4, <1>5, <1>6, GoesOn DEF new
<1>7. CASE repo[new.from] # "absent"
    <2>1. Deciding(token, held[q], new) /\ Closed(l, new)
        BY <1>1, <1>4 DEF Deciding, Closed
    <2>2. LackOK(token, l, AuthorizeRow(new, repo[new.from]))
        BY <1>4, <1>5, <2>1, AuthorizeRowLack
    <2> QED BY <1>7, <2>2 DEF new
<1> QED BY <1>6, <1>7 DEF new

-----------------------------------------------------------------------------
(* Steps *)

\* What a request has missed stays in its history, and what is false is added to it.
LEMMA Unobserved ==
    ASSUME Observe
    PROVE  /\ LackedInv'
           /\ \A q \in Requests : req'[q].pc # "idle" => Before(lacked, q) \subseteq lacked'[q]
<1>1. lacked' = [q \in Requests |-> IF req'[q].pc = "idle" THEN {}
                                    ELSE Before(lacked, q) \cup (Facts \ TrueFacts(q)')]
    BY DEF Observe
<1>2. \A q \in Requests : req'[q].pc # "idle" => Facts \ TrueFacts(q)' \subseteq lacked'[q]
    BY <1>1
<1> QED BY <1>1, <1>2 DEF LackedInv, Facts

\* A request that does not move has missed what it has missed.
LEMMA LackBefore ==
    ASSUME DInv, NEW q \in Requests
    PROVE  LackOK(token, Before(lacked, q), req[q])
BY DEF DInv, LackOK, Before

\* Every request's record is as good as its history.
LEMMA LackStep ==
    ASSUME Observe, \A x \in Requests : LackOK(token, Before(lacked, x), req'[x]),
           \A x \in Requests : req'[x].pc # "idle" /\ req'[x].cred.by = "bearer" =>
              LET s == req'[x].cred.slot IN
              /\ token'[s].pat = token[s].pat /\ token'[s].repo = token[s].repo
              /\ token'[s].scope = token[s].scope
    PROVE  DInv'
<1>1. LackedInv' /\ \A x \in Requests : req'[x].pc # "idle" => Before(lacked, x) \subseteq lacked'[x]
    BY Unobserved
<1>2. ASSUME NEW x \in Requests
      PROVE  LackOK(token', lacked'[x], req'[x])
    <2>1. CASE req'[x].pc = "idle"
        BY <2>1 DEF LackOK
    <2>2. CASE req'[x].pc # "idle"
        <3> DEFINE r == req'[x]
        <3>1. /\ LackOK(token, Before(lacked, x), r) /\ Before(lacked, x) \subseteq lacked'[x]
              /\ r.cred.by = "bearer" => /\ token'[r.cred.slot].pat = token[r.cred.slot].pat
                                         /\ token'[r.cred.slot].repo = token[r.cred.slot].repo
                                         /\ token'[r.cred.slot].scope = token[r.cred.slot].scope
            BY <1>1, <2>2
        <3> HIDE DEF r
        <3>2. LackOK(token', lacked'[x], r)
            BY <3>1, LackKept
        <3> QED BY <3>2 DEF r
    <2> QED BY <2>1, <2>2
<1> QED BY <1>1, <1>2 DEF DInv

\* No step changes a bearer token that is presented, but for the time it has left.
LEMMA PresentedKept ==
    ASSUME IInv, Next, NEW x \in Requests, req'[x].pc # "idle", req'[x].cred.by = "bearer"
    PROVE  LET s == req'[x].cred.slot IN
           /\ token'[s].pat = token[s].pat /\ token'[s].repo = token[s].repo
           /\ token'[s].scope = token[s].scope
<1> DEFINE s == req'[x].cred.slot
<1>1. CASE Tick
    <2>1. req' = req
        BY <1>1 DEF Tick
    <2>2. s \in Slots
        BY <2>1, PresentedSlot
    <2>3. token'[s] = [token[s] EXCEPT !.left = IF @ > 0 THEN @ - 1 ELSE 0]
        BY <1>1, <2>1, <2>2 DEF Tick
    <2> HIDE DEF s
    <2>4. /\ token'[s].pat = token[s].pat /\ token'[s].repo = token[s].repo
          /\ token'[s].scope = token[s].scope
        BY <2>3
    <2> QED BY <2>4 DEF s
<1>2. ASSUME NEW q \in Requests, Mint(q)
      PROVE  token'[s] = token[s]
    <2>1. req \in [Requests -> Locals] /\ req' = [req EXCEPT ![q] = Idle]
        BY <1>2 DEF Mint, IInv, RequestInv
    <2>2. x # q /\ req'[x] = req[x]
        BY <2>1, IdleOK
    <2>3. PICK t \in Slots :
            /\ Free(t)
            /\ token' = [token EXCEPT ![t] = [pat |-> req[q].cred.pat, repo |-> req[q].name,
                                              scope |-> req[q].granted, left |-> Lifetime]]
        BY <1>2 DEF Mint
    <2>4. s # t
        BY <2>2, <2>3 DEF Free
    <2> HIDE DEF s
    <2> QED BY <2>3, <2>4
<1>3. CASE token' = token
    BY <1>3
<1> QED BY <1>1, <1>2, <1>3, WhoWrites

\* A step of one request.
LEMMA LackMove ==
    ASSUME IInv, DInv, Next, NEW q \in Requests, NEW new, LackOK(token, Before(lacked, q), new),
           req' = [req EXCEPT ![q] = new]
    PROVE  DInv'
<1>1. \A x \in Requests : req'[x] = IF x = q THEN new ELSE req[x]
    BY DEF IInv, RequestInv
<1>2. \A x \in Requests : LackOK(token, Before(lacked, x), req'[x])
    BY <1>1, LackBefore
<1> QED BY <1>2, PresentedKept, LackStep DEF Next

\* A request that is over.
LEMMA LackEnd ==
    ASSUME IInv, DInv, Next, NEW q \in Requests, req' = [req EXCEPT ![q] = Idle]
    PROVE  DInv'
<1>1. LackOK(token, Before(lacked, q), Idle)
    BY IdleOK DEF LackOK
<1> QED BY <1>1, LackMove

\* A request that has only begun owes no reasons.
LEMMA LackBegin ==
    ASSUME IInv, DInv, Next, NEW q \in Requests, NEW r, Begin(q, r),
           \/ r.pc = "find" /\ r.kind \in {"access", "start"}
           \/ r.pc = "authn" /\ r.kind \notin {"access", "start"} /\ (r.kind = "token" => r.scope = r.todo)
    PROVE  DInv'
<1>1. Before(lacked, q) = {} /\ req' = [req EXCEPT ![q] = r]
    BY DEF Begin, Before
<1>2. LackOK(token, {}, r)
    BY DEF LackOK, ScopeSeen, RowSeen, Spot
<1> QED BY <1>1, <1>2, LackMove

\* Every request that begins.
LEMMA StartLack ==
    ASSUME IInv, DInv, Next, NEW q \in Requests, Start(q)
    PROVE  DInv'
<1>1. CASE StartApi(q)
    <2>1. PICK c \in Anonymous \cup Basic \cup Bearer, n \in Repos, a \in ApiActions,
               k \in {"access", "start"}, f \in Repos \cup {NoRepo} :
            /\ k = "start" => a = "push"
            /\ f # NoRepo => k = "start" /\ f # n
            /\ Begin(q, [Idle EXCEPT !.pc = "find", !.kind = k, !.cred = c, !.name = n, !.from = f,
                                     !.scope = {a}, !.todo = {a}])
        BY <1>1, Zenon DEF StartApi
    <2> DEFINE r == [Idle EXCEPT !.pc = "find", !.kind = k, !.cred = c, !.name = n, !.from = f,
                                 !.scope = {a}, !.todo = {a}]
    <2>2. r.pc = "find" /\ r.kind = k /\ Begin(q, r)
        BY <2>1 DEF Idle
    <2> HIDE DEF r
    <2> QED BY <2>2, LackBegin
<1>2. CASE StartToken(q)
    <2>1. PICK c \in Anonymous \cup Basic, n \in Repos, as \in SUBSET ApiActions :
            Begin(q, [Idle EXCEPT !.pc = "authn", !.kind = "token", !.cred = c, !.name = n,
                                  !.scope = as, !.todo = as, !.stage = "token"])
        BY <1>2, Zenon DEF StartToken
    <2> DEFINE r == [Idle EXCEPT !.pc = "authn", !.kind = "token", !.cred = c, !.name = n,
                                 !.scope = as, !.todo = as, !.stage = "token"]
    <2>2. r.pc = "authn" /\ r.kind = "token" /\ r.scope = r.todo /\ Begin(q, r)
        BY <2>1 DEF Idle
    <2> HIDE DEF r
    <2> QED BY <2>2, LackBegin
<1>3. CASE StartWeb(q)
    <2>1. PICK c \in Sessions, n \in Repos, v \in Visibilities, k \in {"create", "visibility"} :
            Begin(q, [Idle EXCEPT !.pc = "authn", !.kind = k, !.cred = c, !.name = n, !.want = v,
                                  !.scope = {"admin"}, !.stage = "admin"])
        BY <1>3, Zenon DEF StartWeb
    <2> DEFINE r == [Idle EXCEPT !.pc = "authn", !.kind = k, !.cred = c, !.name = n, !.want = v,
                                 !.scope = {"admin"}, !.stage = "admin"]
    <2>2. r.pc = "authn" /\ r.kind = k /\ Begin(q, r)
        BY <2>1 DEF Idle
    <2> HIDE DEF r
    <2> QED BY <2>2, LackBegin
<1>4. CASE StartPat(q)
    <2>1. PICK c \in Sessions, p \in Pats, k \in {"newpat", "revoke"} :
            /\ k = "newpat" => pat[p] = "none" /\ Owner[p] = c.user
            /\ Begin(q, [Idle EXCEPT !.pc = "authn", !.kind = k, !.cred = [c EXCEPT !.pat = p]])
        BY <1>4, Zenon DEF StartPat
    <2> DEFINE r == [Idle EXCEPT !.pc = "authn", !.kind = k, !.cred = [c EXCEPT !.pat = p]]
    <2>2. r.pc = "authn" /\ r.kind = k /\ Begin(q, r)
        BY <2>1 DEF Idle
    <2> HIDE DEF r
    <2> QED BY <2>2, LackBegin
<1> QED BY <1>1, <1>2, <1>3, <1>4 DEF Start

\* A statement that only changes what its request knows.
LEMMA MovesLack ==
    ASSUME IInv, DInv, Next, NEW q \in Requests, req[q].pc # "idle", NEW new, LackOK(token, lacked[q], new),
           Moves(q, new)
    PROVE  DInv'
<1>1. Before(lacked, q) = lacked[q] /\ req' = [req EXCEPT ![q] = new]
    BY DEF Moves, Before
<1> QED BY <1>1, LackMove

\* Every statement of a request.
LEMMA StatementLack ==
    ASSUME IInv, DInv, Next, NEW q \in Requests, Statement(q)
    PROVE  DInv'
<1>1. CASE FindRepository(q)
    BY <1>1, FindLack, MovesLack DEF FindRepository, At
<1>2. CASE Authenticate(q)
    <2>1. LackOK(token, lacked[q], IF Accepted(req[q].cred)
              THEN Authenticated([req[q] EXCEPT !.user = KnownUser(req[q].cred),
                                                !.admin = KnownUser(req[q].cred) \in admins])
              ELSE [req[q] EXCEPT !.pc = "denied"])
        BY <1>2, AuthenticateLack DEF Authenticate
    <2> QED BY <1>2, <2>1, MovesLack DEF Authenticate, At
<1>3. CASE Lookup(q)
    BY <1>3, LookupLack, MovesLack DEF Lookup, At
<1>4. CASE CheckRoleByName(q)
    BY <1>4, CheckLack, MovesLack DEF CheckRoleByName, At
<1>5. CASE CheckRole(q)
    BY <1>5, CheckLack, MovesLack DEF CheckRole, At
<1>6. CASE CheckPermission(q)
    BY <1>6, CheckLack, MovesLack DEF CheckPermission, At
<1>7. CASE Ensure(q)
    BY <1>7, EnsureLack, MovesLack DEF Ensure, At
<1>8. CASE CheckMember(q)
    BY <1>8, MemberLack, MovesLack DEF CheckMember, At
<1>9. CASE Insert(q)
    <2> DEFINE new == [req[q] EXCEPT !.pc = "refind"]
    <2>1. req' = [req EXCEPT ![q] = new] /\ Before(lacked, q) = lacked[q] /\ req[q].pc = "insert"
        BY <1>9 DEF Insert, At, Before
    <2> HIDE DEF new
    <2>2. LackOK(token, lacked[q], new)
        BY <2>1, LackWay, GoesOn DEF new
    <2> QED BY <2>1, <2>2, LackMove
<1>10. CASE FindCreated(q)
    BY <1>10, FindCreatedLack, MovesLack DEF FindCreated, At
<1>11. CASE Ready(q)
    BY <1>11, ReadyLack, MovesLack DEF Ready, At
<1>12. CASE FindSource(q)
    BY <1>12, SourceLack, MovesLack DEF FindSource, At
<1>13. CASE SetVisibility(q) \/ CreatePat(q) \/ RevokePat(q)
    BY <1>13, LackEnd DEF SetVisibility, CreatePat, RevokePat
<1> QED BY <1>1, <1>2, <1>3, <1>4, <1>5, <1>6, <1>7, <1>8, <1>9, <1>10, <1>11, <1>12, <1>13 DEF Statement

-----------------------------------------------------------------------------
(* The invariant *)

\* No request has missed anything at the start.
LEMMA InitLack == Init => DInv
BY IdleOK DEF Init, DInv, LackedInv, LackOK

\* The second half of the invariant is inductive as well.
LEMMA NextLack == IInv /\ DInv /\ [Next]_vars => DInv'
<1>1. ASSUME DInv, UNCHANGED vars
      PROVE  DInv'
    <2>1. /\ pat' = pat /\ repo' = repo /\ enabled' = enabled /\ admins' = admins /\ role' = role
          /\ perm' = perm /\ token' = token /\ req' = req /\ lacked' = lacked
        BY <1>1 DEF vars
    <2>2. ASSUME NEW q \in Requests
          PROVE  TrueFacts(q)' = TrueFacts(q)
        <3>1. \A c : UserOf(c)' = UserOf(c) /\ Good(c)' = Good(c)
            BY <2>1 DEF UserOf, Good, Minted
        <3>2. \A u, n, a : MemberRole(u, n)' = MemberRole(u, n) /\ PermGrants(u, n, a)' = PermGrants(u, n, a)
            BY <2>1 DEF MemberRole, PermGrants
        <3> QED BY <2>1, <3>1, <3>2 DEF TrueFacts, UserOf, Good, Minted, MemberRole, PermGrants
    <2> QED BY <1>1, <2>1, <2>2 DEF DInv, LackedInv
<1>2. ASSUME IInv, DInv, Next
      PROVE  DInv'
    <2>1. ASSUME NEW q \in Requests, Answer(q) \/ Drop(q) \/ Mint(q)
          PROVE  DInv'
        BY <1>2, <2>1, LackEnd DEF Answer, Drop, Mint, Moves
    <2>2. CASE Tick \/ ExpirePat \/ Operator
        <3>1. req' = req
            BY <2>2 DEF Tick, ExpirePat, Operator
        <3>2. \A x \in Requests : LackOK(token, Before(lacked, x), req'[x])
            BY <1>2, <3>1, LackBefore
        <3> QED BY <1>2, <3>2, PresentedKept, LackStep DEF Next
    <2> QED BY <1>2, <2>1, <2>2, StartLack, StatementLack DEF Next, Step
<1> QED BY <1>1, <1>2

\* The second half of the invariant holds in every reachable state.
THEOREM Evidence == Spec => [](IInv /\ DInv)
<1>1. Init => IInv /\ DInv
    BY InitInv, InitLack
<1>2. (IInv /\ DInv) /\ [Next]_vars => (IInv /\ DInv)'
    BY NextInv, NextLack
<1> QED BY <1>1, <1>2, PTL DEF Spec

\* Nobody is turned away, and no action is left out of a bearer token, without a reason:
\* a credential, an enabled user, a repository or a right was missing at some moment.
THEOREM DenialsAreJustified == Spec => []DenialsJustified
<1>1. IInv /\ DInv => DenialsJustified
    <2> SUFFICES ASSUME IInv, DInv, NEW q \in Requests
                 PROVE  LET r == req[q]
                            Excused == \/ Fact("valid") \in lacked[q]
                                       \/ UserOf(r.cred) # NoUser /\ Fact("enabled") \in lacked[q]
                        IN
                        /\ r.pc = "denied" =>
                             \/ Excused
                             \/ r.kind \in {"access", "visibility"} /\ Fact("exists") \in lacked[q]
                             \/ r.cred.by = "bearer" /\ \E a \in r.scope : ~Covers(token[r.cred.slot], r.name, a)
                             \/ \E a \in r.scope : Missed(q, a)
                        /\ r.pc = "mint" => \A a \in r.scope \ r.granted : Excused \/ Missed(q, a)
        BY DEF DenialsJustified
    <2> DEFINE r == req[q]
    <2>1. \A a : MissedIn(lacked[q], r, a) <=> Missed(q, a)
        BY DEF MissedIn, Missed
    <2>2. Excuse(token, lacked[q], r) <=>
              Fact("valid") \in lacked[q] \/ (UserOf(r.cred) # NoUser /\ Fact("enabled") \in lacked[q])
        BY KnownHolder DEF Excuse
    <2>3. r.pc = "denied" => Reason(token, lacked[q], r)
        BY LackWay DEF Spot
    <2>4. r.pc = "mint" => \A a \in r.scope \ r.granted : Excuse(token, lacked[q], r) \/ MissedIn(lacked[q], r, a)
        BY LackWay DEF Spot, ScopeSeen, Place
    <2> QED BY <2>1, <2>2, <2>3, <2>4 DEF Reason
<1> QED BY <1>1, Evidence, PTL

=============================================================================
