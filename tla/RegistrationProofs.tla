------------------------- MODULE RegistrationProofs -------------------------
(***************************************************************************)
(* Proofs about Registration for any number of requests, accounts, emails  *)
(* and rows.                                                               *)
(*                                                                         *)
(* A signup decides with the mode and the entry it has read, and inserts   *)
(* later.  RequestInv says that what it has read is still so: it holds the *)
(* row of instance_settings, for which a change of mode has to wait, and   *)
(* the row of its entry, for which a revocation has to.  One signup holds  *)
(* the first row at a time, so no two of them can claim one entry or       *)
(* insert one account.                                                     *)
(***************************************************************************)
EXTENDS Registration, SequenceTheorems, TLAPS

\* What a request has read and still relies on.
Relies(r) ==
    /\ req[r].pc \notin {"idle", "exchange"} => req[r].login \in Login
    /\ req[r].pc \in {"lock", "select", "insert"} => req[r].name \in Names
    /\ req[r].pc \in {"select", "insert"} => lock = r
    /\ req[r].pc = "select" => req[r].mode = mode
    /\ req[r].pc = "insert" =>
          /\ mode # "closed"
          /\ mode \in {"allowlist", "invite"} => req[r].entry # 0
          /\ req[r].entry # 0 => req[r].entry \in DOMAIN entries /\ Pending(req[r].entry, req[r].login.email)
    /\ req[r].pc = "session" =>
          req[r].user \in DOMAIN users /\ users[req[r].user].account = req[r].login.account

RequestInv == \A r \in Requests : Relies(r)

\* A user's entry is never deleted.
EntryInv == \A u \in DOMAIN users : users[u].entry # 0 => users[u].entry \in DOMAIN entries

\* A jcrd that seeds an entry knows whose.
BootInv == boot.pc \in {"seed", "insert"} => AdminEmail # Nobody

RowsInv == EntryInv /\ BootInv /\ ClaimsAgree /\ AccountsRegisterOnce /\ SessionsAreOwn

IInv == TypeOK /\ RequestInv /\ RowsInv

-----------------------------------------------------------------------------
(* Rows *)

\* The UPDATE of rows leaves as many rows, and typed ones.
LEMMA RowsUpdated ==
    ASSUME NEW S, NEW s \in Seq(S), NEW t, t = [i \in DOMAIN s |-> t[i]],
           \A i \in DOMAIN s : t[i] \in S
    PROVE  t \in Seq(S) /\ Len(t) = Len(s) /\ DOMAIN t = DOMAIN s
<1>1. Len(s) \in Nat /\ DOMAIN s = 1 .. Len(s)
    OBVIOUS
<1>2. t \in [1 .. Len(s) -> S]
    BY <1>1
<1>3. t \in Seq(S)
    BY <1>1, <1>2
<1> QED BY <1>1, <1>2, <1>3, LenProperties

\* An INSERT adds a row behind the others.
LEMMA RowInserted ==
    ASSUME NEW S, NEW s \in Seq(S), NEW row \in S
    PROVE  /\ Append(s, row) \in Seq(S) /\ Len(Append(s, row)) = Len(s) + 1
           /\ DOMAIN Append(s, row) = DOMAIN s \cup {Len(s) + 1} /\ Len(s) + 1 \notin DOMAIN s
           /\ \A i \in DOMAIN s : Append(s, row)[i] = s[i]
           /\ Append(s, row)[Len(s) + 1] = row
<1>1. Len(s) \in Nat /\ DOMAIN s = 1 .. Len(s)
    OBVIOUS
<1>2. 1 .. Len(s) + 1 = (1 .. Len(s)) \cup {Len(s) + 1}
    BY <1>1
<1> QED BY <1>1, <1>2, AppendProperties

\* The users and entries that were there remain, with what they are known by.
Kept ==
    /\ DOMAIN users \subseteq DOMAIN users'
    /\ \A u \in DOMAIN users : users'[u].account = users[u].account
    /\ DOMAIN entries \subseteq DOMAIN entries'

\* A request goes on relying on what it has read while another one runs.
LEMMA OthersRely ==
    ASSUME NEW q \in Requests, Relies(q), req'[q] = req[q], Kept,
           lock = q => lock' = q /\ mode' = mode,
           req[q].pc = "insert" /\ req[q].entry # 0 =>
               /\ entries'[req[q].entry].email = entries[req[q].entry].email
               /\ entries'[req[q].entry].status = entries[req[q].entry].status
    PROVE  Relies(q)'
BY DEF Relies, Kept, Pending

\* Nothing is promised to a slot without a request.
LEMMA IdleRelies == ASSUME NEW r \in Requests, req'[r] = Idle PROVE Relies(r)'
BY DEF Relies, Idle

\* Rows are numbered from 1.
LEMMA RowIds ==
    ASSUME TypeOK
    PROVE  /\ DOMAIN users = 1 .. Len(users) /\ DOMAIN users \subseteq UserIds
           /\ DOMAIN entries = 1 .. Len(entries) /\ DOMAIN entries \subseteq EntryIds
           /\ \A u \in DOMAIN users : users[u] \in User
           /\ \A i \in DOMAIN entries : entries[i] \in Entry
<1>1. /\ users \in Seq(User) /\ Len(users) <= MaxUsers
      /\ entries \in Seq(Entry) /\ Len(entries) <= MaxEntries
    BY DEF TypeOK
<1>2. MaxUsers \in Nat /\ MaxEntries \in Nat
    BY RegistrationAssumption
<1> HIDE DEF User, Entry
<1>3. /\ Len(users) \in Nat /\ DOMAIN users = 1 .. Len(users)
      /\ Len(entries) \in Nat /\ DOMAIN entries = 1 .. Len(entries)
      /\ \A u \in DOMAIN users : users[u] \in User
      /\ \A i \in DOMAIN entries : entries[i] \in Entry
    BY <1>1
<1> QED BY <1>1, <1>2, <1>3 DEF UserIds, EntryIds

LEMMA IdleTyped == Idle \in Locals
BY DEF Idle, Locals, AllModes

-----------------------------------------------------------------------------
(* Steps of one request *)

\* A statement of a request that writes none of the tables proved about.
LEMMA LocalStep ==
    ASSUME IInv, NEW r \in Requests, NEW new \in Locals, Stay(r, new),
           UNCHANGED <<mode, entries, users, emailOf, sessions, boot, changes>>,
           states' \subseteq States, tickets' \subseteq Login,
           lock' \in Requests \cup {Nobody},
           \A q \in Requests \ {r} : lock = q => lock' = q,
           Relies(r)'
    PROVE  IInv'
<1>1. \A q \in Requests : req'[q] = IF q = r THEN new ELSE req[q]
    BY DEF Stay, IInv, TypeOK
<1>2. TypeOK'
    BY DEF Stay, IInv, TypeOK
<1>3. RequestInv'
    BY <1>1, OthersRely DEF IInv, RequestInv, Kept
<1>4. RowsInv'
    BY DEF IInv, RowsInv, EntryInv, BootInv, ClaimsAgree, AccountsRegisterOnce, SessionsAreOwn
<1> QED BY <1>2, <1>3, <1>4 DEF IInv

\* The callback, up to the session or the ticket.
LEMMA CallbackStep ==
    ASSUME IInv, NEW r \in Requests, Callback(r)
    PROVE  IInv'
<1>1. req[r] \in Locals /\ Relies(r) /\ states \subseteq States /\ tickets \subseteq Login
      /\ lock \in Requests \cup {Nobody} /\ emailOf \in [Accounts -> Emails]
      /\ req \in [Requests -> Locals]
    BY DEF IInv, TypeOK, RequestInv
<1>2. ASSUME NEW new \in Locals, Stay(r, new),
             UNCHANGED <<mode, lock, entries, users, emailOf, sessions, boot, changes>>,
             states' \subseteq States, tickets' \subseteq Login,
             \/ new.pc \in {"idle", "exchange"}
             \/ new.pc \in {"identity", "mode", "entry"} /\ new.login \in Login
             \/ /\ new.pc = "session" /\ new.login \in Login /\ new.user \in DOMAIN users
                /\ users[new.user].account = new.login.account
      PROVE  IInv'
    <2>1. req'[r] = new
        BY <1>1, <1>2 DEF Stay
    <2>2. Relies(r)'
        BY <1>2, <2>1 DEF Relies
    <2> QED BY <1>1, <1>2, <2>2, LocalStep
<1>3. CASE ConsumeState(r)
    <2>1. [Idle EXCEPT !.pc = "exchange"] \in Locals /\ [Idle EXCEPT !.pc = "exchange"].pc = "exchange"
        BY DEF Idle, Locals, AllModes
    <2> QED BY <1>1, <1>2, <1>3, <2>1 DEF ConsumeState
<1>4. CASE Exchange(r)
    <2>1. ASSUME NEW a \in Accounts
          PROVE  LET new == [req[r] EXCEPT !.login = [account |-> a, email |-> emailOf[a]], !.pc = "identity"]
                 IN new \in Locals /\ new.pc = "identity" /\ new.login \in Login
        BY <1>1 DEF Locals, Login
    <2>2. Idle \in Locals /\ Idle.pc = "idle"
        BY IdleTyped DEF Idle
    <2> QED BY <1>1, <1>2, <1>4, <2>1, <2>2 DEF Exchange
<1>5. CASE FindIdentity(r)
    <2>1. req[r].login \in Login
        BY <1>1, <1>5 DEF FindIdentity, At, Relies
    <2>2. ASSUME NEW u \in Identified(req[r].login)
          PROVE  LET new == [req[r] EXCEPT !.pc = "session", !.user = u]
                 IN /\ new \in Locals /\ new.pc = "session" /\ new.login \in Login /\ new.user \in DOMAIN users
                    /\ users[new.user].account = new.login.account
        <3>1. u \in DOMAIN users /\ users[u].account = req[r].login.account /\ u \in UserIds
            BY RowIds DEF Identified, IInv
        <3> QED BY <1>1, <2>1, <3>1 DEF Locals
    <2>3. LET new == [req[r] EXCEPT !.pc = "mode"] IN new \in Locals /\ new.pc = "mode" /\ new.login \in Login
        BY <1>1, <2>1 DEF Locals
    <2> QED BY <1>1, <1>2, <1>5, <2>2, <2>3 DEF FindIdentity, Goto
<1>6. CASE ReadMode(r) \/ ReadEntry(r)
    <2>1. req[r].login \in Login
        BY <1>1, <1>6 DEF ReadMode, ReadEntry, At, Relies
    <2>2. Idle \in Locals /\ Idle.pc = "idle"
        BY IdleTyped DEF Idle
    <2>3. LET new == [req[r] EXCEPT !.pc = "entry"] IN new \in Locals /\ new.pc = "entry" /\ new.login \in Login
        BY <1>1, <2>1 DEF Locals
    <2> QED BY <1>1, <1>2, <1>6, <2>1, <2>2, <2>3 DEF ReadMode, ReadEntry, Ticketed, Denied, Goto
<1> QED BY <1>3, <1>4, <1>5, <1>6 DEF Callback

\* BEGIN of a signup.
LEMMA SignupStep ==
    ASSUME IInv, NEW r \in Requests, Signup(r)
    PROVE  IInv'
<1>1. PICK t \in tickets, n \in Names :
          Stay(r, [Idle EXCEPT !.pc = "lock", !.login = t, !.name = n, !.over = Expired])
    BY DEF Signup
<1> DEFINE new == [Idle EXCEPT !.pc = "lock", !.login = t, !.name = n, !.over = Expired]
<1>2. Expired \subseteq EntryIds /\ t \in Login
    BY RowIds DEF IInv, TypeOK, Expired
<1>3. new \in Locals /\ new.pc = "lock" /\ new.login = t /\ new.name = n
    BY <1>2 DEF Idle, Locals, AllModes
<1> HIDE DEF new
<1>4. req'[r] = new
    BY <1>1 DEF new, Stay, IInv, TypeOK
<1>5. Relies(r)'
    BY <1>2, <1>3, <1>4 DEF Relies
<1> QED BY <1>1, <1>3, <1>5, LocalStep DEF new, Signup, IInv, TypeOK

\* The row of instance_settings is locked and read.
LEMMA LockStep ==
    ASSUME IInv, NEW r \in Requests, LockSettings(r)
    PROVE  IInv'
<1> DEFINE new == [req[r] EXCEPT !.pc = "select", !.mode = mode]
<1>1. req[r] \in Locals /\ Relies(r) /\ req[r].pc = "lock" /\ mode \in AllModes
    BY DEF IInv, TypeOK, RequestInv, LockSettings, At
<1>2. /\ new \in Locals /\ new.pc = "select" /\ new.mode = mode
      /\ new.login = req[r].login /\ new.name = req[r].name
    BY <1>1 DEF Locals
<1>3. Stay(r, new) /\ lock = Nobody /\ lock' = r
    BY DEF LockSettings
<1> HIDE DEF new
<1>4. req'[r] = new
    BY <1>3 DEF Stay, IInv, TypeOK
<1>5. Relies(r)'
    BY <1>1, <1>2, <1>3, <1>4 DEF Relies, LockSettings
<1> QED BY <1>2, <1>3, <1>5, LocalStep, RegistrationAssumption DEF LockSettings, IInv, TypeOK

\* A request ends without a trace: its transaction is rolled back.
LEMMA EndStep ==
    ASSUME IInv, NEW r \in Requests, Stay(r, Idle), Release(r),
           UNCHANGED <<mode, entries, users, emailOf, states, tickets, sessions, boot, changes>>
    PROVE  IInv'
<1>1. req'[r] = Idle
    BY DEF Stay, IInv, TypeOK
<1>2. lock' \in Requests \cup {Nobody} /\ \A q \in Requests \ {r} : lock = q => lock' = q
    BY DEF Release, IInv, TypeOK
<1> QED BY <1>1, <1>2, IdleTyped, IdleRelies, LocalStep DEF IInv, TypeOK

\* The entry is locked, and the signup is allowed or not.
LEMMA SelectStep ==
    ASSUME IInv, NEW r \in Requests, SelectEntry(r)
    PROVE  IInv'
<1> DEFINE found == Usable(req[r].login.email, req[r].over)
           allowed == req[r].mode # "closed" /\ (found # {} \/ req[r].mode = "open")
<1>1. req[r] \in Locals /\ Relies(r) /\ req[r].pc = "select"
    BY DEF IInv, TypeOK, RequestInv, SelectEntry, At
<1>2. CASE ~allowed /\ Stay(r, Idle) /\ Release(r)
    BY <1>2, EndStep DEF SelectEntry
<1>3. ASSUME allowed, UNCHANGED lock, NEW i \in IF found = {} THEN {0} ELSE found,
             Stay(r, [Idle EXCEPT !.pc = "insert", !.login = req[r].login, !.name = req[r].name, !.entry = i])
      PROVE  IInv'
    <2> DEFINE new == [Idle EXCEPT !.pc = "insert", !.login = req[r].login, !.name = req[r].name, !.entry = i]
    <2>1. /\ i \in EntryIds \cup {0}
          /\ i # 0 => i \in DOMAIN entries /\ Pending(i, req[r].login.email)
          /\ found # {} => i # 0
        BY <1>3, RowIds DEF Usable, EntryIds, IInv
    <2>2. /\ new \in Locals /\ new.pc = "insert" /\ new.entry = i
          /\ new.login = req[r].login /\ new.name = req[r].name
        BY <1>1, <2>1 DEF Locals, Idle, AllModes
    <2> HIDE DEF new
    <2>3. req'[r] = new
        BY <1>3 DEF new, Stay, IInv, TypeOK
    <2>4. /\ mode # "closed" /\ (mode \in {"allowlist", "invite"} => i # 0)
          /\ req[r].login \in Login /\ req[r].name \in Names /\ lock = r
        BY <1>1, <1>3, <2>1 DEF Relies
    <2>5. UNCHANGED <<mode, entries, users, emailOf, states, tickets, sessions, boot, changes>>
        BY DEF SelectEntry
    <2>6. Relies(r)'
        BY <1>3, <2>1, <2>2, <2>3, <2>4, <2>5 DEF Relies, Pending
    <2> QED BY <1>3, <2>2, <2>5, <2>6, LocalStep DEF new, IInv, TypeOK
<1> QED BY <1>2, <1>3 DEF SelectEntry

\* A row of browser_sessions is inserted or deleted; sessions of the code are
\* of the users that they were created for.
LEMMA SessionStep ==
    ASSUME IInv, UNCHANGED <<mode, lock, entries, users, emailOf, boot, changes>>,
           states' \subseteq States, tickets' \subseteq Login,
           req' \in [Requests -> Locals], \A q \in Requests : req'[q] \in {req[q], Idle},
           DOMAIN sessions' \subseteq Slots,
           \A s \in DOMAIN sessions' : /\ sessions'[s] \in Session
                                       /\ sessions'[s].user \in DOMAIN users
                                       /\ users[sessions'[s].user].account = sessions'[s].account
    PROVE  IInv'
<1>1. TypeOK'
    BY DEF IInv, TypeOK
<1>2. RequestInv'
    <2> SUFFICES ASSUME NEW q \in Requests PROVE Relies(q)'
        BY DEF RequestInv
    <2>1. CASE req'[q] = req[q]
        BY <2>1, OthersRely DEF IInv, RequestInv, Kept
    <2>2. CASE req'[q] = Idle
        BY <2>2, IdleRelies
    <2> QED BY <2>1, <2>2
<1>3. RowsInv'
    BY DEF IInv, RowsInv, EntryInv, BootInv, ClaimsAgree, AccountsRegisterOnce, SessionsAreOwn
<1> QED BY <1>1, <1>2, <1>3 DEF IInv

LEMMA CreateSessionStep ==
    ASSUME IInv, NEW r \in Requests, CreateSession(r)
    PROVE  IInv'
<1> DEFINE new == [user |-> req[r].user, account |-> req[r].login.account]
<1>1. PICK s \in Slots \ DOMAIN sessions :
          sessions' = [t \in DOMAIN sessions \cup {s} |-> IF t = s THEN new ELSE sessions[t]]
    BY DEF CreateSession
<1>2. new \in Session /\ new.user \in DOMAIN users /\ users[new.user].account = new.account
    <2>1. req[r].login \in Login /\ req[r].user \in DOMAIN users
          /\ users[req[r].user].account = req[r].login.account
        BY DEF IInv, RequestInv, Relies, CreateSession, At
    <2> QED BY <2>1, RowIds DEF Session, Login, IInv
<1>3. /\ DOMAIN sessions \subseteq Slots
      /\ \A t \in DOMAIN sessions : /\ sessions[t] \in Session /\ sessions[t].user \in DOMAIN users
                                    /\ users[sessions[t].user].account = sessions[t].account
    BY DEF IInv, TypeOK, RowsInv, SessionsAreOwn
<1> HIDE DEF new
<1>4. DOMAIN sessions' = DOMAIN sessions \cup {s}
    BY <1>1
<1>5. \A t \in DOMAIN sessions' : sessions'[t] = new \/ (t \in DOMAIN sessions /\ sessions'[t] = sessions[t])
    BY <1>1
<1>6. \A t \in DOMAIN sessions' : /\ sessions'[t] \in Session /\ sessions'[t].user \in DOMAIN users
                                  /\ users[sessions'[t].user].account = sessions'[t].account
    BY <1>2, <1>3, <1>5
<1>7. /\ req' \in [Requests -> Locals] /\ \A q \in Requests : req'[q] \in {req[q], Idle}
      /\ states' \subseteq States /\ tickets' \subseteq Login
    BY IdleTyped DEF CreateSession, Stay, IInv, TypeOK
<1>8. DOMAIN sessions' \subseteq Slots
    BY <1>3, <1>4
<1>9. UNCHANGED <<mode, lock, entries, users, emailOf, boot, changes>>
    BY DEF CreateSession
<1> QED BY <1>6, <1>7, <1>8, <1>9, SessionStep

\* A session that ends takes none of the others with it.
LEMMA SessionEnds ==
    ASSUME IInv, NEW s, sessions' = [t \in DOMAIN sessions \ {s} |-> sessions[t]]
    PROVE  /\ DOMAIN sessions' \subseteq Slots
           /\ \A t \in DOMAIN sessions' : /\ sessions'[t] \in Session /\ sessions'[t].user \in DOMAIN users
                                          /\ users[sessions'[t].user].account = sessions'[t].account
<1>1. /\ DOMAIN sessions \subseteq Slots
      /\ \A t \in DOMAIN sessions : /\ sessions[t] \in Session /\ sessions[t].user \in DOMAIN users
                                    /\ users[sessions[t].user].account = sessions[t].account
    BY DEF IInv, TypeOK, RowsInv, SessionsAreOwn
<1>2. DOMAIN sessions' = DOMAIN sessions \ {s} /\ \A t \in DOMAIN sessions' : sessions'[t] = sessions[t]
    OBVIOUS
<1> QED BY <1>1, <1>2

LEMMA LogoutStep ==
    ASSUME IInv, NEW s \in Slots, Logout(s)
    PROVE  IInv'
<1>1. /\ sessions' = [t \in DOMAIN sessions \ {s} |-> sessions[t]]
      /\ UNCHANGED <<mode, lock, entries, users, emailOf, states, tickets, req, boot, changes>>
    BY DEF Logout
<1>2. /\ req' \in [Requests -> Locals] /\ \A q \in Requests : req'[q] \in {req[q], Idle}
      /\ states' \subseteq States /\ tickets' \subseteq Login
    BY <1>1 DEF IInv, TypeOK
<1> QED BY <1>1, <1>2, SessionEnds, SessionStep

-----------------------------------------------------------------------------
(* A user is inserted *)

\* The user that a signup inserts.
Row(r) == [account |-> req[r].login.account, email |-> req[r].login.email, name |-> req[r].name,
           admin |-> req[r].entry # 0 /\ entries[req[r].entry].admin, enabled |-> TRUE, entry |-> req[r].entry]

\* What the transaction inserts and updates.
Inserted(r, u) ==
    /\ Row(r) \in User /\ users' \in Seq(User) /\ Len(users') <= MaxUsers
    /\ DOMAIN users' = DOMAIN users \cup {u} /\ u \notin DOMAIN users /\ u \in UserIds
    /\ users'[u] = Row(r) /\ \A v \in DOMAIN users : users'[v] = users[v]
    /\ entries' \in Seq(Entry) /\ Len(entries') = Len(entries) /\ DOMAIN entries' = DOMAIN entries
    /\ \A i \in DOMAIN entries :
          /\ entries'[i].email = entries[i].email /\ entries'[i].admin = entries[i].admin
          /\ i # req[r].entry => entries'[i] = entries[i]
          /\ i = req[r].entry => entries'[i].status = "claimed" /\ entries'[i].by = u

LEMMA InsertRows ==
    ASSUME IInv, NEW r \in Requests, Insert(r)
    PROVE  \E u : u = Len(users) + 1 /\ Inserted(r, u)
<1>0. PICK u : u = Len(users) + 1
    OBVIOUS
<1> DEFINE row == Row(r)
<1>1. /\ req[r] \in Locals /\ req[r].login \in Login /\ req[r].name \in Names
      /\ req[r].entry # 0 => req[r].entry \in DOMAIN entries
    BY DEF IInv, TypeOK, RequestInv, Relies, Insert, At
<1>2. /\ users \in Seq(User) /\ entries \in Seq(Entry)
      /\ Len(users) \in Nat /\ Len(users) + 1 <= MaxUsers
    BY DEF IInv, TypeOK, Insert
<1>3. u \in UserIds
    BY <1>0, <1>2, RegistrationAssumption DEF UserIds
<1>4. row \in User
    <2>1. req[r].entry # 0 => entries[req[r].entry].admin \in BOOLEAN
        BY <1>1, RowIds DEF IInv, Entry
    <2>2. (req[r].entry # 0 /\ entries[req[r].entry].admin) \in BOOLEAN
        OBVIOUS
    <2>3. req[r].entry \in EntryIds \cup {0}
        BY <1>1 DEF Locals
    <2> QED BY <1>1, <2>2, <2>3 DEF Row, User, Login
<1>5. users' = Append(users, row)
    BY DEF Row, Insert
<1> HIDE DEF row
<1>6. /\ users' \in Seq(User) /\ Len(users') <= MaxUsers
      /\ DOMAIN users' = DOMAIN users \cup {u} /\ u \notin DOMAIN users
      /\ users'[u] = row /\ \A v \in DOMAIN users : users'[v] = users[v]
    <2> HIDE DEF User
    <2> QED BY <1>0, <1>2, <1>4, <1>5, RowInserted
<1>7. entries' = [i \in DOMAIN entries |-> IF i = req[r].entry
                                            THEN [entries[i] EXCEPT !.status = "claimed", !.by = u] ELSE entries[i]]
    BY <1>0 DEF Insert, Claim
<1>8. \A i \in DOMAIN entries :
          /\ entries'[i] \in Entry
          /\ entries'[i].email = entries[i].email /\ entries'[i].admin = entries[i].admin
          /\ i # req[r].entry => entries'[i] = entries[i]
          /\ i = req[r].entry => entries'[i].status = "claimed" /\ entries'[i].by = u
    <2> SUFFICES ASSUME NEW i \in DOMAIN entries
                 PROVE  /\ entries'[i] \in Entry
                        /\ entries'[i].email = entries[i].email /\ entries'[i].admin = entries[i].admin
                        /\ i # req[r].entry => entries'[i] = entries[i]
                        /\ i = req[r].entry => entries'[i].status = "claimed" /\ entries'[i].by = u
        OBVIOUS
    <2>1. entries[i] \in Entry
        BY RowIds DEF IInv
    <2> QED BY <1>3, <1>7, <2>1 DEF Entry
<1>9. entries' \in Seq(Entry) /\ Len(entries') = Len(entries) /\ DOMAIN entries' = DOMAIN entries
    <2>1. entries' = [i \in DOMAIN entries |-> entries'[i]]
        BY <1>7
    <2> HIDE DEF Entry
    <2> QED BY <1>2, <1>8, <2>1, RowsUpdated
<1> QED BY <1>0, <1>3, <1>4, <1>6, <1>8, <1>9 DEF Inserted, row

LEMMA InsertStep ==
    ASSUME IInv, NEW r \in Requests, Insert(r)
    PROVE  IInv'
<1>0. PICK u : u = Len(users) + 1 /\ Inserted(r, u)
    BY InsertRows
<1> DEFINE i == req[r].entry
           row == Row(r)
           new == [Idle EXCEPT !.pc = "session", !.login = req[r].login, !.user = u]
<1>1. /\ row \in User /\ users' \in Seq(User) /\ Len(users') <= MaxUsers
      /\ DOMAIN users' = DOMAIN users \cup {u} /\ u \notin DOMAIN users /\ u \in UserIds
      /\ users'[u] = row /\ \A v \in DOMAIN users : users'[v] = users[v]
      /\ entries' \in Seq(Entry) /\ Len(entries') = Len(entries) /\ DOMAIN entries' = DOMAIN entries
      /\ \A j \in DOMAIN entries :
            /\ entries'[j].email = entries[j].email /\ entries'[j].admin = entries[j].admin
            /\ j # i => entries'[j] = entries[j]
            /\ j = i => entries'[j].status = "claimed" /\ entries'[j].by = u
    BY <1>0 DEF Inserted
<1>2. /\ row.account = req[r].login.account /\ row.email = req[r].login.email /\ row.entry = i
      /\ row.admin = (i # 0 /\ entries[i].admin)
    BY DEF Row
<1>3. /\ req[r] \in Locals /\ req[r].login \in Login /\ lock = r
      /\ i # 0 => i \in DOMAIN entries /\ entries[i].email = row.email /\ entries[i].status = "pending"
    BY DEF IInv, TypeOK, RequestInv, Relies, Insert, At, Pending, Row
<1>4. /\ new \in Locals /\ new.pc = "session" /\ new.login = req[r].login /\ new.user = u
      /\ req' = [req EXCEPT ![r] = new]
    <2>1. new \in Locals
        BY <1>1, <1>3 DEF Idle, Locals, AllModes
    <2>2. new.pc = "session" /\ new.login = req[r].login /\ new.user = u
        BY DEF Idle
    <2>3. req' = [req EXCEPT ![r] = new]
        BY <1>0 DEF Insert, Stay
    <2> QED BY <2>1, <2>2, <2>3
<1>5. UNCHANGED <<mode, emailOf, states, tickets, sessions, boot, changes>> /\ lock' = Nobody
    BY <1>3 DEF Insert, Release
<1>6. \A v \in DOMAIN users : users[v].account # req[r].login.account
    BY DEF Insert, Known
<1> HIDE DEF i, row, new
<1>7. TypeOK'
    BY <1>1, <1>4, <1>5 DEF IInv, TypeOK
<1>8. RequestInv'
    <2> SUFFICES ASSUME NEW q \in Requests PROVE Relies(q)'
        BY DEF RequestInv
    <2>1. CASE q = r
        <3>1. req'[q] = new
            BY <1>4, <2>1 DEF IInv, TypeOK
        <3> QED BY <1>1, <1>2, <1>3, <1>4, <3>1 DEF Relies
    <2>2. CASE q # r
        <3>1. req'[q] = req[q] /\ Relies(q)
            BY <1>4, <2>2 DEF IInv, TypeOK, RequestInv
        <3>2. lock # q
            BY <1>3, <2>2
        <3>3. req[q].pc # "insert"
            BY <3>1, <3>2 DEF Relies
        <3> QED BY <1>1, <3>1, <3>2, <3>3, OthersRely DEF Kept
    <2> QED BY <2>1, <2>2
<1>9. EntryInv'
    BY <1>1, <1>2, <1>3 DEF IInv, RowsInv, EntryInv
<1>10. ClaimsAgree'
    <2>1. ASSUME NEW j \in DOMAIN entries, entries'[j].status = "claimed"
          PROVE  entries'[j].by \in DOMAIN users' /\ users'[entries'[j].by].entry = j
        <3>1. CASE j = i
            BY <1>1, <1>2, <3>1
        <3>2. CASE j # i
            <4>1. entries'[j] = entries[j]
                BY <1>1, <3>2
            <4>2. entries[j].by \in DOMAIN users /\ users[entries[j].by].entry = j
                BY <2>1, <4>1 DEF IInv, RowsInv, ClaimsAgree
            <4> QED BY <1>1, <4>1, <4>2
        <3> QED BY <3>1, <3>2
    <2>2. ASSUME NEW v \in DOMAIN users'
          PROVE  IF users'[v].entry = 0 THEN ~users'[v].admin
                 ELSE LET e == entries'[users'[v].entry]
                      IN e.status = "claimed" /\ e.by = v /\ e.email = users'[v].email /\ e.admin = users'[v].admin
        <3>1. CASE v = u
            <4>1. users'[v] = row
                BY <1>1, <3>1
            <4>2. CASE i = 0
                BY <1>2, <4>1, <4>2
            <4>3. CASE i # 0
                <5>1. entries[i].admin \in BOOLEAN
                    BY <1>3, <4>3, RowIds DEF IInv, Entry
                <5>2. row.admin = entries[i].admin
                    BY <1>2, <4>3, <5>1
                <5> QED BY <1>1, <1>2, <1>3, <3>1, <4>1, <4>3, <5>2
            <4> QED BY <4>2, <4>3
        <3>2. CASE v # u
            <4>1. v \in DOMAIN users /\ users'[v] = users[v]
                BY <1>1, <3>2
            <4>2. CASE users[v].entry = 0
                BY <4>1, <4>2 DEF IInv, RowsInv, ClaimsAgree
            <4>3. CASE users[v].entry # 0
                <5>1. LET e == entries[users[v].entry]
                      IN e.status = "claimed" /\ e.by = v /\ e.email = users[v].email /\ e.admin = users[v].admin
                    BY <4>1, <4>3 DEF IInv, RowsInv, ClaimsAgree
                <5>2. users[v].entry \in DOMAIN entries
                    BY <4>1, <4>3 DEF IInv, RowsInv, EntryInv
                <5>3. users[v].entry # i
                    BY <1>3, <4>3, <5>1
                <5> QED BY <1>1, <4>1, <4>3, <5>1, <5>2, <5>3
            <4> QED BY <4>2, <4>3
        <3> QED BY <3>1, <3>2
    <2> QED BY <1>1, <2>1, <2>2 DEF ClaimsAgree
<1>11. AccountsRegisterOnce'
    BY <1>1, <1>2, <1>6 DEF IInv, RowsInv, AccountsRegisterOnce
<1>12. SessionsAreOwn' /\ BootInv'
    BY <1>1, <1>5 DEF IInv, RowsInv, SessionsAreOwn, BootInv
<1> QED BY <1>7, <1>8, <1>9, <1>10, <1>11, <1>12 DEF IInv, RowsInv

-----------------------------------------------------------------------------
(* Steps outside of a request *)

\* What operators, time and a starting jcrd leave of the rows: a user is what
\* it was but for being enabled, an entry that a signup relies on stays
\* pending, one that is claimed stays claimed.
RowsStay ==
    /\ DOMAIN users' = DOMAIN users
    /\ \A u \in DOMAIN users :
          /\ users'[u].account = users[u].account /\ users'[u].email = users[u].email
          /\ users'[u].admin = users[u].admin /\ users'[u].entry = users[u].entry
    /\ DOMAIN entries \subseteq DOMAIN entries'
    /\ \A i \in DOMAIN entries :
          /\ entries'[i].email = entries[i].email
          /\ entries'[i].admin = entries[i].admin /\ entries'[i].by = entries[i].by
          /\ \/ entries'[i].status = entries[i].status
             \/ entries[i].status = "pending" /\ entries'[i].status = "revoked" /\ ~EntryLocked(i)
    /\ \A i \in DOMAIN entries' \ DOMAIN entries : entries'[i].status = "pending"

LEMMA OutsideStep ==
    ASSUME IInv, TypeOK', BootInv', UNCHANGED <<lock, req>>, lock # Nobody => mode' = mode, RowsStay,
           \A s \in DOMAIN sessions' : /\ sessions'[s].user \in DOMAIN users
                                       /\ users[sessions'[s].user].account = sessions'[s].account
    PROVE  IInv'
<1>1. RequestInv'
    <2> SUFFICES ASSUME NEW q \in Requests PROVE Relies(q)'
        BY DEF RequestInv
    <2>1. Relies(q) /\ req'[q] = req[q] /\ (lock = q => lock' = q /\ mode' = mode)
        BY RegistrationAssumption DEF IInv, RequestInv
    <2>2. ASSUME req[q].pc = "insert", req[q].entry # 0
          PROVE  /\ entries'[req[q].entry].email = entries[req[q].entry].email
                 /\ entries'[req[q].entry].status = entries[req[q].entry].status
        <3>1. req[q].entry \in DOMAIN entries /\ EntryLocked(req[q].entry)
            BY <2>1, <2>2 DEF Relies, EntryLocked, At
        <3> QED BY <3>1 DEF RowsStay
    <2> QED BY <2>1, <2>2, OthersRely DEF RowsStay, Kept
<1>2. EntryInv'
    BY DEF IInv, RowsInv, EntryInv, RowsStay
<1>3. ClaimsAgree'
    <2>1. ASSUME NEW i \in DOMAIN entries', entries'[i].status = "claimed"
          PROVE  entries'[i].by \in DOMAIN users' /\ users'[entries'[i].by].entry = i
        <3>1. i \in DOMAIN entries /\ entries[i].status = "claimed" /\ entries'[i].by = entries[i].by
            BY <2>1 DEF RowsStay
        <3> QED BY <3>1 DEF IInv, RowsInv, ClaimsAgree, RowsStay
    <2>2. ASSUME NEW u \in DOMAIN users'
          PROVE  IF users'[u].entry = 0 THEN ~users'[u].admin
                 ELSE LET e == entries'[users'[u].entry]
                      IN e.status = "claimed" /\ e.by = u /\ e.email = users'[u].email /\ e.admin = users'[u].admin
        <3>1. u \in DOMAIN users /\ users'[u].entry = users[u].entry /\ users'[u].email = users[u].email
              /\ users'[u].admin = users[u].admin
            BY DEF RowsStay
        <3>2. CASE users[u].entry = 0
            BY <3>1, <3>2 DEF IInv, RowsInv, ClaimsAgree
        <3>3. CASE users[u].entry # 0
            <4>1. users[u].entry \in DOMAIN entries
                BY <3>1, <3>3 DEF IInv, RowsInv, EntryInv
            <4>2. LET e == entries[users[u].entry]
                  IN e.status = "claimed" /\ e.by = u /\ e.email = users[u].email /\ e.admin = users[u].admin
                BY <3>1, <3>3 DEF IInv, RowsInv, ClaimsAgree
            <4> QED BY <3>1, <3>3, <4>1, <4>2 DEF RowsStay
        <3> QED BY <3>2, <3>3
    <2> QED BY <2>1, <2>2 DEF ClaimsAgree
<1>4. AccountsRegisterOnce' /\ SessionsAreOwn'
    BY DEF IInv, RowsInv, AccountsRegisterOnce, SessionsAreOwn, RowsStay
<1> QED BY <1>1, <1>2, <1>3, <1>4 DEF IInv, RowsInv

\* The sessions that there were.
LEMMA SessionsStay ==
    ASSUME IInv, sessions' = sessions
    PROVE  \A s \in DOMAIN sessions' : /\ sessions'[s].user \in DOMAIN users
                                       /\ users[sessions'[s].user].account = sessions'[s].account
BY DEF IInv, RowsInv, SessionsAreOwn

\* Steps that write none of users, entries and sessions.
LEMMA BootStep ==
    ASSUME IInv, StartLogin \/ Start \/ Configure \/ SeedSelect \/ Rename
    PROVE  IInv'
<1>1. UNCHANGED <<lock, req, users, entries, sessions>> /\ (lock # Nobody => mode' = mode)
    BY DEF StartLogin, Start, Configure, SeedSelect, Rename
<1>2. TypeOK'
    <2>1. CASE StartLogin
        BY <2>1 DEF StartLogin, IInv, TypeOK
    <2>2. CASE Start
        <3>1. boot' \in Boot
            BY <2>2, RegistrationAssumption DEF Start, Boot
        <3>2. changes' \in 0 .. MaxChanges
            BY <2>2, RegistrationAssumption DEF Start, Change, IInv, TypeOK
        <3> QED BY <2>2, <3>1, <3>2 DEF Start, IInv, TypeOK
    <2>3. CASE Configure
        <3>1. mode' \in AllModes /\ boot' \in Boot
            BY <2>3 DEF Configure, IInv, TypeOK, Boot, Up, AllModes
        <3> QED BY <2>3, <3>1 DEF Configure, IInv, TypeOK
    <2>4. CASE SeedSelect
        <3>1. boot' \in Boot
            BY <2>4 DEF SeedSelect, IInv, TypeOK, Boot, Up, AllModes
        <3> QED BY <2>4, <3>1 DEF SeedSelect, IInv, TypeOK
    <2>5. CASE Rename
        <3>1. emailOf' \in [Accounts -> Emails]
            BY <2>5 DEF Rename, IInv, TypeOK
        <3>2. changes' \in 0 .. MaxChanges
            BY <2>5, RegistrationAssumption DEF Rename, Change, IInv, TypeOK
        <3> QED BY <2>5, <3>1, <3>2 DEF Rename, IInv, TypeOK
    <2> QED BY <2>1, <2>2, <2>3, <2>4, <2>5
<1>3. RowsStay
    BY <1>1 DEF RowsStay
<1>4. BootInv'
    BY DEF StartLogin, Start, Configure, SeedSelect, Rename, Up, IInv, RowsInv, BootInv, TypeOK, Boot
<1> QED BY <1>1, <1>2, <1>3, <1>4, OutsideStep, SessionsStay

\* A pending entry is added.
LEMMA EntryAdded ==
    ASSUME IInv, NEW e \in Entry, e.status = "pending", Len(entries) < MaxEntries,
           entries' = Append(entries, e), users' = users
    PROVE  entries' \in Seq(Entry) /\ Len(entries') <= MaxEntries /\ RowsStay
<1>1. entries \in Seq(Entry) /\ Len(entries) \in Nat /\ MaxEntries \in Nat
    BY RegistrationAssumption DEF IInv, TypeOK
<1> HIDE DEF Entry
<1>2. /\ entries' \in Seq(Entry) /\ Len(entries') = Len(entries) + 1
      /\ DOMAIN entries' = DOMAIN entries \cup {Len(entries) + 1}
      /\ \A i \in DOMAIN entries : entries'[i] = entries[i]
      /\ entries'[Len(entries) + 1] = e
    BY <1>1, RowInserted
<1> QED BY <1>1, <1>2 DEF RowsStay

LEMMA AddStep ==
    ASSUME IInv, SeedInsert \/ Invite
    PROVE  IInv'
<1>1. UNCHANGED <<mode, lock, req, users, sessions, emailOf, states, tickets>>
    BY DEF SeedInsert, Invite
<1>2. entries' \in Seq(Entry) /\ Len(entries') <= MaxEntries /\ RowsStay
    <2>1. CASE entries' = entries
        BY <1>1, <2>1 DEF IInv, TypeOK, RowsStay
    <2>2. CASE SeedInsert /\ entries' # entries
        <3>1. AdminEntry \in Entry /\ AdminEntry.status = "pending"
            <4>1. AdminEmail # Nobody
                BY <2>2 DEF SeedInsert, IInv, RowsInv, BootInv
            <4> QED BY <4>1, RegistrationAssumption DEF AdminEntry, Entry
        <3> QED BY <1>1, <2>2, <3>1, EntryAdded DEF SeedInsert
    <2>3. CASE Invite
        <3>1. PICK e \in Emails : entries' = Append(entries, [AdminEntry EXCEPT !.email = e, !.admin = FALSE])
            BY <2>3 DEF Invite
        <3> DEFINE new == [AdminEntry EXCEPT !.email = e, !.admin = FALSE]
        <3>2. new \in Entry /\ new.status = "pending"
            BY DEF AdminEntry, Entry
        <3> HIDE DEF new
        <3> QED BY <1>1, <2>3, <3>1, <3>2, EntryAdded DEF Invite, new
    <2> QED BY <2>1, <2>2, <2>3
<1>3. boot' \in Boot /\ changes' \in 0 .. MaxChanges
    <2>1. CASE SeedInsert
        BY <2>1 DEF SeedInsert, Boot, Up, AllModes, IInv, TypeOK
    <2>2. CASE Invite
        <3>1. changes < MaxChanges /\ changes' = changes + 1 /\ boot' = boot
            BY <2>2 DEF Invite, Change
        <3>2. changes \in 0 .. MaxChanges /\ boot \in Boot
            BY DEF IInv, TypeOK
        <3> QED BY <3>1, <3>2, RegistrationAssumption
    <2> QED BY <2>1, <2>2
<1>4. TypeOK'
    BY <1>1, <1>2, <1>3 DEF IInv, TypeOK
<1>5. BootInv'
    BY DEF SeedInsert, Invite, Up, IInv, RowsInv, BootInv
<1> QED BY <1>1, <1>2, <1>4, <1>5, OutsideStep, SessionsStay

\* An operator revokes an entry or disables a user.
LEMMA RevokeStep ==
    ASSUME IInv, Revoke
    PROVE  IInv'
<1>1. PICK i \in DOMAIN entries : /\ entries[i].status = "pending" /\ ~EntryLocked(i)
                                  /\ entries' = [entries EXCEPT ![i].status = "revoked"]
    BY DEF Revoke
<1>2. /\ UNCHANGED <<mode, lock, users, emailOf, states, tickets, sessions, req, boot>>
      /\ changes' \in 0 .. MaxChanges
    BY RegistrationAssumption DEF Revoke, Change, IInv, TypeOK
<1>3. \A j \in DOMAIN entries :
          /\ entries'[j] \in Entry
          /\ entries'[j].email = entries[j].email
          /\ entries'[j].admin = entries[j].admin /\ entries'[j].by = entries[j].by
          /\ entries'[j].status = IF j = i THEN "revoked" ELSE entries[j].status
    BY <1>1, RowIds DEF Entry, IInv
<1>4. entries' \in Seq(Entry) /\ Len(entries') = Len(entries) /\ DOMAIN entries' = DOMAIN entries
    <2>1. entries' = [j \in DOMAIN entries |-> entries'[j]] /\ entries \in Seq(Entry)
        BY <1>1 DEF IInv, TypeOK
    <2> HIDE DEF Entry
    <2> QED BY <1>3, <2>1, RowsUpdated
<1>5. TypeOK' /\ BootInv'
    BY <1>2, <1>4 DEF IInv, TypeOK, RowsInv, BootInv
<1>6. RowsStay
    BY <1>1, <1>2, <1>3, <1>4 DEF RowsStay
<1> QED BY <1>2, <1>5, <1>6, OutsideStep, SessionsStay

LEMMA DisableStep ==
    ASSUME IInv, Disable
    PROVE  IInv'
<1>1. PICK u \in DOMAIN users : users' = [users EXCEPT ![u].enabled = FALSE]
    BY DEF Disable
<1>2. /\ UNCHANGED <<mode, lock, entries, emailOf, states, tickets, sessions, req, boot>>
      /\ changes' \in 0 .. MaxChanges
    BY RegistrationAssumption DEF Disable, Change, IInv, TypeOK
<1>3. \A v \in DOMAIN users :
          /\ users'[v] \in User
          /\ users'[v].account = users[v].account /\ users'[v].email = users[v].email
          /\ users'[v].admin = users[v].admin /\ users'[v].entry = users[v].entry
    BY <1>1, RowIds DEF User, IInv
<1>4. users' \in Seq(User) /\ Len(users') = Len(users) /\ DOMAIN users' = DOMAIN users
    <2>1. users' = [v \in DOMAIN users |-> users'[v]] /\ users \in Seq(User)
        BY <1>1 DEF IInv, TypeOK
    <2> HIDE DEF User
    <2> QED BY <1>3, <2>1, RowsUpdated
<1>5. TypeOK' /\ BootInv'
    BY <1>2, <1>4 DEF IInv, TypeOK, RowsInv, BootInv
<1>6. RowsStay
    BY <1>2, <1>3, <1>4 DEF RowsStay
<1> QED BY <1>2, <1>5, <1>6, OutsideStep, SessionsStay

\* Time passes.
LEMMA ExpireStep ==
    ASSUME IInv, Expire
    PROVE  IInv'
<1>1. UNCHANGED <<mode, lock, users, emailOf, req, boot, changes>>
    BY DEF Expire
<1>2. /\ req' \in [Requests -> Locals] /\ \A q \in Requests : req'[q] \in {req[q], Idle}
      /\ states \subseteq States /\ tickets \subseteq Login /\ DOMAIN sessions \subseteq Slots
      /\ \A s \in DOMAIN sessions : /\ sessions[s] \in Session
                                    /\ sessions[s].user \in DOMAIN users
                                    /\ users[sessions[s].user].account = sessions[s].account
    BY <1>1 DEF IInv, TypeOK, RowsInv, SessionsAreOwn
<1>3. CASE /\ states' \subseteq states /\ tickets' \subseteq tickets /\ UNCHANGED <<entries, sessions>>
    BY <1>1, <1>2, <1>3, SessionStep
<1>4. ASSUME NEW s \in DOMAIN sessions, sessions' = [t \in DOMAIN sessions \ {s} |-> sessions[t]],
             UNCHANGED <<entries, states, tickets>>
      PROVE  IInv'
    BY <1>1, <1>2, <1>4, SessionEnds, SessionStep
<1>5. ASSUME NEW i \in DOMAIN entries, entries' = [entries EXCEPT ![i].over = TRUE],
             UNCHANGED <<states, tickets, sessions>>
      PROVE  IInv'
    <2>1. \A j \in DOMAIN entries :
              /\ entries'[j] \in Entry
              /\ entries'[j].email = entries[j].email /\ entries'[j].status = entries[j].status
              /\ entries'[j].admin = entries[j].admin /\ entries'[j].by = entries[j].by
        BY <1>5, RowIds DEF Entry, IInv
    <2>2. entries' \in Seq(Entry) /\ Len(entries') = Len(entries) /\ DOMAIN entries' = DOMAIN entries
        <3>1. entries' = [j \in DOMAIN entries |-> entries'[j]] /\ entries \in Seq(Entry)
            BY <1>5 DEF IInv, TypeOK
        <3> HIDE DEF Entry
        <3> QED BY <2>1, <3>1, RowsUpdated
    <2>3. TypeOK' /\ BootInv'
        BY <1>1, <1>5, <2>2 DEF IInv, TypeOK, RowsInv, BootInv
    <2>4. RowsStay
        BY <1>1, <2>1, <2>2 DEF RowsStay
    <2> QED BY <1>1, <1>5, <2>3, <2>4, OutsideStep, SessionsStay
<1> QED BY <1>3, <1>4, <1>5 DEF Expire

-----------------------------------------------------------------------------
(* Theorems *)

LEMMA InitInv == Init => IInv
<1> SUFFICES ASSUME Init PROVE IInv
    OBVIOUS
<1>1. entries \in Seq(Entry) /\ Len(entries) <= MaxEntries /\ \A i \in DOMAIN entries : entries[i].status = "pending"
    <2>1. CASE AdminEmail = Nobody
        BY <2>1, RegistrationAssumption DEF Init
    <2>2. CASE AdminEmail # Nobody
        <3>1. AdminEntry \in Entry /\ AdminEntry.status = "pending"
            BY <2>2, RegistrationAssumption DEF AdminEntry, Entry
        <3>2. entries = <<AdminEntry>>
            BY <2>2 DEF Init
        <3> HIDE DEF AdminEntry, Entry
        <3> QED BY <3>1, <3>2, RegistrationAssumption
    <2> QED BY <2>1, <2>2
<1>2. users = << >> /\ DOMAIN users = {} /\ DOMAIN sessions = {}
    BY DEF Init
<1>3. TypeOK
    <2>1. users \in Seq(User) /\ Len(users) <= MaxUsers
        BY <1>2, RegistrationAssumption
    <2>2. mode \in AllModes /\ boot \in Boot /\ changes \in 0 .. MaxChanges
        BY RegistrationAssumption DEF Init, Boot, Up, AllModes
    <2>3. req \in [Requests -> Locals]
        BY IdleTyped DEF Init
    <2> QED BY <1>1, <1>2, <2>1, <2>2, <2>3 DEF Init, TypeOK
<1>4. RequestInv
    BY DEF Init, RequestInv, Relies, Idle
<1>5. RowsInv
    BY <1>1, <1>2 DEF Init, RowsInv, EntryInv, BootInv, Up, ClaimsAgree, AccountsRegisterOnce, SessionsAreOwn
<1> QED BY <1>3, <1>4, <1>5 DEF IInv

LEMMA NextInv == IInv /\ [Next]_vars => IInv'
<1> SUFFICES ASSUME IInv, [Next]_vars PROVE IInv'
    OBVIOUS
<1>1. CASE UNCHANGED vars
    <2>1. TypeOK' /\ BootInv' /\ RowsStay
        BY <1>1 DEF vars, IInv, TypeOK, RowsInv, BootInv, RowsStay
    <2> QED BY <1>1, <2>1, OutsideStep, SessionsStay DEF vars
<1>2. ASSUME NEW r \in Requests, Callback(r) \/ Register(r) \/ CreateSession(r) \/ Drop(r)
      PROVE  IInv'
    <2>1. CASE InsertConflicts(r) \/ Drop(r)
        BY <2>1, EndStep DEF InsertConflicts, Drop
    <2> QED BY <1>2, <2>1, CallbackStep, SignupStep, LockStep, SelectStep, InsertStep, CreateSessionStep
            DEF Register
<1>3. ASSUME NEW s \in Slots, Logout(s) PROVE IInv'
    BY <1>3, LogoutStep
<1>4. CASE StartLogin \/ Start \/ Configure \/ SeedSelect \/ SeedInsert
    BY <1>4, BootStep, AddStep
<1>5. CASE Environment
    BY <1>5, AddStep, RevokeStep, DisableStep, BootStep, ExpireStep DEF Environment
<1> QED BY <1>1, <1>2, <1>3, <1>4, <1>5 DEF Next

\* The inductive invariant holds in every reachable state.
THEOREM Invariance == Spec => []IInv
BY InitInv, NextInv, PTL DEF Spec

\* Every reachable state of the tables, the locks and the requests is well formed.
THEOREM TypeCorrect == Spec => []TypeOK
<1>1. IInv => TypeOK
    BY DEF IInv
<1> QED BY <1>1, Invariance, PTL

\* However signups, revocations and restarts overlap, an entry buys one user, the one with its email and its role.
THEOREM EntriesBuyOnce == Spec => []ClaimsAgree
<1>1. IInv => ClaimsAgree
    BY DEF IInv, RowsInv
<1> QED BY <1>1, Invariance, PTL

\* No account gets a second user, be the first one disabled.
THEOREM OneUserPerAccount == Spec => []AccountsRegisterOnce
<1>1. IInv => AccountsRegisterOnce
    BY DEF IInv, RowsInv
<1> QED BY <1>1, Invariance, PTL

\* A browser session is of the user of the account that had logged in.
THEOREM OwnSessions == Spec => []SessionsAreOwn
<1>1. IInv => SessionsAreOwn
    BY DEF IInv, RowsInv
<1> QED BY <1>1, Invariance, PTL

\* What the mode and the entry allowed when a signup read them, they allow when it commits.
THEOREM SignupsAreAllowed == Spec => RegistrationAllowed
<1> DEFINE Allowed ==
        users' # users /\ Len(users') > Len(users) =>
            LET new == users'[Len(users')]
            IN /\ mode # "closed"
               /\ mode \in {"allowlist", "invite"} => new.entry \in DOMAIN entries
               /\ new.entry # 0 => Pending(new.entry, new.email)
<1>1. IInv /\ [Next]_vars => [Allowed]_vars
    <2> SUFFICES ASSUME IInv, [Next]_vars, users' # users PROVE Allowed
        BY DEF vars
    <2>1. CASE \E r \in Requests : Insert(r)
        <3>1. PICK r \in Requests : Insert(r)
            BY <2>1
        <3>2. PICK u : u = Len(users) + 1 /\ Inserted(r, u)
            BY <3>1, InsertRows
        <3>3. /\ mode # "closed"
              /\ mode \in {"allowlist", "invite"} => req[r].entry # 0
              /\ req[r].entry # 0 => req[r].entry \in DOMAIN entries /\ Pending(req[r].entry, req[r].login.email)
            BY <3>1 DEF IInv, RequestInv, Relies, Insert, At
        <3>4. users'[Len(users')] = Row(r)
            <4>1. users' = Append(users, Row(r)) /\ users \in Seq(User)
                BY <3>1 DEF Insert, Row, IInv, TypeOK
            <4>2. Len(users') = u
                BY <3>2, <4>1 DEF Inserted
            <4> QED BY <3>2, <4>2 DEF Inserted
        <3> QED BY <3>3, <3>4 DEF Row
    <2>2. CASE Disable
        <3>1. Len(users') = Len(users) /\ Len(users) \in Nat
            BY <2>2 DEF Disable, IInv, TypeOK
        <3> QED BY <3>1
    <2>3. (\E r \in Requests : Insert(r)) \/ Disable
        BY DEF Next, vars, Callback, Register, Environment, ConsumeState, Exchange, FindIdentity, ReadMode,
               ReadEntry, Signup, LockSettings, SelectEntry, InsertConflicts, CreateSession, Drop, Logout,
               StartLogin, Start, Configure, SeedSelect, SeedInsert, Invite, Revoke, Rename, Expire
    <2> QED BY <2>1, <2>2, <2>3
<1>2. Spec => [][Allowed]_vars
    BY <1>1, Invariance, PTL DEF Spec
<1> QED BY <1>2 DEF RegistrationAllowed

=============================================================================
