---------------------------- MODULE Registration ---------------------------
(***************************************************************************)
(* Login with Google and the registration of users (jcrd web.rs, db.rs):   *)
(* the OAuth callback, the signup ticket it hands to an identity without a *)
(* user, the transaction that turns a ticket into a user, browser sessions *)
(* and the start of jcrd that sets the mode of registration and seeds the  *)
(* administrator's entry.                                                  *)
(*                                                                         *)
(* A step is one statement with the code up to the next one.  The inserts  *)
(* of a signup and its COMMIT are one step: the transaction holds the row  *)
(* of instance_settings from its first statement on, so no other signup    *)
(* can see the difference.  Rows are numbered as they are inserted.  A     *)
(* ticket is a signed token without a row: whoever holds it may post it    *)
(* again and again until it expires.                                       *)
(***************************************************************************)
EXTENDS Integers, Sequences, FiniteSets

CONSTANTS
    Requests,       \* slots for concurrently running requests
    Accounts,       \* subjects of the identity provider
    Emails, Names,
    AdminEmail,     \* JCR_ADMIN_EMAIL, Nobody when it is not set
    FirstModes,     \* registration modes jcrd is first started with
    Modes,          \* registration modes it is started with at any time
    States,         \* bound: OAuth states outstanding at one time
    Slots,          \* bound: browser sessions alive at one time
    MaxTickets,     \* bound: tickets alive at one time
    MaxUsers, MaxEntries, MaxChanges,   \* bounds on the rows and on what operators and Google change
    Nobody          \* the holder of a row nobody has locked; a local not set yet

AllModes == {"closed", "allowlist", "invite", "open"}

ASSUME RegistrationAssumption ==
    /\ AdminEmail \in Emails \cup {Nobody} /\ FirstModes \subseteq Modes /\ Modes \subseteq AllModes
    /\ MaxTickets \in Nat /\ MaxUsers \in Nat /\ MaxEntries \in Nat \ {0} /\ MaxChanges \in Nat
    /\ Nobody \notin Requests /\ Nobody \notin Names \cup Emails

VARIABLES
    mode,      \* instance_settings.registration_mode
    lock,      \* the signup that holds the row of instance_settings
    entries,   \* rows of registration_entries
    users,     \* rows of users, each with its identity and personal namespace
    emailOf,   \* external: the email Google gives for each account
    states,    \* rows of oauth_states
    tickets,   \* signup tickets handed out that have not expired
    sessions,  \* rows of browser_sessions
    req,       \* local state of each running request
    boot,      \* local state of a starting jcrd
    changes    \* changes the operator and Google made

vars == <<mode, lock, entries, users, emailOf, states, tickets, sessions, req, boot, changes>>

-----------------------------------------------------------------------------
(* Rows *)

EntryIds == 1 .. MaxEntries
UserIds == 1 .. MaxUsers

\* over: expires_at has passed; by: claimed_by.
Entry == [email : Emails, admin : BOOLEAN, status : {"pending", "claimed", "revoked"}, over : BOOLEAN,
          by : UserIds \cup {0}]

\* entry: history, the entry the user registered with, 0 for none.
User == [account : Accounts, email : Emails, name : Names, admin : BOOLEAN, enabled : BOOLEAN,
         entry : EntryIds \cup {0}]

\* account: history, who had logged in.
Session == [user : UserIds, account : Accounts]

Login == [account : Accounts, email : Emails]

\* over: the entries that had expired at BEGIN, the moment that NOW() means.
Locals == [pc : {"idle", "exchange", "identity", "mode", "entry", "lock", "select", "insert", "session"},
           login : Login \cup {Nobody}, name : Names \cup {Nobody}, mode : AllModes, over : SUBSET EntryIds,
           entry : EntryIds \cup {0}, user : UserIds \cup {0}]

\* A local that is not set yet, or was read for the last time, has its value here.
Idle == [pc |-> "idle", login |-> Nobody, name |-> Nobody, mode |-> "closed", over |-> {}, entry |-> 0, user |-> 0]

Boot == [pc : {"up", "configure", "seed", "insert"}, mode : AllModes]
Up == [pc |-> "up", mode |-> "closed"]

At(r, pc) == req[r].pc = pc
Stay(r, new) == req' = [req EXCEPT ![r] = new]
Goto(r, pc) == Stay(r, [req[r] EXCEPT !.pc = pc])

Pending(i, email) == entries[i].email = email /\ entries[i].status = "pending"

\* The entry of an email that a statement finds, given which have expired.
Usable(email, over) == {i \in DOMAIN entries : Pending(i, email) /\ i \notin over}
Expired == {i \in DOMAIN entries : entries[i].over}

\* The row lock that SelectEntry took.
EntryLocked(i) == \E r \in Requests : At(r, "insert") /\ req[r].entry = i

AdminEntry == [email |-> AdminEmail, admin |-> TRUE, status |-> "pending", over |-> FALSE, by |-> 0]

Init ==
    /\ mode \in FirstModes /\ lock = Nobody
    /\ entries = IF AdminEmail = Nobody THEN <<>> ELSE <<AdminEntry>>
    /\ users = <<>>
    /\ emailOf \in {f \in [Accounts -> Emails] : \A a, b \in Accounts : f[a] = f[b] => a = b}
    /\ states = {} /\ tickets = {}
    /\ sessions = [s \in {} |-> Session]
    /\ req = [r \in Requests |-> Idle] /\ boot = Up /\ changes = 0

-----------------------------------------------------------------------------
(* GET /registry/auth/login and /registry/auth/callback *)

StartLogin ==
    /\ \E s \in States \ states : states' = states \cup {s}
    /\ UNCHANGED <<mode, lock, entries, users, emailOf, tickets, sessions, req, boot, changes>>

\* DELETE FROM oauth_states ... RETURNING: the state is spent before Google is asked.
ConsumeState(r) ==
    /\ At(r, "idle")
    /\ \E s \in states : states' = states \ {s}
    /\ Stay(r, [Idle EXCEPT !.pc = "exchange"])
    /\ UNCHANGED <<mode, lock, entries, users, emailOf, tickets, sessions, boot, changes>>

\* Google answers with the profile of the account that consented.  Without email_verified the login is denied.
Exchange(r) ==
    /\ At(r, "exchange")
    /\ \/ \E a \in Accounts : Stay(r, [req[r] EXCEPT !.login = [account |-> a, email |-> emailOf[a]], !.pc = "identity"])
       \/ Stay(r, Idle)
    /\ UNCHANGED <<mode, lock, entries, users, emailOf, states, tickets, sessions, boot, changes>>

\* The user of a login: the identity's subject decides, whatever its email is now.
Identified(login) == {u \in DOMAIN users : users[u].account = login.account /\ users[u].enabled}

\* Variant of FindIdentity: a login without a user gets a session all the same.
FindIdentityOrNone(r) ==
    /\ At(r, "identity")
    /\ \/ \E u \in Identified(req[r].login) : Stay(r, [req[r] EXCEPT !.pc = "session", !.user = u])
       \/ Identified(req[r].login) = {} /\ Goto(r, "session")
    /\ UNCHANGED <<mode, lock, entries, users, emailOf, states, tickets, sessions, boot, changes>>

FindIdentity(r) ==
    /\ At(r, "identity")
    /\ \/ \E u \in Identified(req[r].login) : Stay(r, [req[r] EXCEPT !.pc = "session", !.user = u])
       \/ Identified(req[r].login) = {} /\ Goto(r, "mode")
    /\ UNCHANGED <<mode, lock, entries, users, emailOf, states, tickets, sessions, boot, changes>>

\* encode_signup_ticket
Ticketed(r) ==
    /\ tickets' = tickets \cup {req[r].login} /\ Cardinality(tickets') <= MaxTickets
    /\ Stay(r, Idle)

Denied(r) == Stay(r, Idle) /\ UNCHANGED tickets

ReadMode(r) ==
    /\ At(r, "mode")
    /\ \/ mode = "closed" /\ Denied(r)
       \/ mode = "open" /\ Ticketed(r)
       \/ mode \in {"allowlist", "invite"} /\ Goto(r, "entry") /\ UNCHANGED tickets
    /\ UNCHANGED <<mode, lock, entries, users, emailOf, states, sessions, boot, changes>>

ReadEntry(r) ==
    /\ At(r, "entry")
    /\ IF Usable(req[r].login.email, Expired) # {} THEN Ticketed(r) ELSE Denied(r)
    /\ UNCHANGED <<mode, lock, entries, users, emailOf, states, sessions, boot, changes>>

CreateSession(r) ==
    /\ At(r, "session")
    /\ \E s \in Slots \ DOMAIN sessions :
          sessions' = [t \in DOMAIN sessions \cup {s} |->
                          IF t = s THEN [user |-> req[r].user, account |-> req[r].login.account] ELSE sessions[t]]
    /\ Stay(r, Idle)
    /\ UNCHANGED <<mode, lock, entries, users, emailOf, states, tickets, boot, changes>>

-----------------------------------------------------------------------------
(* POST /registry/signup *)

\* decode_signup_ticket and BEGIN.  A username that is not well formed sends the form again and changes nothing.
Signup(r) ==
    /\ At(r, "idle")
    /\ \E t \in tickets, n \in Names :
          Stay(r, [Idle EXCEPT !.pc = "lock", !.login = t, !.name = n, !.over = Expired])
    /\ UNCHANGED <<mode, lock, entries, users, emailOf, states, tickets, sessions, boot, changes>>

\* Variant of LockSettings: the SELECT has no FOR UPDATE.
ReadSettings(r) ==
    /\ At(r, "lock")
    /\ Stay(r, [req[r] EXCEPT !.pc = "select", !.mode = mode])
    /\ UNCHANGED <<mode, lock, entries, users, emailOf, states, tickets, sessions, boot, changes>>

LockSettings(r) ==
    /\ At(r, "lock") /\ lock = Nobody
    /\ lock' = r
    /\ Stay(r, [req[r] EXCEPT !.pc = "select", !.mode = mode])
    /\ UNCHANGED <<mode, entries, users, emailOf, states, tickets, sessions, boot, changes>>

Release(r) == lock' = IF lock = r THEN Nobody ELSE lock

\* SELECT ... FROM registration_entries ... FOR UPDATE, and the decision by mode and entry.
SelectEntry(r) ==
    /\ At(r, "select")
    /\ LET found == Usable(req[r].login.email, req[r].over)
           allowed == req[r].mode # "closed" /\ (found # {} \/ req[r].mode = "open")
       IN \/ /\ ~allowed /\ Stay(r, Idle) /\ Release(r)
          \/ /\ allowed /\ UNCHANGED lock
             /\ \E i \in IF found = {} THEN {0} ELSE found :
                   Stay(r, [Idle EXCEPT !.pc = "insert", !.login = req[r].login, !.name = req[r].name, !.entry = i])
    /\ UNCHANGED <<mode, entries, users, emailOf, states, tickets, sessions, boot, changes>>

\* Variant of Known: an identity that exists already is left to the first user that has it.
NeverKnown(login) == FALSE

\* UNIQUE (provider, provider_subject): disabled users count.
Known(login) == \E u \in DOMAIN users : users[u].account = login.account

\* The unique indexes of usernames, emails and namespaces.
Taken(r) == \E u \in DOMAIN users : users[u].email = req[r].login.email \/ users[u].name = req[r].name

\* Variant of Claim: the UPDATE names the entry by its email.
ClaimByEmail(r, u) == [i \in DOMAIN entries |-> IF req[r].entry # 0 /\ entries[i].email = req[r].login.email
                                                THEN [entries[i] EXCEPT !.status = "claimed", !.by = u] ELSE entries[i]]

Claim(r, u) == [i \in DOMAIN entries |-> IF i = req[r].entry
                                         THEN [entries[i] EXCEPT !.status = "claimed", !.by = u] ELSE entries[i]]

Insert(r) ==
    LET row == [account |-> req[r].login.account, email |-> req[r].login.email, name |-> req[r].name,
                admin |-> req[r].entry # 0 /\ entries[req[r].entry].admin, enabled |-> TRUE, entry |-> req[r].entry]
        u == Len(users) + 1
    IN /\ At(r, "insert") /\ ~Taken(r) /\ ~Known(req[r].login) /\ u <= MaxUsers
       /\ users' = Append(users, row) /\ entries' = Claim(r, u)
       /\ Stay(r, [Idle EXCEPT !.pc = "session", !.login = req[r].login, !.user = u])
       /\ Release(r)
       /\ UNCHANGED <<mode, emailOf, states, tickets, sessions, boot, changes>>

\* A unique violation: the form again when it is a name or an email, an error when it is the identity.
InsertConflicts(r) ==
    /\ At(r, "insert") /\ (Taken(r) \/ Known(req[r].login))
    /\ Stay(r, Idle) /\ Release(r)
    /\ UNCHANGED <<mode, entries, users, emailOf, states, tickets, sessions, boot, changes>>

\* A request that fails or is dropped at any await: its transaction is rolled back.
Drop(r) ==
    /\ ~At(r, "idle")
    /\ Stay(r, Idle) /\ Release(r)
    /\ UNCHANGED <<mode, entries, users, emailOf, states, tickets, sessions, boot, changes>>

\* POST /registry/logout: require_session joins the user that is not disabled.
Logout(s) ==
    /\ s \in DOMAIN sessions /\ users[sessions[s].user].enabled
    /\ sessions' = [t \in DOMAIN sessions \ {s} |-> sessions[t]]
    /\ UNCHANGED <<mode, lock, entries, users, emailOf, states, tickets, req, boot, changes>>

-----------------------------------------------------------------------------
(* The start of a jcrd, beside one that still serves *)

Change == changes < MaxChanges /\ changes' = changes + 1

Start ==
    /\ boot.pc = "up" /\ Change
    /\ \E m \in Modes : boot' = [pc |-> "configure", mode |-> m]
    /\ UNCHANGED <<mode, lock, entries, users, emailOf, states, tickets, sessions, req>>

\* UPDATE instance_settings: waits for the signup that holds the row.
Configure ==
    /\ boot.pc = "configure" /\ lock = Nobody
    /\ mode' = boot.mode
    /\ boot' = IF AdminEmail = Nobody THEN Up ELSE [boot EXCEPT !.pc = "seed"]
    /\ UNCHANGED <<lock, entries, users, emailOf, states, tickets, sessions, req, changes>>

\* INSERT ... SELECT ... WHERE NOT EXISTS: the SELECT's snapshot, then the insert.
SeedSelect ==
    /\ boot.pc = "seed"
    /\ boot' = IF \E u \in DOMAIN users : users[u].email = AdminEmail THEN Up ELSE [boot EXCEPT !.pc = "insert"]
    /\ UNCHANGED <<mode, lock, entries, users, emailOf, states, tickets, sessions, req, changes>>

\* ON CONFLICT DO NOTHING, after waiting for a signup that is about to claim the entry.
SeedInsert ==
    LET same == {i \in DOMAIN entries : Pending(i, AdminEmail)}
    IN /\ boot.pc = "insert" /\ \A i \in same : ~EntryLocked(i)
       /\ \/ same # {} /\ UNCHANGED entries
          \/ same = {} /\ Len(entries) < MaxEntries /\ entries' = Append(entries, AdminEntry)
       /\ boot' = Up
       /\ UNCHANGED <<mode, lock, users, emailOf, states, tickets, sessions, req, changes>>

-----------------------------------------------------------------------------
(* Operators with SQL, Google, and time *)

Invite ==
    /\ Change /\ Len(entries) < MaxEntries
    /\ \E e \in Emails :
          /\ ~\E i \in DOMAIN entries : Pending(i, e)
          /\ entries' = Append(entries, [AdminEntry EXCEPT !.email = e, !.admin = FALSE])
    /\ UNCHANGED <<mode, lock, users, emailOf, states, tickets, sessions, req, boot>>

Revoke ==
    /\ Change
    /\ \E i \in DOMAIN entries : /\ entries[i].status = "pending" /\ ~EntryLocked(i)
                                 /\ entries' = [entries EXCEPT ![i].status = "revoked"]
    /\ UNCHANGED <<mode, lock, users, emailOf, states, tickets, sessions, req, boot>>

Disable ==
    /\ Change
    /\ \E u \in DOMAIN users : users[u].enabled /\ users' = [users EXCEPT ![u].enabled = FALSE]
    /\ UNCHANGED <<mode, lock, entries, emailOf, states, tickets, sessions, req, boot>>

\* An email moves from one account to another, which gives up its own: Emails need be no larger than Accounts.
Rename ==
    /\ Change
    /\ \E a \in Accounts, e \in Emails :
          /\ emailOf[a] # e
          /\ emailOf' = [b \in Accounts |-> IF b = a THEN e ELSE IF emailOf[b] = e THEN emailOf[a] ELSE emailOf[b]]
    /\ UNCHANGED <<mode, lock, entries, users, states, tickets, sessions, req, boot>>

Expire ==
    /\ \/ /\ \E s \in states : states' = states \ {s}
          /\ UNCHANGED <<entries, tickets, sessions>>
       \/ /\ \E t \in tickets : tickets' = tickets \ {t}
          /\ UNCHANGED <<entries, states, sessions>>
       \/ /\ \E s \in DOMAIN sessions : sessions' = [t \in DOMAIN sessions \ {s} |-> sessions[t]]
          /\ UNCHANGED <<entries, states, tickets>>
       \/ /\ \E i \in DOMAIN entries : /\ entries[i].status = "pending" /\ ~entries[i].over /\ ~entries[i].admin
                                       /\ entries' = [entries EXCEPT ![i].over = TRUE]
          /\ UNCHANGED <<states, tickets, sessions>>
    /\ UNCHANGED <<mode, lock, users, emailOf, req, boot, changes>>

-----------------------------------------------------------------------------
Callback(r) == ConsumeState(r) \/ Exchange(r) \/ FindIdentity(r) \/ ReadMode(r) \/ ReadEntry(r)

Register(r) == Signup(r) \/ LockSettings(r) \/ SelectEntry(r) \/ Insert(r) \/ InsertConflicts(r)

Environment == Invite \/ Revoke \/ Disable \/ Rename \/ Expire

Next ==
    \/ \E r \in Requests : Callback(r) \/ Register(r) \/ CreateSession(r) \/ Drop(r)
    \/ \E s \in Slots : Logout(s)
    \/ StartLogin \/ Start \/ Configure \/ SeedSelect \/ SeedInsert
    \/ Environment

Spec == Init /\ [][Next]_vars

-----------------------------------------------------------------------------
(* Properties *)

\* Type invariant.
TypeOK ==
    /\ mode \in AllModes /\ lock \in Requests \cup {Nobody}
    /\ entries \in Seq(Entry) /\ Len(entries) <= MaxEntries
    /\ users \in Seq(User) /\ Len(users) <= MaxUsers
    /\ emailOf \in [Accounts -> Emails] /\ states \subseteq States /\ tickets \subseteq Login
    /\ DOMAIN sessions \subseteq Slots /\ \A s \in DOMAIN sessions : sessions[s] \in Session
    /\ req \in [Requests -> Locals] /\ boot \in Boot /\ changes \in 0 .. MaxChanges

\* An entry buys one user: it is claimed exactly by the user that registered with it, who has its email and the
\* instance role it grants, and nobody is an administrator without one (register_verified_identity).
ClaimsAgree ==
    /\ \A i \in DOMAIN entries : entries[i].status = "claimed" =>
          entries[i].by \in DOMAIN users /\ users[entries[i].by].entry = i
    /\ \A u \in DOMAIN users :
          IF users[u].entry = 0 THEN ~users[u].admin
          ELSE LET e == entries[users[u].entry]
               IN e.status = "claimed" /\ e.by = u /\ e.email = users[u].email /\ e.admin = users[u].admin

\* An account has one user for good: one that an operator disabled cannot come back as another user, whatever email
\* Google gives for it and however many tickets it still holds.
AccountsRegisterOnce ==
    \A u, v \in DOMAIN users : users[u].account = users[v].account => u = v

\* A browser session is of the user whose account had logged in, also when an email has moved from one account to
\* another between the login, the ticket and the signup (callback, signup).
SessionsAreOwn ==
    \A s \in DOMAIN sessions : /\ sessions[s].user \in DOMAIN users
                               /\ users[sessions[s].user].account = sessions[s].account

\* No user is made while registration is closed, and none in the modes allowlist and invite but by the entry of its own
\* email, pending until that very moment: neither a restart with another mode nor a revocation that an operator was
\* told has happened can be overtaken by a signup under way.
RegistrationAllowed ==
    [][users' # users /\ Len(users') > Len(users) =>
          LET new == users'[Len(users')]
          IN /\ mode # "closed"
             /\ mode \in {"allowlist", "invite"} => new.entry \in DOMAIN entries
             /\ new.entry # 0 => Pending(new.entry, new.email)]_vars
=============================================================================
