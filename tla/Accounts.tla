------------------------------ MODULE Accounts ------------------------------
(***************************************************************************)
(* Accounts and sessions: backend/src/storage/user-store.ts, the handlers  *)
(* of routes/auth.ts and routes/users.ts, services/auth.ts, a session      *)
(* store, and the two ways the users file is changed behind the server's   *)
(* back: a restart and scripts/reset-admin-password.sh.                    *)
(*                                                                         *)
(* A request is suspended in bcrypt and in the write of the users file;    *)
(* the awaits of the session stores never leave the process, so what       *)
(* stands between two of those suspensions is one step.  bcrypt compares   *)
(* a password with the hash it was handed when it was called.              *)
(***************************************************************************)
EXTENDS Naturals, FiniteSets

CONSTANTS
    Ids,         \* user ids, each given to one account
    Names, Pwds,
    Requests,    \* requests that can be under way at once
    NoUser,
    Nobody,      \* the index entry of a name nobody has
    MaxRequests, \* bound: requests of a behaviour
    MaxFaults    \* bound: failed writes, restarts and expired sessions

Roles == {"admin", "viewer"}
User  == [name : Names, pwd : Pwds, role : Roles]
Table == [Ids -> User \cup {NoUser}]

ASSUME AccountsAssumption ==
    /\ NoUser \notin User /\ Nobody \notin Ids
    /\ MaxRequests \in Nat /\ MaxFaults \in Nat

NoTable == [id \in Ids |-> NoUser]

\* What reading users.json gives; only a whole file can be parsed.
File == [state : {"whole", "empty", "torn"}, table : Table]
Whole(t) == [state |-> "whole", table |-> t]
Empty == [state |-> "empty", table |-> NoTable]
Torn  == [state |-> "torn", table |-> NoTable]

VARIABLES
    users,    \* UserStore.users
    index,    \* UserStore.usernameIndex
    file,     \* users.json
    sessions, \* the session store; proof and late are history
    req,      \* where each request is suspended, and with what in hand
    script,   \* the reset script and the reload it asks for
    given,    \* ids ever given out
    unrevoked, \* history: ids whose record changed without a revocation
    doubled,  \* history: names registered while somebody had them
    unsynced, \* history: the last accesses to the file overlapped or failed
    requests, faults

store   == <<users, index, file>>
history == <<unrevoked, doubled, unsynced>>
bounds  == <<requests, faults>>
vars == <<store, sessions, req, script, given, history, bounds>>

\* proof is the password the login presented, late that the account changed
\* while it was being compared.
Session == [id : Ids, kind : {"access", "refresh"}, role : Roles,
            proof : Pwds, late : BOOLEAN]

Taken(t)  == {id \in Ids : t[id] # NoUser}
Admins(t) == {id \in Taken(t) : t[id].role = "admin"}

\* A request between handlers; held tells that its user object is still the
\* one in the store, solo that nothing else used the file since it began.
Idle == [op |-> "none", at |-> "idle", id |-> Nobody, name |-> Nobody,
         pwd |-> Nobody, role |-> "viewer", table |-> NoTable,
         held |-> FALSE, late |-> FALSE, solo |-> FALSE]

Writing(r) == req[r].at \in {"truncate", "fill"}

\* A change of this account is on its way to the revocation at its end.
Revoking(id) == \E r \in Requests :
    req[r].op \in {"password", "role"} /\ Writing(r) /\ req[r].id = id

\* A login being compared, or a registration being written, that will issue
\* its sessions from a user object it has in hand.
Holds(r, id) == /\ req[r].op \in {"login", "register", "sector"}
                /\ req[r].id = id
Reloading == script.at = "read"

----------------------------------------------------------------------------
(* Helpers of the stores.                                                   *)

\* The indexes that find every account by its name; of several with a name,
\* the one listed last.
IndexOf(t) ==
    {i \in [Names -> Ids \cup {Nobody}] :
        \A n \in Names :
            LET named == {id \in Taken(t) : t[id].name = n}
            IN IF named = {} THEN i[n] = Nobody ELSE i[n] \in named}

\* Fault for the runs' mutants: the new table is used with the old index.
Mut_KeepIndex(t) == {index}

\* rebuildIndex()
Rebuilt(t) == IndexOf(t)

\* Fault for the runs' mutants: the revocation leaves refresh sessions.
Mut_RevokeAccess(id) == {s \in sessions : s.id # id \/ s.kind = "refresh"}

\* SessionStore.deleteByUser()
Revoked(id) == {s \in sessions : s.id # id}

\* createTokens(): an access and a refresh session for one sign-in.
Pair(id, role, proof, late) ==
    [id : {id}, kind : {"access", "refresh"}, role : {role},
     proof : {proof}, late : {late}]

\* Fault for the runs' mutants: the table is serialised before the change.
Mut_PersistBefore(r, q, others) ==
    /\ req' = [p \in Requests |->
                 IF p = r
                 THEN [q EXCEPT !.at = "truncate", !.table = users,
                                !.solo = ~ Reloading /\ \A o \in Requests \ {r} : ~ Writing(o)]
                 ELSE [others[p] EXCEPT !.solo = FALSE]]
    /\ script' = [script EXCEPT !.solo = FALSE]

\* persist(): the table is serialised at once and written later.  others is
\* what the change did to the requests that hold the same user.
Persist(r, q, others) ==
    /\ req' = [p \in Requests |->
                 IF p = r
                 THEN [q EXCEPT !.at = "truncate", !.table = users',
                                !.solo = ~ Reloading /\ \A o \in Requests \ {r} : ~ Writing(o)]
                 ELSE [others[p] EXCEPT !.solo = FALSE]]
    /\ script' = [script EXCEPT !.solo = FALSE]

\* An access session lets a request through, an admin's to the admin routes.
SignedIn(id) == \E s \in sessions : s.kind = "access" /\ s.id = id
AskingAdmins == {s.id : s \in {s \in sessions : s.kind = "access" /\ s.role = "admin"}}

Begins(r) ==
    /\ req[r].at = "idle"
    /\ requests < MaxRequests
    /\ requests' = requests + 1
    /\ UNCHANGED faults

----------------------------------------------------------------------------
(* Registration.                                                            *)

\* The route reads the user count before the hash: the first account needs no
\* session and is an admin's; register() refuses a name that is in the index.
Register(r, n, p, role) ==
    /\ Begins(r)
    /\ IF Taken(users) = {} THEN role = "admin" ELSE AskingAdmins # {}
    /\ index[n] = Nobody
    /\ req' = [req EXCEPT ![r] = [Idle EXCEPT !.op = "register", !.at = "bcrypt",
                                    !.name = n, !.pwd = p, !.role = role]]
    /\ UNCHANGED <<store, sessions, script, given, history>>

\* The hash is there: create() adds the account and points the index at it.
Create(r, id) ==
    /\ req[r].op = "register" /\ req[r].at = "bcrypt"
    /\ id \notin given
    /\ given' = given \cup {id}
    /\ users' = [users EXCEPT ![id] =
                   [name |-> req[r].name, pwd |-> req[r].pwd, role |-> req[r].role]]
    /\ index' = [index EXCEPT ![req[r].name] = id]
    /\ doubled' = IF index[req[r].name] = Nobody THEN doubled
                                                 ELSE doubled \cup {req[r].name}
    /\ Persist(r, [req[r] EXCEPT !.id = id, !.held = TRUE], req)
    /\ UNCHANGED <<file, sessions, unrevoked, unsynced, bounds>>

----------------------------------------------------------------------------
(* Sign-in, refresh and sign-out.                                           *)

\* login() with the right password, up to the compare; a wrong one changes
\* nothing but the counts of the lockout, which are left out.
Login(r, n) ==
    /\ Begins(r)
    /\ index[n] # Nobody
    /\ LET u == users[index[n]] IN
       req' = [req EXCEPT ![r] = [Idle EXCEPT !.op = "login", !.at = "bcrypt",
                 !.id = index[n], !.pwd = u.pwd, !.role = u.role, !.held = TRUE]]
    /\ UNCHANGED <<store, sessions, script, given, history>>

\* The compare succeeded: the account's sessions give way to the new pair.
SignIn(r) ==
    /\ req[r].op = "login" /\ req[r].at = "bcrypt"
    /\ LET q == req[r] IN
       /\ sessions' = Revoked(q.id) \cup Pair(q.id, q.role, q.pwd, q.late)
       /\ unrevoked' = unrevoked \ {q.id}
    /\ req' = [req EXCEPT ![r] = Idle]
    /\ UNCHANGED <<store, script, given, doubled, unsynced, bounds>>

\* refreshToken(): the refresh session is spent, the access session stays.
Refresh(s) ==
    /\ s \in sessions /\ s.kind = "refresh"
    /\ users[s.id] # NoUser
    /\ sessions' = (sessions \ {s}) \cup Pair(s.id, users[s.id].role, s.proof, s.late)
    /\ UNCHANGED <<store, req, script, given, history, bounds>>

Logout(id) ==
    /\ SignedIn(id)
    /\ sessions' = Revoked(id)
    /\ unrevoked' = unrevoked \ {id}
    /\ UNCHANGED <<store, req, script, given, doubled, unsynced, bounds>>

\* A session reaches its time-to-live.
Expire(s) ==
    /\ s \in sessions
    /\ faults < MaxFaults
    /\ faults' = faults + 1
    /\ sessions' = sessions \ {s}
    /\ UNCHANGED <<store, req, script, given, history, requests>>

----------------------------------------------------------------------------
(* Changes of an account.                                                   *)

\* changePassword() with the right current password, up to the new hash.
ChangePassword(r, id, p) ==
    /\ Begins(r)
    /\ SignedIn(id) /\ users[id] # NoUser
    /\ req' = [req EXCEPT ![r] = [Idle EXCEPT !.op = "password", !.at = "bcrypt",
                                    !.id = id, !.pwd = p]]
    /\ UNCHANGED <<store, sessions, script, given, history>>

\* The new hash is stored; a login being compared still has the old one.
\* update() of an account deleted meanwhile changes nothing.
SetPassword(r) ==
    LET q == req[r]
        others == [p \in Requests |-> IF Holds(p, q.id) THEN [req[p] EXCEPT !.late = TRUE]
                                                            ELSE req[p]]
    IN
    /\ q.op = "password" /\ q.at = "bcrypt"
    /\ IF users[q.id] = NoUser
       THEN /\ sessions' = Revoked(q.id)
            /\ req' = [req EXCEPT ![r] = Idle]
            /\ UNCHANGED <<users, script>>
       ELSE /\ users' = [users EXCEPT ![q.id].pwd = q.pwd]
            /\ Persist(r, q, others)
            /\ UNCHANGED sessions
    /\ UNCHANGED <<index, file, given, history, bounds>>

\* Fault for the runs' mutants: nobody counts the admins.
Mut_NeverLast(id) == FALSE

\* The last admin keeps the role and the account.
LastAdmin(id) == Admins(users) = {id}

\* PUT /users/:id/role up to the write.
ChangeRole(r, id, role) ==
    LET others == [p \in Requests |-> IF Holds(p, id) /\ req[p].held
                                      THEN [req[p] EXCEPT !.role = role] ELSE req[p]]
    IN
    /\ Begins(r)
    /\ AskingAdmins # {}
    /\ users[id] # NoUser
    /\ role # "admin" => ~ LastAdmin(id)
    /\ users' = [users EXCEPT ![id].role = role]
    /\ Persist(r, [Idle EXCEPT !.op = "role", !.id = id], others)
    /\ UNCHANGED <<index, file, sessions, given, history>>

\* DELETE /users/:id up to the write: not oneself, sessions first.
Delete(r, id) ==
    LET others == [p \in Requests |-> IF Holds(p, id)
                                      THEN [req[p] EXCEPT !.late = TRUE, !.held = FALSE]
                                      ELSE req[p]]
    IN
    /\ Begins(r)
    /\ AskingAdmins \ {id} # {}
    /\ users[id] # NoUser
    /\ ~ LastAdmin(id)
    /\ sessions' = Revoked(id)
    /\ users' = [users EXCEPT ![id] = NoUser]
    /\ index' = [index EXCEPT ![users[id].name] = Nobody]
    /\ Persist(r, [Idle EXCEPT !.op = "delete", !.id = id], others)
    /\ unrevoked' = unrevoked \ {id}
    /\ UNCHANGED <<file, given, doubled, unsynced>>

\* Preferences and sector: data no property tells apart, but a write.
UpdateProfile(r, id) ==
    /\ Begins(r)
    /\ SignedIn(id) /\ users[id] # NoUser
    /\ users' = users
    /\ Persist(r, [Idle EXCEPT !.op = "profile", !.id = id], req)
    /\ UNCHANGED <<index, file, sessions, given, history>>

----------------------------------------------------------------------------
(* The write of the users file.                                             *)

\* The open truncates it.
Truncate(r) ==
    /\ req[r].at = "truncate"
    /\ file' = Empty
    /\ req' = [req EXCEPT ![r].at = "fill"]
    /\ UNCHANGED <<users, index, sessions, script, given, history, bounds>>

\* Fault for the runs' mutants: a role change revokes nothing.
Mut_RoleKeepsSessions(r) ==
    LET q == req[r] IN
    CASE q.op \in {"register", "sector"} ->
            /\ sessions' = sessions \cup Pair(q.id, q.role, q.pwd, q.late)
            /\ UNCHANGED unrevoked
      [] q.op = "password" ->
            /\ sessions' = Revoked(q.id)
            /\ unrevoked' = unrevoked \ {q.id}
      [] OTHER -> UNCHANGED <<sessions, unrevoked>>

\* The rest of the handler once the file is written.
Answer(r) ==
    LET q == req[r] IN
    CASE q.op \in {"register", "sector"} ->
            /\ sessions' = sessions \cup Pair(q.id, q.role, q.pwd, q.late)
            /\ UNCHANGED unrevoked
      [] q.op \in {"password", "role"} ->
            /\ sessions' = Revoked(q.id)
            /\ unrevoked' = unrevoked \ {q.id}
      [] OTHER -> UNCHANGED <<sessions, unrevoked>>

\* The content goes in at the start; over another write's it may leave a tail.
Filled(r) ==
    /\ req[r].at = "fill"
    /\ \/ file' = Whole(req[r].table)
       \/ file # Empty /\ file' = Torn

\* The first-run form has a sector: register() stores it with a second write.
StoreSector(r) ==
    /\ Filled(r)
    /\ req[r].op = "register"
    /\ users[req[r].id] # NoUser
    /\ users' = users
    /\ Persist(r, [req[r] EXCEPT !.op = "sector"], req)
    /\ UNCHANGED <<index, sessions, given, history, bounds>>

Fill(r) ==
    /\ Filled(r)
    /\ Answer(r)
    /\ req' = [req EXCEPT ![r] = Idle]
    /\ unsynced' = ~ req[r].solo
    /\ UNCHANGED <<users, index, script, given, doubled, bounds>>

\* The open or the write fails and the handler with it: the change stays in
\* memory, and what the handler had still to do is not done.
WriteFails(r) ==
    /\ Writing(r)
    /\ faults < MaxFaults
    /\ faults' = faults + 1
    /\ req' = [req EXCEPT ![r] = Idle]
    /\ unsynced' = TRUE
    /\ unrevoked' = IF req[r].op \in {"password", "role"} THEN unrevoked \cup {req[r].id}
                                                          ELSE unrevoked
    /\ UNCHANGED <<store, sessions, script, given, doubled, requests>>

----------------------------------------------------------------------------
(* The file changed from outside, and restarts.                             *)

ScriptDone == [at |-> "done", id |-> Nobody, solo |-> FALSE, table |-> NoTable]

\* The script reads the file and hashes the new password.
ScriptReads(id, p) ==
    /\ script.at = "idle"
    /\ file.state = "whole" /\ file.table[id] # NoUser
    /\ script' = [at |-> "hash", id |-> id, solo |-> TRUE,
                  table |-> [file.table EXCEPT ![id].pwd = p]]
    /\ UNCHANGED <<store, sessions, req, given, history, bounds>>

\* It writes what it read, with the new hash, and signals the server.
ScriptWrites ==
    /\ script.at = "hash"
    /\ file' = Whole(script.table)
    /\ script' = [script EXCEPT !.at = "signal", !.table = NoTable]
    /\ req' = [p \in Requests |-> [req[p] EXCEPT !.solo = FALSE]]
    /\ unsynced' = TRUE
    /\ UNCHANGED <<users, index, sessions, given, unrevoked, doubled, bounds>>

\* reload(): the file is read, and fails to parse in the middle of a write.
ReloadReads ==
    /\ script.at = "signal"
    /\ script' = IF file.state = "whole"
                 THEN [script EXCEPT !.at = "read", !.table = file.table,
                                     !.solo = \A r \in Requests : ~ Writing(r)]
                 ELSE ScriptDone
    /\ UNCHANGED <<store, sessions, req, given, history, bounds>>

\* reload() replaces every user object and revokes no session.
ReloadApplies ==
    /\ script.at = "read"
    /\ users' = script.table
    /\ index' \in Rebuilt(script.table)
    /\ req' = [p \in Requests |->
                 [req[p] EXCEPT !.solo = FALSE, !.held = FALSE, !.late = @ \/ req[p].held]]
    /\ unrevoked' = unrevoked \cup {id \in Ids : users'[id] # users[id]}
    /\ unsynced' = ~ script.solo
    /\ script' = ScriptDone
    /\ UNCHANGED <<file, sessions, given, doubled, bounds>>

\* init(): a file that cannot be parsed is taken for one that is not there.
Loaded == IF file.state = "whole" THEN file.table ELSE NoTable

\* The process dies and starts again on the file; SQLite keeps the sessions.
Restart(kept) ==
    /\ faults < MaxFaults
    /\ faults' = faults + 1
    /\ kept \in {{}, sessions}
    /\ sessions' = kept
    /\ users' = Loaded
    /\ file' = Whole(Loaded)
    /\ index' \in Rebuilt(Loaded)
    /\ req' = [r \in Requests |-> Idle]
    /\ script' = IF script.at \in {"signal", "read"}
                 THEN ScriptDone ELSE script
    /\ unrevoked' = unrevoked \cup {id \in Ids : users'[id] # users[id] \/ Revoking(id)}
    /\ unsynced' = FALSE
    /\ UNCHANGED <<given, doubled, requests>>

----------------------------------------------------------------------------
\* A server that has started on a users file it could have written; the SQLite
\* session store may still hold somebody's sessions.
Init ==
    /\ users \in {t \in Table : /\ Taken(t) # {} => Admins(t) # {}
                                /\ \A i, j \in Taken(t) : t[i].name = t[j].name => i = j}
    /\ index \in IndexOf(users)
    /\ file = Whole(users)
    /\ \E signedIn \in SUBSET Taken(users) : sessions =
           UNION {Pair(id, users[id].role, users[id].pwd, FALSE) : id \in signedIn}
    /\ req = [r \in Requests |-> Idle]
    /\ script = [at |-> "idle", id |-> Nobody, table |-> NoTable, solo |-> FALSE]
    /\ given = Taken(users)
    /\ unrevoked = {} /\ doubled = {} /\ unsynced = FALSE
    /\ requests = 0 /\ faults = 0

RequestStep(r) ==
    \/ \E n \in Names, p \in Pwds, role \in Roles : Register(r, n, p, role)
    \/ \E id \in Ids : Create(r, id)
    \/ \E n \in Names : Login(r, n)
    \/ SignIn(r)
    \/ \E id \in Ids, p \in Pwds : ChangePassword(r, id, p)
    \/ SetPassword(r)
    \/ \E id \in Ids, role \in Roles : ChangeRole(r, id, role)
    \/ \E id \in Ids : Delete(r, id) \/ UpdateProfile(r, id)
    \/ Truncate(r) \/ StoreSector(r) \/ Fill(r) \/ WriteFails(r)

Next ==
    \/ \E r \in Requests : RequestStep(r)
    \/ \E s \in sessions : Refresh(s) \/ Expire(s)
    \/ \E id \in Ids : Logout(id)
    \/ \E id \in Ids, p \in Pwds : ScriptReads(id, p)
    \/ ScriptWrites \/ ReloadReads \/ ReloadApplies
    \/ \E kept \in {{}, sessions} : Restart(kept)

Spec == Init /\ [][Next]_vars

----------------------------------------------------------------------------
(* Properties.                                                              *)

\* A suspended request, with what it needs in hand for its next step.
Request ==
    {q \in [op : {"none", "register", "sector", "login", "password", "role", "delete", "profile"},
            at : {"idle", "bcrypt", "truncate", "fill"}, id : Ids \cup {Nobody},
            name : Names \cup {Nobody}, pwd : Pwds \cup {Nobody}, role : Roles, table : Table,
            held : BOOLEAN, late : BOOLEAN, solo : BOOLEAN] :
        /\ q.op = "register" => q.name \in Names
        /\ q.op \in {"register", "sector", "login", "password"} => q.pwd \in Pwds
        /\ q.at \in {"truncate", "fill"} \/ q.op \in {"login", "password"} => q.id \in Ids}

Script == [at : {"idle", "hash", "signal", "read", "done"}, id : Ids \cup {Nobody},
           table : Table, solo : BOOLEAN]

\* Every variable has its type.
TypeOK ==
    /\ users \in Table
    /\ index \in [Names -> Ids \cup {Nobody}]
    /\ file \in File
    /\ sessions \subseteq Session
    /\ req \in [Requests -> Request]
    /\ script \in Script
    /\ given \subseteq Ids /\ unrevoked \subseteq Ids /\ doubled \subseteq Names
    /\ unsynced \in BOOLEAN
    /\ requests \in 0..MaxRequests /\ faults \in 0..MaxFaults

\* "Invalidate all sessions for this user" (auth.ts:243), "for the deleted
\* user" (users.ts:192): whoever is signed in presented the password the
\* account has now, unless the login was being compared, or the
\* registration written, when the account changed, or the change was never
\* followed by its revocation (a failed write, a reload, a restart).
PasswordChangesRevoke ==
    \A s \in sessions :
        \/ users[s.id] # NoUser /\ users[s.id].pwd = s.proof
        \/ s.late \/ s.id \in unrevoked \/ Revoking(s.id)

\* "so role change takes effect immediately" (users.ts:120): a session carries
\* the role its account has, under the same exceptions; a login that was being
\* compared when the role changed is none, because it holds the user object
\* and not a copy, unless a reload took that object out of the store.
RoleChangesRevoke ==
    \A s \in sessions :
        \/ users[s.id] = NoUser \/ users[s.id].role = s.role
        \/ s.late \/ s.id \in unrevoked \/ Revoking(s.id)

\* There is always an admin while there are users, whatever requests of
\* several admins, reloads and restarts do.
AdminRemains == Taken(users) # {} => Admins(users) # {}

\* Every account can be found by its name, unless a name was registered twice.
EveryoneIsFound ==
    \A id \in Taken(users) :
        index[users[id].name] = id \/ users[id].name \in doubled

\* When no write is under way the file holds the accounts in memory, unless
\* the last accesses to it overlapped or failed.
FileAgrees ==
    \/ \E r \in Requests : Writing(r)
    \/ unsynced
    \/ file = Whole(users)

\* "Check for duplicate username" (auth.ts:117).
NamesAreUnique ==
    \A i, j \in Taken(users) : users[i].name = users[j].name => i = j

\* "After reset, all existing sessions for the user are invalidated"
\* (reset-admin-password.sh:14).
ResetEndsSessions ==
    [][ReloadApplies => \A s \in sessions' :
           users'[s.id] # NoUser => s.proof = users'[s.id].pwd]_vars

=============================================================================
