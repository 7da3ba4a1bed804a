--------------------------- MODULE AccountsProofs ---------------------------
(* Proofs about Accounts: types, the index by name, the admin that always  *)
(* remains, the file that agrees with memory, and the sessions that a      *)
(* change of password or role ends.                                        *)
EXTENDS Accounts, TLAPS

\* The index names accounts that exist, each under its own name.
IndexNames ==
    \A n \in Names : index[n] # Nobody => users[index[n]] # NoUser /\ users[index[n]].name = n

\* One step, by who takes it.
Ask(r) ==
    \/ \E n \in Names, p \in Pwds, role \in Roles : Register(r, n, p, role)
    \/ \E n \in Names : Login(r, n)
    \/ \E id \in Ids, p \in Pwds : ChangePassword(r, id, p)
Change(r) ==
    \/ \E id \in Ids : Create(r, id)
    \/ SetPassword(r)
    \/ \E id \in Ids, role \in Roles : ChangeRole(r, id, role)
    \/ \E id \in Ids : Delete(r, id) \/ UpdateProfile(r, id)
    \/ StoreSector(r)
Finish(r) == SignIn(r) \/ Truncate(r) \/ Fill(r) \/ WriteFails(r)
Ends == \/ \E s \in sessions : Refresh(s) \/ Expire(s)
        \/ \E id \in Ids : Logout(id)
Outside ==
    \/ \E id \in Ids, p \in Pwds : ScriptReads(id, p)
    \/ ScriptWrites \/ ReloadReads \/ ReloadApplies
    \/ \E kept \in {{}, sessions} : Restart(kept)

LEMMA NextCases ==
    ASSUME Next
    PROVE  \/ \E r \in Requests : Ask(r) \/ Change(r) \/ Finish(r)
           \/ Ends \/ Outside
  BY DEF Next, RequestStep, Ask, Change, Finish, Ends, Outside

LEMMA NoTableType == NoTable \in Table /\ Taken(NoTable) = {}
  BY DEF NoTable, Table, Taken

LEMMA IdleType == Idle \in Request
  BY NoTableType DEF Idle, Request, Roles

\* The flags of a request are not what it needs in hand.
LEMMA FlagTypes ==
    ASSUME NEW q \in Request, NEW b \in BOOLEAN, NEW role \in Roles
    PROVE  /\ [q EXCEPT !.solo = b] \in Request
           /\ [q EXCEPT !.late = b] \in Request
           /\ [q EXCEPT !.late = TRUE, !.held = FALSE] \in Request
           /\ [q EXCEPT !.role = role] \in Request
           /\ [q EXCEPT !.solo = FALSE, !.held = FALSE, !.late = b] \in Request
  <1>1. [q EXCEPT !.solo = b] \in Request
    BY DEF Request
  <1>2. [q EXCEPT !.late = b] \in Request
    BY DEF Request
  <1>3. [q EXCEPT !.late = TRUE, !.held = FALSE] \in Request
    BY DEF Request
  <1>4. [q EXCEPT !.role = role] \in Request
    BY DEF Request
  <1>5. [q EXCEPT !.solo = FALSE, !.held = FALSE, !.late = b] \in Request
    BY DEF Request
  <1> QED BY <1>1, <1>2, <1>3, <1>4, <1>5

\* What a write leaves in hand.
LEMMA PersistTypes ==
    ASSUME NEW r \in Requests, NEW q \in Request, NEW others \in [Requests -> Request],
           users' \in Table, script \in Script, q.id \in Ids, Persist(r, q, others)
    PROVE  req' \in [Requests -> Request] /\ script' \in Script
  <1>1. script' \in Script
    BY DEF Persist, Script
  <1>2. ASSUME NEW o \in Request PROVE [o EXCEPT !.solo = FALSE] \in Request
    BY <1>2, FlagTypes, FALSE \in BOOLEAN DEF Roles
  <1>3. ASSUME NEW b \in BOOLEAN
        PROVE  [q EXCEPT !.at = "truncate", !.table = users', !.solo = b] \in Request
    BY DEF Request
  <1> DEFINE alone == ~ Reloading /\ \A o \in Requests \ {r} : ~ Writing(o)
             mine  == [q EXCEPT !.at = "truncate", !.table = users', !.solo = alone]
  <1>4. mine \in Request
    <2>1. alone \in BOOLEAN
      OBVIOUS
    <2> HIDE DEF alone
    <2> QED BY <1>3, <2>1
  <1>5. req' = [p \in Requests |-> IF p = r THEN mine ELSE [others[p] EXCEPT !.solo = FALSE]]
    BY DEF Persist
  <1> HIDE DEF mine
  <1>6. req' \in [Requests -> Request]
    BY <1>2, <1>4, <1>5
  <1> QED BY <1>1, <1>6

----------------------------------------------------------------------------
(* Types.                                                                   *)

\* What a request that begins has in hand.
LEMMA RegisterType ==
    ASSUME NEW n \in Names, NEW p \in Pwds, NEW role \in Roles
    PROVE  [Idle EXCEPT !.op = "register", !.at = "bcrypt", !.name = n, !.pwd = p, !.role = role]
             \in {q \in Request : q.table = NoTable}
  BY NoTableType DEF Idle, Request, Roles

LEMMA LoginType ==
    ASSUME NEW p \in Pwds, NEW role \in Roles, NEW id \in Ids
    PROVE  [Idle EXCEPT !.op = "login", !.at = "bcrypt", !.id = id, !.pwd = p, !.role = role,
                        !.held = TRUE] \in {q \in Request : q.table = NoTable}
  BY NoTableType DEF Idle, Request, Roles

LEMMA PasswordType ==
    ASSUME NEW p \in Pwds, NEW id \in Ids
    PROVE  [Idle EXCEPT !.op = "password", !.at = "bcrypt", !.id = id, !.pwd = p]
             \in {q \in Request : q.table = NoTable}
  BY NoTableType DEF Idle, Request, Roles

LEMMA WriteType ==
    ASSUME NEW op \in {"role", "delete", "profile"}, NEW id \in Ids
    PROVE  [Idle EXCEPT !.op = op, !.id = id] \in Request
           /\ [Idle EXCEPT !.op = op, !.id = id].id = id
  BY NoTableType DEF Idle, Request, Roles

LEMMA AskNext ==
    ASSUME TypeOK, IndexNames, NEW r \in Requests, Ask(r)
    PROVE  /\ \E q \in Request : q.table = NoTable /\ req' = [req EXCEPT ![r] = q]
           /\ UNCHANGED <<store, sessions, script, given, history>>
  <1>1. ASSUME NEW n \in Names, NEW p \in Pwds, NEW role \in Roles, Register(r, n, p, role)
        PROVE  /\ \E q \in Request : q.table = NoTable /\ req' = [req EXCEPT ![r] = q]
               /\ UNCHANGED <<store, sessions, script, given, history>>
    BY <1>1, RegisterType DEF Register
  <1>2. ASSUME NEW n \in Names, Login(r, n)
        PROVE  /\ \E q \in Request : q.table = NoTable /\ req' = [req EXCEPT ![r] = q]
               /\ UNCHANGED <<store, sessions, script, given, history>>
    <2>1. index[n] \in Ids /\ users[index[n]] \in User
      BY <1>2 DEF Login, TypeOK, IndexNames, Table
    <2>2. users[index[n]].pwd \in Pwds /\ users[index[n]].role \in Roles
      BY <2>1 DEF User
    <2> QED BY <1>2, <2>1, <2>2, LoginType DEF Login
  <1>3. ASSUME NEW id \in Ids, NEW p \in Pwds, ChangePassword(r, id, p)
        PROVE  /\ \E q \in Request : q.table = NoTable /\ req' = [req EXCEPT ![r] = q]
               /\ UNCHANGED <<store, sessions, script, given, history>>
    BY <1>3, PasswordType DEF ChangePassword
  <1> QED BY <1>1, <1>2, <1>3 DEF Ask

\* A user object changed in place.
LEMMA UserTypes ==
    ASSUME TypeOK, NEW id \in Ids, users[id] # NoUser, NEW p \in Pwds, NEW role \in Roles
    PROVE  /\ users[id] \in User
           /\ [users EXCEPT ![id].pwd = p] \in Table
           /\ [users EXCEPT ![id].role = role] \in Table
  <1>1. users \in [Ids -> User \cup {NoUser}] /\ users[id] \in User
    BY DEF TypeOK, Table
  <1>2. [users[id] EXCEPT !.pwd = p] \in User /\ [users[id] EXCEPT !.role = role] \in User
    BY <1>1 DEF User
  <1> QED BY <1>1, <1>2 DEF Table

\* The handlers that change the table and go to write it.
LEMMA ChangeNext ==
    ASSUME TypeOK, IndexNames, NEW r \in Requests, Change(r)
    PROVE  /\ req' \in [Requests -> Request] /\ script' \in Script
           /\ users' \in Table /\ index' \in [Names -> Ids \cup {Nobody}]
  <1>0. /\ req \in [Requests -> Request] /\ script \in Script /\ users \in Table
        /\ index \in [Names -> Ids \cup {Nobody}] /\ req[r] \in Request
    BY DEF TypeOK
  <1>1. ASSUME NEW id \in Ids, Create(r, id)
        PROVE  /\ req' \in [Requests -> Request] /\ script' \in Script
               /\ users' \in Table /\ index' \in [Names -> Ids \cup {Nobody}]
    <2>1. req[r].name \in Names /\ req[r].pwd \in Pwds /\ req[r].role \in Roles
      BY <1>0, <1>1 DEF Create, Request
    <2>2. users' \in Table /\ index' \in [Names -> Ids \cup {Nobody}]
      BY <1>0, <1>1, <2>1 DEF Create, Table, User
    <2>3. [req[r] EXCEPT !.id = id, !.held = TRUE] \in Request
          /\ [req[r] EXCEPT !.id = id, !.held = TRUE].id = id
      BY <1>0, <2>1 DEF Request
    <2> QED BY <1>0, <1>1, <2>2, <2>3, PersistTypes DEF Create
  <1>2. CASE SetPassword(r)
    <2>1. req[r].id \in Ids /\ req[r].pwd \in Pwds
      BY <1>0, <1>2 DEF SetPassword, Request
    <2>2. CASE users[req[r].id] = NoUser
      BY <1>0, <1>2, <2>2, IdleType DEF SetPassword
    <2>3. CASE users[req[r].id] # NoUser
      <3> DEFINE others == [p \in Requests |-> IF Holds(p, req[r].id)
                                               THEN [req[p] EXCEPT !.late = TRUE] ELSE req[p]]
      <3>1. ASSUME NEW q \in Request PROVE [q EXCEPT !.late = TRUE] \in Request
        BY <3>1, FlagTypes, TRUE \in BOOLEAN DEF Roles
      <3>2. others \in [Requests -> Request]
        BY <1>0, <3>1
      <3>3. /\ Persist(r, req[r], others) /\ index' = index
            /\ users' = [users EXCEPT ![req[r].id].pwd = req[r].pwd]
        BY <1>2, <2>3 DEF SetPassword
      <3>4. users' \in Table
        BY <2>1, <2>3, <3>3, UserTypes DEF Roles
      <3> HIDE DEF others
      <3> QED BY <1>0, <2>1, <3>2, <3>3, <3>4, PersistTypes
    <2> QED BY <2>2, <2>3
  <1>3. ASSUME NEW id \in Ids, NEW role \in Roles, ChangeRole(r, id, role)
        PROVE  /\ req' \in [Requests -> Request] /\ script' \in Script
               /\ users' \in Table /\ index' \in [Names -> Ids \cup {Nobody}]
    <2> DEFINE others == [p \in Requests |-> IF Holds(p, id) /\ req[p].held
                                             THEN [req[p] EXCEPT !.role = role] ELSE req[p]]
    <2>1. others \in [Requests -> Request]
      BY <1>0, FlagTypes, TRUE \in BOOLEAN
    <2>2. /\ Persist(r, [Idle EXCEPT !.op = "role", !.id = id], others) /\ index' = index
          /\ users' = [users EXCEPT ![id].role = role] /\ users[id] # NoUser
      BY <1>3 DEF ChangeRole
    <2>3. users' \in Table
      <3>1. users[id] \in User
        BY <1>0, <2>2 DEF Table
      <3> QED BY <2>2, <3>1, UserTypes DEF User
    <2> HIDE DEF others
    <2> QED BY <1>0, <2>1, <2>2, <2>3, WriteType, PersistTypes
  <1>4. ASSUME NEW id \in Ids, Delete(r, id)
        PROVE  /\ req' \in [Requests -> Request] /\ script' \in Script
               /\ users' \in Table /\ index' \in [Names -> Ids \cup {Nobody}]
    <2> DEFINE others == [p \in Requests |-> IF Holds(p, id)
                                             THEN [req[p] EXCEPT !.late = TRUE, !.held = FALSE]
                                             ELSE req[p]]
    <2>1. others \in [Requests -> Request]
      <3>1. ASSUME NEW q \in Request PROVE [q EXCEPT !.late = TRUE, !.held = FALSE] \in Request
        BY <3>1, FlagTypes, TRUE \in BOOLEAN DEF Roles
      <3> QED BY <1>0, <3>1
    <2>2. /\ Persist(r, [Idle EXCEPT !.op = "delete", !.id = id], others)
          /\ index' = [index EXCEPT ![users[id].name] = Nobody]
          /\ users' = [users EXCEPT ![id] = NoUser]
      BY <1>4 DEF Delete
    <2>3. users' \in Table /\ index' \in [Names -> Ids \cup {Nobody}]
      BY <1>0, <2>2 DEF Table
    <2> HIDE DEF others
    <2> QED BY <1>0, <2>1, <2>2, <2>3, WriteType, PersistTypes
  <1>5. ASSUME NEW id \in Ids, UpdateProfile(r, id)
        PROVE  /\ req' \in [Requests -> Request] /\ script' \in Script
               /\ users' \in Table /\ index' \in [Names -> Ids \cup {Nobody}]
    BY <1>0, <1>5, WriteType, PersistTypes DEF UpdateProfile
  <1>6. CASE StoreSector(r)
    <2>1. req[r].op = "register" /\ req[r].at = "fill"
      BY <1>6 DEF StoreSector, Filled
    <2>2. [req[r] EXCEPT !.op = "sector"] \in Request
          /\ [req[r] EXCEPT !.op = "sector"].id \in Ids
      BY <1>0, <2>1 DEF Request
    <2> QED BY <1>0, <1>6, <2>2, PersistTypes DEF StoreSector
  <1> QED BY <1>1, <1>2, <1>3, <1>4, <1>5, <1>6 DEF Change

\* Everything that a step of the stores or the requests leaves typed.
StoreTypes ==
    /\ req \in [Requests -> Request] /\ script \in Script
    /\ users \in Table /\ index \in [Names -> Ids \cup {Nobody}] /\ file \in File

LEMMA FinishNext ==
    ASSUME TypeOK, NEW r \in Requests, Finish(r)
    PROVE  StoreTypes'
  <1>0. StoreTypes /\ req[r] \in Request
    BY DEF TypeOK, StoreTypes
  <1>1. CASE SignIn(r)
    BY <1>0, <1>1, IdleType DEF SignIn, StoreTypes, store
  <1>2. CASE Truncate(r)
    <2>1. [req[r] EXCEPT !.at = "fill"] \in Request
      BY <1>0, <1>2 DEF Truncate, Request
    <2> QED BY <1>0, <1>2, <2>1, NoTableType DEF Truncate, StoreTypes, File, Empty
  <1>3. CASE Fill(r)
    <2>1. req[r].table \in Table
      BY <1>0 DEF Request
    <2>2. file' \in File
      BY <1>3, <2>1, NoTableType DEF Fill, Filled, File, Whole, Torn
    <2> QED BY <1>0, <1>3, <2>2, IdleType DEF Fill, StoreTypes
  <1>4. CASE WriteFails(r)
    BY <1>0, <1>4, IdleType DEF WriteFails, StoreTypes, store
  <1> QED BY <1>1, <1>2, <1>3, <1>4 DEF Finish

LEMMA RebuiltType ==
    ASSUME NEW t, NEW i \in Rebuilt(t)
    PROVE  i \in [Names -> Ids \cup {Nobody}]
  BY DEF Rebuilt, IndexOf

LEMMA LoadedType ==
    ASSUME TypeOK
    PROVE  Loaded \in Table
  BY NoTableType DEF Loaded, TypeOK, File

LEMMA OutsideNext ==
    ASSUME TypeOK, Outside
    PROVE  StoreTypes'
  <1>0. StoreTypes
    BY DEF TypeOK, StoreTypes
  <1>1. ASSUME NEW id \in Ids, NEW p \in Pwds, ScriptReads(id, p) PROVE StoreTypes'
    <2>1. file.table \in Table /\ file.table[id] \in User
      BY <1>0, <1>1 DEF ScriptReads, StoreTypes, File, Table
    <2>2. [file.table[id] EXCEPT !.pwd = p] \in User
      BY <2>1 DEF User
    <2>3. [file.table EXCEPT ![id].pwd = p] \in Table
      BY <2>1, <2>2 DEF Table
    <2> QED BY <1>0, <1>1, <2>3 DEF ScriptReads, StoreTypes, Script, store
  <1>2. CASE ScriptWrites
    <2>1. script.table \in Table /\ script' \in Script
      BY <1>0, <1>2, NoTableType DEF ScriptWrites, StoreTypes, Script
    <2>2. req' \in [Requests -> Request]
      <3>1. ASSUME NEW q \in Request PROVE [q EXCEPT !.solo = FALSE] \in Request
        BY <3>1, FlagTypes, FALSE \in BOOLEAN DEF Roles
      <3> QED BY <1>0, <1>2, <3>1 DEF ScriptWrites, StoreTypes
    <2>3. file' \in File
      BY <1>2, <2>1 DEF ScriptWrites, File, Whole
    <2> QED BY <1>0, <1>2, <2>1, <2>2, <2>3 DEF ScriptWrites, StoreTypes
  <1>3. CASE ReloadReads
    <2>1. ScriptDone \in Script
      BY NoTableType DEF ScriptDone, Script
    <2>2. file.table \in Table
      BY <1>0 DEF StoreTypes, File
    <2>3. CASE file.state = "whole"
      <3> DEFINE alone == \A r \in Requests : ~ Writing(r)
      <3>1. alone \in BOOLEAN /\ script' = [script EXCEPT !.at = "read", !.table = file.table,
                                                        !.solo = alone]
        BY <1>3, <2>3 DEF ReloadReads
      <3> HIDE DEF alone
      <3>2. script' \in Script
        BY <1>0, <2>2, <3>1 DEF StoreTypes, Script
      <3> QED BY <1>0, <1>3, <3>2 DEF ReloadReads, StoreTypes, store
    <2>4. CASE file.state # "whole"
      BY <1>0, <1>3, <2>1, <2>4 DEF ReloadReads, StoreTypes, store
    <2> QED BY <2>3, <2>4
  <1>4. CASE ReloadApplies
    <2>1. script.table \in Table
      BY <1>0 DEF StoreTypes, Script
    <2>2. ScriptDone \in Script
      BY NoTableType DEF ScriptDone, Script
    <2>3. req' \in [Requests -> Request]
      <3>1. ASSUME NEW q \in Request
            PROVE  [q EXCEPT !.solo = FALSE, !.held = FALSE, !.late = @ \/ q.held] \in Request
        <4>1. (q.late \/ q.held) \in BOOLEAN
          OBVIOUS
        <4>2. ASSUME NEW b \in BOOLEAN
              PROVE  [q EXCEPT !.solo = FALSE, !.held = FALSE, !.late = b] \in Request
          BY <3>1, <4>2, FlagTypes DEF Roles
        <4> QED BY <4>1, <4>2
      <3> QED BY <1>0, <1>4, <3>1 DEF ReloadApplies, StoreTypes
    <2>4. index' \in [Names -> Ids \cup {Nobody}]
      BY <1>4, RebuiltType DEF ReloadApplies
    <2> QED BY <1>0, <1>4, <2>1, <2>2, <2>3, <2>4 DEF ReloadApplies, StoreTypes
  <1>5. ASSUME NEW kept \in {{}, sessions}, Restart(kept) PROVE StoreTypes'
    <2>1. index' \in [Names -> Ids \cup {Nobody}]
      BY <1>5, RebuiltType DEF Restart
    <2>2. script' \in Script
      BY <1>0, <1>5, NoTableType DEF Restart, StoreTypes, ScriptDone, Script
    <2> QED BY <1>0, <1>5, <2>1, <2>2, LoadedType, IdleType
            DEF Restart, StoreTypes, File, Whole
  <1> QED BY <1>1, <1>2, <1>3, <1>4, <1>5 DEF Outside

LEMMA StoreNext ==
    ASSUME TypeOK, IndexNames, Next
    PROVE  StoreTypes'
  <1>0. StoreTypes
    BY DEF TypeOK, StoreTypes
  <1>1. ASSUME NEW r \in Requests, Ask(r) PROVE StoreTypes'
    <2>1. PICK q \in Request : req' = [req EXCEPT ![r] = q]
      BY <1>1, AskNext
    <2> QED BY <1>0, <1>1, <2>1, AskNext DEF StoreTypes, store
  <1>2. ASSUME NEW r \in Requests, Change(r) PROVE StoreTypes'
    <2>1. file' \in File
      <3>1. CASE StoreSector(r)
        <4>1. req[r].table \in Table
          BY <1>0 DEF StoreTypes, Request
        <4> QED BY <1>0, <3>1, <4>1, NoTableType DEF StoreSector, Filled, File, Whole, Torn
      <3>2. CASE ~ StoreSector(r)
        BY <1>0, <1>2, <3>2
        DEF Change, Create, SetPassword, ChangeRole, Delete, UpdateProfile, StoreTypes
      <3> QED BY <3>1, <3>2
    <2> QED BY <1>2, <2>1, ChangeNext DEF StoreTypes
  <1>3. ASSUME NEW r \in Requests, Finish(r) PROVE StoreTypes'
    BY <1>3, FinishNext
  <1>4. CASE Ends
    BY <1>0, <1>4 DEF Ends, Refresh, Expire, Logout, StoreTypes, store
  <1>5. CASE Outside
    BY <1>5, OutsideNext
  <1> QED BY <1>1, <1>2, <1>3, <1>4, <1>5, NextCases

LEMMA SessionNext ==
    ASSUME TypeOK, Next
    PROVE  sessions' \subseteq Session
  <1>0. sessions \subseteq Session /\ \A id : Revoked(id) \subseteq Session
    BY DEF TypeOK, Revoked
  <1>1. ASSUME NEW id \in Ids, NEW role \in Roles, NEW proof \in Pwds, NEW late \in BOOLEAN
        PROVE  Pair(id, role, proof, late) \subseteq Session
    BY <1>1 DEF Pair, Session
  <1>2. ASSUME NEW r \in Requests, Ask(r) \/ Change(r) PROVE sessions' \subseteq Session
    <2>1. CASE Ask(r)
      BY <1>0, <2>1 DEF Ask, Register, Login, ChangePassword
    <2>2. ASSUME NEW id \in Ids, Delete(r, id) PROVE sessions' \subseteq Session
      BY <1>0, <2>2 DEF Delete
    <2>3. ASSUME NEW id \in Ids, NEW role \in Roles, ChangeRole(r, id, role)
          PROVE  sessions' \subseteq Session
      BY <1>0, <2>3 DEF ChangeRole
    <2>4. CASE Change(r)
      BY <1>0, <2>2, <2>3, <2>4 DEF Change, Create, SetPassword, UpdateProfile, StoreSector
    <2> QED BY <1>2, <2>1, <2>4
  <1>3. ASSUME NEW r \in Requests, Finish(r) PROVE sessions' \subseteq Session
    <2>0. req[r] \in Request
      BY DEF TypeOK
    <2>1. CASE SignIn(r)
      <3>1. Pair(req[r].id, req[r].role, req[r].pwd, req[r].late) \subseteq Session
        BY <1>1, <2>0, <2>1 DEF SignIn, Request
      <3> QED BY <1>0, <2>1, <3>1 DEF SignIn
    <2>2. CASE Truncate(r) \/ WriteFails(r)
      BY <1>0, <2>2 DEF Truncate, WriteFails
    <2>3. CASE Fill(r)
      <3>1. CASE req[r].op \in {"register", "sector"}
        <4>1. req[r].at = "fill"
          BY <2>3 DEF Fill, Filled
        <4>2. Pair(req[r].id, req[r].role, req[r].pwd, req[r].late) \subseteq Session
          BY <1>1, <2>0, <3>1, <4>1 DEF Request
        <4> QED BY <1>0, <2>3, <3>1, <4>2 DEF Fill, Answer
      <3>2. CASE req[r].op \notin {"register", "sector"}
        BY <1>0, <2>3, <3>2 DEF Fill, Answer
      <3> QED BY <3>1, <3>2
    <2> QED BY <1>3, <2>1, <2>2, <2>3 DEF Finish
  <1>4. CASE Ends
    <2>1. ASSUME NEW s \in sessions, Refresh(s) PROVE sessions' \subseteq Session
      <3>1. s.id \in Ids /\ s.proof \in Pwds /\ s.late \in BOOLEAN
        BY <1>0, <2>1 DEF Session
      <3>2. users[s.id].role \in Roles
        BY <2>1, <3>1 DEF Refresh, TypeOK, Table, User
      <3>3. Pair(s.id, users[s.id].role, s.proof, s.late) \subseteq Session
        BY <1>1, <3>1, <3>2
      <3> QED BY <1>0, <2>1, <3>3 DEF Refresh
    <2>2. ASSUME NEW s \in sessions, Expire(s) PROVE sessions' \subseteq Session
      BY <1>0, <2>2 DEF Expire
    <2>3. ASSUME NEW id \in Ids, Logout(id) PROVE sessions' \subseteq Session
      BY <1>0, <2>3 DEF Logout
    <2> QED BY <1>4, <2>1, <2>2, <2>3 DEF Ends
  <1>5. CASE Outside
    BY <1>0, <1>5 DEF Outside, ScriptReads, ScriptWrites, ReloadReads, ReloadApplies, Restart
  <1> QED BY <1>2, <1>3, <1>4, <1>5, NextCases

\* The history and the bounds.
HistoryTypes ==
    /\ given \subseteq Ids /\ unrevoked \subseteq Ids /\ doubled \subseteq Names
    /\ unsynced \in BOOLEAN

LEMMA HistoryNext ==
    ASSUME TypeOK, Next
    PROVE  HistoryTypes' /\ given \subseteq given' /\ doubled \subseteq doubled'
  <1>0. HistoryTypes /\ \A r \in Requests : req[r] \in Request
    BY DEF TypeOK, HistoryTypes
  <1> USE DEF HistoryTypes, history
  <1>1. ASSUME NEW r \in Requests, Ask(r)
        PROVE  HistoryTypes' /\ given \subseteq given' /\ doubled \subseteq doubled'
    BY <1>0, <1>1 DEF Ask, Register, Login, ChangePassword
  <1>2. ASSUME NEW r \in Requests, Change(r)
        PROVE  HistoryTypes' /\ given \subseteq given' /\ doubled \subseteq doubled'
    <2>1. ASSUME NEW id \in Ids, Create(r, id)
          PROVE  HistoryTypes' /\ given \subseteq given' /\ doubled \subseteq doubled'
      <3>1. req[r].name \in Names
        BY <1>0, <2>1 DEF Create, Request
      <3> QED BY <1>0, <2>1, <3>1 DEF Create
    <2>2. CASE ~ \E id \in Ids : Create(r, id)
      BY <1>0, <1>2, <2>2 DEF Change, SetPassword, ChangeRole, Delete, UpdateProfile, StoreSector
    <2> QED BY <2>1, <2>2
  <1>3. ASSUME NEW r \in Requests, Finish(r)
        PROVE  HistoryTypes' /\ given \subseteq given' /\ doubled \subseteq doubled'
    <2>1. CASE SignIn(r) \/ Truncate(r)
      BY <1>0, <2>1 DEF SignIn, Truncate
    <2>2. CASE Fill(r)
      <3>1. unrevoked' \subseteq unrevoked
        BY <2>2 DEF Fill, Answer
      <3>2. unsynced' \in BOOLEAN
        BY <1>0, <2>2 DEF Fill, Request
      <3> QED BY <1>0, <2>2, <3>1, <3>2 DEF Fill
    <2>3. CASE WriteFails(r)
      <3>1. req[r].id \in Ids
        BY <1>0, <2>3 DEF WriteFails, Writing, Request
      <3> QED BY <1>0, <2>3, <3>1 DEF WriteFails
    <2> QED BY <1>3, <2>1, <2>2, <2>3 DEF Finish
  <1>4. CASE Ends
    BY <1>0, <1>4 DEF Ends, Refresh, Expire, Logout
  <1>5. CASE Outside
    <2>1. ASSUME ReloadApplies
          PROVE  HistoryTypes' /\ given \subseteq given' /\ doubled \subseteq doubled'
      <3>1. unsynced' \in BOOLEAN
        BY <2>1 DEF ReloadApplies
      <3> QED BY <1>0, <2>1, <3>1 DEF ReloadApplies
    <2>2. CASE ~ ReloadApplies
      BY <1>0, <1>5, <2>2 DEF Outside, ScriptReads, ScriptWrites, ReloadReads, Restart
    <2> QED BY <2>1, <2>2
  <1> QED BY <1>1, <1>2, <1>3, <1>4, <1>5, NextCases

LEMMA BoundsNext ==
    ASSUME TypeOK, Next
    PROVE  requests' \in 0..MaxRequests /\ faults' \in 0..MaxFaults
  <1>1. requests' = requests \/ (requests < MaxRequests /\ requests' = requests + 1)
    BY DEF Next, RequestStep, Begins, Register, Login, ChangePassword, Create, SetPassword,
           ChangeRole, Delete, UpdateProfile, StoreSector, SignIn, Truncate, Fill, WriteFails,
           Refresh, Expire, Logout, ScriptReads, ScriptWrites, ReloadReads, ReloadApplies,
           Restart, bounds
  <1>2. faults' = faults \/ (faults < MaxFaults /\ faults' = faults + 1)
    BY DEF Next, RequestStep, Begins, Register, Login, ChangePassword, Create, SetPassword,
           ChangeRole, Delete, UpdateProfile, StoreSector, SignIn, Truncate, Fill, WriteFails,
           Refresh, Expire, Logout, ScriptReads, ScriptWrites, ReloadReads, ReloadApplies,
           Restart, bounds
  <1> QED BY <1>1, <1>2, AccountsAssumption DEF TypeOK

LEMMA TypesNext ==
    ASSUME TypeOK, IndexNames, Next
    PROVE  TypeOK'
  BY StoreNext, SessionNext, HistoryNext, BoundsNext DEF TypeOK, StoreTypes, HistoryTypes

----------------------------------------------------------------------------
(* Every table in memory, in the file and on its way between the two.      *)

\* A table of accounts that were given out, with no name twice but those that
\* were registered twice.
Good(t, g, d) ==
    /\ t \in Table /\ Taken(t) \subseteq g
    /\ \A i, j \in Taken(t) : t[i].name = t[j].name => i = j \/ t[i].name \in d

AllGood ==
    /\ Good(users, given, doubled) /\ Good(file.table, given, doubled)
    /\ Good(script.table, given, doubled)
    /\ \A r \in Requests : Good(req[r].table, given, doubled)

LEMMA GoodStays ==
    ASSUME NEW t, Good(t, given, doubled), given \subseteq given', doubled \subseteq doubled'
    PROVE  Good(t, given', doubled')
  BY DEF Good

LEMMA NoTableGood == \A g, d : Good(NoTable, g, d)
  BY NoTableType DEF Good

\* A change of a password or a role leaves names and accounts alone.
LEMMA ChangedStaysGood ==
    ASSUME NEW t, NEW g, NEW d, Good(t, g, d), NEW id \in Ids, t[id] # NoUser,
           NEW u \in User, u.name = t[id].name, NEW new, new = [t EXCEPT ![id] = u]
    PROVE  Good(new, g, d)
  <1>1. t \in [Ids -> User \cup {NoUser}] /\ new \in [Ids -> User \cup {NoUser}]
    BY DEF Good, Table
  <1>2. Taken(new) = Taken(t)
    BY <1>1, AccountsAssumption DEF Taken
  <1>3. \A i \in Taken(t) : new[i].name = t[i].name
    BY <1>1 DEF Taken
  <1> QED BY <1>1, <1>2, <1>3 DEF Good, Table

\* The tables of the requests after a write was begun.
LEMMA PersistTables ==
    ASSUME NEW r \in Requests, NEW q \in Request, NEW others \in [Requests -> Request],
           script \in Script, Persist(r, q, others), NEW p \in Requests
    PROVE  /\ req'[p].table \in {users', others[p].table}
           /\ script'.table = script.table
  <1>1. script'.table = script.table
    <2>1. script' = [script EXCEPT !.solo = FALSE]
      BY DEF Persist
    <2> QED BY <2>1 DEF Script
  <1>2. CASE p = r
    <2> DEFINE alone == ~ Reloading /\ \A o \in Requests \ {r} : ~ Writing(o)
    <2>1. req'[p] = [q EXCEPT !.at = "truncate", !.table = users', !.solo = alone]
      BY <1>2 DEF Persist
    <2> HIDE DEF alone
    <2>2. req'[p].table = users'
      BY <2>1 DEF Request
    <2> QED BY <1>1, <2>2
  <1>3. CASE p # r
    <2>1. others[p] \in Request
      OBVIOUS
    <2>2. req'[p] = [others[p] EXCEPT !.solo = FALSE]
      BY <1>3 DEF Persist
    <2>3. req'[p].table = others[p].table
      BY <2>1, <2>2 DEF Request
    <2> QED BY <1>1, <2>3
  <1> QED BY <1>1, <1>2, <1>3

LEMMA TablesNext ==
    ASSUME TypeOK, IndexNames, EveryoneIsFound, AllGood, Next
    PROVE  AllGood'
  <1>0. /\ req \in [Requests -> Request] /\ script \in Script /\ users \in Table
        /\ \A r \in Requests : req[r] \in Request
    BY DEF TypeOK
  <1>1. given \subseteq given' /\ doubled \subseteq doubled'
    BY HistoryNext
  <1>2. /\ Good(users, given', doubled') /\ Good(file.table, given', doubled')
        /\ Good(script.table, given', doubled') /\ Good(NoTable, given', doubled')
        /\ \A r \in Requests : Good(req[r].table, given', doubled')
    BY <1>1, GoodStays, NoTableGood DEF AllGood
  <1> DEFINE Fine(t) == Good(t, given', doubled')
  <1>3. ASSUME Fine(users'), Fine(file'.table), Fine(script'.table),
               \A r \in Requests : Fine(req'[r].table)
        PROVE  AllGood'
    BY <1>3 DEF AllGood
  <1>4. ASSUME NEW r \in Requests, Ask(r) PROVE AllGood'
    <2>1. PICK q \in Request : q.table = NoTable /\ req' = [req EXCEPT ![r] = q]
      BY <1>4, AskNext
    <2>2. UNCHANGED <<users, file, script>>
      BY <1>4, AskNext DEF store
    <2>3. \A p \in Requests : req'[p].table \in {NoTable, req[p].table}
      BY <1>0, <2>1
    <2> QED BY <1>2, <1>3, <2>2, <2>3
  <1>5. ASSUME NEW r \in Requests, NEW q \in Request, NEW others \in [Requests -> Request],
               Persist(r, q, others), UNCHANGED file, Fine(users'),
               \A p \in Requests : others[p].table = req[p].table
        PROVE  AllGood'
    <2>1. \A p \in Requests : req'[p].table \in {users', req[p].table}
      BY <1>0, <1>5, PersistTables
    <2>2. script'.table = script.table
      BY <1>0, <1>5, PersistTables
    <2> QED BY <1>2, <1>3, <1>5, <2>1, <2>2
  <1>6. ASSUME NEW r \in Requests, Change(r) PROVE AllGood'
    <2>1. ASSUME NEW id \in Ids, Create(r, id) PROVE AllGood'
      <3>1. req[r].name \in Names /\ req[r].pwd \in Pwds /\ req[r].role \in Roles
        BY <1>0, <2>1 DEF Create, Request
      <3>2. [req[r] EXCEPT !.id = id, !.held = TRUE] \in Request
        BY <1>0, <3>1 DEF Request
      <3>3. Fine(users')
        <4>1. users' = [users EXCEPT ![id] = [name |-> req[r].name, pwd |-> req[r].pwd,
                                              role |-> req[r].role]]
              /\ id \notin given /\ given' = given \cup {id}
          BY <2>1 DEF Create
        <4>2. /\ Taken(users') = Taken(users) \cup {id} /\ users' \in Table
              /\ users'[id].name = req[r].name
              /\ \A i \in Taken(users) : i # id /\ users'[i] = users[i]
          BY <1>0, <1>2, <3>1, <4>1, AccountsAssumption DEF Taken, Table, User, Good, AllGood
        <4>3. ASSUME NEW i \in Taken(users), users[i].name = req[r].name
              PROVE  req[r].name \in doubled'
          <5>1. index[req[r].name] = i \/ req[r].name \in doubled
            BY <4>3 DEF EveryoneIsFound
          <5>2. i # Nobody
            BY AccountsAssumption DEF Taken
          <5> QED BY <2>1, <5>1, <5>2 DEF Create
        <4>4. Taken(users') \subseteq given'
          BY <1>2, <4>1, <4>2 DEF Good
        <4>5. ASSUME NEW i \in Taken(users'), NEW j \in Taken(users'),
                     users'[i].name = users'[j].name, i # j
              PROVE  users'[i].name \in doubled'
          <5>1. CASE i # id /\ j # id
            BY <1>2, <4>2, <4>5, <5>1 DEF Good
          <5>2. CASE i = id \/ j = id
            BY <4>2, <4>3, <4>5, <5>2
          <5> QED BY <5>1, <5>2
        <4> QED BY <4>2, <4>4, <4>5 DEF Good
      <3>4. /\ Persist(r, [req[r] EXCEPT !.id = id, !.held = TRUE], req) /\ UNCHANGED file
        BY <2>1 DEF Create
      <3> QED BY <1>0, <1>5, <3>2, <3>3, <3>4
    <2>2. CASE SetPassword(r)
      <3>1. req[r].id \in Ids /\ req[r].pwd \in Pwds
        BY <1>0, <2>2 DEF SetPassword, Request
      <3>2. CASE users[req[r].id] = NoUser
        <4>1. UNCHANGED <<users, file, script>>
              /\ \A p \in Requests : req'[p].table \in {NoTable, req[p].table}
          BY <1>0, <2>2, <3>2 DEF SetPassword, Idle
        <4> QED BY <1>2, <1>3, <4>1
      <3>3. CASE users[req[r].id] # NoUser
        <4> DEFINE others == [p \in Requests |-> IF Holds(p, req[r].id)
                                                 THEN [req[p] EXCEPT !.late = TRUE] ELSE req[p]]
        <4>1. \A q \in Request : [q EXCEPT !.late = TRUE] \in Request
                                 /\ [q EXCEPT !.late = TRUE].table = q.table
          <5>1. ASSUME NEW q \in Request PROVE [q EXCEPT !.late = TRUE] \in Request
            BY <5>1, FlagTypes, TRUE \in BOOLEAN DEF Roles
          <5>2. ASSUME NEW q \in Request PROVE [q EXCEPT !.late = TRUE].table = q.table
            BY <5>2 DEF Request
          <5> QED BY <5>1, <5>2
        <4>2. others \in [Requests -> Request]
              /\ \A p \in Requests : others[p].table = req[p].table
          BY <1>0, <4>1
        <4>3. Persist(r, req[r], others) /\ UNCHANGED file
              /\ users' = [users EXCEPT ![req[r].id].pwd = req[r].pwd]
          BY <2>2, <3>3 DEF SetPassword
        <4>4. users[req[r].id] \in User
          BY <1>0, <3>1, <3>3 DEF Table
        <4>5. Fine(users')
          <5>1. [users[req[r].id] EXCEPT !.pwd = req[r].pwd] \in User
                /\ [users[req[r].id] EXCEPT !.pwd = req[r].pwd].name = users[req[r].id].name
            BY <3>1, <4>4 DEF User
          <5> QED BY <1>2, <3>1, <3>3, <4>3, <5>1, ChangedStaysGood
        <4> HIDE DEF others
        <4> QED BY <1>0, <1>5, <4>2, <4>3, <4>5
      <3> QED BY <3>2, <3>3
    <2>3. ASSUME NEW id \in Ids, NEW role \in Roles, ChangeRole(r, id, role) PROVE AllGood'
      <3> DEFINE others == [p \in Requests |-> IF Holds(p, id) /\ req[p].held
                                               THEN [req[p] EXCEPT !.role = role] ELSE req[p]]
      <3>1. \A q \in Request : [q EXCEPT !.role = role] \in Request
                               /\ [q EXCEPT !.role = role].table = q.table
        <4>1. ASSUME NEW q \in Request PROVE [q EXCEPT !.role = role] \in Request
          BY <4>1, FlagTypes, TRUE \in BOOLEAN
        <4>2. ASSUME NEW q \in Request PROVE [q EXCEPT !.role = role].table = q.table
          BY <4>2 DEF Request
        <4> QED BY <4>1, <4>2
      <3>2. others \in [Requests -> Request] /\ \A p \in Requests : others[p].table = req[p].table
        BY <1>0, <3>1
      <3>3. Persist(r, [Idle EXCEPT !.op = "role", !.id = id], others) /\ UNCHANGED file
            /\ users' = [users EXCEPT ![id].role = role] /\ users[id] # NoUser
        BY <2>3 DEF ChangeRole
      <3>4. Fine(users')
        <4>1. users[id] \in User
          BY <1>0, <3>3 DEF Table
        <4>2. [users[id] EXCEPT !.role = role] \in User
              /\ [users[id] EXCEPT !.role = role].name = users[id].name
          BY <4>1 DEF User
        <4> QED BY <1>2, <3>3, <4>2, ChangedStaysGood
      <3> HIDE DEF others
      <3> QED BY <1>5, <3>2, <3>3, <3>4, WriteType
    <2>4. ASSUME NEW id \in Ids, Delete(r, id) PROVE AllGood'
      <3> DEFINE others == [p \in Requests |-> IF Holds(p, id)
                                               THEN [req[p] EXCEPT !.late = TRUE, !.held = FALSE]
                                               ELSE req[p]]
      <3>1. \A q \in Request : [q EXCEPT !.late = TRUE, !.held = FALSE] \in Request
                               /\ [q EXCEPT !.late = TRUE, !.held = FALSE].table = q.table
        <4>1. ASSUME NEW q \in Request PROVE [q EXCEPT !.late = TRUE, !.held = FALSE] \in Request
          BY <4>1, FlagTypes, TRUE \in BOOLEAN DEF Roles
        <4>2. ASSUME NEW q \in Request
              PROVE  [q EXCEPT !.late = TRUE, !.held = FALSE].table = q.table
          BY <4>2 DEF Request
        <4> QED BY <4>1, <4>2
      <3>2. others \in [Requests -> Request] /\ \A p \in Requests : others[p].table = req[p].table
        BY <1>0, <3>1
      <3>3. Persist(r, [Idle EXCEPT !.op = "delete", !.id = id], others) /\ UNCHANGED file
            /\ users' = [users EXCEPT ![id] = NoUser]
        BY <2>4 DEF Delete
      <3>4. Fine(users')
        <4>1. users' \in Table /\ Taken(users') \subseteq Taken(users)
              /\ \A i \in Taken(users') : users'[i] = users[i]
          BY <1>0, <3>3 DEF Table, Taken
        <4> QED BY <1>2, <4>1 DEF Good
      <3> HIDE DEF others
      <3> QED BY <1>5, <3>2, <3>3, <3>4, WriteType
    <2>5. ASSUME NEW id \in Ids, UpdateProfile(r, id) PROVE AllGood'
      BY <1>0, <1>2, <1>5, <2>5, WriteType DEF UpdateProfile
    <2>6. CASE StoreSector(r)
      <3>1. file'.table \in {req[r].table, NoTable}
        BY <2>6 DEF StoreSector, Filled, Whole, Torn
      <3>2. [req[r] EXCEPT !.op = "sector"] \in Request
        <4>1. req[r].op = "register"
          BY <2>6 DEF StoreSector
        <4> QED BY <1>0, <4>1 DEF Request
      <3>3. \A p \in Requests : req'[p].table \in {users', req[p].table}
        BY <1>0, <2>6, <3>2, PersistTables DEF StoreSector
      <3>4. script'.table = script.table /\ users' = users
        BY <1>0, <2>6, <3>2, PersistTables DEF StoreSector
      <3> QED BY <1>2, <1>3, <3>1, <3>3, <3>4
    <2> QED BY <1>6, <2>1, <2>2, <2>3, <2>4, <2>5, <2>6 DEF Change
  <1>7. ASSUME NEW r \in Requests, Finish(r) PROVE AllGood'
    <2>1. users' = users /\ script' = script
      BY <1>7 DEF Finish, SignIn, Truncate, Fill, WriteFails, store
    <2>2. file'.table \in {file.table, req[r].table, NoTable}
      BY <1>7 DEF Finish, SignIn, Truncate, Fill, Filled, WriteFails, Whole, Torn, Empty, store
    <2>3. \A p \in Requests : req'[p].table \in {NoTable, req[p].table}
      <3>1. CASE Truncate(r)
        <4>1. [req[r] EXCEPT !.at = "fill"].table = req[r].table
          BY <1>0 DEF Request
        <4> QED BY <1>0, <3>1, <4>1 DEF Truncate
      <3>2. CASE ~ Truncate(r)
        <4>1. req' = [req EXCEPT ![r] = Idle] /\ Idle.table = NoTable
          BY <1>7, <3>2 DEF Finish, SignIn, Fill, WriteFails, Idle
        <4> QED BY <1>0, <4>1
      <3> QED BY <3>1, <3>2
    <2> QED BY <1>2, <1>3, <2>1, <2>2, <2>3
  <1>8. CASE Ends
    BY <1>2, <1>3, <1>8 DEF Ends, Refresh, Expire, Logout, store
  <1>9. CASE Outside
    <2>1. ASSUME NEW id \in Ids, NEW p \in Pwds, ScriptReads(id, p) PROVE AllGood'
      <3>1. script'.table = [file.table EXCEPT ![id].pwd = p] /\ UNCHANGED <<users, file, req>>
            /\ file.table[id] # NoUser
        BY <2>1 DEF ScriptReads, store
      <3>2. file.table[id] \in User
        BY <1>2, <3>1 DEF Good, Table
      <3>3. [file.table[id] EXCEPT !.pwd = p] \in User
            /\ [file.table[id] EXCEPT !.pwd = p].name = file.table[id].name
        BY <3>2 DEF User
      <3>4. Fine(script'.table)
        <4> DEFINE u == [file.table[id] EXCEPT !.pwd = p]
        <4>1. script'.table = [file.table EXCEPT ![id] = u]
          BY <3>1
        <4>2. u \in User /\ u.name = file.table[id].name
          BY <3>3
        <4> HIDE DEF u
        <4>3. Good(file.table, given', doubled')
          BY <1>2
        <4> QED BY <3>1, <4>1, <4>2, <4>3, ChangedStaysGood
      <3> QED BY <1>2, <1>3, <3>1, <3>4
    <2>2. CASE ScriptWrites
      <3>1. file'.table = script.table /\ users' = users
        BY <2>2 DEF ScriptWrites, Whole
      <3>2. script'.table = NoTable
        BY <1>0, <2>2 DEF ScriptWrites, Script
      <3>3. \A p \in Requests : req'[p].table = req[p].table
        <4>1. \A q \in Request : [q EXCEPT !.solo = FALSE].table = q.table
          BY DEF Request
        <4> QED BY <1>0, <2>2, <4>1 DEF ScriptWrites
      <3> QED BY <1>2, <1>3, <3>1, <3>2, <3>3
    <2>3. CASE ReloadReads
      <3>1. UNCHANGED <<users, file, req>>
        BY <2>3 DEF ReloadReads, store
      <3>2. script'.table \in {file.table, NoTable}
        BY <1>0, <2>3 DEF ReloadReads, Script, ScriptDone
      <3> QED BY <1>2, <1>3, <3>1, <3>2
    <2>4. CASE ReloadApplies
      <3>1. users' = script.table /\ file' = file /\ script'.table = NoTable
        BY <2>4 DEF ReloadApplies, ScriptDone
      <3>2. \A p \in Requests : req'[p].table = req[p].table
        <4>1. \A q \in Request : \A b : [q EXCEPT !.solo = FALSE, !.held = FALSE, !.late = b].table
                                          = q.table
          BY DEF Request
        <4> QED BY <1>0, <2>4, <4>1 DEF ReloadApplies
      <3> QED BY <1>2, <1>3, <3>1, <3>2
    <2>5. ASSUME NEW kept \in {{}, sessions}, Restart(kept) PROVE AllGood'
      <3>1. users' \in {file.table, NoTable} /\ file'.table \in {file.table, NoTable}
        BY <2>5 DEF Restart, Loaded, Whole
      <3>2. script'.table \in {script.table, NoTable}
        BY <2>5 DEF Restart, ScriptDone
      <3>3. \A p \in Requests : req'[p].table = NoTable
        BY <2>5 DEF Restart, Idle
      <3> QED BY <1>2, <1>3, <3>1, <3>2, <3>3
    <2> QED BY <1>9, <2>1, <2>2, <2>3, <2>4, <2>5 DEF Outside
  <1> QED BY <1>4, <1>6, <1>7, <1>8, <1>9, NextCases

----------------------------------------------------------------------------
(* The index.                                                               *)

\* rebuildIndex() of a good table finds everybody that was not doubled.
LEMMA RebuiltFinds ==
    ASSUME NEW t, Good(t, given, doubled), NEW i \in Rebuilt(t)
    PROVE  /\ \A n \in Names : i[n] # Nobody => t[i[n]] # NoUser /\ t[i[n]].name = n
           /\ \A id \in Taken(t) : i[t[id].name] = id \/ t[id].name \in doubled
  <1>1. /\ \A id \in Taken(t) : id \in Ids /\ t[id] # NoUser /\ t[id].name \in Names
        /\ i \in IndexOf(t)
    BY DEF Taken, Good, Table, User, Rebuilt
  <1>2. ASSUME NEW n \in Names, i[n] # Nobody PROVE i[n] \in Taken(t) /\ t[i[n]].name = n
    BY <1>1, <1>2 DEF IndexOf
  <1>3. ASSUME NEW id \in Taken(t)
        PROVE  i[t[id].name] = id \/ t[id].name \in doubled
    <2>1. i[t[id].name] \in {j \in Taken(t) : t[j].name = t[id].name}
      BY <1>1, <1>3 DEF IndexOf
    <2> QED BY <2>1 DEF Good
  <1> QED BY <1>1, <1>2, <1>3

\* A step that leaves the index, the accounts and their names alone.
LEMMA IndexStays ==
    ASSUME IndexNames, EveryoneIsFound, UNCHANGED index, doubled \subseteq doubled',
           users \in Table, users' \in Table, index \in [Names -> Ids \cup {Nobody}],
           Taken(users') = Taken(users),
           \A id \in Taken(users) : users'[id].name = users[id].name
    PROVE  IndexNames' /\ EveryoneIsFound'
  <1>1. ASSUME NEW n \in Names, index[n] # Nobody
        PROVE  users'[index[n]] # NoUser /\ users'[index[n]].name = n
    <2>1. index[n] \in Taken(users) /\ users[index[n]].name = n
      BY <1>1 DEF IndexNames, Taken
    <2> QED BY <2>1 DEF Taken
  <1>2. ASSUME NEW id \in Taken(users')
        PROVE  index[users'[id].name] = id \/ users'[id].name \in doubled'
    BY <1>2 DEF EveryoneIsFound
  <1> QED BY <1>1, <1>2 DEF IndexNames, EveryoneIsFound

LEMMA IndexNext ==
    ASSUME TypeOK, IndexNames, EveryoneIsFound, AllGood, Next
    PROVE  IndexNames' /\ EveryoneIsFound'
  <1>0. /\ users \in Table /\ index \in [Names -> Ids \cup {Nobody}]
        /\ \A r \in Requests : req[r] \in Request
        /\ \A id \in Taken(users) : id \in Ids /\ id \in given /\ users[id].name \in Names
        /\ Good(users, given, doubled)
    BY DEF TypeOK, AllGood, Good, Taken, Table, User
  <1>1. doubled \subseteq doubled' /\ given \subseteq given'
    BY HistoryNext
  <1>2. ASSUME UNCHANGED <<users, index>> PROVE IndexNames' /\ EveryoneIsFound'
    BY <1>0, <1>1, <1>2, IndexStays
  <1>3. ASSUME NEW r \in Requests, Change(r) PROVE IndexNames' /\ EveryoneIsFound'
    <2>1. ASSUME NEW id \in Ids, Create(r, id) PROVE IndexNames' /\ EveryoneIsFound'
      <3> DEFINE name == req[r].name
      <3>1. name \in Names
        BY <1>0, <2>1 DEF Create, Request
      <3>2. /\ id \notin given
            /\ users' = [users EXCEPT ![id] = [name |-> name, pwd |-> req[r].pwd,
                                               role |-> req[r].role]]
            /\ index' = [index EXCEPT ![name] = id]
        BY <2>1 DEF Create
      <3>3. [name |-> name, pwd |-> req[r].pwd, role |-> req[r].role] \in User
        BY <1>0, <2>1 DEF Create, Request, User
      <3>4. id # Nobody /\ NoUser \notin User
        BY AccountsAssumption
      <3>5. users'[id].name = name /\ users'[id] # NoUser
            /\ \A i \in Ids : i # id => users'[i] = users[i]
        BY <1>0, <3>2, <3>3, <3>4 DEF Table
      <3>6. index[name] # Nobody => name \in doubled'
        BY <2>1 DEF Create
      <3>7. ASSUME NEW n \in Names, index'[n] # Nobody
            PROVE  users'[index'[n]] # NoUser /\ users'[index'[n]].name = n
        <4>1. CASE n = name
          BY <1>0, <3>1, <3>2, <3>5, <4>1
        <4>2. CASE n # name
          <5>1. index'[n] = index[n] /\ index[n] \in Taken(users) /\ users[index[n]].name = n
            BY <1>0, <3>2, <3>7, <4>2 DEF IndexNames, Taken
          <5>2. index[n] # id
            BY <1>0, <3>2, <5>1
          <5> QED BY <1>0, <3>5, <5>1, <5>2 DEF Taken
        <4> QED BY <4>1, <4>2
      <3>8. ASSUME NEW i \in Taken(users')
            PROVE  index'[users'[i].name] = i \/ users'[i].name \in doubled'
        <4>1. CASE i = id
          BY <1>0, <3>1, <3>2, <3>5, <4>1
        <4>2. CASE i # id
          <5>1. i \in Taken(users) /\ users'[i] = users[i]
            BY <3>5, <3>8, <4>2 DEF Taken
          <5>2. index[users[i].name] = i \/ users[i].name \in doubled
            BY <5>1 DEF EveryoneIsFound
          <5>3. i # Nobody /\ users[i].name \in Names
            BY <1>0, <5>1, AccountsAssumption
          <5> QED BY <1>0, <1>1, <3>2, <3>6, <5>1, <5>2, <5>3
        <4> QED BY <4>1, <4>2
      <3> QED BY <3>7, <3>8 DEF IndexNames, EveryoneIsFound
    <2>2. CASE SetPassword(r)
      <3>1. CASE users[req[r].id] = NoUser
        BY <1>2, <2>2, <3>1 DEF SetPassword
      <3>2. CASE users[req[r].id] # NoUser
        <4> DEFINE u == [users[req[r].id] EXCEPT !.pwd = req[r].pwd]
        <4>1. users' = [users EXCEPT ![req[r].id] = u] /\ index' = index
          BY <2>2, <3>2 DEF SetPassword
        <4>2. req[r].id \in Ids /\ req[r].pwd \in Pwds
          BY <1>0, <2>2 DEF SetPassword, Request
        <4>3. users[req[r].id] \in User
          BY <1>0, <3>2, <4>2 DEF Table
        <4>4. u \in User /\ u.name = users[req[r].id].name
          BY <4>2, <4>3 DEF User
        <4> HIDE DEF u
        <4>5. /\ users' \in Table /\ Taken(users') = Taken(users)
              /\ \A i \in Taken(users) : users'[i].name = users[i].name
          BY <1>0, <3>2, <4>1, <4>2, <4>4, AccountsAssumption DEF Table, Taken
        <4> QED BY <1>0, <1>1, <4>1, <4>5, IndexStays
      <3> QED BY <3>1, <3>2
    <2>3. ASSUME NEW id \in Ids, NEW role \in Roles, ChangeRole(r, id, role)
          PROVE  IndexNames' /\ EveryoneIsFound'
      <3> DEFINE u == [users[id] EXCEPT !.role = role]
      <3>1. users' = [users EXCEPT ![id] = u] /\ index' = index /\ users[id] # NoUser
        BY <2>3 DEF ChangeRole
      <3>2. users[id] \in User
        BY <1>0, <3>1 DEF Table
      <3>3. u \in User /\ u.name = users[id].name
        BY <3>2 DEF User
      <3> HIDE DEF u
      <3>4. /\ users' \in Table /\ Taken(users') = Taken(users)
            /\ \A i \in Taken(users) : users'[i].name = users[i].name
        BY <1>0, <3>1, <3>3, AccountsAssumption DEF Table, Taken
      <3> QED BY <1>0, <1>1, <3>1, <3>4, IndexStays
    <2>4. ASSUME NEW id \in Ids, Delete(r, id) PROVE IndexNames' /\ EveryoneIsFound'
      <3>1. /\ users' = [users EXCEPT ![id] = NoUser] /\ users[id] # NoUser
            /\ index' = [index EXCEPT ![users[id].name] = Nobody]
        BY <2>4 DEF Delete
      <3>2. id \in Taken(users) /\ users[id].name \in Names
        BY <1>0, <3>1 DEF Taken
      <3>3. ASSUME NEW n \in Names, index'[n] # Nobody
            PROVE  users'[index'[n]] # NoUser /\ users'[index'[n]].name = n
        <4>1. n # users[id].name /\ index'[n] = index[n] /\ index[n] \in Ids
          BY <1>0, <3>1, <3>2, <3>3
        <4>2. users[index[n]] # NoUser /\ users[index[n]].name = n
          BY <3>3, <4>1 DEF IndexNames
        <4> QED BY <1>0, <3>1, <4>1, <4>2 DEF Table
      <3>4. ASSUME NEW i \in Taken(users')
            PROVE  index'[users'[i].name] = i \/ users'[i].name \in doubled'
        <4>1. i \in Taken(users) /\ users'[i] = users[i] /\ i # id
          BY <1>0, <3>1, <3>4 DEF Taken, Table
        <4>2. index[users[i].name] = i \/ users[i].name \in doubled
          BY <4>1 DEF EveryoneIsFound
        <4>3. users[i].name = users[id].name => users[i].name \in doubled
          BY <1>0, <3>2, <4>1 DEF Good
        <4> QED BY <1>0, <1>1, <3>1, <4>1, <4>2, <4>3
      <3> QED BY <3>3, <3>4 DEF IndexNames, EveryoneIsFound
    <2>5. ASSUME NEW id \in Ids, UpdateProfile(r, id) PROVE IndexNames' /\ EveryoneIsFound'
      BY <1>2, <2>5 DEF UpdateProfile
    <2>6. CASE StoreSector(r)
      BY <1>2, <2>6 DEF StoreSector
    <2> QED BY <1>3, <2>1, <2>2, <2>3, <2>4, <2>5, <2>6 DEF Change
  <1>4. ASSUME NEW t, Good(t, given, doubled), users' = t, index' \in Rebuilt(t)
        PROVE  IndexNames' /\ EveryoneIsFound'
    BY <1>1, <1>4, RebuiltFinds DEF IndexNames, EveryoneIsFound
  <1>5. CASE Outside
    <2>1. CASE ReloadApplies
      <3>1. Good(script.table, given, doubled)
        BY DEF AllGood
      <3> QED BY <1>4, <2>1, <3>1 DEF ReloadApplies
    <2>2. ASSUME NEW kept \in {{}, sessions}, Restart(kept) PROVE IndexNames' /\ EveryoneIsFound'
      <3>1. Good(Loaded, given, doubled)
        BY NoTableGood DEF AllGood, Loaded
      <3> QED BY <1>4, <2>2, <3>1 DEF Restart
    <2>3. CASE ScriptWrites \/ ReloadReads \/ \E id \in Ids, p \in Pwds : ScriptReads(id, p)
      BY <1>2, <2>3 DEF ScriptWrites, ReloadReads, ScriptReads, store
    <2> QED BY <1>5, <2>1, <2>2, <2>3 DEF Outside
  <1>6. ASSUME NEW r \in Requests, Ask(r) PROVE IndexNames' /\ EveryoneIsFound'
    BY <1>2, <1>6, AskNext DEF store
  <1>7. ASSUME NEW r \in Requests, Finish(r) PROVE IndexNames' /\ EveryoneIsFound'
    BY <1>2, <1>7 DEF Finish, SignIn, Truncate, Fill, WriteFails, store
  <1>8. CASE Ends
    BY <1>2, <1>8 DEF Ends, Refresh, Expire, Logout, store
  <1> QED BY <1>3, <1>5, <1>6, <1>7, <1>8, NextCases

----------------------------------------------------------------------------
(* The theorems.                                                           *)

Inv == TypeOK /\ AllGood /\ IndexNames /\ EveryoneIsFound

LEMMA InitInv ==
    ASSUME Init
    PROVE  Inv
  <1>1. users \in Table /\ index \in IndexOf(users) /\ given = Taken(users)
        /\ \A i, j \in Taken(users) : users[i].name = users[j].name => i = j
    BY DEF Init
  <1>2. Good(users, given, doubled)
    BY <1>1 DEF Good
  <1>3. IndexNames /\ EveryoneIsFound
    BY <1>1, <1>2, RebuiltFinds DEF Rebuilt, IndexNames, EveryoneIsFound
  <1>4. AllGood
    <2>1. file.table = users /\ script.table = NoTable
          /\ \A r \in Requests : req[r].table = NoTable
      BY DEF Init, Whole, Idle
    <2> QED BY <1>2, <2>1, NoTableGood DEF AllGood
  <1>5. sessions \subseteq Session
    <2>1. PICK signedIn \in SUBSET Taken(users) :
            sessions = UNION {Pair(id, users[id].role, users[id].pwd, FALSE) : id \in signedIn}
      BY DEF Init
    <2>2. ASSUME NEW id \in Taken(users)
          PROVE  Pair(id, users[id].role, users[id].pwd, FALSE) \subseteq Session
      <3>1. id \in Ids /\ users[id] \in User
        BY <1>1, <2>2 DEF Taken, Table
      <3> QED BY <3>1 DEF Pair, Session, User
    <2> QED BY <2>1, <2>2
  <1>6. StoreTypes
    <2>1. req \in [Requests -> Request]
      BY IdleType DEF Init
    <2>2. script \in Script
      BY NoTableType DEF Init, Script
    <2>3. index \in [Names -> Ids \cup {Nobody}]
      BY <1>1 DEF IndexOf
    <2>4. file \in File
      BY <1>1 DEF Init, File, Whole
    <2> QED BY <1>1, <2>1, <2>2, <2>3, <2>4 DEF StoreTypes
  <1>7. given \subseteq Ids
    BY <1>1 DEF Taken
  <1>8. TypeOK
    <2>1. 0 \in 0..MaxRequests /\ 0 \in 0..MaxFaults
      BY AccountsAssumption
    <2>2. /\ unrevoked = {} /\ doubled = {} /\ unsynced = FALSE /\ requests = 0 /\ faults = 0
      BY DEF Init
    <2> QED BY <1>5, <1>6, <1>7, <2>1, <2>2 DEF TypeOK, StoreTypes
  <1> QED BY <1>3, <1>4, <1>8 DEF Inv

LEMMA InvInductive == Inv /\ [Next]_vars => Inv'
  <1>1. ASSUME Inv, Next PROVE Inv'
    BY <1>1, TypesNext, TablesNext, IndexNext DEF Inv
  <1>2. ASSUME Inv, UNCHANGED vars PROVE Inv'
    BY <1>2 DEF Inv, TypeOK, AllGood, IndexNames, EveryoneIsFound, vars, store, history, bounds
  <1> QED BY <1>1, <1>2

\* The variables have their types in every reachable state.
THEOREM TypeCorrect == Spec => []TypeOK
  <1>1. Inv => TypeOK
    BY DEF Inv
  <1> QED BY <1>1, InitInv, InvInductive, PTL DEF Spec

\* Every account that is not one of two with a name is found by its name.
THEOREM AlwaysFound == Spec => []EveryoneIsFound
  <1>1. Inv => EveryoneIsFound
    BY DEF Inv
  <1> QED BY <1>1, InitInv, InvInductive, PTL DEF Spec

----------------------------------------------------------------------------
(* There is always an admin.                                               *)

\* A request writes a table with an admin; one that registers a viewer began
\* when there were accounts, and has no user object whose role can change.
Keeps(q) ==
    /\ q.at \in {"truncate", "fill"} => Admins(q.table) # {}
    /\ q.op = "register" /\ q.at = "bcrypt" =>
           ~ q.held /\ (q.role = "admin" \/ Taken(users) # {})

\* What the file may hold, and what a reload that was asked for may find there.
FileKeeps ==
    /\ Taken(file.table) # {} => Admins(file.table) # {}
    /\ script.at = "signal" /\ file.state = "whole" => Admins(file.table) # {}

AdminInv ==
    /\ AdminRemains /\ FileKeeps
    /\ \A r \in Requests : Keeps(req[r])
    /\ script.at \in {"hash", "read"} => Admins(script.table) # {}

LEMMA SomeAdmin ==
    ASSUME AdminRemains, NEW id \in Ids, users[id] # NoUser
    PROVE  Admins(users) # {} /\ Taken(users) # {}
  BY DEF AdminRemains, Taken

\* A handler that leaves an admin in the table, and goes to write it.
LEMMA PersistKeeps ==
    ASSUME TypeOK, AdminInv, NEW r \in Requests, NEW q \in Request,
           NEW others \in [Requests -> Request], Persist(r, q, others),
           Admins(users') # {}, FileKeeps',
           \A p \in Requests :
               /\ others[p].at = req[p].at /\ others[p].op = req[p].op
               /\ others[p].table = req[p].table
               /\ req[p].op = "register" /\ req[p].at = "bcrypt" =>
                      others[p].role = req[p].role /\ ~ others[p].held
    PROVE  AdminInv'
  <1>0. script \in Script /\ Taken(users') # {}
    BY DEF TypeOK, Admins
  <1>1. AdminRemains'
    BY DEF AdminRemains
  <1>2. ASSUME NEW p \in Requests PROVE Keeps(req[p])'
    <2>1. CASE p = r
      <3> DEFINE alone == ~ Reloading /\ \A o \in Requests \ {r} : ~ Writing(o)
      <3>1. req'[p] = [q EXCEPT !.at = "truncate", !.table = users', !.solo = alone]
        BY <2>1 DEF Persist
      <3> HIDE DEF alone
      <3>2. req'[p].at = "truncate" /\ req'[p].table = users'
        BY <3>1 DEF Request
      <3> QED BY <3>2 DEF Keeps
    <2>2. CASE p # r
      <3>1. req'[p] = [others[p] EXCEPT !.solo = FALSE]
        BY <2>2 DEF Persist
      <3>2. others[p] \in Request
        OBVIOUS
      <3>3. /\ req'[p].at = others[p].at /\ req'[p].op = others[p].op
            /\ req'[p].table = others[p].table /\ req'[p].held = others[p].held
            /\ req'[p].role = others[p].role
        BY <3>1, <3>2 DEF Request
      <3>4. Keeps(req[p])
        BY DEF AdminInv
      <3> QED BY <1>0, <3>3, <3>4 DEF Keeps
    <2> QED BY <2>1, <2>2
  <1>3. script'.at = script.at /\ script'.table = script.table
    <2>1. script' = [script EXCEPT !.solo = FALSE]
      BY DEF Persist
    <2> QED BY <1>0, <2>1 DEF Script
  <1> QED BY <1>1, <1>2, <1>3 DEF AdminInv

\* A change of one user that leaves an admin.
LEMMA AdminsAfter ==
    ASSUME NEW t \in Table, NEW id \in Ids, t[id] # NoUser, NEW u \in User, NEW new \in Table,
           new = [t EXCEPT ![id] = u], u.role = t[id].role \/ u.role = "admin" \/ Admins(t) # {id},
           Admins(t) # {}
    PROVE  Admins(new) # {}
  <1>1. t \in [Ids -> User \cup {NoUser}]
    BY DEF Table
  <1>2. PICK a \in Ids : t[a] # NoUser /\ t[a].role = "admin" /\ (Admins(t) # {id} => a # id)
    BY DEF Admins, Taken
  <1>3. CASE a # id
    BY <1>1, <1>2, <1>3 DEF Admins, Taken
  <1>4. CASE a = id
    BY <1>1, <1>2, <1>4, AccountsAssumption DEF Admins, Taken
  <1> QED BY <1>3, <1>4

LEMMA ChangeKeeps ==
    ASSUME TypeOK, AllGood, AdminInv, NEW r \in Requests, Change(r), TypeOK'
    PROVE  AdminInv'
  <1>0. /\ req \in [Requests -> Request] /\ script \in Script /\ users \in Table /\ users' \in Table
        /\ req[r] \in Request /\ \A p \in Requests : Keeps(req[p])
        /\ AdminRemains /\ FileKeeps
    BY DEF TypeOK, AdminInv
  <1>1. ASSUME UNCHANGED file, script'.at = script.at PROVE FileKeeps'
    BY <1>0, <1>1 DEF FileKeeps
  <1>2. ASSUME NEW q, NEW others, Persist(r, q, others) PROVE script'.at = script.at
    <2>1. script' = [script EXCEPT !.solo = FALSE]
      BY <1>2 DEF Persist
    <2> QED BY <1>0, <2>1 DEF Script
  <1>3. \A q \in Request : [q EXCEPT !.late = TRUE] \in Request
            /\ [q EXCEPT !.late = TRUE].at = q.at /\ [q EXCEPT !.late = TRUE].op = q.op
            /\ [q EXCEPT !.late = TRUE].table = q.table /\ [q EXCEPT !.late = TRUE].role = q.role
            /\ [q EXCEPT !.late = TRUE].held = q.held
    <2>1. ASSUME NEW q \in Request PROVE [q EXCEPT !.late = TRUE] \in Request
      BY <2>1, FlagTypes, TRUE \in BOOLEAN DEF Roles
    <2>2. ASSUME NEW q \in Request
          PROVE  /\ [q EXCEPT !.late = TRUE].at = q.at /\ [q EXCEPT !.late = TRUE].op = q.op
                 /\ [q EXCEPT !.late = TRUE].table = q.table
                 /\ [q EXCEPT !.late = TRUE].role = q.role
                 /\ [q EXCEPT !.late = TRUE].held = q.held
      BY <2>2 DEF Request
    <2> QED BY <2>1, <2>2
  <1>4. ASSUME NEW id \in Ids, Create(r, id) PROVE AdminInv'
    <2> DEFINE new == [name |-> req[r].name, pwd |-> req[r].pwd, role |-> req[r].role]
    <2>1. /\ users' = [users EXCEPT ![id] = new] /\ UNCHANGED file
          /\ Persist(r, [req[r] EXCEPT !.id = id, !.held = TRUE], req)
          /\ req[r].op = "register" /\ req[r].at = "bcrypt" /\ id \notin given
      BY <1>4 DEF Create
    <2>2. new \in User /\ new.role = req[r].role
      BY <1>0, <2>1 DEF Request, User
    <2>3. [req[r] EXCEPT !.id = id, !.held = TRUE] \in Request
      BY <1>0, <2>1 DEF Request
    <2> HIDE DEF new
    <2>4. Admins(users') # {}
      <3>1. CASE req[r].role = "admin"
        BY <1>0, <2>1, <2>2, <3>1, AccountsAssumption DEF Admins, Taken, Table
      <3>2. CASE Taken(users) # {}
        <4>1. PICK a \in Ids : users[a] # NoUser /\ users[a].role = "admin"
          BY <1>0, <3>2 DEF AdminRemains, Admins, Taken
        <4>2. a # id
          BY <2>1, <4>1 DEF AllGood, Good, Taken
        <4> QED BY <1>0, <2>1, <4>1, <4>2 DEF Admins, Taken, Table
      <3> QED BY <1>0, <2>1, <3>1, <3>2 DEF Keeps
    <2>5. FileKeeps'
      BY <1>1, <1>2, <2>1
    <2> QED BY <1>0, <2>1, <2>3, <2>4, <2>5, PersistKeeps DEF Keeps
  <1>5. CASE SetPassword(r)
    <2>1. req[r].id \in Ids /\ req[r].pwd \in Pwds
      BY <1>0, <1>5 DEF SetPassword, Request
    <2>2. CASE users[req[r].id] = NoUser
      <3>1. req' = [req EXCEPT ![r] = Idle] /\ UNCHANGED <<users, script, file>>
        BY <1>5, <2>2 DEF SetPassword
      <3>2. \A p \in Requests : Keeps(req[p])'
        BY <1>0, <3>1 DEF Keeps, Idle
      <3> QED BY <3>1, <3>2 DEF AdminInv, AdminRemains, FileKeeps
    <2>3. CASE users[req[r].id] # NoUser
      <3> DEFINE others == [p \in Requests |-> IF Holds(p, req[r].id)
                                               THEN [req[p] EXCEPT !.late = TRUE] ELSE req[p]]
                 u == [users[req[r].id] EXCEPT !.pwd = req[r].pwd]
      <3>1. /\ others \in [Requests -> Request]
            /\ \A p \in Requests :
                  /\ others[p].at = req[p].at /\ others[p].op = req[p].op
                  /\ others[p].table = req[p].table /\ others[p].role = req[p].role
                  /\ others[p].held = req[p].held
        BY <1>0, <1>3
      <3>2. Persist(r, req[r], others) /\ UNCHANGED file /\ users' = [users EXCEPT ![req[r].id] = u]
        BY <1>5, <2>3 DEF SetPassword
      <3>3. users[req[r].id] \in User
        BY <1>0, <2>1, <2>3 DEF Table
      <3>4. u \in User /\ u.role = users[req[r].id].role
        BY <2>1, <3>3 DEF User
      <3> HIDE DEF others, u
      <3>5. Admins(users') # {}
        BY <1>0, <2>1, <2>3, <3>2, <3>4, SomeAdmin, AdminsAfter
      <3>6. FileKeeps'
        BY <1>1, <1>2, <3>2
      <3>7. \A p \in Requests :
               /\ others[p].at = req[p].at /\ others[p].op = req[p].op
               /\ others[p].table = req[p].table
               /\ req[p].op = "register" /\ req[p].at = "bcrypt" =>
                      others[p].role = req[p].role /\ ~ others[p].held
        BY <1>0, <3>1 DEF Keeps
      <3>8. others \in [Requests -> Request] /\ req[r] \in Request
        BY <1>0, <3>1
      <3> QED BY <3>2, <3>5, <3>6, <3>7, <3>8, PersistKeeps
    <2> QED BY <2>2, <2>3
  <1>6. ASSUME NEW id \in Ids, NEW role \in Roles, ChangeRole(r, id, role) PROVE AdminInv'
    <2> DEFINE others == [p \in Requests |-> IF Holds(p, id) /\ req[p].held
                                             THEN [req[p] EXCEPT !.role = role] ELSE req[p]]
               u == [users[id] EXCEPT !.role = role]
    <2>1. \A q \in Request : [q EXCEPT !.role = role] \in Request
              /\ [q EXCEPT !.role = role].at = q.at /\ [q EXCEPT !.role = role].op = q.op
              /\ [q EXCEPT !.role = role].table = q.table
      <3>1. ASSUME NEW q \in Request PROVE [q EXCEPT !.role = role] \in Request
        BY <3>1, FlagTypes, TRUE \in BOOLEAN
      <3>2. ASSUME NEW q \in Request
            PROVE  /\ [q EXCEPT !.role = role].at = q.at /\ [q EXCEPT !.role = role].op = q.op
                   /\ [q EXCEPT !.role = role].table = q.table
        BY <3>2 DEF Request
      <3> QED BY <3>1, <3>2
    <2>2. /\ others \in [Requests -> Request]
          /\ \A p \in Requests :
                /\ others[p].at = req[p].at /\ others[p].op = req[p].op
                /\ others[p].table = req[p].table
                /\ ~ req[p].held => others[p] = req[p]
      BY <1>0, <2>1
    <2>3. /\ Persist(r, [Idle EXCEPT !.op = "role", !.id = id], others) /\ UNCHANGED file
          /\ users' = [users EXCEPT ![id] = u] /\ users[id] # NoUser
          /\ role # "admin" => Admins(users) # {id}
      BY <1>6 DEF ChangeRole, LastAdmin
    <2>4. users[id] \in User
      BY <1>0, <2>3 DEF Table
    <2>5. u \in User /\ u.role = role
      BY <2>4 DEF User
    <2> HIDE DEF others, u
    <2>6. Admins(users') # {}
      BY <1>0, <2>3, <2>5, SomeAdmin, AdminsAfter
    <2>7. FileKeeps'
      BY <1>1, <1>2, <2>3
    <2>8. [Idle EXCEPT !.op = "role", !.id = id] \in Request
      BY WriteType
    <2> QED BY <1>0, <2>2, <2>3, <2>6, <2>7, <2>8, PersistKeeps DEF Keeps
  <1>7. ASSUME NEW id \in Ids, Delete(r, id) PROVE AdminInv'
    <2> DEFINE others == [p \in Requests |-> IF Holds(p, id)
                                             THEN [req[p] EXCEPT !.late = TRUE, !.held = FALSE]
                                             ELSE req[p]]
    <2>1. \A q \in Request : [q EXCEPT !.late = TRUE, !.held = FALSE] \in Request
              /\ [q EXCEPT !.late = TRUE, !.held = FALSE].at = q.at
              /\ [q EXCEPT !.late = TRUE, !.held = FALSE].op = q.op
              /\ [q EXCEPT !.late = TRUE, !.held = FALSE].table = q.table
              /\ [q EXCEPT !.late = TRUE, !.held = FALSE].role = q.role
              /\ ~ [q EXCEPT !.late = TRUE, !.held = FALSE].held
      <3>1. ASSUME NEW q \in Request PROVE [q EXCEPT !.late = TRUE, !.held = FALSE] \in Request
        BY <3>1, FlagTypes, TRUE \in BOOLEAN DEF Roles
      <3>2. ASSUME NEW q \in Request
            PROVE  /\ [q EXCEPT !.late = TRUE, !.held = FALSE].at = q.at
                   /\ [q EXCEPT !.late = TRUE, !.held = FALSE].op = q.op
                   /\ [q EXCEPT !.late = TRUE, !.held = FALSE].table = q.table
                   /\ [q EXCEPT !.late = TRUE, !.held = FALSE].role = q.role
                   /\ ~ [q EXCEPT !.late = TRUE, !.held = FALSE].held
        BY <3>2 DEF Request
      <3> QED BY <3>1, <3>2
    <2>2. /\ others \in [Requests -> Request]
          /\ \A p \in Requests :
                /\ others[p].at = req[p].at /\ others[p].op = req[p].op
                /\ others[p].table = req[p].table /\ others[p].role = req[p].role
                /\ ~ req[p].held => ~ others[p].held
      BY <1>0, <2>1
    <2>3. /\ Persist(r, [Idle EXCEPT !.op = "delete", !.id = id], others) /\ UNCHANGED file
          /\ users' = [users EXCEPT ![id] = NoUser] /\ users[id] # NoUser
          /\ Admins(users) # {id}
      BY <1>7 DEF Delete, LastAdmin
    <2> HIDE DEF others
    <2>4. Admins(users') # {}
      <3>1. Admins(users) # {}
        BY <1>0, <2>3, SomeAdmin
      <3>2. PICK a \in Admins(users) : a # id
        BY <2>3, <3>1
      <3> QED BY <1>0, <2>3, <3>2 DEF Admins, Taken, Table
    <2>5. FileKeeps'
      BY <1>1, <1>2, <2>3
    <2>6. [Idle EXCEPT !.op = "delete", !.id = id] \in Request
      BY WriteType
    <2> QED BY <1>0, <2>2, <2>3, <2>4, <2>5, <2>6, PersistKeeps DEF Keeps
  <1>8. ASSUME NEW id \in Ids, UpdateProfile(r, id) PROVE AdminInv'
    <2>1. Persist(r, [Idle EXCEPT !.op = "profile", !.id = id], req) /\ UNCHANGED <<users, file>>
          /\ users[id] # NoUser
      BY <1>8 DEF UpdateProfile
    <2>2. Admins(users') # {}
      BY <1>0, <2>1, SomeAdmin
    <2>3. FileKeeps'
      BY <1>1, <1>2, <2>1
    <2>4. [Idle EXCEPT !.op = "profile", !.id = id] \in Request
      BY WriteType
    <2> QED BY <1>0, <2>1, <2>2, <2>3, <2>4, PersistKeeps DEF Keeps
  <1>9. CASE StoreSector(r)
    <2>1. /\ Persist(r, [req[r] EXCEPT !.op = "sector"], req) /\ users' = users
          /\ users[req[r].id] # NoUser /\ Filled(r) /\ req[r].op = "register"
      BY <1>9 DEF StoreSector
    <2>2. req[r].id \in Ids /\ [req[r] EXCEPT !.op = "sector"] \in Request
      BY <1>0, <2>1 DEF Request, Filled
    <2>3. Admins(users') # {}
      BY <1>0, <2>1, <2>2, SomeAdmin
    <2>4. script'.at = script.at
      BY <1>2, <2>1
    <2>5. FileKeeps'
      <3>1. Admins(req[r].table) # {}
        BY <1>0, <2>1 DEF Filled, Keeps
      <3> QED BY <2>1, <3>1, NoTableType DEF Filled, FileKeeps, Whole, Torn
    <2> QED BY <1>0, <2>1, <2>2, <2>3, <2>5, PersistKeeps DEF Keeps
  <1> QED BY <1>4, <1>5, <1>6, <1>7, <1>8, <1>9 DEF Change

LEMMA AdminNext ==
    ASSUME Inv, AdminInv, Next
    PROVE  AdminInv'
  <1>0. /\ req \in [Requests -> Request] /\ script \in Script /\ users \in Table
        /\ \A p \in Requests : req[p] \in Request /\ Keeps(req[p])
        /\ AdminRemains /\ FileKeeps /\ TypeOK /\ AllGood /\ IndexNames
        /\ TypeOK'
    BY TypesNext DEF TypeOK, AdminInv, Inv
  <1>1. ASSUME UNCHANGED <<users, file, script, req>> PROVE AdminInv'
    BY <1>1 DEF AdminInv, AdminRemains, FileKeeps, Keeps
  <1>2. ASSUME NEW r \in Requests, Ask(r) PROVE AdminInv'
    <2>1. UNCHANGED <<users, file, script>>
      BY <1>0, <1>2, AskNext DEF store
    <2>2. ASSUME NEW q, req' = [req EXCEPT ![r] = q], q.at = "bcrypt",
                 q.op = "register" => ~ q.held /\ (q.role = "admin" \/ Taken(users) # {})
          PROVE  \A p \in Requests : Keeps(req[p])'
      BY <1>0, <2>1, <2>2 DEF Keeps
    <2>3. \A p \in Requests : Keeps(req[p])'
      <3>1. ASSUME NEW n \in Names, NEW p \in Pwds, NEW role \in Roles, Register(r, n, p, role)
            PROVE  \A o \in Requests : Keeps(req[o])'
        <4>1. role = "admin" \/ Taken(users) # {}
          BY <3>1 DEF Register
        <4> QED BY <2>2, <3>1, <4>1 DEF Register, Idle
      <3>2. ASSUME NEW n \in Names, Login(r, n) PROVE \A o \in Requests : Keeps(req[o])'
        BY <2>2, <3>2 DEF Login, Idle
      <3>3. ASSUME NEW id \in Ids, NEW p \in Pwds, ChangePassword(r, id, p)
            PROVE  \A o \in Requests : Keeps(req[o])'
        BY <2>2, <3>3 DEF ChangePassword, Idle
      <3> QED BY <1>2, <3>1, <3>2, <3>3 DEF Ask
    <2> QED BY <2>1, <2>3 DEF AdminInv, AdminRemains, FileKeeps
  <1>3. ASSUME NEW r \in Requests, Change(r) PROVE AdminInv'
    BY <1>0, <1>3, ChangeKeeps
  <1>4. ASSUME NEW r \in Requests, Finish(r) PROVE AdminInv'
    <2>1. UNCHANGED <<users, script>>
      BY <1>4 DEF Finish, SignIn, Truncate, Fill, WriteFails, store
    <2>2. FileKeeps'
      <3>1. CASE Truncate(r)
        BY <2>1, <3>1, NoTableType DEF Truncate, FileKeeps, Empty
      <3>2. CASE Fill(r)
        <4>1. Admins(req[r].table) # {}
          BY <1>0, <3>2 DEF Fill, Filled, Keeps
        <4> QED BY <2>1, <3>2, <4>1, NoTableType DEF Fill, Filled, FileKeeps, Whole, Torn
      <3>3. CASE SignIn(r) \/ WriteFails(r)
        BY <1>0, <2>1, <3>3 DEF SignIn, WriteFails, FileKeeps, store
      <3> QED BY <1>4, <3>1, <3>2, <3>3 DEF Finish
    <2>3. \A p \in Requests : Keeps(req[p])'
      <3>1. CASE Truncate(r)
        <4>1. /\ [req[r] EXCEPT !.at = "fill"].at = "fill"
              /\ [req[r] EXCEPT !.at = "fill"].op = req[r].op
              /\ [req[r] EXCEPT !.at = "fill"].table = req[r].table
          BY <1>0 DEF Request
        <4> QED BY <1>0, <3>1, <4>1 DEF Truncate, Keeps
      <3>2. CASE ~ Truncate(r)
        <4>1. req' = [req EXCEPT ![r] = Idle]
          BY <1>4, <3>2 DEF Finish, SignIn, Fill, WriteFails
        <4>2. Idle.at = "idle"
          BY DEF Idle
        <4> QED BY <1>0, <2>1, <4>1, <4>2 DEF Keeps
      <3> QED BY <3>1, <3>2
    <2> QED BY <1>0, <2>1, <2>2, <2>3 DEF AdminInv, AdminRemains
  <1>5. CASE Ends
    BY <1>1, <1>5 DEF Ends, Refresh, Expire, Logout, store
  <1>6. CASE Outside
    <2>1. ASSUME NEW id \in Ids, NEW p \in Pwds, ScriptReads(id, p) PROVE AdminInv'
      <3> DEFINE u == [file.table[id] EXCEPT !.pwd = p]
      <3>1. /\ script'.at = "hash" /\ script'.table = [file.table EXCEPT ![id] = u]
            /\ UNCHANGED <<users, file, req>> /\ file.table[id] # NoUser
        BY <2>1 DEF ScriptReads, store
      <3>2. file.table \in Table /\ script'.table \in Table
        BY <1>0 DEF TypeOK, File, Script
      <3>3. file.table[id] \in User
        BY <3>1, <3>2 DEF Table
      <3>4. u \in User /\ u.role = file.table[id].role
        BY <3>3 DEF User
      <3>5. Admins(file.table) # {}
        BY <1>0, <3>1 DEF FileKeeps, Taken
      <3> HIDE DEF u
      <3>6. Admins(script'.table) # {}
        BY <3>1, <3>2, <3>4, <3>5, AdminsAfter
      <3>7. \A r \in Requests : Keeps(req[r])'
        BY <1>0, <3>1 DEF Keeps
      <3> QED BY <1>0, <3>1, <3>6, <3>7 DEF AdminInv, AdminRemains, FileKeeps
    <2>2. CASE ScriptWrites
      <3>1. /\ file' = Whole(script.table) /\ users' = users /\ Admins(script.table) # {}
        BY <2>2 DEF ScriptWrites, AdminInv
      <3>2. script'.at = "signal"
        BY <1>0, <2>2 DEF ScriptWrites, Script
      <3>3. \A p \in Requests : Keeps(req[p])'
        <4>1. \A q \in Request : /\ [q EXCEPT !.solo = FALSE].at = q.at
                                 /\ [q EXCEPT !.solo = FALSE].op = q.op
                                 /\ [q EXCEPT !.solo = FALSE].table = q.table
                                 /\ [q EXCEPT !.solo = FALSE].role = q.role
                                 /\ [q EXCEPT !.solo = FALSE].held = q.held
          BY DEF Request
        <4>2. req' = [p \in Requests |-> [req[p] EXCEPT !.solo = FALSE]]
          BY <2>2 DEF ScriptWrites
        <4> QED BY <1>0, <3>1, <4>1, <4>2 DEF Keeps
      <3> QED BY <1>0, <3>1, <3>2, <3>3 DEF AdminInv, AdminRemains, FileKeeps, Whole
    <2>3. CASE ReloadReads
      <3>1. UNCHANGED <<users, file, req>> /\ script.at = "signal"
        BY <2>3 DEF ReloadReads, store
      <3>2. CASE file.state = "whole"
        <4> DEFINE alone == \A r \in Requests : ~ Writing(r)
        <4>1. script' = [script EXCEPT !.at = "read", !.table = file.table, !.solo = alone]
          BY <2>3, <3>2 DEF ReloadReads
        <4> HIDE DEF alone
        <4>2. script'.at = "read" /\ script'.table = file.table
          BY <1>0, <4>1 DEF Script
        <4>3. Admins(file.table) # {}
          BY <1>0, <3>1, <3>2 DEF FileKeeps
        <4> QED BY <1>0, <3>1, <4>2, <4>3 DEF AdminInv, AdminRemains, FileKeeps, Keeps
      <3>3. CASE file.state # "whole"
        <4>1. script'.at = "done"
          BY <2>3, <3>3 DEF ReloadReads, ScriptDone
        <4> QED BY <1>0, <3>1, <4>1 DEF AdminInv, AdminRemains, FileKeeps, Keeps
      <3> QED BY <3>2, <3>3
    <2>4. CASE ReloadApplies
      <3>1. users' = script.table /\ file' = file /\ script'.at = "done"
            /\ Admins(script.table) # {}
        BY <2>4 DEF ReloadApplies, ScriptDone, AdminInv
      <3>2. Taken(users') # {} /\ AdminRemains'
        BY <3>1 DEF AdminRemains, Admins
      <3>3. \A p \in Requests : Keeps(req[p])'
        <4>1. ASSUME NEW q \in Request, NEW b
              PROVE  LET new == [q EXCEPT !.solo = FALSE, !.held = FALSE, !.late = b]
                     IN  /\ new.at = q.at /\ new.op = q.op /\ new.table = q.table
                         /\ ~ new.held
          BY <4>1 DEF Request
        <4>2. ASSUME NEW p \in Requests
              PROVE  /\ req'[p].at = req[p].at /\ req'[p].op = req[p].op
                     /\ req'[p].table = req[p].table /\ ~ req'[p].held
          BY <1>0, <2>4, <4>1 DEF ReloadApplies
        <4> QED BY <1>0, <3>2, <4>2 DEF Keeps
      <3> QED BY <1>0, <3>1, <3>2, <3>3 DEF AdminInv, FileKeeps
    <2>5. ASSUME NEW kept \in {{}, sessions}, Restart(kept) PROVE AdminInv'
      <3>1. users' = Loaded /\ file' = Whole(Loaded) /\ req' = [r \in Requests |-> Idle]
        BY <2>5 DEF Restart
      <3>2. Taken(Loaded) # {} => Admins(Loaded) # {}
        BY <1>0, NoTableType DEF Loaded, FileKeeps
      <3>3. script'.at # "signal" /\ script'.at # "read"
            /\ (script'.at = "hash" => script' = script)
        BY <2>5 DEF Restart, ScriptDone
      <3>4. \A p \in Requests : Keeps(req[p])'
        BY <3>1 DEF Keeps, Idle
      <3> QED BY <1>0, <3>1, <3>2, <3>3, <3>4 DEF AdminInv, AdminRemains, FileKeeps, Whole
    <2> QED BY <1>6, <2>1, <2>2, <2>3, <2>4, <2>5 DEF Outside
  <1> QED BY <1>2, <1>3, <1>4, <1>5, <1>6, NextCases

\* There is an admin as long as there are accounts, whatever requests of
\* several admins, reloads of the file and restarts in the middle of a write do.
THEOREM AdminAlwaysRemains == Spec => []AdminRemains
  <1>1. Init => AdminInv
    <2> SUFFICES ASSUME Init PROVE AdminInv
      OBVIOUS
    <2>1. AdminRemains /\ file.table = users /\ script.at = "idle"
          /\ \A r \in Requests : req[r].at = "idle"
      BY DEF Init, AdminRemains, Whole, Idle
    <2> QED BY <2>1 DEF AdminInv, AdminRemains, FileKeeps, Keeps
  <1>2. Inv /\ AdminInv /\ [Next]_vars => AdminInv'
    <2>1. ASSUME AdminInv, UNCHANGED vars PROVE AdminInv'
      BY <2>1 DEF AdminInv, AdminRemains, FileKeeps, Keeps, vars, store
    <2> QED BY <2>1, AdminNext
  <1>3. AdminInv => AdminRemains
    BY DEF AdminInv
  <1> QED BY <1>1, <1>2, <1>3, InitInv, InvInductive, PTL DEF Spec

----------------------------------------------------------------------------
(* The file and memory.                                                    *)

\* What a request has in hand besides its place in a write.
Alike(q, p) ==
    /\ q.op = p.op /\ q.id = p.id /\ q.pwd = p.pwd /\ q.role = p.role
    /\ q.held = p.held /\ q.late = p.late

\* What a handler that goes to write leaves each request with.
LEMMA PersistRequests ==
    ASSUME NEW r \in Requests, NEW q \in Request, NEW others \in [Requests -> Request],
           script \in Script, Persist(r, q, others), NEW p \in Requests
    PROVE  /\ p = r => /\ Alike(req'[p], q) /\ req'[p].at = "truncate" /\ req'[p].table = users'
                       /\ req'[p].solo => ~ Reloading /\ \A o \in Requests \ {r} : ~ Writing(o)
           /\ p # r => Alike(req'[p], others[p]) /\ req'[p].at = others[p].at /\ ~ req'[p].solo
           /\ script'.at = script.at /\ ~ script'.solo
  <1>1. script'.at = script.at /\ ~ script'.solo
    <2>1. script' = [script EXCEPT !.solo = FALSE]
      BY DEF Persist
    <2> QED BY <2>1 DEF Script
  <1>2. CASE p = r
    <2> DEFINE alone == ~ Reloading /\ \A o \in Requests \ {r} : ~ Writing(o)
    <2>1. req'[p] = [q EXCEPT !.at = "truncate", !.table = users', !.solo = alone]
      BY <1>2 DEF Persist
    <2> HIDE DEF alone
    <2>2. Alike(req'[p], q) /\ req'[p].at = "truncate" /\ req'[p].table = users'
          /\ req'[p].solo = alone
      BY <2>1 DEF Request, Alike
    <2> QED BY <1>1, <1>2, <2>2 DEF alone
  <1>3. CASE p # r
    <2>1. others[p] \in Request /\ req'[p] = [others[p] EXCEPT !.solo = FALSE]
      BY <1>3 DEF Persist
    <2>2. Alike(req'[p], others[p]) /\ req'[p].at = others[p].at /\ ~ req'[p].solo
      BY <2>1 DEF Request, Alike
    <2> QED BY <1>1, <1>3, <2>2
  <1> QED BY <1>2, <1>3

\* A write that is alone with the file has the table in memory, and found the
\* file as it left it; so has a reload that met nobody.
FileInv ==
    /\ FileAgrees
    /\ \A r \in Requests : Writing(r) /\ req[r].solo =>
          /\ req[r].table = users /\ \A o \in Requests \ {r} : ~ Writing(o)
          /\ req[r].at = "fill" => file = Empty
    /\ Reloading /\ script.solo =>
          file = Whole(script.table) /\ \A r \in Requests : ~ Writing(r)

\* A handler that goes to write makes everyone else aware of it.
LEMMA PersistFile ==
    ASSUME NEW r \in Requests, NEW q \in Request, NEW others \in [Requests -> Request],
           script \in Script, Persist(r, q, others),
           \A p \in Requests : others[p].at = req[p].at
    PROVE  FileInv'
  <1>1. /\ req'[r].at = "truncate" /\ req'[r].table = users'
        /\ req'[r].solo => \A o \in Requests \ {r} : ~ Writing(o)
        /\ ~ script'.solo
    BY PersistRequests
  <1>2. \A p \in Requests \ {r} : req'[p].at = req[p].at /\ ~ req'[p].solo
    BY PersistRequests
  <1>3. Writing(r)' /\ \A p \in Requests \ {r} : Writing(p)' = Writing(p)
    BY <1>1, <1>2 DEF Writing
  <1> QED BY <1>1, <1>2, <1>3 DEF FileInv, FileAgrees

\* A step that touches neither the file nor memory, and nobody's write.
LEMMA FileStays ==
    ASSUME FileInv, UNCHANGED <<users, file, unsynced, script>>,
           \A p \in Requests : \/ req'[p] = req[p]
                               \/ ~ Writing(p) /\ req'[p].at \notin {"truncate", "fill"}
    PROVE  FileInv'
  <1>1. \A p \in Requests : Writing(p)' = Writing(p)
    BY DEF Writing
  <1>2. \A p \in Requests : Writing(p)' => req'[p] = req[p]
    BY DEF Writing
  <1> QED BY <1>1, <1>2 DEF FileInv, FileAgrees, Reloading

\* Handlers that change the table go to write it, except for the new password
\* of an account that is gone.
LEMMA ChangePersists ==
    ASSUME TypeOK, NEW r \in Requests, Change(r)
    PROVE  \/ /\ req[r].at = "bcrypt" /\ req' = [req EXCEPT ![r] = Idle]
              /\ UNCHANGED <<users, file, unsynced, script>>
           \/ \E q \in Request, others \in [Requests -> Request] :
                 Persist(r, q, others) /\ \A p \in Requests : others[p].at = req[p].at
  <1> DEFINE Writes == \E q \in Request, others \in [Requests -> Request] :
                 Persist(r, q, others) /\ \A p \in Requests : others[p].at = req[p].at
  <1>0. req \in [Requests -> Request] /\ req[r] \in Request
    BY DEF TypeOK
  <1>1. ASSUME NEW id \in Ids, Create(r, id) PROVE Writes
    <2>1. [req[r] EXCEPT !.id = id, !.held = TRUE] \in Request
      BY <1>0, <1>1 DEF Create, Request
    <2> QED BY <1>0, <1>1, <2>1 DEF Create
  <1>2. ASSUME SetPassword(r), users[req[r].id] # NoUser PROVE Writes
    <2> DEFINE others == [p \in Requests |-> IF Holds(p, req[r].id)
                                             THEN [req[p] EXCEPT !.late = TRUE] ELSE req[p]]
    <2>1. ASSUME NEW q \in Request
          PROVE  [q EXCEPT !.late = TRUE] \in Request /\ [q EXCEPT !.late = TRUE].at = q.at
      BY <2>1 DEF Request
    <2>2. others \in [Requests -> Request] /\ \A p \in Requests : others[p].at = req[p].at
      BY <1>0, <2>1
    <2>3. Persist(r, req[r], others)
      BY <1>2 DEF SetPassword
    <2> HIDE DEF others
    <2> QED BY <1>0, <2>2, <2>3
  <1>3. ASSUME NEW id \in Ids, NEW role \in Roles, ChangeRole(r, id, role) PROVE Writes
    <2> DEFINE others == [p \in Requests |-> IF Holds(p, id) /\ req[p].held
                                             THEN [req[p] EXCEPT !.role = role] ELSE req[p]]
    <2>1. ASSUME NEW q \in Request
          PROVE  [q EXCEPT !.role = role] \in Request /\ [q EXCEPT !.role = role].at = q.at
      BY <2>1 DEF Request
    <2>2. others \in [Requests -> Request] /\ \A p \in Requests : others[p].at = req[p].at
      BY <1>0, <2>1
    <2>3. Persist(r, [Idle EXCEPT !.op = "role", !.id = id], others)
      BY <1>3 DEF ChangeRole
    <2> HIDE DEF others
    <2> QED BY <2>2, <2>3, WriteType
  <1>4. ASSUME NEW id \in Ids, Delete(r, id) PROVE Writes
    <2> DEFINE others == [p \in Requests |-> IF Holds(p, id)
                                             THEN [req[p] EXCEPT !.late = TRUE, !.held = FALSE]
                                             ELSE req[p]]
    <2>1. ASSUME NEW q \in Request
          PROVE  /\ [q EXCEPT !.late = TRUE, !.held = FALSE] \in Request
                 /\ [q EXCEPT !.late = TRUE, !.held = FALSE].at = q.at
      BY <2>1 DEF Request
    <2>2. others \in [Requests -> Request] /\ \A p \in Requests : others[p].at = req[p].at
      BY <1>0, <2>1
    <2>3. Persist(r, [Idle EXCEPT !.op = "delete", !.id = id], others)
      BY <1>4 DEF Delete
    <2> HIDE DEF others
    <2> QED BY <2>2, <2>3, WriteType
  <1>5. ASSUME NEW id \in Ids, UpdateProfile(r, id) PROVE Writes
    BY <1>0, <1>5, WriteType DEF UpdateProfile
  <1>6. CASE StoreSector(r)
    <2>1. [req[r] EXCEPT !.op = "sector"] \in Request
      <3>1. req[r].op = "register"
        BY <1>6 DEF StoreSector
      <3> QED BY <1>0, <3>1 DEF Request
    <2> QED BY <1>0, <1>6, <2>1 DEF StoreSector
  <1>7. ASSUME SetPassword(r), users[req[r].id] = NoUser
        PROVE  /\ req[r].at = "bcrypt" /\ req' = [req EXCEPT ![r] = Idle]
               /\ UNCHANGED <<users, file, unsynced, script>>
    BY <1>7 DEF SetPassword, history
  <1> QED BY <1>1, <1>2, <1>3, <1>4, <1>5, <1>6, <1>7 DEF Change

LEMMA FinishFile ==
    ASSUME TypeOK, FileInv, NEW r \in Requests, Finish(r)
    PROVE  FileInv'
  <1>0. req \in [Requests -> Request] /\ req[r] \in Request /\ Idle.at = "idle"
    BY DEF TypeOK, Idle
  <1>1. CASE SignIn(r)
    BY <1>0, <1>1, FileStays DEF SignIn, store, Writing
  <1>2. CASE Truncate(r)
    <2>1. req' = [req EXCEPT ![r].at = "fill"] /\ file' = Empty /\ Writing(r)
          /\ UNCHANGED <<users, script>>
      BY <1>2 DEF Truncate, Writing
    <2>2. /\ req'[r].at = "fill" /\ req'[r].table = req[r].table /\ req'[r].solo = req[r].solo
          /\ \A o \in Requests \ {r} : req'[o] = req[o]
      BY <1>0, <2>1 DEF Request
    <2>3. Writing(r)' /\ \A o \in Requests \ {r} : Writing(o)' = Writing(o)
      BY <2>2 DEF Writing
    <2>4. FileAgrees'
      BY <2>3 DEF FileAgrees
    <2>5. ~ (Reloading /\ script.solo)'
      BY <2>1 DEF FileInv, Reloading
    <2> QED BY <2>1, <2>2, <2>3, <2>4, <2>5 DEF FileInv
  <1>3. ASSUME Fill(r) \/ WriteFails(r) PROVE FileInv'
    <2>1. Writing(r) /\ req' = [req EXCEPT ![r] = Idle] /\ UNCHANGED <<users, script>>
      BY <1>3 DEF Fill, Filled, WriteFails, Writing, store
    <2>2. /\ ~ Writing(r)'
          /\ \A o \in Requests \ {r} : req'[o] = req[o] /\ Writing(o)' = Writing(o)
      BY <1>0, <2>1 DEF Writing
    <2>3. ~ (Reloading /\ script.solo)'
      BY <2>1 DEF FileInv, Reloading
    <2>4. \A o \in Requests : (Writing(o) /\ req[o].solo)' => FALSE
      BY <2>1, <2>2 DEF FileInv
    <2>5. FileAgrees'
      <3>1. CASE WriteFails(r)
        BY <3>1 DEF WriteFails, FileAgrees
      <3>2. CASE Fill(r) /\ ~ req[r].solo
        BY <3>2 DEF Fill, FileAgrees
      <3>3. CASE Fill(r) /\ req[r].solo
        <4>1. file = Empty /\ req[r].table = users
          BY <2>1, <3>3 DEF FileInv, Fill, Filled
        <4> QED BY <2>1, <3>3, <4>1 DEF Fill, Filled, FileAgrees
      <3> QED BY <1>3, <3>1, <3>2, <3>3
    <2> QED BY <2>3, <2>4, <2>5 DEF FileInv
  <1> QED BY <1>1, <1>2, <1>3 DEF Finish

LEMMA OutsideFile ==
    ASSUME TypeOK, FileInv, Outside
    PROVE  FileInv'
  <1>0. /\ req \in [Requests -> Request] /\ script \in Script /\ file \in File
        /\ \A p \in Requests : req[p] \in Request
    BY DEF TypeOK
  <1>1. ASSUME NEW id \in Ids, NEW p \in Pwds, ScriptReads(id, p) PROVE FileInv'
    <2>1. script'.at = "hash" /\ UNCHANGED <<users, file, unsynced, req>>
      BY <1>1 DEF ScriptReads, store, history
    <2> QED BY <2>1 DEF FileInv, FileAgrees, Writing, Reloading
  <1>2. CASE ScriptWrites
    <2>1. script'.at = "signal" /\ unsynced'
      BY <1>0, <1>2 DEF ScriptWrites, Script
    <2>2. \A p \in Requests : ~ req'[p].solo
      <3>1. \A q \in Request : ~ [q EXCEPT !.solo = FALSE].solo
        BY DEF Request
      <3> QED BY <1>0, <1>2, <3>1 DEF ScriptWrites
    <2> QED BY <2>1, <2>2 DEF FileInv, FileAgrees, Reloading
  <1>3. CASE ReloadReads
    <2>1. UNCHANGED <<users, file, unsynced, req>>
      BY <1>3 DEF ReloadReads, store, history
    <2>2. CASE file.state = "whole"
      <3> DEFINE alone == \A r \in Requests : ~ Writing(r)
      <3>1. script' = [script EXCEPT !.at = "read", !.table = file.table, !.solo = alone]
        BY <1>3, <2>2 DEF ReloadReads
      <3> HIDE DEF alone
      <3>2. script'.table = file.table /\ script'.solo = alone
        BY <1>0, <3>1 DEF Script
      <3>3. file = Whole(file.table)
        BY <1>0, <2>2 DEF File, Whole
      <3> QED BY <2>1, <3>2, <3>3 DEF FileInv, FileAgrees, Writing, alone
    <2>3. CASE file.state # "whole"
      <3>1. script'.at = "done"
        BY <1>3, <2>3 DEF ReloadReads, ScriptDone
      <3> QED BY <2>1, <3>1 DEF FileInv, FileAgrees, Writing, Reloading
    <2> QED BY <2>2, <2>3
  <1>4. CASE ReloadApplies
    <2>1. /\ users' = script.table /\ file' = file /\ script'.at = "done"
          /\ unsynced' = ~ script.solo /\ Reloading
      BY <1>4 DEF ReloadApplies, ScriptDone, Reloading
    <2>2. \A p \in Requests : ~ req'[p].solo
      <3>1. \A q \in Request : \A b : ~ [q EXCEPT !.solo = FALSE, !.held = FALSE, !.late = b].solo
        BY DEF Request
      <3> QED BY <1>0, <1>4, <3>1 DEF ReloadApplies
    <2> QED BY <2>1, <2>2 DEF FileInv, FileAgrees, Reloading
  <1>5. ASSUME NEW kept \in {{}, sessions}, Restart(kept) PROVE FileInv'
    <2>1. /\ file' = Whole(users') /\ script'.at # "read"
          /\ \A p \in Requests : req'[p].at = "idle"
      BY <1>5 DEF Restart, ScriptDone, Idle
    <2> QED BY <2>1 DEF FileInv, FileAgrees, Writing, Reloading
  <1> QED BY <1>1, <1>2, <1>3, <1>4, <1>5 DEF Outside

LEMMA FileNext ==
    ASSUME TypeOK, IndexNames, FileInv, Next
    PROVE  FileInv'
  <1>0. /\ req \in [Requests -> Request] /\ script \in Script /\ Idle.at = "idle"
    BY DEF TypeOK, Idle
  <1>1. ASSUME NEW r \in Requests, Ask(r) PROVE FileInv'
    <2>1. UNCHANGED <<users, file, unsynced, script>>
      BY <1>1, AskNext DEF store, history
    <2>2. req[r].at = "idle" /\ \E q : q.at = "bcrypt" /\ req' = [req EXCEPT ![r] = q]
      <3>1. ASSUME NEW n \in Names, NEW p \in Pwds, NEW role \in Roles, Register(r, n, p, role)
            PROVE  req[r].at = "idle" /\ \E q : q.at = "bcrypt" /\ req' = [req EXCEPT ![r] = q]
        BY <3>1 DEF Register, Begins, Idle
      <3>2. ASSUME NEW n \in Names, Login(r, n)
            PROVE  req[r].at = "idle" /\ \E q : q.at = "bcrypt" /\ req' = [req EXCEPT ![r] = q]
        BY <3>2 DEF Login, Begins, Idle
      <3>3. ASSUME NEW id \in Ids, NEW p \in Pwds, ChangePassword(r, id, p)
            PROVE  req[r].at = "idle" /\ \E q : q.at = "bcrypt" /\ req' = [req EXCEPT ![r] = q]
        BY <3>3 DEF ChangePassword, Begins, Idle
      <3> QED BY <1>1, <3>1, <3>2, <3>3 DEF Ask
    <2>3. \A p \in Requests : \/ req'[p] = req[p]
                              \/ ~ Writing(p) /\ req'[p].at \notin {"truncate", "fill"}
      BY <1>0, <2>2 DEF Writing
    <2> QED BY <2>1, <2>3, FileStays
  <1>2. ASSUME NEW r \in Requests, Change(r) PROVE FileInv'
    <2>1. CASE \E q \in Request, others \in [Requests -> Request] :
                  Persist(r, q, others) /\ \A p \in Requests : others[p].at = req[p].at
      BY <1>0, <2>1, PersistFile
    <2>2. CASE /\ req[r].at = "bcrypt" /\ req' = [req EXCEPT ![r] = Idle]
               /\ UNCHANGED <<users, file, unsynced, script>>
      <3>1. \A p \in Requests : \/ req'[p] = req[p]
                                \/ ~ Writing(p) /\ req'[p].at \notin {"truncate", "fill"}
        BY <1>0, <2>2 DEF Writing
      <3> QED BY <2>2, <3>1, FileStays
    <2> QED BY <1>2, <2>1, <2>2, ChangePersists
  <1>3. ASSUME NEW r \in Requests, Finish(r) PROVE FileInv'
    BY <1>3, FinishFile
  <1>4. CASE Ends
    BY <1>4, FileStays DEF Ends, Refresh, Expire, Logout, store, history
  <1>5. CASE Outside
    BY <1>5, OutsideFile
  <1> QED BY <1>1, <1>2, <1>3, <1>4, <1>5, NextCases

\* When no write is under way the file holds the accounts in memory, unless the
\* last accesses to it overlapped or failed: for any number of requests, of
\* restarts and of failed writes, with the reset script at any point.
THEOREM FileAlwaysAgrees == Spec => []FileAgrees
  <1>1. Init => FileInv
    BY DEF Init, FileInv, FileAgrees, Writing, Reloading, Idle
  <1>2. Inv /\ FileInv /\ [Next]_vars => FileInv'
    <2>1. ASSUME FileInv, UNCHANGED vars PROVE FileInv'
      BY <2>1 DEF FileInv, FileAgrees, Writing, Reloading, vars, store, history
    <2> QED BY <2>1, FileNext DEF Inv
  <1>3. FileInv => FileAgrees
    BY DEF FileInv
  <1> QED BY <1>1, <1>2, <1>3, InitInv, InvInductive, PTL DEF Spec

----------------------------------------------------------------------------
(* Sessions and changes of the account.                                    *)

\* In table t the account has this password and this role.
Matches(t, id, pwd, role) ==
    t[id] # NoUser /\ t[id].pwd = pwd /\ t[id].role = role

\* Somebody else is to end this session, or nobody ever will.
Excused(s) == s.late \/ s.id \in unrevoked \/ Revoking(s.id)

\* A request that will issue sessions does so from the user object that is in
\* the store, unless it knows that the account changed.
HolderMatches(q, t, g) ==
    q.op \in {"login", "register", "sector"} /\ q.id \in Ids =>
        q.id \in g /\ (q.late \/ (q.held /\ Matches(t, q.id, q.pwd, q.role)))

RevokeInv ==
    /\ \A s \in sessions :
          s.id \in given /\ (Excused(s) \/ Matches(users, s.id, s.proof, s.role))
    /\ \A r \in Requests : HolderMatches(req[r], users, given)

\* A handler that goes to write: it tells the requests that hold a user object
\* it changes, and either ends the sessions of that account or is to do so.
LEMMA PersistRevokes ==
    ASSUME TypeOK, RevokeInv, NEW r \in Requests, NEW q \in Request,
           NEW others \in [Requests -> Request], Persist(r, q, others), given \subseteq given',
           req[r].op \in {"password", "role"} => ~ Writing(r),
           \A p \in Requests \ {r} :
               /\ others[p].at = req[p].at /\ others[p].op = req[p].op /\ others[p].id = req[p].id
               /\ HolderMatches(others[p], users', given'),
           HolderMatches(q, users', given'),
           \A s \in sessions' :
               /\ s \in sessions /\ (s.id \in unrevoked => s.id \in unrevoked')
               /\ \/ users'[s.id] = users[s.id]
                  \/ q.op \in {"password", "role"} /\ q.id = s.id
    PROVE  RevokeInv'
  <1>0. script \in Script
    BY DEF TypeOK
  <1>1. /\ Alike(req'[r], q) /\ req'[r].at = "truncate"
        /\ \A p \in Requests \ {r} : Alike(req'[p], others[p]) /\ req'[p].at = others[p].at
    BY <1>0, PersistRequests
  <1>2. ASSUME NEW id, Revoking(id) PROVE Revoking(id)'
    <2>1. PICK p \in Requests : req[p].op \in {"password", "role"} /\ Writing(p) /\ req[p].id = id
      BY <1>2 DEF Revoking
    <2>2. p # r
      BY <2>1
    <2> QED BY <1>1, <2>1, <2>2 DEF Revoking, Writing, Alike
  <1>3. ASSUME q.op \in {"password", "role"} PROVE Revoking(q.id)'
    BY <1>1, <1>3 DEF Revoking, Writing, Alike
  <1>4. ASSUME NEW s \in sessions'
        PROVE  s.id \in given' /\ (\/ s.late \/ s.id \in unrevoked' \/ Revoking(s.id)'
                                   \/ Matches(users', s.id, s.proof, s.role))
    <2>1. s.id \in given /\ (Excused(s) \/ Matches(users, s.id, s.proof, s.role))
      BY <1>4 DEF RevokeInv
    <2>2. CASE users'[s.id] = users[s.id]
      BY <1>2, <1>4, <2>1, <2>2 DEF Excused, Matches
    <2>3. CASE q.op \in {"password", "role"} /\ q.id = s.id
      BY <1>3, <2>1, <2>3
    <2> QED BY <1>4, <2>2, <2>3
  <1>5. ASSUME NEW p \in Requests PROVE HolderMatches(req'[p], users', given')
    BY <1>1, <1>5 DEF HolderMatches, Alike
  <1> QED BY <1>4, <1>5 DEF RevokeInv, Excused

\* A step that changes no account, and gives requests that revoke nothing new
\* things in hand.
LEMMA RevokeStays ==
    ASSUME RevokeInv, UNCHANGED <<users, given, unrevoked>>, sessions' \subseteq sessions,
           \A p \in Requests :
               \/ req'[p] = req[p]
               \/ /\ req[p].op \in {"password", "role"} => ~ Writing(p)
                  /\ HolderMatches(req'[p], users, given)
    PROVE  RevokeInv'
  <1>1. \A id : Revoking(id) => Revoking(id)'
    BY DEF Revoking, Writing
  <1>2. \A p \in Requests : HolderMatches(req'[p], users, given)
    BY DEF RevokeInv
  <1> QED BY <1>1, <1>2 DEF RevokeInv, Excused

LEMMA ChangeRevokes ==
    ASSUME Inv, RevokeInv, NEW r \in Requests, Change(r)
    PROVE  RevokeInv'
  <1>0. /\ req \in [Requests -> Request] /\ users \in Table /\ given \subseteq Ids
        /\ req[r] \in Request /\ Taken(users) \subseteq given /\ TypeOK
        /\ \A p \in Requests : HolderMatches(req[p], users, given)
        /\ \A s \in sessions : s.id \in given /\ s.id \in Ids
    BY DEF Inv, TypeOK, AllGood, Good, RevokeInv
  <1>1. ASSUME NEW id \in Ids, Create(r, id) PROVE RevokeInv'
    <2> DEFINE new == [name |-> req[r].name, pwd |-> req[r].pwd, role |-> req[r].role]
               q   == [req[r] EXCEPT !.id = id, !.held = TRUE]
    <2>1. /\ req[r].op = "register" /\ id \notin given /\ given' = given \cup {id}
          /\ users' = [users EXCEPT ![id] = new] /\ UNCHANGED <<sessions, unrevoked>>
          /\ Persist(r, q, req)
      BY <1>1 DEF Create
    <2>2. new \in User /\ new # NoUser
      BY <1>0, <2>1, AccountsAssumption DEF Request, User
    <2>3. /\ q \in Request /\ q.op = "register" /\ q.id = id /\ q.held
          /\ q.pwd = new.pwd /\ q.role = new.role
      BY <1>0, <2>1 DEF Request
    <2> HIDE DEF q, new
    <2>4. users'[id] = new /\ \A i \in given : users'[i] = users[i]
      BY <1>0, <2>1 DEF Table
    <2>5. HolderMatches(q, users', given')
      BY <2>1, <2>2, <2>3, <2>4 DEF HolderMatches, Matches
    <2>6. \A p \in Requests : HolderMatches(req[p], users', given')
      BY <1>0, <2>1, <2>4 DEF HolderMatches, Matches
    <2> QED BY <1>0, <2>1, <2>3, <2>4, <2>5, <2>6, PersistRevokes
  <1>2. CASE SetPassword(r)
    <2>1. req[r].id \in Ids /\ req[r].pwd \in Pwds /\ req[r].op = "password" /\ ~ Writing(r)
          /\ UNCHANGED <<given, unrevoked>>
      BY <1>0, <1>2 DEF SetPassword, Request, Writing, history
    <2>2. CASE users[req[r].id] = NoUser
      <3>1. /\ sessions' \subseteq sessions /\ users' = users
            /\ \A p \in Requests \ {r} : req'[p] = req[p]
            /\ req'[r].op = "none"
        BY <1>0, <1>2, <2>2 DEF SetPassword, Revoked, Idle
      <3>2. HolderMatches(req'[r], users, given)
        BY <3>1 DEF HolderMatches
      <3> QED BY <2>1, <3>1, <3>2, RevokeStays
    <2>3. CASE users[req[r].id] # NoUser
      <3> DEFINE others == [p \in Requests |-> IF Holds(p, req[r].id)
                                               THEN [req[p] EXCEPT !.late = TRUE] ELSE req[p]]
      <3>1. ASSUME NEW q \in Request, NEW q2, q2 = [q EXCEPT !.late = TRUE]
            PROVE  /\ q2 \in Request /\ q2.at = q.at /\ q2.op = q.op /\ q2.id = q.id /\ q2.late
        BY <3>1 DEF Request
      <3>2. Persist(r, req[r], others) /\ UNCHANGED sessions
            /\ users' = [users EXCEPT ![req[r].id].pwd = req[r].pwd]
        BY <1>2, <2>3 DEF SetPassword
      <3>3. /\ others \in [Requests -> Request]
            /\ \A p \in Requests :
                  /\ others[p].at = req[p].at /\ others[p].op = req[p].op
                  /\ others[p].id = req[p].id
                  /\ others[p].late \/ (others[p] = req[p] /\ ~ Holds(p, req[r].id))
        BY <1>0, <3>1
      <3> HIDE DEF others
      <3>4. \A i \in Ids : i # req[r].id => users'[i] = users[i]
        BY <1>0, <3>2 DEF Table
      <3>5. \A p \in Requests : HolderMatches(others[p], users', given')
        BY <1>0, <2>1, <3>3, <3>4 DEF HolderMatches, Matches, Holds
      <3>6. HolderMatches(req[r], users', given')
        BY <2>1 DEF HolderMatches
      <3>7. \A s \in sessions' :
               /\ s \in sessions /\ (s.id \in unrevoked => s.id \in unrevoked')
               /\ \/ users'[s.id] = users[s.id]
                  \/ req[r].op \in {"password", "role"} /\ req[r].id = s.id
        BY <1>0, <2>1, <3>2, <3>4
      <3>8. \A p \in Requests \ {r} :
               /\ others[p].at = req[p].at /\ others[p].op = req[p].op /\ others[p].id = req[p].id
               /\ HolderMatches(others[p], users', given')
        BY <3>3, <3>5
      <3>9. given \subseteq given' /\ (req[r].op \in {"password", "role"} => ~ Writing(r))
        BY <2>1
      <3>10. TypeOK /\ req[r] \in Request /\ others \in [Requests -> Request]
             /\ Persist(r, req[r], others)
        BY <1>0, <3>2, <3>3
      <3> QED BY <3>6, <3>7, <3>8, <3>9, <3>10, PersistRevokes
    <2> QED BY <2>2, <2>3
  <1>3. ASSUME NEW id \in Ids, NEW role \in Roles, ChangeRole(r, id, role) PROVE RevokeInv'
    <2> DEFINE others == [p \in Requests |-> IF Holds(p, id) /\ req[p].held
                                             THEN [req[p] EXCEPT !.role = role] ELSE req[p]]
               q == [Idle EXCEPT !.op = "role", !.id = id]
    <2>1. ASSUME NEW o \in Request, NEW o2, o2 = [o EXCEPT !.role = role]
          PROVE  /\ o2 \in Request /\ o2.at = o.at /\ o2.op = o.op /\ o2.id = o.id
                 /\ o2.late = o.late /\ o2.held = o.held /\ o2.pwd = o.pwd /\ o2.role = role
      BY <2>1 DEF Request
    <2>2. /\ Persist(r, q, others) /\ UNCHANGED <<sessions, given, unrevoked>> /\ users[id] # NoUser
          /\ users' = [users EXCEPT ![id].role = role] /\ ~ Writing(r)
      BY <1>3 DEF ChangeRole, Begins, Writing, history
    <2>3. q \in Request /\ q.op = "role" /\ q.id = id
      BY WriteType DEF Idle
    <2>4. users[id] \in User
      BY <1>0, <2>2 DEF Table
    <2>5. /\ users'[id] # NoUser /\ users'[id].pwd = users[id].pwd /\ users'[id].role = role
          /\ \A i \in Ids : i # id => users'[i] = users[i]
      <3>1. [users[id] EXCEPT !.role = role] \in User
        BY <2>4 DEF User
      <3>2. users' = [users EXCEPT ![id] = [users[id] EXCEPT !.role = role]]
        BY <2>2
      <3> QED BY <1>0, <2>4, <3>1, <3>2, AccountsAssumption DEF Table, User
    <2>6. /\ others \in [Requests -> Request]
          /\ \A p \in Requests :
                /\ others[p].at = req[p].at /\ others[p].op = req[p].op
                /\ others[p].id = req[p].id /\ others[p].late = req[p].late
                /\ others[p].held = req[p].held /\ others[p].pwd = req[p].pwd
                /\ IF Holds(p, id) /\ req[p].held THEN others[p].role = role
                                                  ELSE others[p].role = req[p].role
      BY <1>0, <2>1
    <2> HIDE DEF others, q
    <2>7. \A p \in Requests : HolderMatches(others[p], users', given')
      BY <1>0, <2>2, <2>5, <2>6 DEF HolderMatches, Matches, Holds
    <2>8. HolderMatches(q, users', given')
      BY <2>3 DEF HolderMatches
    <2>9. \A s \in sessions' :
               /\ s \in sessions /\ (s.id \in unrevoked => s.id \in unrevoked')
               /\ \/ users'[s.id] = users[s.id]
                  \/ q.op \in {"password", "role"} /\ q.id = s.id
      BY <1>0, <2>2, <2>3, <2>5
    <2>10. \A p \in Requests \ {r} :
               /\ others[p].at = req[p].at /\ others[p].op = req[p].op /\ others[p].id = req[p].id
               /\ HolderMatches(others[p], users', given')
      BY <2>6, <2>7
    <2>11. given \subseteq given' /\ TypeOK /\ Persist(r, q, others) /\ ~ Writing(r)
           /\ q \in Request /\ others \in [Requests -> Request]
      BY <1>0, <2>2, <2>3, <2>6
    <2> QED BY <2>8, <2>9, <2>10, <2>11, PersistRevokes
  <1>4. ASSUME NEW id \in Ids, Delete(r, id) PROVE RevokeInv'
    <2> DEFINE others == [p \in Requests |-> IF Holds(p, id)
                                             THEN [req[p] EXCEPT !.late = TRUE, !.held = FALSE]
                                             ELSE req[p]]
               q == [Idle EXCEPT !.op = "delete", !.id = id]
    <2>1. ASSUME NEW o \in Request, NEW o2, o2 = [o EXCEPT !.late = TRUE, !.held = FALSE]
          PROVE  /\ o2 \in Request /\ o2.at = o.at /\ o2.op = o.op /\ o2.id = o.id /\ o2.late
      BY <2>1 DEF Request
    <2>2. /\ Persist(r, q, others) /\ given' = given /\ unrevoked' = unrevoked \ {id}
          /\ sessions' = Revoked(id) /\ users' = [users EXCEPT ![id] = NoUser] /\ ~ Writing(r)
      BY <1>4 DEF Delete, Begins, Writing
    <2>3. q \in Request /\ q.op = "delete" /\ q.id = id
      BY WriteType DEF Idle
    <2>4. \A i \in Ids : i # id => users'[i] = users[i]
      BY <1>0, <2>2 DEF Table
    <2>5. /\ others \in [Requests -> Request]
          /\ \A p \in Requests :
                /\ others[p].at = req[p].at /\ others[p].op = req[p].op
                /\ others[p].id = req[p].id
                /\ others[p].late \/ (others[p] = req[p] /\ ~ Holds(p, id))
      BY <1>0, <2>1
    <2> HIDE DEF others, q
    <2>6. \A p \in Requests : HolderMatches(others[p], users', given')
      BY <1>0, <2>2, <2>4, <2>5 DEF HolderMatches, Matches, Holds
    <2>7. HolderMatches(q, users', given')
      BY <2>3 DEF HolderMatches
    <2>8. \A s \in sessions' : s \in sessions /\ s.id # id
      BY <2>2 DEF Revoked
    <2>9. \A s \in sessions' :
               /\ s \in sessions /\ (s.id \in unrevoked => s.id \in unrevoked')
               /\ \/ users'[s.id] = users[s.id]
                  \/ q.op \in {"password", "role"} /\ q.id = s.id
      BY <1>0, <2>2, <2>4, <2>8
    <2>10. \A p \in Requests \ {r} :
               /\ others[p].at = req[p].at /\ others[p].op = req[p].op /\ others[p].id = req[p].id
               /\ HolderMatches(others[p], users', given')
      BY <2>5, <2>6
    <2>11. given \subseteq given' /\ TypeOK /\ Persist(r, q, others) /\ ~ Writing(r)
           /\ q \in Request /\ others \in [Requests -> Request]
      BY <1>0, <2>2, <2>3, <2>5
    <2> QED BY <2>7, <2>9, <2>10, <2>11, PersistRevokes
  <1>5. ASSUME NEW id \in Ids, UpdateProfile(r, id) PROVE RevokeInv'
    <2> DEFINE q == [Idle EXCEPT !.op = "profile", !.id = id]
    <2>1. Persist(r, q, req) /\ UNCHANGED <<users, sessions, given, unrevoked>> /\ ~ Writing(r)
      BY <1>5 DEF UpdateProfile, Begins, Writing, history
    <2>2. q \in Request /\ q.op = "profile"
      BY WriteType DEF Idle
    <2> HIDE DEF q
    <2>3. HolderMatches(q, users', given')
      BY <2>2 DEF HolderMatches
    <2> QED BY <1>0, <2>1, <2>2, <2>3, PersistRevokes
  <1>6. CASE StoreSector(r)
    <2> DEFINE q == [req[r] EXCEPT !.op = "sector"]
    <2>1. /\ Persist(r, q, req) /\ UNCHANGED <<users, sessions, given, unrevoked>>
          /\ req[r].op = "register"
      BY <1>6 DEF StoreSector, history
    <2>2. /\ q \in Request /\ q.id = req[r].id /\ q.late = req[r].late /\ q.held = req[r].held
          /\ q.pwd = req[r].pwd /\ q.role = req[r].role
      BY <1>0, <2>1 DEF Request
    <2> HIDE DEF q
    <2>3. HolderMatches(q, users', given')
      BY <1>0, <2>1, <2>2 DEF HolderMatches
    <2> QED BY <1>0, <2>1, <2>2, <2>3, PersistRevokes
  <1> QED BY <1>1, <1>2, <1>3, <1>4, <1>5, <1>6 DEF Change

LEMMA AskRevokes ==
    ASSUME Inv, RevokeInv, NEW r \in Requests, Ask(r)
    PROVE  RevokeInv'
  <1>0. /\ req \in [Requests -> Request] /\ Nobody \notin Ids /\ TypeOK /\ IndexNames
        /\ Taken(users) \subseteq given /\ index \in [Names -> Ids \cup {Nobody}]
    BY AccountsAssumption DEF Inv, TypeOK, AllGood, Good
  <1>1. UNCHANGED <<users, given, unrevoked, sessions>>
    BY <1>0, AskNext DEF store, history
  <1>2. ~ Writing(r)
    BY DEF Ask, Register, Login, ChangePassword, Begins, Writing
  <1>3. ASSUME NEW q, req' = [req EXCEPT ![r] = q], HolderMatches(q, users, given)
        PROVE  RevokeInv'
    <2>1. \A p \in Requests : \/ req'[p] = req[p]
                              \/ ~ Writing(p) /\ HolderMatches(req'[p], users, given)
      BY <1>0, <1>2, <1>3
    <2> QED BY <1>1, <2>1, RevokeStays
  <1>4. ASSUME NEW n \in Names, NEW p \in Pwds, NEW role \in Roles, Register(r, n, p, role)
        PROVE  RevokeInv'
    <2> DEFINE q == [Idle EXCEPT !.op = "register", !.at = "bcrypt", !.name = n, !.pwd = p,
                                 !.role = role]
    <2>1. q.id = Nobody
      BY DEF Idle
    <2>2. req' = [req EXCEPT ![r] = q]
      BY <1>4 DEF Register
    <2> HIDE DEF q
    <2> QED BY <1>0, <1>3, <2>1, <2>2 DEF HolderMatches
  <1>5. ASSUME NEW n \in Names, Login(r, n) PROVE RevokeInv'
    <2> DEFINE u == users[index[n]]
               q == [Idle EXCEPT !.op = "login", !.at = "bcrypt", !.id = index[n],
                                 !.pwd = u.pwd, !.role = u.role, !.held = TRUE]
    <2>1. q.id = index[n] /\ q.held /\ q.pwd = u.pwd /\ q.role = u.role
      BY DEF Idle
    <2>2. req' = [req EXCEPT ![r] = q] /\ index[n] # Nobody
      BY <1>5 DEF Login
    <2>3. u # NoUser /\ index[n] \in given
      BY <1>0, <2>2 DEF IndexNames, Taken
    <2>4. HolderMatches(q, users, given)
      BY <2>1, <2>3 DEF HolderMatches, Matches
    <2> HIDE DEF q
    <2> QED BY <1>3, <2>2, <2>4
  <1>6. ASSUME NEW id \in Ids, NEW p \in Pwds, ChangePassword(r, id, p) PROVE RevokeInv'
    <2> DEFINE q == [Idle EXCEPT !.op = "password", !.at = "bcrypt", !.id = id, !.pwd = p]
    <2>1. q.op = "password"
      BY DEF Idle
    <2>2. req' = [req EXCEPT ![r] = q]
      BY <1>6 DEF ChangePassword
    <2> HIDE DEF q
    <2> QED BY <1>3, <2>1, <2>2 DEF HolderMatches
  <1> QED BY <1>4, <1>5, <1>6 DEF Ask

\* The sessions of one account make way for new ones that match it.
LEMMA PairRevokes ==
    ASSUME RevokeInv, NEW q, NEW new, new \subseteq Pair(q.id, q.role, q.pwd, q.late),
           sessions' \subseteq sessions \cup new, UNCHANGED <<users, given>>,
           q.op \in {"login", "register", "sector"} /\ q.id \in Ids,
           HolderMatches(q, users, given),
           \A s \in sessions' \ new : Excused(s) => Excused(s)',
           \A p \in Requests : HolderMatches(req'[p], users, given)
    PROVE  RevokeInv'
  <1>1. ASSUME NEW s \in new
        PROVE  s.id \in given /\ (s.late \/ Matches(users, s.id, s.proof, s.role))
    <2>1. s.id = q.id /\ s.late = q.late /\ s.proof = q.pwd /\ s.role = q.role
      BY <1>1 DEF Pair
    <2> QED BY <2>1 DEF HolderMatches
  <1> QED BY <1>1 DEF RevokeInv, Excused

LEMMA FinishRevokes ==
    ASSUME Inv, RevokeInv, NEW r \in Requests, Finish(r)
    PROVE  RevokeInv'
  <1>0. /\ req \in [Requests -> Request] /\ req[r] \in Request /\ Idle.op = "none"
        /\ \A p \in Requests : HolderMatches(req[p], users, given)
    BY DEF Inv, TypeOK, RevokeInv, Idle
  <1>1. ASSUME req' = [req EXCEPT ![r] = Idle]
        PROVE  /\ \A p \in Requests : HolderMatches(req'[p], users, given)
               /\ \A id : Revoking(id) /\ ~ (req[r].op \in {"password", "role"} /\ req[r].id = id)
                      => Revoking(id)'
    <2>1. \A p \in Requests : req'[p] = (IF p = r THEN Idle ELSE req[p])
      BY <1>0, <1>1
    <2> QED BY <1>0, <2>1 DEF HolderMatches, Revoking, Writing
  <1>2. CASE SignIn(r)
    <2> DEFINE q == req[r]
    <2>1. /\ q.op = "login" /\ req' = [req EXCEPT ![r] = Idle] /\ UNCHANGED <<users, given>>
          /\ sessions' = Revoked(q.id) \cup Pair(q.id, q.role, q.pwd, q.late)
          /\ unrevoked' = unrevoked \ {q.id}
      BY <1>2 DEF SignIn, store
    <2>2. q.id \in Ids
      BY <1>0, <2>1 DEF Request
    <2>3. \A s \in Revoked(q.id) : s \in sessions /\ s.id # q.id
      BY DEF Revoked
    <2>4. \A s \in Revoked(q.id) : Excused(s) => Excused(s)'
      BY <1>1, <2>1, <2>3 DEF Excused
    <2> HIDE DEF q
    <2>5. HolderMatches(q, users, given)
      BY <1>0 DEF q
    <2> QED BY <1>1, <2>1, <2>2, <2>3, <2>4, <2>5, PairRevokes
  <1>3. CASE Truncate(r)
    <2>1. req' = [req EXCEPT ![r].at = "fill"] /\ req[r].at = "truncate"
          /\ UNCHANGED <<users, given, unrevoked, sessions>>
      BY <1>3 DEF Truncate, history
    <2>2. Alike(req'[r], req[r]) /\ req'[r].at = "fill"
          /\ \A p \in Requests \ {r} : req'[p] = req[p]
      BY <1>0, <2>1 DEF Request, Alike
    <2>3. \A id : Revoking(id) => Revoking(id)'
      BY <2>2 DEF Revoking, Writing, Alike
    <2>4. \A p \in Requests : HolderMatches(req'[p], users, given)
      BY <1>0, <2>2 DEF HolderMatches, Alike
    <2> QED BY <2>1, <2>3, <2>4 DEF RevokeInv, Excused
  <1>4. CASE Fill(r)
    <2> DEFINE q == req[r]
    <2>1. /\ q.at = "fill" /\ req' = [req EXCEPT ![r] = Idle] /\ UNCHANGED <<users, given>>
          /\ Answer(r)
      BY <1>4 DEF Fill, Filled
    <2>2. q.id \in Ids
      BY <1>0, <2>1 DEF Request
    <2>3. CASE q.op \in {"register", "sector"}
      <3>1. /\ sessions' = sessions \cup Pair(q.id, q.role, q.pwd, q.late)
            /\ unrevoked' = unrevoked
        BY <2>1, <2>3 DEF Answer
      <3>2. \A s \in sessions : Excused(s) => Excused(s)'
        BY <1>1, <2>1, <2>3, <3>1 DEF Excused
      <3> HIDE DEF q
      <3>3. HolderMatches(q, users, given)
        BY <1>0 DEF q
      <3> QED BY <1>1, <2>1, <2>2, <2>3, <3>1, <3>2, <3>3, PairRevokes
    <2>4. CASE q.op \in {"password", "role"}
      <3>1. sessions' = Revoked(q.id) /\ unrevoked' = unrevoked \ {q.id}
        BY <2>1, <2>4 DEF Answer
      <3>2. \A s \in sessions' : s \in sessions /\ s.id # q.id
        BY <3>1 DEF Revoked
      <3>3. \A s \in sessions' : Excused(s) => Excused(s)'
        BY <1>1, <2>1, <3>1, <3>2 DEF Excused
      <3> QED BY <1>1, <2>1, <3>2, <3>3 DEF RevokeInv, Excused
    <2>5. CASE q.op \notin {"register", "sector", "password", "role"}
      <3>1. UNCHANGED <<sessions, unrevoked>>
        BY <2>1, <2>5 DEF Answer
      <3>2. \A s \in sessions : Excused(s) => Excused(s)'
        BY <1>1, <2>1, <2>5, <3>1 DEF Excused
      <3> QED BY <1>1, <2>1, <3>1, <3>2 DEF RevokeInv, Excused
    <2> QED BY <2>3, <2>4, <2>5
  <1>5. CASE WriteFails(r)
    <2>1. /\ req' = [req EXCEPT ![r] = Idle] /\ UNCHANGED <<users, given, sessions>>
          /\ unrevoked' = IF req[r].op \in {"password", "role"} THEN unrevoked \cup {req[r].id}
                                                                ELSE unrevoked
      BY <1>5 DEF WriteFails, store
    <2>2. \A s \in sessions : Excused(s) => Excused(s)'
      BY <1>1, <2>1 DEF Excused
    <2> QED BY <1>1, <2>1, <2>2 DEF RevokeInv, Excused
  <1> QED BY <1>2, <1>3, <1>4, <1>5 DEF Finish

LEMMA EndsRevokes ==
    ASSUME TypeOK, RevokeInv, Ends
    PROVE  RevokeInv'
  <1>1. UNCHANGED <<users, given, req>>
    BY DEF Ends, Refresh, Expire, Logout, store
  <1>2. \A id : Revoking(id)' = Revoking(id)
    BY <1>1 DEF Revoking, Writing
  <1>3. \A p \in Requests : HolderMatches(req'[p], users', given')
    BY <1>1 DEF RevokeInv
  <1>4. ASSUME NEW s \in sessions, Refresh(s) PROVE RevokeInv'
    <2>1. /\ sessions' = (sessions \ {s}) \cup Pair(s.id, users[s.id].role, s.proof, s.late)
          /\ unrevoked' = unrevoked
      BY <1>4 DEF Refresh, history
    <2>2. ASSUME NEW n \in Pair(s.id, users[s.id].role, s.proof, s.late)
          PROVE  n.id \in given /\ (Excused(n) \/ Matches(users, n.id, n.proof, n.role))
      <3>1. n.id = s.id /\ n.late = s.late /\ n.proof = s.proof /\ n.role = users[s.id].role
        BY <2>2 DEF Pair
      <3>2. s.id \in given /\ (Excused(s) \/ Matches(users, s.id, s.proof, s.role))
        BY DEF RevokeInv
      <3> QED BY <3>1, <3>2 DEF Excused, Matches
    <2> QED BY <1>1, <1>2, <1>3, <2>1, <2>2 DEF RevokeInv, Excused
  <1>5. ASSUME NEW s \in sessions, Expire(s) PROVE RevokeInv'
    <2>1. sessions' \subseteq sessions /\ unrevoked' = unrevoked
      BY <1>5 DEF Expire, history
    <2> QED BY <1>1, <1>2, <1>3, <2>1 DEF RevokeInv, Excused
  <1>6. ASSUME NEW id \in Ids, Logout(id) PROVE RevokeInv'
    <2>1. /\ \A s \in sessions' : s \in sessions /\ s.id # id
          /\ unrevoked' = unrevoked \ {id}
      BY <1>6 DEF Logout, Revoked
    <2> QED BY <1>1, <1>2, <1>3, <2>1 DEF RevokeInv, Excused
  <1> QED BY <1>4, <1>5, <1>6 DEF Ends

LEMMA OutsideRevokes ==
    ASSUME TypeOK, RevokeInv, Outside
    PROVE  RevokeInv'
  <1>0. /\ req \in [Requests -> Request] /\ sessions \subseteq Session
        /\ \A p \in Requests : req[p] \in Request
        /\ \A s \in sessions : s.id \in Ids
    BY DEF TypeOK, Session
  <1>1. CASE ReloadReads \/ \E id \in Ids, p \in Pwds : ScriptReads(id, p)
    BY <1>1, RevokeStays DEF ReloadReads, ScriptReads, store, history
  <1>2. CASE ScriptWrites
    <2>1. ASSUME NEW p \in Requests
          PROVE  Alike(req'[p], req[p]) /\ req'[p].at = req[p].at
      <3>1. \A q \in Request : Alike([q EXCEPT !.solo = FALSE], q)
                               /\ [q EXCEPT !.solo = FALSE].at = q.at
        BY DEF Request, Alike
      <3> QED BY <1>0, <1>2, <2>1, <3>1 DEF ScriptWrites
    <2>2. UNCHANGED <<users, sessions, given, unrevoked>>
      BY <1>2 DEF ScriptWrites
    <2>3. \A id : Revoking(id) => Revoking(id)'
      BY <2>1 DEF Revoking, Writing, Alike
    <2>4. \A p \in Requests : HolderMatches(req'[p], users, given)
      BY <2>1 DEF RevokeInv, HolderMatches, Alike
    <2> QED BY <2>2, <2>3, <2>4 DEF RevokeInv, Excused
  <1>3. CASE ReloadApplies
    <2>1. ASSUME NEW p \in Requests
          PROVE  /\ req'[p].at = req[p].at /\ req'[p].op = req[p].op /\ req'[p].id = req[p].id
                 /\ req[p].late \/ req[p].held => req'[p].late
      <3>1. ASSUME NEW q \in Request, NEW b \in BOOLEAN,
                   NEW new, new = [q EXCEPT !.solo = FALSE, !.held = FALSE, !.late = b]
            PROVE  /\ new.at = q.at /\ new.op = q.op /\ new.id = q.id /\ new.late = b
        BY <3>1 DEF Request
      <3>2. req'[p] = [req[p] EXCEPT !.solo = FALSE, !.held = FALSE, !.late = @ \/ req[p].held]
        BY <1>3 DEF ReloadApplies
      <3>3. (req[p].late \/ req[p].held) \in BOOLEAN
        OBVIOUS
      <3> QED BY <1>0, <3>1, <3>2, <3>3
    <2>2. UNCHANGED <<sessions, given>>
          /\ unrevoked' = unrevoked \cup {id \in Ids : users'[id] # users[id]}
      BY <1>3 DEF ReloadApplies
    <2>3. \A id : Revoking(id) => Revoking(id)'
      BY <2>1 DEF Revoking, Writing
    <2>4. \A p \in Requests : HolderMatches(req'[p], users', given')
      BY <2>1, <2>2 DEF RevokeInv, HolderMatches
    <2>5. \A s \in sessions : users'[s.id] = users[s.id] \/ s.id \in unrevoked'
      BY <1>0, <2>2
    <2> QED BY <2>2, <2>3, <2>4, <2>5 DEF RevokeInv, Excused, Matches
  <1>4. ASSUME NEW kept \in {{}, sessions}, Restart(kept) PROVE RevokeInv'
    <2>1. /\ sessions' \subseteq sessions /\ given' = given
          /\ req' = [r \in Requests |-> Idle]
          /\ unrevoked' = unrevoked \cup {id \in Ids : users'[id] # users[id] \/ Revoking(id)}
      BY <1>4 DEF Restart
    <2>2. \A p \in Requests : HolderMatches(req'[p], users', given')
      BY <2>1 DEF HolderMatches, Idle
    <2>3. \A s \in sessions : \/ s.id \in unrevoked'
                              \/ users'[s.id] = users[s.id] /\ ~ Revoking(s.id)
      BY <1>0, <2>1
    <2>4. ASSUME NEW s \in sessions'
          PROVE  s.id \in given' /\ (s.late \/ s.id \in unrevoked'
                                     \/ Matches(users', s.id, s.proof, s.role))
      BY <2>1, <2>3 DEF RevokeInv, Excused, Matches
    <2> QED BY <2>2, <2>4 DEF RevokeInv, Excused
  <1> QED BY <1>1, <1>2, <1>3, <1>4 DEF Outside

LEMMA RevokeInit ==
    ASSUME Init
    PROVE  RevokeInv
  <1>1. PICK signedIn \in SUBSET Taken(users) :
          sessions = UNION {Pair(id, users[id].role, users[id].pwd, FALSE) : id \in signedIn}
    BY DEF Init
  <1>2. ASSUME NEW s \in sessions
        PROVE  s.id \in given /\ Matches(users, s.id, s.proof, s.role)
    <2>1. PICK id \in Taken(users) : s \in Pair(id, users[id].role, users[id].pwd, FALSE)
      BY <1>1, <1>2
    <2>2. s.id = id /\ s.role = users[id].role /\ s.proof = users[id].pwd
      BY <2>1 DEF Pair
    <2> QED BY <2>1, <2>2 DEF Init, Taken, Matches
  <1>3. \A r \in Requests : HolderMatches(req[r], users, given)
    BY DEF Init, Idle, HolderMatches
  <1> QED BY <1>2, <1>3 DEF RevokeInv

LEMMA RevokeInductive == Inv /\ RevokeInv /\ [Next]_vars => RevokeInv'
  <1>1. ASSUME Inv, RevokeInv, Next PROVE RevokeInv'
    <2>1. TypeOK
      BY <1>1 DEF Inv
    <2> QED BY <1>1, <2>1, NextCases, AskRevokes, ChangeRevokes, FinishRevokes, EndsRevokes,
               OutsideRevokes
  <1>2. ASSUME RevokeInv, UNCHANGED vars PROVE RevokeInv'
    <2>1. UNCHANGED <<users, given, unrevoked, sessions, req>>
      BY <1>2 DEF vars, store, history
    <2> QED BY <1>2, <2>1, RevokeStays
  <1> QED BY <1>1, <1>2

\* Whoever is signed in presented the password the account has now, except for
\* the sign-ins that overlapped the change and the changes whose revocation was
\* lost with a failed write, a reload or a restart.
THEOREM PasswordAlwaysRevokes == Spec => []PasswordChangesRevoke
  <1>1. RevokeInv => PasswordChangesRevoke
    BY DEF RevokeInv, Excused, Matches, PasswordChangesRevoke
  <1>2. Init => RevokeInv
    BY RevokeInit
  <1> QED BY <1>1, <1>2, RevokeInductive, InitInv, InvInductive, PTL DEF Spec

\* A session carries the role its account has, with the same exceptions; a
\* login that was being compared when the role changed is no exception.
THEOREM RoleAlwaysRevokes == Spec => []RoleChangesRevoke
  <1>1. RevokeInv => RoleChangesRevoke
    BY DEF RevokeInv, Excused, Matches, RoleChangesRevoke
  <1>2. Init => RevokeInv
    BY RevokeInit
  <1> QED BY <1>1, <1>2, RevokeInductive, InitInv, InvInductive, PTL DEF Spec

=============================================================================
