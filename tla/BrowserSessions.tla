-------------------------- MODULE BrowserSessions --------------------------
(***************************************************************************)
(* One user's sign-in, as the tabs of a browser and the server keep it:    *)
(* the interceptor of src/boot/axios.ts that renews it, the auth store and *)
(* the layout that end it, the cookies and the localStorage the tabs share *)
(* and, in the server, login, refresh and logout of backend/src/routes and *)
(* services/auth.ts with the WebSocket notice of routes/ws.ts.             *)
(***************************************************************************)
EXTENDS Naturals, FiniteSets

CONSTANTS
    Tabs,       \* tabs of the browser
    MaxCalls,   \* bound: requests they make
    MaxLogins,  \* bound: logins, here and elsewhere
    MaxFaults   \* bound: expired sessions, failed renewals and server restarts

ASSUME BrowserAssumption ==
    /\ IsFiniteSet(Tabs) /\ Tabs # {}
    /\ MaxCalls \in Nat /\ MaxLogins \in Nat /\ MaxFaults \in Nat

\* The requests, in the order in which they are sent.
Calls == 1..MaxCalls

\* A grant is a pair of tokens, named by the order in which they were issued;
\* 0 is no token.
Grants == 1..(MaxLogins + MaxCalls)
NoGrant == 0

VARIABLES
    access, refresh,  \* the grants with an access and a refresh session
    issued,           \* grants issued so far
    origin,           \* history: the login each grant descends from
    logins,           \* logins so far
    jar,              \* the cookies: the grant each token is of
    stored,           \* localStorage has a user
    tab,              \* what each tab is doing, with which grant
    ws,               \* each tab's WebSocket: "none", "open" or "kicked"
    call,             \* what each request is doing, with which grant
    faults

server == <<access, refresh, issued, origin, logins>>
browser == <<jar, stored, tab, ws>>
vars == <<server, browser, call, faults>>

At(t, where)   == tab[t].at = where
Stage(c, what) == call[c].at = what

----------------------------------------------------------------------------
(* The server.                                                             *)

\* createTokens()
Issue(root) ==
    /\ issued' = issued + 1
    /\ origin' = [origin EXCEPT ![issued'] = root]

\* Fault for the runs' mutants: the refresh sessions outlive a login.
Mut_KeepRefresh == refresh

\* deleteByUser(), before a login's own tokens.
Revoked == {}

\* login(): the sessions there were end, their connections are told, and a
\* new grant is issued.
SignIn ==
    /\ logins < MaxLogins
    /\ logins' = logins + 1
    /\ Issue(logins')
    /\ access' = {issued'}
    /\ refresh' = Revoked \cup {issued'}
    /\ ws' = [t \in Tabs |-> IF ws[t] = "open" THEN "kicked" ELSE ws[t]]

\* Fault for the runs' mutants: a refresh token serves again.
Mut_Spent(g) == refresh

\* refreshToken(): a refresh token serves once.
Spent(g) == refresh \ {g}

\* logout(): every session of the user ends.
SignOut ==
    /\ access' = {} /\ refresh' = {}
    /\ UNCHANGED <<issued, origin, logins>>

----------------------------------------------------------------------------
(* A tab's sign-in and sign-out.                                           *)

\* The router's guard: without a stored user to the login page, with one to
\* /auth/me first.
Load(t) ==
    /\ At(t, "closed")
    /\ tab' = [tab EXCEPT ![t] = IF stored THEN [at |-> "verify", with |-> jar.access]
                                          ELSE [at |-> "login", with |-> NoGrant]]
    /\ UNCHANGED <<server, jar, stored, ws, call, faults>>

\* The interceptor leaves /auth/me alone: a 401 is the end of the sign-in.
Verified(t) ==
    /\ At(t, "verify")
    /\ stored' = (tab[t].with \in access)
    /\ tab' = [tab EXCEPT ![t] = [at |-> IF stored' THEN "page" ELSE "login", with |-> NoGrant]]
    /\ UNCHANGED <<server, jar, ws, call, faults>>

\* The server answers a login; the answer is on its way.
Login(t) ==
    /\ At(t, "login")
    /\ SignIn
    /\ tab' = [tab EXCEPT ![t] = [at |-> "welcome", with |-> issued']]
    /\ UNCHANGED <<jar, stored, call, faults>>

LoggedIn(t) ==
    /\ At(t, "welcome")
    /\ jar' = [access |-> tab[t].with, refresh |-> tab[t].with]
    /\ stored' = TRUE
    /\ tab' = [tab EXCEPT ![t] = [at |-> "page", with |-> NoGrant]]
    /\ UNCHANGED <<server, ws, call, faults>>

\* A page connects to /ws/status with the cookie.
Join(t) ==
    /\ At(t, "page") /\ ws[t] = "none"
    /\ jar.access \in access
    /\ ws' = [ws EXCEPT ![t] = "open"]
    /\ UNCHANGED <<server, jar, stored, tab, call, faults>>

\* The user signs out, or the page is told that the session was replaced:
\* both send a logout with the cookie the browser has by then.
Leave(t, why) ==
    /\ At(t, "page")
    /\ tab' = [tab EXCEPT ![t] = [at |-> why, with |-> jar.access]]
    /\ ws' = [ws EXCEPT ![t] = "none"]
    /\ UNCHANGED <<server, jar, stored, call, faults>>

Logout(t) == Leave(t, "logout")
Kicked(t) == ws[t] = "kicked" /\ Leave(t, "kicked")

\* The server answers a logout, with 401 if the token is no session's.
Ended(t) ==
    /\ tab[t].at \in {"logout", "kicked"}
    /\ IF tab[t].with \in access
       THEN SignOut          /\ tab' = [tab EXCEPT ![t] = [at |-> "cleared", with |-> NoGrant]]
       ELSE UNCHANGED server   /\ tab' = [tab EXCEPT ![t] = [at |-> "unknown", with |-> NoGrant]]
    /\ UNCHANGED <<jar, stored, ws, call, faults>>

\* Fault for the runs' mutants: only a logout that succeeded is the end of it.
Mut_Leaving == {"cleared"}

\* The tab goes to the login page either way.
Leaving == {"cleared", "unknown"}

\* The answer has come; that of a logout that succeeded clears the cookies.
Left(t) ==
    /\ tab[t].at \in Leaving
    /\ jar' = IF At(t, "cleared") THEN [access |-> NoGrant, refresh |-> NoGrant] ELSE jar
    /\ stored' = FALSE
    /\ tab' = [tab EXCEPT ![t] = [at |-> "login", with |-> NoGrant]]
    /\ UNCHANGED <<server, ws, call, faults>>

----------------------------------------------------------------------------
(* A request, and the interceptor.                                         *)

Step(c, what, g) == call' = [call EXCEPT ![c] = [@ EXCEPT !.at = what, !.with = g]]

Send(c, t) ==
    /\ Stage(c, "new") /\ (c > 1 => ~ Stage(c - 1, "new"))
    /\ At(t, "page")
    /\ call' = [call EXCEPT ![c] = [at |-> "sent", of |-> t, with |-> jar.access, again |-> FALSE]]
    /\ UNCHANGED <<server, browser, faults>>

\* The auth middleware lets a request through whose access token has a session.
Answer(c) ==
    /\ Stage(c, "sent")
    /\ Step(c, IF call[c].with \in access THEN "done" ELSE "denied", NoGrant)
    /\ UNCHANGED <<server, browser, faults>>

\* A request denied for the first time asks for new tokens, with the refresh
\* cookie, if localStorage has a user.
Ask(c) ==
    /\ Stage(c, "denied") /\ ~ call[c].again /\ stored
    /\ Step(c, "asking", jar.refresh)
    /\ UNCHANGED <<server, browser, faults>>

\* One denied after that is given up, and stays on the page.
GiveUp(c) ==
    /\ Stage(c, "denied") /\ call[c].again
    /\ Step(c, "done", NoGrant)
    /\ UNCHANGED <<server, browser, faults>>

\* refreshToken(); the access session of before runs on.
Renew(c) ==
    /\ Stage(c, "asking")
    /\ IF call[c].with \in refresh
       THEN /\ Issue(origin[call[c].with])
            /\ access' = access \cup {issued'}
            /\ refresh' = Spent(call[c].with) \cup {issued'}
            /\ Step(c, "granted", issued')
            /\ UNCHANGED logins
       ELSE Step(c, "refused", NoGrant) /\ UNCHANGED server
    /\ UNCHANGED <<browser, faults>>

\* The renewal fails, or its answer is lost: too many requests, a server or a
\* network that fails.  The interceptor takes that for a refusal too.
RenewalFails(c) ==
    /\ faults < MaxFaults /\ faults' = faults + 1
    /\ Stage(c, "asking") \/ Stage(c, "granted")
    /\ call' = [call EXCEPT ![c] = [@ EXCEPT !.at = "refused", !.with = NoGrant,
                                             !.again = Stage(c, "granted")]]
    /\ UNCHANGED <<server, browser>>

\* The new cookies arrive, and the request goes out again.
Granted(c) ==
    /\ Stage(c, "granted")
    /\ jar' = [access |-> call[c].with, refresh |-> call[c].with]
    /\ call' = [call EXCEPT ![c] = [@ EXCEPT !.at = "sent", !.again = TRUE]]
    /\ UNCHANGED <<server, stored, tab, ws, faults>>

\* No new tokens, or no user in localStorage: the stored user is cleared and
\* the tab goes to the login page.
Expelled(c) ==
    /\ \/ Stage(c, "refused")
       \/ Stage(c, "denied") /\ ~ call[c].again /\ ~ stored
    /\ stored' = FALSE
    /\ IF At(call[c].of, "page")
       THEN /\ tab' = [tab EXCEPT ![call[c].of] = [at |-> "login", with |-> NoGrant]]
            /\ ws' = [ws EXCEPT ![call[c].of] = "none"]
       ELSE UNCHANGED <<tab, ws>>
    /\ Step(c, "done", NoGrant)
    /\ UNCHANGED <<server, jar, faults>>

----------------------------------------------------------------------------
(* The rest of the world.                                                  *)

\* The user signs in from another browser or the terminal client.
Elsewhere ==
    /\ SignIn
    /\ UNCHANGED <<jar, stored, tab, call, faults>>

\* An access session runs out, after 15 minutes with its cookie, or idle.
Expire(g) ==
    /\ faults < MaxFaults /\ faults' = faults + 1
    /\ g \in access
    /\ access' = access \ {g}
    /\ jar' \in {jar, [jar EXCEPT !.access = IF @ = g THEN NoGrant ELSE @]}
    /\ UNCHANGED <<refresh, issued, origin, logins, stored, tab, ws, call>>

\* The server restarts: sessions in memory are gone, and so are connections.
Restart ==
    /\ faults < MaxFaults /\ faults' = faults + 1
    /\ access' = {} /\ refresh' = {}
    /\ ws' = [t \in Tabs |-> "none"]
    /\ UNCHANGED <<issued, origin, logins, jar, stored, tab, call>>

Init ==
    /\ access = {} /\ refresh = {} /\ issued = 0 /\ logins = 0
    /\ origin = [g \in Grants |-> 0]
    /\ jar = [access |-> NoGrant, refresh |-> NoGrant]
    /\ stored = FALSE
    /\ tab = [t \in Tabs |-> [at |-> "closed", with |-> NoGrant]]
    /\ ws = [t \in Tabs |-> "none"]
    /\ call = [c \in Calls |-> [at |-> "new", of |-> CHOOSE t \in Tabs : TRUE,
                                with |-> NoGrant, again |-> FALSE]]
    /\ faults = 0

TabGoesOn(t) == Verified(t) \/ LoggedIn(t) \/ Kicked(t) \/ Ended(t) \/ Left(t)
CallGoesOn(c) == Answer(c) \/ Ask(c) \/ GiveUp(c) \/ Renew(c) \/ Granted(c) \/ Expelled(c)

Next ==
    \/ \E t \in Tabs : Load(t) \/ Login(t) \/ Join(t) \/ Logout(t) \/ TabGoesOn(t)
    \/ \E c \in Calls, t \in Tabs : Send(c, t)
    \/ \E c \in Calls : CallGoesOn(c) \/ RenewalFails(c)
    \/ Elsewhere \/ Restart
    \/ \E g \in Grants : Expire(g)

Spec == Init /\ [][Next]_vars

\* Requests are answered, and answers arrive; users are under no duty.
Fairness ==
    /\ \A t \in Tabs : WF_vars(TabGoesOn(t))
    /\ \A c \in Calls : WF_vars(CallGoesOn(c))

FairSpec == Spec /\ Fairness

----------------------------------------------------------------------------
(* Properties.                                                             *)

\* Every variable has its type.
TypeOK ==
    /\ access \subseteq Grants /\ refresh \subseteq Grants
    /\ issued \in 0..(MaxLogins + MaxCalls) /\ logins \in 0..MaxLogins
    /\ origin \in [Grants -> 0..MaxLogins]
    /\ jar \in [access : Grants \cup {NoGrant}, refresh : Grants \cup {NoGrant}]
    /\ stored \in BOOLEAN
    /\ tab \in [Tabs -> [at : {"closed", "verify", "login", "welcome", "page", "logout", "kicked",
                                "cleared", "unknown"},
                         with : Grants \cup {NoGrant}]]
    /\ ws \in [Tabs -> {"none", "open", "kicked"}]
    /\ call \in [Calls -> [at : {"new", "sent", "denied", "asking", "granted", "refused", "done"},
                           of : Tabs, with : Grants \cup {NoGrant}, again : BOOLEAN]]
    /\ faults \in 0..MaxFaults

\* "Only one active session per user is allowed" (docs/ADMIN-GUIDE.md): what
\* is valid descends from the last login, whatever renewals of older ones were
\* under way when it came.
LastLoginOnly == \A g \in access \cup refresh : origin[g] = logins

\* A renewal hands the sign-in on: of a login, at most one refresh token serves
\* at any time, however many requests and tabs renew it at once.
OneRefreshToken == Cardinality(refresh) <= 1

\* Once the user does no more, every request that was sent has ended, renewed
\* once at most, and every tab that waited for the server is at a page or at
\* the login page (the interceptor retries once, and skips /auth/ requests).
EverythingEnds ==
    <>[](/\ \A c \in Calls : call[c].at \in {"new", "done"}
         /\ \A t \in Tabs : tab[t].at \in {"closed", "page", "login"})

\* "Last login wins" (backend/src/routes/auth.ts): a page that is told that its
\* session was replaced does not end the one that replaced it.
LastLoginWins ==
    [][\A t \in Tabs : ~ (At(t, "kicked") /\ tab'[t].at = "cleared")]_vars

\* "You will not be interrupted unless the refresh token itself expires or you
\* have been idle too long" (docs/USER-GUIDE.md): the interceptor sends a tab to
\* the login page only when the last login has no refresh session left, or
\* was not this browser's.
Uninterrupted ==
    [][\A c \in Calls :
          Expelled(c) /\ At(call[c].of, "page") =>
              refresh = {} \/ \A g \in refresh : origin[g] # origin[jar.refresh]]_vars

=============================================================================
