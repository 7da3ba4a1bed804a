----------------------- MODULE BrowserSessionsProofs -----------------------
(* Proofs about BrowserSessions: types, whose last fact is that no request *)
(* is renewed twice, and what a login and a renewal leave valid.           *)
EXTENDS BrowserSessions, FiniteSetTheorems, TLAPS

\* One step, by who takes it.
TabStep(t) == Load(t) \/ Login(t) \/ Join(t) \/ Logout(t) \/ TabGoesOn(t)

LEMMA NextCases ==
    ASSUME Next
    PROVE  \/ \E t \in Tabs : TabStep(t)
           \/ \E c \in Calls, t \in Tabs : Send(c, t)
           \/ \E c \in Calls : CallGoesOn(c)
           \/ Elsewhere \/ Restart
           \/ \E g \in Grants : Expire(g)
           \/ \E c \in Calls : RenewalFails(c)
  BY DEF Next, TabStep

----------------------------------------------------------------------------
(* How many grants there are: one of each login and one of each renewal.   *)

\* The requests that were given new tokens.
Renewed == {c \in Calls : call[c].again \/ call[c].at = "granted"}

\* Only a request that was not renewed yet asks, and there are as many grants
\* as there were logins and renewals.
Counted ==
    /\ \A c \in Calls : call[c].at \in {"new", "asking"} => ~ call[c].again
    /\ issued = logins + Cardinality(Renewed)

\* The requests of a behaviour are finitely many.
LEMMA Bounds ==
    ASSUME NEW S, S \subseteq Calls
    PROVE  IsFiniteSet(S) /\ Cardinality(S) \in 0..MaxCalls
  <1>1. MaxCalls \in Nat
    BY BrowserAssumption
  <1>2. IsFiniteSet(Calls) /\ Cardinality(Calls) = MaxCalls
    BY <1>1, FS_Interval DEF Calls
  <1> QED BY <1>1, <1>2, FS_Subset, FS_CardinalityType

\* A step of a request changes that request, and not who made it.
LEMMA StepEffect ==
    ASSUME TypeOK, NEW c \in Calls, NEW what, NEW g, Step(c, what, g)
    PROVE  /\ \A d \in Calls : d # c => call'[d] = call[d]
           /\ call'[c] = [at |-> what, of |-> call[c].of, with |-> g, again |-> call[c].again]
           /\ call'[c].at = what /\ call'[c].again = call[c].again
  BY DEF Step, TypeOK

\* A request that goes on without new tokens is not renewed by it.
LEMMA StepKeeps ==
    ASSUME TypeOK, Counted, NEW c \in Calls, NEW what, NEW g, Step(c, what, g),
           call[c].at # "granted", what \notin {"new", "granted"},
           what = "asking" => ~ call[c].again, UNCHANGED <<issued, logins>>
    PROVE  Counted'
  <1>1. /\ \A d \in Calls : d # c => call'[d] = call[d]
        /\ call'[c].at = what /\ call'[c].again = call[c].again
    BY StepEffect
  <1>2. Renewed' = Renewed
    BY <1>1 DEF Renewed
  <1> QED BY <1>1, <1>2 DEF Counted

LEMMA CountedNext ==
    ASSUME TypeOK, Counted, Next
    PROVE  Counted'
  <1>0. Cardinality(Renewed) \in Nat /\ IsFiniteSet(Renewed) /\ logins \in Nat
    <2>1. Renewed \subseteq Calls
      BY DEF Renewed
    <2> QED BY <2>1, Bounds, BrowserAssumption DEF TypeOK
  <1>1. ASSUME UNCHANGED call, issued' = logins' + (issued - logins) PROVE Counted'
    <2>1. Renewed' = Renewed
      BY <1>1 DEF Renewed
    <2> QED BY <1>0, <1>1, <2>1 DEF Counted
  <1>2. issued = logins + Cardinality(Renewed) /\ issued \in Nat
    BY <1>0 DEF Counted
  <1>3. ASSUME SignIn, UNCHANGED call PROVE Counted'
    BY <1>0, <1>1, <1>2, <1>3 DEF SignIn, Issue
  <1>4. ASSUME NEW t \in Tabs, TabStep(t) PROVE Counted'
    <2>1. CASE Login(t)
      BY <1>3, <2>1 DEF Login
    <2>2. CASE Load(t) \/ Join(t) \/ Logout(t) \/ TabGoesOn(t)
      <3>1. UNCHANGED <<call, issued, logins>>
        BY <2>2 DEF Load, Join, Logout, TabGoesOn, Verified, LoggedIn, Kicked, Ended, Left,
                    Leave, SignOut, server
      <3> QED BY <1>0, <1>1, <1>2, <3>1
    <2> QED BY <1>4, <2>1, <2>2 DEF TabStep
  <1>5. ASSUME NEW c \in Calls, NEW t \in Tabs, Send(c, t) PROVE Counted'
    <2>1. /\ \A d \in Calls : d # c => call'[d] = call[d]
          /\ call'[c].at = "sent" /\ call'[c].again = FALSE /\ call[c].at = "new"
      BY <1>5 DEF Send, Stage, TypeOK
    <2>2. Renewed' = Renewed
      BY <2>1 DEF Renewed, Counted
    <2>3. UNCHANGED <<issued, logins>>
      BY <1>5 DEF Send, server
    <2>4. issued' = logins' + Cardinality(Renewed')
      BY <1>2, <2>2, <2>3 DEF Counted
    <2> QED BY <2>1, <2>4 DEF Counted
  <1>6. ASSUME NEW c \in Calls, CallGoesOn(c) PROVE Counted'
    <2>1. CASE Answer(c)
      BY <2>1, StepKeeps DEF Answer, Stage, server
    <2>2. CASE Ask(c)
      BY <2>2, StepKeeps DEF Ask, Stage, server
    <2>3. CASE GiveUp(c)
      BY <2>3, StepKeeps DEF GiveUp, Stage, server
    <2>4. CASE Expelled(c)
      BY <2>4, StepKeeps DEF Expelled, Stage, server
    <2>5. CASE Renew(c)
      <3>1. CASE call[c].with \notin refresh
        BY <2>5, <3>1, StepKeeps DEF Renew, Stage, server
      <3>2. CASE call[c].with \in refresh
        <4>1. /\ \A d \in Calls : d # c => call'[d] = call[d]
              /\ call'[c].at = "granted" /\ call'[c].again = call[c].again
              /\ call[c].at = "asking" /\ ~ call[c].again
          <5>1. Step(c, "granted", issued')
            BY <2>5, <3>2 DEF Renew
          <5>2. call[c].at = "asking" /\ ~ call[c].again
            BY <2>5 DEF Renew, Stage, Counted
          <5> QED BY <5>1, <5>2, StepEffect
        <4>2. Renewed' = Renewed \cup {c} /\ c \notin Renewed
          BY <4>1 DEF Renewed
        <4>3. Cardinality(Renewed') = Cardinality(Renewed) + 1
          BY <1>0, <4>2, FS_AddElement
        <4>4. issued' = issued + 1 /\ logins' = logins
          BY <2>5, <3>2 DEF Renew, Issue
        <4>5. issued' = logins' + Cardinality(Renewed')
          BY <1>0, <1>2, <4>3, <4>4
        <4> QED BY <4>1, <4>5 DEF Counted
      <3> QED BY <3>1, <3>2
    <2>6. CASE Granted(c)
      <3>1. /\ \A d \in Calls : d # c => call'[d] = call[d]
            /\ call'[c].at = "sent" /\ call'[c].again /\ call[c].at = "granted"
        BY <2>6 DEF Granted, Stage, TypeOK
      <3>2. Renewed' = Renewed
        BY <3>1 DEF Renewed
      <3> QED BY <2>6, <3>1, <3>2 DEF Counted, Granted, server
    <2> QED BY <1>6, <2>1, <2>2, <2>3, <2>4, <2>5, <2>6 DEF CallGoesOn
  <1>7. CASE Elsewhere
    BY <1>3, <1>7 DEF Elsewhere
  <1>8. CASE Restart
    BY <1>0, <1>1, <1>2, <1>8 DEF Restart
  <1>9. ASSUME NEW g \in Grants, Expire(g) PROVE Counted'
    BY <1>0, <1>1, <1>2, <1>9 DEF Expire
  <1>10. ASSUME NEW c \in Calls, RenewalFails(c) PROVE Counted'
    <2>1. /\ \A d \in Calls : d # c => call'[d] = call[d]
          /\ call'[c].at = "refused" /\ call'[c].again = (call[c].at = "granted")
          /\ call[c].at = "granted" \/ call[c].at = "asking"
      BY <1>10 DEF RenewalFails, Stage, TypeOK
    <2>2. Renewed' = Renewed
      BY <2>1 DEF Renewed, Counted
    <2>3. UNCHANGED <<issued, logins>>
      BY <1>10 DEF RenewalFails, server
    <2> QED BY <1>2, <2>1, <2>2, <2>3 DEF Counted
  <1> QED BY <1>4, <1>5, <1>6, <1>7, <1>8, <1>9, <1>10, NextCases

----------------------------------------------------------------------------
(* Types.                                                                  *)

LEMMA LoginsNext ==
    ASSUME TypeOK, Next
    PROVE  logins' \in 0..MaxLogins /\ faults' \in 0..MaxFaults
  <1>1. \/ logins' = logins
        \/ logins < MaxLogins /\ logins' = logins + 1
    BY DEF Next, Load, Login, Join, Logout, TabGoesOn, Verified, LoggedIn, Kicked, Ended, Left,
           Leave, SignIn, SignOut, Send, CallGoesOn, Answer, Ask, GiveUp, Renew, Granted,
           Expelled, Elsewhere, Restart, Expire, RenewalFails, server
  <1>2. \/ faults' = faults
        \/ faults < MaxFaults /\ faults' = faults + 1
    BY DEF Next, Load, Login, Join, Logout, TabGoesOn, Verified, LoggedIn, Kicked, Ended, Left,
           Leave, SignIn, SignOut, Send, CallGoesOn, Answer, Ask, GiveUp, Renew, Granted,
           Expelled, Elsewhere, Restart, Expire, RenewalFails, server
  <1> QED BY <1>1, <1>2, BrowserAssumption DEF TypeOK

\* There is a name for every grant.
LEMMA IssuedNext ==
    ASSUME TypeOK, Counted, Next
    PROVE  issued' \in 0..(MaxLogins + MaxCalls)
  <1>1. Renewed' \subseteq Calls
    BY DEF Renewed, Calls
  <1>2. Cardinality(Renewed') \in 0..MaxCalls
    BY <1>1, Bounds
  <1>3. issued' = logins' + Cardinality(Renewed') /\ logins' \in 0..MaxLogins
    BY CountedNext, LoginsNext DEF Counted
  <1> QED BY <1>2, <1>3, BrowserAssumption

LEMMA IssueGrants ==
    ASSUME TypeOK, Counted, Next, NEW root \in 0..MaxLogins, Issue(root)
    PROVE  issued' \in Grants /\ origin' \in [Grants -> 0..MaxLogins]
  <1>1. issued' \in Grants
    BY IssuedNext, BrowserAssumption DEF Issue, Grants, TypeOK
  <1> QED BY <1>1 DEF Issue, TypeOK

LEMMA SignInTypes ==
    ASSUME TypeOK, Counted, Next, SignIn
    PROVE  /\ access' \subseteq Grants /\ refresh' \subseteq Grants /\ issued' \in Grants
           /\ origin' \in [Grants -> 0..MaxLogins]
           /\ ws' \in [Tabs -> {"none", "open", "kicked"}]
  <1>1. logins' \in 0..MaxLogins /\ Issue(logins')
    BY LoginsNext DEF SignIn
  <1>2. issued' \in Grants /\ origin' \in [Grants -> 0..MaxLogins]
    BY <1>1, IssueGrants
  <1> QED BY <1>2 DEF SignIn, Revoked, TypeOK

ServerTypes == /\ access \subseteq Grants /\ refresh \subseteq Grants
               /\ origin \in [Grants -> 0..MaxLogins]

LEMMA ServerNext ==
    ASSUME TypeOK, Counted, Next
    PROVE  ServerTypes'
  <1> USE DEF ServerTypes
  <1>0. ServerTypes
    BY DEF TypeOK
  <1>1. ASSUME NEW t \in Tabs, TabStep(t) PROVE ServerTypes'
    <2>1. CASE Login(t)
      BY <2>1, SignInTypes DEF Login
    <2>2. CASE Load(t) \/ Join(t) \/ Logout(t) \/ TabGoesOn(t)
      BY <1>0, <2>2 DEF Load, Join, Logout, TabGoesOn, Verified, LoggedIn, Kicked, Ended, Left,
                        Leave, SignOut, server
    <2> QED BY <1>1, <2>1, <2>2 DEF TabStep
  <1>2. ASSUME NEW c \in Calls, NEW t \in Tabs, Send(c, t) PROVE ServerTypes'
    BY <1>0, <1>2 DEF Send, server
  <1>3. ASSUME NEW c \in Calls, CallGoesOn(c) PROVE ServerTypes'
    <2>1. CASE Renew(c) /\ call[c].with \in refresh
      <3>1. origin[call[c].with] \in 0..MaxLogins
        BY <1>0, <2>1
      <3>2. issued' \in Grants /\ origin' \in [Grants -> 0..MaxLogins]
        BY <2>1, <3>1, IssueGrants DEF Renew
      <3> QED BY <1>0, <2>1, <3>2 DEF Renew, Spent
    <2>2. CASE ~ (Renew(c) /\ call[c].with \in refresh)
      BY <1>0, <1>3, <2>2
      DEF CallGoesOn, Answer, Ask, GiveUp, Renew, Granted, Expelled, server
    <2> QED BY <2>1, <2>2
  <1>4. CASE Elsewhere
    BY <1>4, SignInTypes DEF Elsewhere
  <1>5. CASE Restart
    BY <1>0, <1>5 DEF Restart
  <1>6. ASSUME NEW g \in Grants, Expire(g) PROVE ServerTypes'
    BY <1>0, <1>6 DEF Expire
  <1>7. ASSUME NEW c \in Calls, RenewalFails(c) PROVE ServerTypes'
    BY <1>0, <1>7 DEF RenewalFails, server
  <1> QED BY <1>1, <1>2, <1>3, <1>4, <1>5, <1>6, <1>7, NextCases

\* What a request can be.
CallType == [at : {"new", "sent", "denied", "asking", "granted", "refused", "done"},
             of : Tabs, with : Grants \cup {NoGrant}, again : BOOLEAN]

LEMMA StepTypes ==
    ASSUME TypeOK, NEW c \in Calls, NEW g \in Grants \cup {NoGrant},
           NEW what \in {"sent", "denied", "asking", "granted", "refused", "done"},
           Step(c, what, g)
    PROVE  call' \in [Calls -> CallType]
  <1>1. call \in [Calls -> CallType]
    BY DEF TypeOK, CallType
  <1>2. [call[c] EXCEPT !.at = what, !.with = g] \in CallType
    BY <1>1 DEF CallType
  <1> QED BY <1>1, <1>2 DEF Step

LEMMA CallNext ==
    ASSUME TypeOK, Counted, Next
    PROVE  call' \in [Calls -> CallType]
  <1>0. call \in [Calls -> CallType] /\ jar.access \in Grants \cup {NoGrant}
        /\ jar.refresh \in Grants \cup {NoGrant}
    BY DEF TypeOK, CallType
  <1>1. ASSUME NEW t \in Tabs, TabStep(t) PROVE UNCHANGED call
    BY <1>1 DEF TabStep, Load, Login, Join, Logout, TabGoesOn, Verified, LoggedIn, Kicked, Ended,
                Left, Leave
  <1>2. ASSUME NEW c \in Calls, NEW t \in Tabs, Send(c, t) PROVE call' \in [Calls -> CallType]
    <2>1. [at |-> "sent", of |-> t, with |-> jar.access, again |-> FALSE] \in CallType
      BY <1>0 DEF CallType
    <2> QED BY <1>0, <1>2, <2>1 DEF Send
  <1>3. ASSUME NEW c \in Calls, CallGoesOn(c) PROVE call' \in [Calls -> CallType]
    <2>1. CASE Answer(c)
      BY <2>1, StepTypes DEF Answer
    <2>2. CASE Ask(c)
      BY <1>0, <2>2, StepTypes DEF Ask
    <2>3. CASE GiveUp(c)
      BY <2>3, StepTypes DEF GiveUp
    <2>4. CASE Expelled(c)
      BY <2>4, StepTypes DEF Expelled
    <2>5. CASE Renew(c)
      <3>1. CASE call[c].with \notin refresh
        BY <2>5, <3>1, StepTypes DEF Renew
      <3>2. CASE call[c].with \in refresh
        <4>1. origin[call[c].with] \in 0..MaxLogins /\ Issue(origin[call[c].with])
              /\ Step(c, "granted", issued')
          BY <2>5, <3>2 DEF Renew, TypeOK
        <4>2. issued' \in Grants
          BY <4>1, IssueGrants
        <4> QED BY <4>1, <4>2, StepTypes
      <3> QED BY <3>1, <3>2
    <2>6. CASE Granted(c)
      <3>1. [call[c] EXCEPT !.at = "sent", !.again = TRUE] \in CallType
        BY <1>0 DEF CallType
      <3> QED BY <1>0, <2>6, <3>1 DEF Granted
    <2> QED BY <1>3, <2>1, <2>2, <2>3, <2>4, <2>5, <2>6 DEF CallGoesOn
  <1>4. ASSUME Elsewhere \/ Restart \/ \E g \in Grants : Expire(g) PROVE UNCHANGED call
    BY <1>4 DEF Elsewhere, Restart, Expire
  <1>5. ASSUME NEW c \in Calls, RenewalFails(c) PROVE call' \in [Calls -> CallType]
    <2>1. [call[c] EXCEPT !.at = "refused", !.with = NoGrant, !.again = Stage(c, "granted")]
              \in CallType
      BY <1>0 DEF CallType, Stage
    <2> QED BY <1>0, <1>5, <2>1 DEF RenewalFails
  <1> QED BY <1>0, <1>1, <1>2, <1>3, <1>4, <1>5, NextCases

\* What a tab can be.
TabType == [at : {"closed", "verify", "login", "welcome", "page", "logout", "kicked", "cleared",
                  "unknown"},
            with : Grants \cup {NoGrant}]

BrowserTypes ==
    /\ jar \in [access : Grants \cup {NoGrant}, refresh : Grants \cup {NoGrant}]
    /\ stored \in BOOLEAN
    /\ tab \in [Tabs -> TabType]
    /\ ws \in [Tabs -> {"none", "open", "kicked"}]

LEMMA BrowserNext ==
    ASSUME TypeOK, Counted, Next
    PROVE  BrowserTypes'
  <1> USE DEF BrowserTypes, TabType
  <1>0. BrowserTypes /\ call \in [Calls -> CallType]
    BY DEF TypeOK, CallType
  <1>1. ASSUME NEW t \in Tabs, TabStep(t) PROVE BrowserTypes'
    <2>1. CASE Load(t)
      BY <1>0, <2>1 DEF Load
    <2>2. CASE Login(t)
      BY <1>0, <2>2, SignInTypes DEF Login
    <2>3. CASE Join(t)
      BY <1>0, <2>3 DEF Join
    <2>4. CASE Logout(t) \/ Kicked(t)
      BY <1>0, <2>4 DEF Logout, Kicked, Leave
    <2>5. CASE Verified(t)
      BY <1>0, <2>5 DEF Verified
    <2>6. CASE LoggedIn(t)
      BY <1>0, <2>6 DEF LoggedIn
    <2>7. CASE Ended(t)
      BY <1>0, <2>7 DEF Ended
    <2>8. CASE Left(t)
      BY <1>0, <2>8 DEF Left
    <2> QED BY <1>1, <2>1, <2>2, <2>3, <2>4, <2>5, <2>6, <2>7, <2>8 DEF TabStep, TabGoesOn
  <1>2. ASSUME NEW c \in Calls, NEW t \in Tabs, Send(c, t) PROVE BrowserTypes'
    BY <1>0, <1>2 DEF Send, browser
  <1>3. ASSUME NEW c \in Calls, CallGoesOn(c) PROVE BrowserTypes'
    <2>1. CASE Answer(c) \/ Ask(c) \/ GiveUp(c) \/ Renew(c)
      BY <1>0, <2>1 DEF Answer, Ask, GiveUp, Renew, browser
    <2>2. CASE Granted(c)
      <3>1. call[c].with \in Grants \cup {NoGrant}
        BY <1>0 DEF CallType
      <3> QED BY <1>0, <2>2, <3>1 DEF Granted
    <2>3. CASE Expelled(c)
      <3>1. call[c].of \in Tabs
        BY <1>0 DEF CallType
      <3>2. CASE At(call[c].of, "page")
        <4>1. tab' = [tab EXCEPT ![call[c].of] = [at |-> "login", with |-> NoGrant]]
              /\ ws' = [ws EXCEPT ![call[c].of] = "none"]
          BY <2>3, <3>2 DEF Expelled
        <4>2. tab' \in [Tabs -> TabType] /\ ws' \in [Tabs -> {"none", "open", "kicked"}]
          BY <1>0, <3>1, <4>1
        <4> QED BY <1>0, <2>3, <4>2 DEF Expelled
      <3>3. CASE ~ At(call[c].of, "page")
        <4>1. UNCHANGED <<jar, tab, ws>> /\ stored' = FALSE
          BY <2>3, <3>3 DEF Expelled
        <4> QED BY <1>0, <4>1
      <3> QED BY <3>2, <3>3
    <2> QED BY <1>3, <2>1, <2>2, <2>3 DEF CallGoesOn
  <1>4. CASE Elsewhere
    BY <1>0, <1>4, SignInTypes DEF Elsewhere
  <1>5. CASE Restart
    BY <1>0, <1>5 DEF Restart
  <1>6. ASSUME NEW g \in Grants, Expire(g) PROVE BrowserTypes'
    BY <1>0, <1>6 DEF Expire
  <1>7. ASSUME NEW c \in Calls, RenewalFails(c) PROVE BrowserTypes'
    BY <1>0, <1>7 DEF RenewalFails, browser
  <1> QED BY <1>1, <1>2, <1>3, <1>4, <1>5, <1>6, <1>7, NextCases

----------------------------------------------------------------------------
(* The theorems.                                                           *)

\* The variables have their types in every reachable state, and no request
\* is given new tokens twice (the interceptor's _retry).
THEOREM TypeCorrect == Spec => [](TypeOK /\ Counted)
  <1>1. Init => TypeOK /\ Counted
    <2> SUFFICES ASSUME Init PROVE TypeOK /\ Counted
      OBVIOUS
    <2>1. 0 \in 0..MaxLogins /\ 0 \in 0..(MaxLogins + MaxCalls) /\ 0 \in 0..MaxFaults
      BY BrowserAssumption
    <2>2. call \in [Calls -> CallType]
      <3>1. (CHOOSE t \in Tabs : TRUE) \in Tabs
        BY BrowserAssumption
      <3> QED BY <3>1 DEF Init, CallType, NoGrant
    <2>3. Renewed = {}
      BY DEF Init, Renewed
    <2>4. Counted
      BY <2>3, FS_EmptySet DEF Init, Counted
    <2>5. ServerTypes /\ BrowserTypes
      BY <2>1 DEF Init, ServerTypes, BrowserTypes, TabType, NoGrant
    <2>6. issued = 0 /\ logins = 0 /\ faults = 0
      BY DEF Init
    <2> QED BY <2>1, <2>2, <2>4, <2>5, <2>6
            DEF TypeOK, CallType, TabType, ServerTypes, BrowserTypes
  <1>2. TypeOK /\ Counted /\ [Next]_vars => (TypeOK /\ Counted)'
    <2> SUFFICES ASSUME TypeOK, Counted, [Next]_vars PROVE TypeOK' /\ Counted'
      OBVIOUS
    <2>1. CASE Next
      <3>1. ServerTypes' /\ BrowserTypes' /\ call' \in [Calls -> CallType] /\ Counted'
        BY <2>1, ServerNext, BrowserNext, CallNext, CountedNext
      <3>2. issued' \in 0..(MaxLogins + MaxCalls) /\ logins' \in 0..MaxLogins
            /\ faults' \in 0..MaxFaults
        BY <2>1, IssuedNext, LoginsNext
      <3> QED BY <3>1, <3>2 DEF TypeOK, ServerTypes, BrowserTypes, TabType, CallType
    <2>2. CASE UNCHANGED vars
      <3>1. Renewed' = Renewed
        BY <2>2 DEF Renewed, vars
      <3> QED BY <2>2, <3>1 DEF TypeOK, Counted, vars, server, browser
    <2> QED BY <2>1, <2>2
  <1> QED BY <1>1, <1>2, PTL DEF Spec

\* A renewal that was under way when a login came issues nothing that lives:
\* every valid session descends from the last login, in any number of tabs.
THEOREM OnlyTheLastLogin == Spec => []LastLoginOnly
  <1>1. Init => LastLoginOnly
    BY DEF Init, LastLoginOnly
  <1>2. TypeOK /\ Counted /\ LastLoginOnly /\ [Next]_vars => LastLoginOnly'
    <2> SUFFICES ASSUME TypeOK, Counted, LastLoginOnly, [Next]_vars PROVE LastLoginOnly'
      OBVIOUS
    <2>1. ASSUME Next, SignIn PROVE LastLoginOnly'
      <3>1. issued' \in Grants
        BY <2>1, SignInTypes
      <3> QED BY <2>1, <3>1 DEF SignIn, Issue, Revoked, LastLoginOnly, TypeOK
    <2>2. ASSUME access' \subseteq access, refresh' \subseteq refresh,
                 UNCHANGED <<origin, logins>>
          PROVE  LastLoginOnly'
      BY <2>2 DEF LastLoginOnly
    <2>3. ASSUME Next, NEW t \in Tabs, TabStep(t) PROVE LastLoginOnly'
      <3>1. CASE Login(t)
        BY <2>1, <2>3, <3>1 DEF Login
      <3>2. CASE Load(t) \/ Join(t) \/ Logout(t) \/ TabGoesOn(t)
        BY <2>2, <3>2 DEF Load, Join, Logout, TabGoesOn, Verified, LoggedIn, Kicked, Ended, Left,
                          Leave, SignOut, server
      <3> QED BY <2>3, <3>1, <3>2 DEF TabStep
    <2>4. ASSUME NEW c \in Calls, NEW t \in Tabs, Send(c, t) PROVE LastLoginOnly'
      BY <2>2, <2>4 DEF Send, server
    <2>5. ASSUME Next, NEW c \in Calls, CallGoesOn(c) PROVE LastLoginOnly'
      <3>1. CASE Renew(c) /\ call[c].with \in refresh
        <4>1. Issue(origin[call[c].with]) /\ origin[call[c].with] = logins /\ logins' = logins
              /\ origin[call[c].with] \in 0..MaxLogins
          BY <3>1 DEF Renew, LastLoginOnly, TypeOK
        <4>2. issued' \in Grants
          BY <2>5, <4>1, IssueGrants
        <4> QED BY <3>1, <4>1, <4>2 DEF Renew, Issue, Spent, LastLoginOnly, TypeOK
      <3>2. CASE ~ (Renew(c) /\ call[c].with \in refresh)
        BY <2>2, <2>5, <3>2
        DEF CallGoesOn, Answer, Ask, GiveUp, Renew, Granted, Expelled, server
      <3> QED BY <3>1, <3>2
    <2>6. CASE Next /\ Elsewhere
      BY <2>1, <2>6 DEF Elsewhere
    <2>7. CASE Restart
      BY <2>2, <2>7 DEF Restart
    <2>8. ASSUME NEW g \in Grants, Expire(g) PROVE LastLoginOnly'
      BY <2>2, <2>8 DEF Expire
    <2>9. CASE UNCHANGED vars \/ \E c \in Calls : RenewalFails(c)
      BY <2>2, <2>9 DEF vars, server, RenewalFails
    <2> QED BY <2>3, <2>4, <2>5, <2>6, <2>7, <2>8, <2>9, NextCases
  <1> QED BY <1>1, <1>2, TypeCorrect, PTL DEF Spec

\* However many requests and tabs renew a sign-in at once, one refresh token
\* serves.
THEOREM SingleRefreshToken == Spec => []OneRefreshToken
  <1> DEFINE IInv == \A g, h \in refresh : g = h
  <1>1. Init => IInv
    BY DEF Init
  <1>2. IInv /\ [Next]_vars => IInv'
    <2> SUFFICES ASSUME IInv, [Next]_vars PROVE IInv'
      OBVIOUS
    <2>1. CASE SignIn
      BY <2>1 DEF SignIn, Revoked
    <2>2. ASSUME refresh' \subseteq refresh PROVE IInv'
      BY <2>2
    <2>3. ASSUME NEW c \in Calls, CallGoesOn(c) PROVE IInv'
      BY <2>3 DEF CallGoesOn, Answer, Ask, GiveUp, Renew, Spent, Granted, Expelled, server
    <2>4. ASSUME NEW t \in Tabs, TabStep(t) PROVE IInv'
      <3>1. CASE Login(t)
        BY <2>1, <3>1 DEF Login
      <3>2. CASE Load(t) \/ Join(t) \/ Logout(t) \/ TabGoesOn(t)
        BY <2>2, <3>2 DEF Load, Join, Logout, TabGoesOn, Verified, LoggedIn, Kicked, Ended, Left,
                          Leave, SignOut, server
      <3> QED BY <2>4, <3>1, <3>2 DEF TabStep
    <2>5. ASSUME NEW c \in Calls, NEW t \in Tabs, Send(c, t) PROVE IInv'
      BY <2>2, <2>5 DEF Send, server
    <2>6. CASE Elsewhere
      BY <2>1, <2>6 DEF Elsewhere
    <2>7. CASE \/ Restart \/ (\E g \in Grants : Expire(g)) \/ UNCHANGED vars
               \/ \E c \in Calls : RenewalFails(c)
      BY <2>2, <2>7 DEF Restart, Expire, RenewalFails, vars, server
    <2> QED BY <2>3, <2>4, <2>5, <2>6, <2>7, NextCases
  <1>3. IInv => OneRefreshToken
    <2> SUFFICES ASSUME IInv PROVE OneRefreshToken
      OBVIOUS
    <2>1. CASE refresh = {}
      BY <2>1, FS_EmptySet DEF OneRefreshToken
    <2>2. CASE refresh # {}
      <3>1. PICK g : g \in refresh
        BY <2>2
      <3>2. refresh = {g}
        BY <3>1
      <3>3. Cardinality(refresh) = 1
        BY <3>2, FS_Singleton
      <3> QED BY <3>3 DEF OneRefreshToken
    <2> QED BY <2>1, <2>2
  <1> QED BY <1>1, <1>2, <1>3, PTL DEF Spec

=============================================================================
