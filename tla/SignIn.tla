------------------------------- MODULE SignIn -------------------------------
(***************************************************************************)
(* Sign-in and the session token of the web applications (authOptions.ts). *)
(* Every application, in every tab, shares one cookie, and a token lives   *)
(* nowhere else: a session is read, decoded, encoded anew and sent back.   *)
(*                                                                         *)
(* External: next-auth calls the callbacks in this order, makes `sub` of   *)
(* the id of the user, and answers a session request whose token does not  *)
(* decode by clearing the cookie; the GraphQL server keeps the users; a    *)
(* call of fetchGraphQL may come back without data or throw.  Requests of  *)
(* different tabs overlap.                                                 *)
(***************************************************************************)
EXTENDS Naturals, FiniteSets

CONSTANTS
    GoogleUsers,
    PasswordUsers,   \* users of the credentials provider, known to the server
    Tabs,
    MaxAge,
    MaxTime,         \* bound on the clock
    MaxSignIns,      \* bound on the sign-ins begun
    MaxFaults,       \* bound on the GraphQL calls that go wrong
    None

Users == GoogleUsers \cup PasswordUsers

ASSUME UsersAssumption == None \notin Users /\ GoogleUsers \cap PasswordUsers = {}
ASSUME TabsAssumption == IsFiniteSet(Tabs)
ASSUME AgeAssumption == MaxAge \in Nat \ {0} /\ MaxTime \in Nat
ASSUME BoundsAssumption == MaxSignIns \in Nat /\ MaxFaults \in Nat

VARIABLES
    registered,      \* users the server knows
    registrations,   \* registerWithProvider calls it received, per user
    cookie,          \* the session token, or None
    flow,            \* the request each tab is waiting for
    session,         \* the user id in the session a tab was given, or None
    issuedTo,        \* history: who signed in for the cookie, or for the one it renews
    now,
    signIns,
    faults

vars == <<registered, registrations, cookie, flow, session, issuedTo, now, signIns, faults>>

\* Tokens as the cookie has them; `sub` and `uid` are None, and `exp` is 0, where
\* the property is absent.
Tokens == [sub : {None}, uid : Users \cup {None}, exp : 0..(MaxTime + MaxAge)]

ASSUME TokensAssumption == None \notin Tokens

\* The user of a flow is the one signing in; for a session request, which looks at
\* the token only, it is history: whom the cookie it carries was issued to.
Idle == [step |-> "idle", user |-> None, token |-> None, sent |-> 0]

Flows ==
    [step : {"idle", "checking", "registering", "loggingIn", "refreshing", "answered"},
     user : Users \cup {None}, token : Tokens \cup {None}, sent : 0..MaxTime]

Init ==
    /\ registered = PasswordUsers
    /\ registrations = [u \in Users |-> 0]
    /\ cookie = None
    /\ flow = [t \in Tabs |-> Idle]
    /\ session = [t \in Tabs |-> None]
    /\ issuedTo = None
    /\ now = 0
    /\ signIns = 0
    /\ faults = 0

----------------------------------------------------------------------------
(* The token *)

\* Seeded fault: { ...tokenProps, uid: sub, exp }.
EncodeUidFromSub(token) == [sub |-> None, uid |-> token.sub, exp |-> now + MaxAge]

\* Seeded fault: { uid: sub, exp, ...tokenProps }.
EncodeKeepsExp(token) ==
    [sub |-> None,
     uid |-> IF token.uid = None THEN token.sub ELSE token.uid,
     exp |-> IF token.exp = 0 THEN now + MaxAge ELSE token.exp]

\* Seeded fault: `sub` is not taken out of the token.
EncodeWithSub(token) ==
    [sub |-> token.sub,
     uid |-> IF token.uid = None THEN token.sub ELSE token.uid,
     exp |-> now + MaxAge]

\* { uid: sub, ...tokenProps, exp }: a uid the token has wins over its sub.
Encode(token) ==
    [sub |-> None,
     uid |-> IF token.uid = None THEN token.sub ELSE token.uid,
     exp |-> now + MaxAge]

\* jwt.verify throws for a token that has expired, which decode makes null.
Decode(token) == IF now < token.exp THEN token ELSE None

\* next-auth's own token of a user who has just signed in.
NewToken(user) == [sub |-> user, uid |-> None, exp |-> 0]

\* The session callback; `uid` is '' here None if the token has none.
SessionOf(token) == IF token = None THEN None ELSE token.uid

----------------------------------------------------------------------------
(* Signing in *)

Begin(t, step, user, token) ==
    /\ flow[t].step = "idle"
    /\ flow' = [flow EXCEPT ![t] = [step |-> step, user |-> user, token |-> token, sent |-> now]]

\* The GraphQL call of this tab has come back: on to the next step.
Proceed(t, step) == flow' = [flow EXCEPT ![t].step = step]

\* signIn returned true: the new token is encoded and on its way.
Approve(t) ==
    flow' = [flow EXCEPT ![t].step = "answered", ![t].token = Encode(NewToken(flow[t].user))]

Deny(t) == flow' = [flow EXCEPT ![t] = Idle]

Fault == faults < MaxFaults /\ faults' = faults + 1

BeginSignIn(t, user) ==
    /\ signIns < MaxSignIns
    /\ signIns' = signIns + 1
    /\ Begin(t, IF user \in GoogleUsers THEN "checking" ELSE "loggingIn", user, None)
    /\ UNCHANGED <<registered, registrations, cookie, session, issuedTo, now, faults>>

\* Seeded fault: the answer is not looked at.
CheckedThenRegister(t) ==
    /\ flow[t].step = "checking"
    /\ Proceed(t, "registering")
    /\ UNCHANGED <<registered, registrations, cookie, session, issuedTo, now, signIns, faults>>

\* Seeded fault: the condition is the wrong way round.
CheckedInverted(t) ==
    /\ flow[t].step = "checking"
    /\ IF flow[t].user \in registered THEN Proceed(t, "registering") ELSE Approve(t)
    /\ UNCHANGED <<registered, registrations, cookie, session, issuedTo, now, signIns, faults>>

\* getAuthProvider has answered: a user it knows is not registered again.
Checked(t) ==
    /\ flow[t].step = "checking"
    /\ IF flow[t].user \in registered THEN Approve(t) ELSE Proceed(t, "registering")
    /\ UNCHANGED <<registered, registrations, cookie, session, issuedTo, now, signIns, faults>>

\* An answer without data looks like an unknown user; a throw denies.
CheckFails(t) ==
    /\ flow[t].step = "checking"
    /\ Fault
    /\ Proceed(t, "registering") \/ Deny(t)
    /\ UNCHANGED <<registered, registrations, cookie, session, issuedTo, now, signIns>>

\* registerWithProvider; the server keeps one record of a user.
Receives(user) ==
    /\ registered' = registered \cup {user}
    /\ registrations' = [registrations EXCEPT ![user] = @ + 1]

Registered(t) ==
    /\ flow[t].step = "registering"
    /\ Receives(flow[t].user)
    /\ Approve(t)
    /\ UNCHANGED <<cookie, session, issuedTo, now, signIns, faults>>

\* With or without effect on the server; nobody looks at `newUser`, so only a
\* throw denies.
RegisterFails(t) ==
    /\ flow[t].step = "registering"
    /\ Fault
    /\ Receives(flow[t].user) \/ UNCHANGED <<registered, registrations>>
    /\ Approve(t) \/ Deny(t)
    /\ UNCHANGED <<cookie, session, issuedTo, now, signIns>>

LoggedIn(t) ==
    /\ flow[t].step = "loggingIn"
    /\ Approve(t)
    /\ UNCHANGED <<registered, registrations, cookie, session, issuedTo, now, signIns, faults>>

\* A wrong password and a failing call are the same null.
LoginFails(t) ==
    /\ flow[t].step = "loggingIn"
    /\ Deny(t)
    /\ UNCHANGED <<registered, registrations, cookie, session, issuedTo, now, signIns, faults>>

----------------------------------------------------------------------------
(* The session *)

\* A tab asks for the session; the request carries the cookie as it is now.
BeginRefresh(t) ==
    /\ cookie # None
    /\ Begin(t, "refreshing", issuedTo, cookie)
    /\ UNCHANGED <<registered, registrations, cookie, session, issuedTo, now, signIns, faults>>

Refreshed(t) ==
    /\ flow[t].step = "refreshing"
    /\ LET token == Decode(flow[t].token)
       IN flow' = [flow EXCEPT ![t].step = "answered",
                               ![t].token = IF token = None THEN None ELSE Encode(token)]
    /\ UNCHANGED <<registered, registrations, cookie, session, issuedTo, now, signIns, faults>>

\* The answer reaches the browser, in any order with those of other tabs.
Receive(t) ==
    /\ flow[t].step = "answered"
    /\ cookie' = flow[t].token
    /\ issuedTo' = IF flow[t].token = None THEN None ELSE flow[t].user
    /\ session' = [session EXCEPT ![t] = SessionOf(flow[t].token)]
    /\ flow' = [flow EXCEPT ![t] = Idle]
    /\ UNCHANGED <<registered, registrations, now, signIns, faults>>

Tick ==
    /\ now < MaxTime
    /\ now' = now + 1
    /\ UNCHANGED <<registered, registrations, cookie, flow, session, issuedTo, signIns, faults>>

Next ==
    \/ \E t \in Tabs :
        \/ \E user \in Users : BeginSignIn(t, user)
        \/ Checked(t)
        \/ CheckFails(t)
        \/ Registered(t)
        \/ RegisterFails(t)
        \/ LoggedIn(t)
        \/ LoginFails(t)
        \/ BeginRefresh(t)
        \/ Refreshed(t)
        \/ Receive(t)
    \/ Tick

Spec == Init /\ [][Next]_vars

----------------------------------------------------------------------------
(* Properties *)

\* The type invariant.
TypeOK ==
    /\ registered \in SUBSET Users
    /\ registrations \in [Users -> Nat]
    /\ cookie \in Tokens \cup {None}
    /\ flow \in [Tabs -> Flows]
    /\ session \in [Tabs -> Users \cup {None}]
    /\ issuedTo \in Users \cup {None}
    /\ now \in 0..MaxTime
    /\ signIns \in 0..MaxSignIns
    /\ faults \in 0..MaxFaults

\* However often a token is decoded and encoded again, in whatever tabs and however
\* their answers cross, it names the user who signed in for it, although encode
\* drops `sub`, and no user when there is no token (authOptions.ts:87-93).
CookieNamesUser ==
    IF cookie = None THEN issuedTo = None
    ELSE issuedTo # None /\ cookie.uid = issuedTo

\* A session answer gives the browser a token for the whole MAX_AGE, counted from
\* when the tab asked, however late and in whatever order answers arrive; the
\* age of the token that was sent does not matter (authOptions.ts:89-93).
SessionSlides ==
    [][\A t \in Tabs : Receive(t) /\ cookie' # None => cookie'.exp >= flow[t].sent + MaxAge]_vars

\* A Google user who has a session is known to the server, unless a call went
\* wrong: concurrent first sign-ins do not matter (authOptions.ts:136-161).
SessionIsRegistered ==
    cookie # None /\ faults = 0 => cookie.uid \in registered

\* A user is registered again only by sign-ins that overlap with the first, one
\* per tab, or after a call that went wrong (authOptions.ts:139-147).
RegistrationsBounded ==
    \A u \in Users : registrations[u] <= Cardinality(Tabs) + faults
=============================================================================
