---------------------------- MODULE SignInProofs ----------------------------
(***************************************************************************)
(* What the session token promises, for any number of users, tabs, sign-   *)
(* ins and failing calls, and any MAX_AGE.                                 *)
(***************************************************************************)
EXTENDS SignIn, FiniteSetTheorems, TLAPS

USE UsersAssumption, AgeAssumption, BoundsAssumption

\* A token names the user who signed in for it, whom the server knows unless a call
\* has gone wrong.
NamesUser(token, user, known, failed) ==
    user \in Users /\ token.uid = user /\ (~failed => user \in known)

\* What holds of one tab's request at an instant, given the users the server knows
\* and whether a call has gone wrong.
FlowOK(f, instant, known, failed) ==
    /\ f \in Flows
    /\ f.sent <= instant
    /\ f.step \in {"checking", "registering"} => f.user \in GoogleUsers
    /\ f.step = "loggingIn" => f.user \in PasswordUsers
    /\ f.step = "refreshing" => f.token # None
    /\ f.step = "answered" /\ f.token # None => f.token.exp >= f.sent + MaxAge
    /\ f.token # None => NamesUser(f.token, f.user, known, failed)

\* Tokens name their user, the server knows that user unless a call went wrong, and an
\* answer brings a token for MAX_AGE.  It speaks of cookie and requests at once,
\* since a token passes from the cookie to a request and back.
SessionInv ==
    /\ registered \in SUBSET Users /\ PasswordUsers \subseteq registered
    /\ registrations \in [Users -> Nat]
    /\ cookie \in Tokens \cup {None}
    /\ issuedTo \in Users \cup {None}
    /\ IF cookie = None THEN issuedTo = None ELSE NamesUser(cookie, issuedTo, registered, faults # 0)
    /\ flow \in [Tabs -> Flows]
    /\ \A t \in Tabs : FlowOK(flow[t], now, registered, faults # 0)
    /\ session \in [Tabs -> Users \cup {None}]
    /\ now \in 0..MaxTime
    /\ signIns \in 0..MaxSignIns
    /\ faults \in 0..MaxFaults

LEMMA InitSessionInv == Init => SessionInv
  BY DEF Init, SessionInv, FlowOK, Flows, Idle, Users, NamesUser

\* Encoding gives a token of the right type for MAX_AGE, and keeps the user.
LEMMA EncodeRenews ==
    ASSUME now \in 0..MaxTime, NEW token \in Tokens, token.uid \in Users
    PROVE  /\ Encode(token) \in Tokens \ {None}
           /\ Encode(token).exp = now + MaxAge
           /\ Encode(token).uid = token.uid
  <1>1. Encode(token) = [sub |-> None, uid |-> token.uid, exp |-> now + MaxAge]
    BY DEF Encode
  <1>2. now + MaxAge \in 0..(MaxTime + MaxAge)
    OBVIOUS
  <1>3. QED
    BY <1>1, <1>2, TokensAssumption DEF Tokens

LEMMA EncodeNew ==
    ASSUME now \in 0..MaxTime, NEW user \in Users
    PROVE  /\ Encode(NewToken(user)) \in Tokens \ {None}
           /\ Encode(NewToken(user)).exp = now + MaxAge
           /\ Encode(NewToken(user)).uid = user
  <1>1. Encode(NewToken(user)) = [sub |-> None, uid |-> user, exp |-> now + MaxAge]
    BY DEF Encode, NewToken
  <1>2. now + MaxAge \in 0..(MaxTime + MaxAge)
    OBVIOUS
  <1>3. QED
    BY <1>1, <1>2, TokensAssumption DEF Tokens

\* A step that changes the request of one tab, and maybe what the server knows,
\* keeps the invariant if the new request is in order.
Rest(t) ==
    /\ registered' \in SUBSET Users /\ registered \subseteq registered'
    /\ registrations' \in [Users -> Nat]
    /\ \/ UNCHANGED <<cookie, issuedTo>>
       \/ /\ cookie' = flow[t].token
          /\ issuedTo' = IF flow[t].token = None THEN None ELSE flow[t].user
    /\ session' \in [Tabs -> Users \cup {None}]
    /\ now' = now
    /\ signIns' \in 0..MaxSignIns
    /\ faults' \in 0..MaxFaults /\ faults' >= faults

LEMMA OneFlowChanges ==
    ASSUME SessionInv, NEW t \in Tabs, Rest(t),
           NEW f, FlowOK(f, now', registered', faults' # 0), flow' = [flow EXCEPT ![t] = f]
    PROVE  SessionInv'
  <1> USE DEF Rest
  <1>1. \A s \in Tabs : FlowOK(flow'[s], now', registered', faults' # 0)
    <2> SUFFICES ASSUME NEW s \in Tabs PROVE FlowOK(flow'[s], now', registered', faults' # 0)
      OBVIOUS
    <2>1. CASE s = t
      <3>1. flow'[s] = f
        BY <2>1 DEF SessionInv
      <3>2. QED
        BY <3>1 DEF FlowOK
    <2>2. CASE s # t
      <3>1. flow'[s] = flow[s] /\ FlowOK(flow[s], now, registered, faults # 0)
        BY <2>2 DEF SessionInv
      <3>2. QED
        BY <3>1 DEF FlowOK, SessionInv, NamesUser
    <2>3. QED
      BY <2>1, <2>2
  <1>2. flow' \in [Tabs -> Flows]
    BY DEF SessionInv, FlowOK
  <1>3. /\ cookie' \in Tokens \cup {None} /\ issuedTo' \in Users \cup {None}
        /\ IF cookie' = None THEN issuedTo' = None
           ELSE NamesUser(cookie', issuedTo', registered', faults' # 0)
    <2>1. CASE UNCHANGED <<cookie, issuedTo>>
      BY <2>1 DEF SessionInv, NamesUser
    <2>2. CASE /\ cookie' = flow[t].token
               /\ issuedTo' = IF flow[t].token = None THEN None ELSE flow[t].user
      <3>1. flow[t] \in Flows /\ FlowOK(flow[t], now, registered, faults # 0)
        BY DEF SessionInv
      <3>2. QED
        BY <2>2, <3>1 DEF SessionInv, FlowOK, Flows, NamesUser
    <2>3. QED
      BY <2>1, <2>2
  <1>4. QED
    BY <1>1, <1>2, <1>3 DEF SessionInv

LEMMA IdleIsOK ==
    ASSUME NEW instant \in 0..MaxTime, NEW known, NEW failed
    PROVE  FlowOK(Idle, instant, known, failed)
  BY DEF FlowOK, Flows, Idle

\* A request that is answered, with a fresh token or none.
LEMMA AnsweredIsOK ==
    ASSUME NEW f \in Flows, NEW token \in Tokens \cup {None},
           NEW instant \in 0..MaxTime, NEW known, NEW failed, f.sent <= instant,
           token # None => token.exp = instant + MaxAge /\ NamesUser(token, f.user, known, failed)
    PROVE  FlowOK([f EXCEPT !.step = "answered", !.token = token], instant, known, failed)
  <1> DEFINE g == [f EXCEPT !.step = "answered", !.token = token]
  <1>1. g \in Flows /\ g.step = "answered" /\ g.token = token /\ g.sent = f.sent /\ g.user = f.user
    BY DEF Flows
  <1> HIDE DEF g
  <1>2. g.sent \in Nat /\ g.sent <= instant
    BY <1>1 DEF Flows
  <1>3. FlowOK(g, instant, known, failed)
    BY <1>1, <1>2 DEF FlowOK
  <1>4. QED
    BY <1>3 DEF g

LEMMA ApprovedKeeps ==
    ASSUME SessionInv, NEW t \in Tabs, Approve(t), Rest(t), flow[t].user \in Users,
           faults' = 0 => flow[t].user \in registered'
    PROVE  SessionInv'
  <1> DEFINE token == Encode(NewToken(flow[t].user))
             f == [flow[t] EXCEPT !.step = "answered", !.token = token]
  <1>1. flow[t] \in Flows /\ now \in 0..MaxTime /\ flow[t].sent <= now /\ now' = now
    BY DEF SessionInv, FlowOK, Rest
  <1>2. token \in Tokens \ {None} /\ token.exp = now + MaxAge /\ token.uid = flow[t].user
    BY <1>1, EncodeNew
  <1>3. flow' = [flow EXCEPT ![t] = f]
    BY <1>1 DEF Approve, Flows, SessionInv
  <1> HIDE DEF token
  <1>4. FlowOK(f, now, registered', faults' # 0)
    BY <1>1, <1>2, AnsweredIsOK DEF NamesUser
  <1> HIDE DEF f
  <1>5. FlowOK(f, now', registered', faults' # 0)
    BY <1>1, <1>4
  <1>6. QED
    BY <1>3, <1>5, OneFlowChanges

LEMMA DeniedKeeps ==
    ASSUME SessionInv, NEW t \in Tabs, Rest(t), flow' = [flow EXCEPT ![t] = Idle]
    PROVE  SessionInv'
  <1>1. now' \in 0..MaxTime
    BY DEF SessionInv, Rest
  <1>2. FlowOK(Idle, now', registered', faults' # 0)
    BY <1>1, IdleIsOK
  <1>3. QED
    BY <1>2, OneFlowChanges

\* A Google user turns out to be unknown.
LEMMA ProceedKeeps ==
    ASSUME SessionInv, NEW t \in Tabs, Rest(t), flow[t].step = "checking", Proceed(t, "registering")
    PROVE  SessionInv'
  <1> DEFINE f == [flow[t] EXCEPT !.step = "registering"]
  <1>1. flow[t] \in Flows /\ FlowOK(flow[t], now, registered, faults # 0) /\ faults \in Nat
    BY DEF SessionInv
  <1>2. f \in Flows /\ f.step = "registering" /\ f.user = flow[t].user /\ f.token = flow[t].token
        /\ f.sent = flow[t].sent
    BY <1>1 DEF Flows
  <1>3. flow' = [flow EXCEPT ![t] = f]
    BY DEF Proceed
  <1> HIDE DEF f
  <1>4. FlowOK(f, now', registered', faults' # 0)
    BY <1>1, <1>2 DEF FlowOK, NamesUser, Rest
  <1>5. QED
    BY <1>3, <1>4, OneFlowChanges

LEMMA BegunKeeps ==
    ASSUME SessionInv, NEW t \in Tabs, Rest(t), registered' = registered, faults' = faults,
           NEW f, f \in Flows, f.sent = now, FlowOK(f, now, registered, faults # 0),
           flow' = [flow EXCEPT ![t] = f]
    PROVE  SessionInv'
  <1>1. FlowOK(f, now', registered', faults' # 0)
    BY DEF Rest
  <1>2. QED
    BY <1>1, OneFlowChanges

LEMMA BeginKeepsSessionInv ==
    ASSUME SessionInv, NEW t \in Tabs,
           (\E user \in Users : BeginSignIn(t, user)) \/ BeginRefresh(t)
    PROVE  SessionInv'
  <1>1. ASSUME NEW user \in Users, BeginSignIn(t, user)
        PROVE  SessionInv'
    <2> DEFINE f == [step |-> IF user \in GoogleUsers THEN "checking" ELSE "loggingIn",
                     user |-> user, token |-> None, sent |-> now]
    <2>1. f \in Flows /\ f.sent = now /\ FlowOK(f, now, registered, faults # 0)
      BY DEF FlowOK, Flows, Users, SessionInv
    <2>2. flow' = [flow EXCEPT ![t] = f] /\ registered' = registered /\ faults' = faults /\ Rest(t)
      BY <1>1 DEF BeginSignIn, Begin, Rest, SessionInv
    <2> HIDE DEF f
    <2>3. QED
      BY <2>1, <2>2, BegunKeeps
  <1>2. CASE BeginRefresh(t)
    <2> DEFINE f == [step |-> "refreshing", user |-> issuedTo, token |-> cookie, sent |-> now]
    <2>1. f \in Flows /\ f.sent = now /\ FlowOK(f, now, registered, faults # 0)
      BY <1>2 DEF BeginRefresh, FlowOK, Flows, SessionInv
    <2>2. flow' = [flow EXCEPT ![t] = f] /\ registered' = registered /\ faults' = faults /\ Rest(t)
      BY <1>2 DEF BeginRefresh, Begin, Rest, SessionInv
    <2> HIDE DEF f
    <2>3. QED
      BY <2>1, <2>2, BegunKeeps
  <1>3. QED
    BY <1>1, <1>2

LEMMA SignInKeepsSessionInv ==
    ASSUME SessionInv, NEW t \in Tabs,
           \/ Checked(t) \/ CheckFails(t) \/ Registered(t) \/ RegisterFails(t)
           \/ LoggedIn(t) \/ LoginFails(t)
    PROVE  SessionInv'
  <1>1. /\ flow[t].step \in {"checking", "registering"} => flow[t].user \in GoogleUsers
        /\ flow[t].step = "loggingIn" => flow[t].user \in PasswordUsers
        /\ PasswordUsers \subseteq registered
        /\ GoogleUsers \subseteq Users /\ PasswordUsers \subseteq Users
    BY DEF SessionInv, FlowOK, Users
  <1>2. CASE Checked(t) \/ LoggedIn(t) \/ LoginFails(t)
    <2>1. Rest(t)
      BY <1>2 DEF Checked, LoggedIn, LoginFails, Rest, SessionInv
    <2>2. CASE Checked(t)
      BY <1>1, <2>1, <2>2, ApprovedKeeps, ProceedKeeps DEF Checked
    <2>3. CASE LoggedIn(t)
      BY <1>1, <2>1, <2>3, ApprovedKeeps DEF LoggedIn
    <2>4. CASE LoginFails(t)
      BY <2>1, <2>4, DeniedKeeps DEF LoginFails, Deny
    <2>5. QED
      BY <1>2, <2>2, <2>3, <2>4
  <1>3. CASE CheckFails(t)
    <2>1. Rest(t)
      BY <1>3 DEF CheckFails, Fault, Rest, SessionInv
    <2>2. QED
      BY <1>3, <2>1, DeniedKeeps, ProceedKeeps DEF CheckFails, Deny
  <1>4. CASE Registered(t) \/ RegisterFails(t)
    <2>1. flow[t].user \in Users
      BY <1>1, <1>4 DEF Registered, RegisterFails
    <2>2. registered' \in SUBSET Users /\ registered \subseteq registered' /\ registrations' \in [Users -> Nat]
      BY <1>4, <2>1 DEF Registered, RegisterFails, Receives, SessionInv
    <2>3. Rest(t) /\ (faults' = 0 => flow[t].user \in registered')
      BY <1>4, <2>2 DEF Registered, RegisterFails, Receives, Fault, Rest, SessionInv
    <2>4. QED
      BY <1>4, <2>1, <2>3, ApprovedKeeps, DeniedKeeps DEF Registered, RegisterFails, Deny
  <1>5. QED
    BY <1>2, <1>3, <1>4

LEMMA AnswerKeepsSessionInv ==
    ASSUME SessionInv, NEW t \in Tabs, Refreshed(t) \/ Receive(t)
    PROVE  SessionInv'
  <1>1. flow[t] \in Flows /\ FlowOK(flow[t], now, registered, faults # 0) /\ now \in 0..MaxTime
    BY DEF SessionInv
  <1>2. CASE Refreshed(t)
    <2> DEFINE old == flow[t].token
               new == IF Decode(old) = None THEN None ELSE Encode(Decode(old))
               f == [flow[t] EXCEPT !.step = "answered", !.token = new]
    <2>1. Rest(t) /\ UNCHANGED <<registered, now, faults>>
      BY <1>2 DEF Refreshed, Rest, SessionInv
    <2>2. flow' = [flow EXCEPT ![t] = f]
      BY <1>1, <1>2 DEF Refreshed, Flows, SessionInv
    <2>3. old \in Tokens \ {None} /\ NamesUser(old, flow[t].user, registered, faults # 0)
      BY <1>1, <1>2 DEF Refreshed, FlowOK, Flows
    <2>4. new = None \/ new = Encode(old)
      BY DEF Decode
    <2> HIDE DEF old, new
    <2>5. Encode(old) \in Tokens \ {None} /\ Encode(old).exp = now + MaxAge /\ Encode(old).uid = old.uid
      BY <1>1, <2>3, EncodeRenews DEF NamesUser
    <2>6. flow[t].sent <= now
      BY <1>1 DEF FlowOK
    <2>7. FlowOK(f, now, registered, faults # 0)
      BY <1>1, <2>3, <2>4, <2>5, <2>6, AnsweredIsOK DEF NamesUser
    <2> HIDE DEF f
    <2>8. FlowOK(f, now', registered', faults' # 0)
      BY <2>1, <2>7
    <2>9. QED
      BY <2>1, <2>2, <2>8, OneFlowChanges
  <1>3. CASE Receive(t)
    <2>1. SessionOf(flow[t].token) \in Users \cup {None}
      BY <1>1 DEF SessionOf, FlowOK, NamesUser
    <2>2. Rest(t)
      BY <1>3, <2>1 DEF Receive, Rest, SessionInv
    <2>3. QED
      BY <1>3, <2>2, DeniedKeeps DEF Receive
  <1>4. QED
    BY <1>2, <1>3

LEMMA NextKeepsSessionInv == SessionInv /\ [Next]_vars => SessionInv'
  <1> SUFFICES ASSUME SessionInv, [Next]_vars PROVE SessionInv'
    OBVIOUS
  <1>1. CASE Tick
    <2>1. \A t \in Tabs : FlowOK(flow'[t], now', registered', faults' # 0)
      BY <1>1 DEF Tick, SessionInv, FlowOK, Flows
    <2>2. QED
      BY <1>1, <2>1 DEF Tick, SessionInv
  <1>2. CASE UNCHANGED vars
    <2>1. \A t \in Tabs : FlowOK(flow'[t], now', registered', faults' # 0)
      BY <1>2 DEF vars, SessionInv, FlowOK
    <2>2. QED
      BY <1>2, <2>1 DEF vars, SessionInv
  <1>3. CASE \E t \in Tabs :
               \/ \E user \in Users : BeginSignIn(t, user)
               \/ Checked(t) \/ CheckFails(t) \/ Registered(t) \/ RegisterFails(t)
               \/ LoggedIn(t) \/ LoginFails(t)
               \/ BeginRefresh(t) \/ Refreshed(t) \/ Receive(t)
    BY <1>3, BeginKeepsSessionInv, SignInKeepsSessionInv, AnswerKeepsSessionInv
  <1>4. QED
    BY <1>1, <1>2, <1>3 DEF Next

LEMMA SessionInvariance == Spec => []SessionInv
  BY InitSessionInv, NextKeepsSessionInv, PTL DEF Spec

\* Type correctness of sign-in and sessions.
THEOREM SignInTypeCorrect == Spec => []TypeOK
  <1>1. SessionInv => TypeOK
    BY DEF SessionInv, TypeOK
  <1>2. QED
    BY <1>1, SessionInvariance, PTL

\* A token names the user who signed in for it through any number of decodings and
\* encodings, and in whatever order the answers of the tabs arrive.
THEOREM TokensKeepTheirUser == Spec => []CookieNamesUser
  <1>1. SessionInv => CookieNamesUser
    BY DEF SessionInv, NamesUser, CookieNamesUser
  <1>2. QED
    BY <1>1, SessionInvariance, PTL

\* Who has a session is known to the server, unless a call went wrong.
THEOREM SessionsAreRegistered == Spec => []SessionIsRegistered
  <1>1. SessionInv => SessionIsRegistered
    BY DEF SessionInv, NamesUser, SessionIsRegistered
  <1>2. QED
    BY <1>1, SessionInvariance, PTL

\* Every session answer renews the token for MAX_AGE from when it was asked for.
THEOREM AnswersRenew == Spec => SessionSlides
  <1>1. SessionInv /\ [Next]_vars =>
            [\A t \in Tabs : Receive(t) /\ cookie' # None => cookie'.exp >= flow[t].sent + MaxAge]_vars
    <2> SUFFICES ASSUME SessionInv, NEW t \in Tabs, Receive(t), cookie' # None
                 PROVE  cookie'.exp >= flow[t].sent + MaxAge
      OBVIOUS
    <2>1. FlowOK(flow[t], now, registered, faults # 0)
      BY DEF SessionInv
    <2>2. QED
      BY <2>1 DEF Receive, FlowOK
  <1>2. QED
    BY <1>1, SessionInvariance, PTL DEF Spec, SessionSlides
----------------------------------------------------------------------------
(* How often a user is registered *)

\* The tabs that are about to register a user.
Registering(u) == {t \in Tabs : flow[t].step = "registering" /\ flow[t].user = u}

\* Registrations received and on their way; nobody's are counted before the server
\* knows the user, so that the tabs then on their way are all there can be.
Bounded(u) ==
    /\ registrations[u] + Cardinality(Registering(u)) <= Cardinality(Tabs) + faults
    /\ u \notin registered => registrations[u] = 0

RegistrationInv == SessionInv /\ \A u \in Users : Bounded(u)

\* Cardinalities of sets of tabs that differ by at most one tab.
LEMMA TabSets ==
    ASSUME NEW S \in SUBSET Tabs, NEW T \in SUBSET Tabs
    PROVE  /\ Cardinality(S) \in Nat /\ Cardinality(T) \in Nat /\ Cardinality(Tabs) \in Nat
           /\ Cardinality(T) <= Cardinality(Tabs)
           /\ T \subseteq S => Cardinality(T) <= Cardinality(S)
           /\ \A t \in S : T \subseteq S \ {t} => Cardinality(T) + 1 <= Cardinality(S)
           /\ \A t \in Tabs : T \subseteq S \cup {t} => Cardinality(T) <= Cardinality(S) + 1
  <1>1. /\ IsFiniteSet(S) /\ IsFiniteSet(T)
        /\ Cardinality(S) \in Nat /\ Cardinality(T) \in Nat /\ Cardinality(Tabs) \in Nat
        /\ Cardinality(T) <= Cardinality(Tabs)
    BY TabsAssumption, FS_Subset, FS_CardinalityType
  <1>2. T \subseteq S => Cardinality(T) <= Cardinality(S)
    BY <1>1, FS_Subset
  <1>3. ASSUME NEW t \in S, T \subseteq S \ {t}
        PROVE  Cardinality(T) + 1 <= Cardinality(S)
    <2>1. IsFiniteSet(S \ {t}) /\ Cardinality(S \ {t}) = Cardinality(S) - 1
      BY <1>1, FS_RemoveElement
    <2>2. Cardinality(T) <= Cardinality(S \ {t})
      BY <1>3, <2>1, FS_Subset
    <2>3. QED
      BY <1>1, <2>1, <2>2
  <1>4. ASSUME NEW t \in Tabs, T \subseteq S \cup {t}
        PROVE  Cardinality(T) <= Cardinality(S) + 1
    <2>1. /\ IsFiniteSet(S \cup {t})
          /\ Cardinality(S \cup {t}) = Cardinality(S) \/ Cardinality(S \cup {t}) = Cardinality(S) + 1
      BY <1>1, FS_AddElement
    <2>2. Cardinality(T) <= Cardinality(S \cup {t})
      BY <1>4, <2>1, FS_Subset
    <2>3. QED
      BY <1>1, <2>1, <2>2
  <1>5. QED
    BY <1>1, <1>2, <1>3, <1>4

\* One tab moves, and the server receives a registration from it or nothing.
Moves(t, u) ==
    /\ \A s \in Tabs \ {t} : flow'[s] = flow[s]
    /\ faults' \in {faults, faults + 1}
    /\ \/ registrations'[u] = registrations[u] /\ (u \in registered => u \in registered')
       \/ registrations'[u] = registrations[u] + 1 /\ u \in registered'

\* A tab starts to register only when it found nobody or when its look-up failed,
\* and has stopped once its call was received.
LEMMA MovesKeepBounded ==
    ASSUME RegistrationInv, NEW t \in Tabs, NEW u \in Users, Moves(t, u),
           t \in Registering(u)' => \/ t \in Registering(u)
                                   \/ u \notin registered
                                   \/ faults' = faults + 1,
           registrations'[u] # registrations[u] =>
               t \in Registering(u) /\ t \notin Registering(u)',
           t \in Registering(u)' => registrations'[u] = registrations[u]
    PROVE  Bounded(u)'
  <1> DEFINE S == Registering(u)
             T == Registering(u)'
  <1>1. S \in SUBSET Tabs /\ T \in SUBSET Tabs
    BY DEF Registering
  <1>2. T \subseteq S \cup {t} /\ (t \notin T => T \subseteq S \ {t})
    BY DEF Registering, Moves
  <1>3. /\ Cardinality(S) \in Nat /\ Cardinality(T) \in Nat /\ Cardinality(Tabs) \in Nat
        /\ Cardinality(T) <= Cardinality(Tabs)
        /\ Cardinality(T) <= Cardinality(S) + 1
        /\ t \in S \/ t \notin T => Cardinality(T) <= Cardinality(S)
        /\ t \in S /\ t \notin T => Cardinality(T) + 1 <= Cardinality(S)
    BY <1>1, <1>2, TabSets
  <1>4. registrations[u] \in Nat /\ faults \in Nat /\ Bounded(u)
    BY DEF RegistrationInv, SessionInv
  <1>5. u \notin registered' => registrations'[u] = 0
    BY <1>4 DEF Bounded, Moves
  <1>6. registrations'[u] + Cardinality(T) <= Cardinality(Tabs) + faults'
    <2> HIDE DEF T
    <2>1. CASE registrations'[u] # registrations[u]
      BY <1>3, <1>4, <2>1 DEF Bounded, Moves, T
    <2>2. CASE registrations'[u] = registrations[u]
      BY <1>3, <1>4, <2>2 DEF Bounded, Moves, T
    <2>3. QED
      BY <2>1, <2>2
  <1>7. QED
    BY <1>5, <1>6 DEF Bounded

LEMMA NextKeepsRegistrationInv == RegistrationInv /\ [Next]_vars => RegistrationInv'
  <1> SUFFICES ASSUME RegistrationInv, [Next]_vars, NEW u \in Users
               PROVE  Bounded(u)'
    BY NextKeepsSessionInv DEF RegistrationInv
  <1>1. CASE Tick \/ UNCHANGED vars
    <2>1. UNCHANGED <<flow, registrations, registered, faults>>
      BY <1>1 DEF Tick, vars
    <2>2. Registering(u)' = Registering(u)
      BY <2>1 DEF Registering
    <2>3. QED
      BY <2>1, <2>2 DEF RegistrationInv, Bounded
  <1>2. ASSUME NEW t \in Tabs,
               \/ \E user \in Users : BeginSignIn(t, user)
               \/ LoggedIn(t) \/ LoginFails(t)
               \/ BeginRefresh(t) \/ Refreshed(t) \/ Receive(t)
        PROVE  Bounded(u)'
    <2>1. Moves(t, u) /\ registrations' = registrations
      BY <1>2 DEF BeginSignIn, LoggedIn, LoginFails, BeginRefresh, Refreshed, Receive, Begin,
         Approve, Deny, Moves, RegistrationInv, SessionInv
    <2>2. flow'[t].step # "registering"
      BY <1>2 DEF BeginSignIn, LoggedIn, LoginFails, BeginRefresh, Refreshed, Receive, Begin,
         Approve, Deny, Idle, RegistrationInv, SessionInv, Flows
    <2>3. QED
      BY <2>1, <2>2, MovesKeepBounded DEF Registering
  <1>3. ASSUME NEW t \in Tabs, Checked(t) \/ CheckFails(t)
        PROVE  Bounded(u)'
    <2>1. Moves(t, u) /\ registrations' = registrations
      BY <1>3 DEF Checked, CheckFails, Fault, Approve, Deny, Proceed, Moves, RegistrationInv, SessionInv
    <2>2. flow'[t].step = "registering" =>
            flow'[t].user = flow[t].user /\ (flow[t].user \notin registered \/ faults' = faults + 1)
      BY <1>3 DEF Checked, CheckFails, Fault, Approve, Deny, Proceed, Idle,
         RegistrationInv, SessionInv, Flows
    <2>3. QED
      BY <2>1, <2>2, MovesKeepBounded DEF Registering
  <1>4. ASSUME NEW t \in Tabs, Registered(t) \/ RegisterFails(t)
        PROVE  Bounded(u)'
    <2>1. flow[t].user \in Users /\ flow[t].step = "registering"
      BY <1>4 DEF Registered, RegisterFails, RegistrationInv, SessionInv, FlowOK, Users
    <2>2. /\ Moves(t, u)
          /\ registrations'[u] # registrations[u] => flow[t].user = u
      BY <1>4, <2>1 DEF Registered, RegisterFails, Receives, Fault, Approve, Deny, Moves,
         RegistrationInv, SessionInv
    <2>3. flow'[t].step # "registering"
      BY <1>4 DEF Registered, RegisterFails, Approve, Deny, Idle, RegistrationInv, SessionInv, Flows
    <2>4. QED
      BY <2>1, <2>2, <2>3, MovesKeepBounded DEF Registering
  <1>5. QED
    BY <1>1, <1>2, <1>3, <1>4 DEF Next

\* Registrations of a user are owed to the tabs that overlapped with the first, or to
\* calls that went wrong.
THEOREM RegistrationsAreBounded == Spec => []RegistrationsBounded
  <1>1. Init => RegistrationInv
    <2> SUFFICES ASSUME Init, NEW u \in Users PROVE Bounded(u)
      BY InitSessionInv DEF RegistrationInv
    <2>1. Registering(u) = {}
      BY DEF Init, Registering, Idle
    <2>2. Cardinality(Registering(u)) = 0 /\ Cardinality(Tabs) \in Nat
      BY <2>1, FS_EmptySet, TabsAssumption, FS_CardinalityType
    <2>3. QED
      BY <2>2 DEF Init, Bounded
  <1>2. RegistrationInv => RegistrationsBounded
    <2> SUFFICES ASSUME RegistrationInv, NEW u \in Users
                 PROVE  registrations[u] <= Cardinality(Tabs) + faults
      BY DEF RegistrationsBounded
    <2>1. Cardinality(Registering(u)) \in Nat /\ Cardinality(Tabs) \in Nat
      BY TabSets DEF Registering
    <2>2. QED
      BY <2>1 DEF RegistrationInv, Bounded, SessionInv
  <1>3. QED
    BY <1>1, <1>2, NextKeepsRegistrationInv, PTL DEF Spec
=============================================================================
