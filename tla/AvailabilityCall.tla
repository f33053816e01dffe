-------------------------- MODULE AvailabilityCall --------------------------
(***************************************************************************)
(* The API's gRPC client (availability-grpc.client.ts) calling the         *)
(* availability service while that starts, serves and shuts down.  Each    *)
(* call is a promise and a deadline of two seconds.  The service has other *)
(* clients too, some of which hold their RPC open.                         *)
(*                                                                         *)
(* External: grpc-js rejects a call that finds no server, whose connection *)
(* breaks or whose deadline is over, and cancels it on the server; grpc-go *)
(* then ends it.  The module's close() is never reached: main.ts enables   *)
(* no shutdown hooks.                                                      *)
(***************************************************************************)
EXTENDS ServiceProcess

CONSTANT OwnCalls   \* calls made by the API

ASSUME OwnCallsAssumption == OwnCalls \subseteq Calls \ Stuck

VARIABLES
    promise,    \* what became of each call of the API
    deadline    \* the calls whose deadline is running

callVars == <<promise, deadline>>

Promises ==
    {"none", "sent", "accepted", "resolved", "timedOut", "unavailable", "dropped"}

CallInit ==
    /\ Init
    /\ promise = [c \in OwnCalls |-> "none"]
    /\ deadline = {}

----------------------------------------------------------------------------
(* The client *)

\* The promise is resolved or rejected, once.
Settle(c, outcome) ==
    /\ promise' = [promise EXCEPT ![c] = outcome]
    /\ deadline' = deadline \ {c}

\* Seeded fault: { deadline } is not passed.
AskWithoutDeadline(c) ==
    /\ promise[c] = "none"
    /\ promise' = [promise EXCEPT ![c] = "sent"]
    /\ UNCHANGED <<vars, deadline>>

\* getAvailability(): the deadline starts with the call.
Ask(c) ==
    /\ promise[c] = "none"
    /\ promise' = [promise EXCEPT ![c] = "sent"]
    /\ deadline' = deadline \cup {c}
    /\ UNCHANGED vars

Accepted(c) ==
    /\ promise[c] = "sent"
    /\ CallBegins("grpc", c)
    /\ promise' = [promise EXCEPT ![c] = "accepted"]
    /\ UNCHANGED deadline

Answered(c) ==
    /\ promise[c] = "accepted"
    /\ CallEnds("grpc", c)
    /\ Settle(c, "resolved")

DeadlineExceeded(c) ==
    /\ c \in deadline
    /\ Settle(c, "timedOut")
    /\ UNCHANGED vars

\* The server ends a call whose client has cancelled it.
Cancelled(c) ==
    /\ promise[c] = "timedOut"
    /\ CallEnds("grpc", c)
    /\ UNCHANGED callVars

\* Nobody listens (any more).
Refused(c) ==
    /\ promise[c] = "sent"
    /\ server["grpc"] # "serving" \/ ~Running
    /\ Settle(c, "unavailable")
    /\ UNCHANGED vars

\* The service is gone, and the connection with it.
ConnectionBreaks(c) ==
    /\ promise[c] = "accepted"
    /\ ~Running
    /\ Settle(c, "dropped")
    /\ UNCHANGED vars

Client ==
    \E c \in OwnCalls :
        \/ Ask(c)
        \/ Accepted(c)
        \/ Answered(c)
        \/ DeadlineExceeded(c)
        \/ Cancelled(c)
        \/ Refused(c)
        \/ ConnectionBreaks(c)

\* RPCs of other clients, and HTTP requests.
OtherCalls ==
    \E s \in Servers, c \in Calls :
        /\ s = "grpc" => c \notin OwnCalls
        /\ CallBegins(s, c) \/ CallEnds(s, c)

Service ==
    \/ Main
    \/ \E s \in Servers : Serve(s) \/ ServerFails(s) \/ ServerReturns(s)
    \/ OtherCalls
    \/ Signal
    \/ Kill
    \/ TimerExpires

CallNext == Client \/ (Service /\ UNCHANGED callVars)

CallSpec == CallInit /\ [][CallNext]_<<vars, callVars>>

\* main, timers and deadlines go on.  Other clients' RPCs end unless they are
\* stuck; of the answers to the API's calls, and of HTTP requests, nothing is
\* assumed.
FairCallSpec ==
    /\ CallSpec
    /\ WF_<<vars, callVars>>(Main /\ UNCHANGED callVars)
    /\ WF_<<vars, callVars>>(TimerExpires /\ UNCHANGED callVars)
    /\ \A c \in OwnCalls :
        /\ WF_<<vars, callVars>>(DeadlineExceeded(c))
        /\ WF_<<vars, callVars>>(Cancelled(c))
    /\ \A c \in Calls \ OwnCalls :
        WF_<<vars, callVars>>(CallEnds("grpc", c) /\ UNCHANGED callVars)

----------------------------------------------------------------------------
(* Properties; TypeOK, CleanExitDrains and DropsExplained are the service's. *)

\* The type invariant; a deadline runs exactly while the promise is open.
CallTypeOK ==
    /\ promise \in [OwnCalls -> Promises]
    /\ deadline = {c \in OwnCalls : promise[c] \in {"sent", "accepted"}}

\* A service that ends with code 0 has answered every call of the API it accepted,
\* or the call's deadline came first: none is found dropped afterwards
\* (main.go:94, availability-grpc.client.ts:65-72).
CleanExitAnswersApi ==
    exit = "code0" => \A c \in OwnCalls : promise[c] \notin {"accepted", "dropped"}

\* Every promise is settled, also when the service dies, hangs or never starts
\* (availability-grpc.client.ts:69).
CallsSettle ==
    \A c \in OwnCalls : promise[c] = "sent" ~> promise[c] \notin {"sent", "accepted"}

\* A signal that NotifyContext took, or a failing server, ends the process, even
\* if calls of the API are never answered: their deadline frees GracefulStop.
\* Only RPCs that other clients hold open can keep it, for good (main.go:94).
EventuallyExits ==
    (signalled \/ serverErrors # None) ~> (main = "exited" \/ calls["grpc"] \cap Stuck # {})
=============================================================================
