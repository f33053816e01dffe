----------------------- MODULE AvailabilityCallProofs -----------------------
(***************************************************************************)
(* What the exit of the availability service says to the API, for any      *)
(* number of calls of the API and of others.                               *)
(***************************************************************************)
EXTENDS AvailabilityCall, ServiceProcessProofs

USE OwnCallsAssumption

\* A call counts as accepted only while it is in flight at the server, for good if
\* the process has ended; and only a process that ended otherwise than with
\* code 0 has dropped one.
AcceptedInFlight ==
    \A c \in OwnCalls :
        /\ promise[c] = "accepted" => c \in calls["grpc"]
        /\ promise[c] = "dropped" => main = "exited" /\ exit # "code0"

CallInv == ProcessInv /\ CallTypeOK /\ AcceptedInFlight

LEMMA InitCallInv == CallInit => CallInv
  BY InitProcessInv DEF CallInit, CallInv, CallTypeOK, AcceptedInFlight, Promises

\* Composed with the client, the process takes its own steps.
LEMMA CallNextIsProcessNext == [CallNext]_<<vars, callVars>> => [Next]_vars
  <1> SUFFICES ASSUME [CallNext]_<<vars, callVars>> PROVE [Next]_vars
    OBVIOUS
  <1>1. ASSUME NEW c \in OwnCalls,
               \/ Ask(c) \/ Accepted(c) \/ Answered(c) \/ DeadlineExceeded(c)
               \/ Cancelled(c) \/ Refused(c) \/ ConnectionBreaks(c)
        PROVE  [Next]_vars
    <2>1. c \in Calls /\ "grpc" \in Servers
      BY DEF Servers
    <2>2. UNCHANGED vars \/ CallBegins("grpc", c) \/ CallEnds("grpc", c)
      BY <1>1 DEF Ask, Accepted, Answered, DeadlineExceeded, Cancelled, Refused, ConnectionBreaks
    <2>3. QED
      BY <2>1, <2>2 DEF Next
  <1>2. CASE Service
    BY <1>2 DEF Service, OtherCalls, Next
  <1>3. QED
    BY <1>1, <1>2 DEF CallNext, Client

LEMMA ClientKeepsCallInv ==
    ASSUME CallInv, NEW c \in OwnCalls,
           \/ Ask(c) \/ Accepted(c) \/ Answered(c) \/ DeadlineExceeded(c)
           \/ Cancelled(c) \/ Refused(c) \/ ConnectionBreaks(c)
    PROVE  CallTypeOK' /\ AcceptedInFlight'
  <1> USE DEF CallInv, CallTypeOK, AcceptedInFlight, Promises
  <1>0. calls \in [Servers -> SUBSET Calls] /\ "grpc" \in Servers
    BY DEF ProcessInv, TypeOK, Servers
  <1>1. CASE Ask(c)
    BY <1>1 DEF Ask, vars
  <1>2. CASE Accepted(c)
    BY <1>0, <1>2 DEF Accepted, CallBegins
  <1>3. CASE Answered(c)
    BY <1>0, <1>3 DEF Answered, CallEnds, Settle
  <1>4. CASE DeadlineExceeded(c) \/ Refused(c)
    BY <1>4 DEF DeadlineExceeded, Refused, Settle, vars
  <1>5. CASE Cancelled(c)
    BY <1>0, <1>5 DEF Cancelled, CallEnds, callVars
  <1>6. CASE ConnectionBreaks(c)
    <2>1. c \in calls["grpc"] /\ main = "exited" /\ exit # "code0"
      BY <1>0, <1>6 DEF ConnectionBreaks, Running, ProcessInv, CleanExitDrains
    <2>2. QED
      BY <1>6, <2>1 DEF ConnectionBreaks, Settle, vars
  <1>7. QED
    BY <1>1, <1>2, <1>3, <1>4, <1>5, <1>6

LEMMA ServiceKeepsCallInv ==
    ASSUME CallInv, Service, UNCHANGED callVars
    PROVE  CallTypeOK' /\ AcceptedInFlight'
  <1>1. main = "exited" => main' = "exited" /\ exit' = exit
    BY DEF Service, OtherCalls, Main, StartFails, Start, SelectSignal, SelectError, GracefulStopReturns,
       ShutdownWaits, ShutdownDrained, ShutdownTimesOut, Serve, ServerFails, ServerReturns, CallBegins,
       CallEnds, Signal, Kill, TimerExpires, Running, Launched, Stopping
  <1>2. \A c \in OwnCalls : c \in calls["grpc"] => c \in calls'["grpc"]
    <2>1. CASE OtherCalls
      <3> SUFFICES ASSUME NEW s \in Servers, NEW o \in Calls, s = "grpc" => o \notin OwnCalls,
                          CallBegins(s, o) \/ CallEnds(s, o),
                          NEW c \in OwnCalls, c \in calls["grpc"]
                   PROVE  c \in calls'["grpc"]
        BY <2>1 DEF OtherCalls
      <3>1. calls \in [Servers -> SUBSET Calls] /\ "grpc" \in Servers
        BY DEF CallInv, ProcessInv, TypeOK, Servers
      <3>2. QED
        BY <3>1 DEF CallBegins, CallEnds
    <2>2. CASE ~OtherCalls
      BY <2>2 DEF Service, Main, StartFails, Start, SelectSignal, SelectError, GracefulStopReturns,
         ShutdownWaits, ShutdownDrained, ShutdownTimesOut, Serve, ServerFails, ServerReturns, Signal, Kill,
         TimerExpires
    <2>3. QED
      BY <2>1, <2>2
  <1>3. QED
    BY <1>1, <1>2 DEF CallInv, CallTypeOK, AcceptedInFlight, callVars

LEMMA NextKeepsCallInv == CallInv /\ [CallNext]_<<vars, callVars>> => CallInv'
  <1> SUFFICES ASSUME CallInv, [CallNext]_<<vars, callVars>> PROVE CallInv'
    OBVIOUS
  <1>1. ProcessInv'
    BY CallNextIsProcessNext, NextKeepsProcessInv DEF CallInv
  <1>2. CallTypeOK' /\ AcceptedInFlight'
    <2>1. CASE Client
      BY <2>1, ClientKeepsCallInv DEF Client
    <2>2. CASE Service /\ UNCHANGED callVars
      BY <2>2, ServiceKeepsCallInv
    <2>3. CASE UNCHANGED <<vars, callVars>>
      BY <2>3 DEF CallInv, CallTypeOK, AcceptedInFlight, vars, callVars
    <2>4. QED
      BY <2>1, <2>2, <2>3 DEF CallNext
  <1>3. QED
    BY <1>1, <1>2 DEF CallInv

LEMMA CallInvariance == CallSpec => []CallInv
  BY InitCallInv, NextKeepsCallInv, PTL DEF CallSpec

\* The composition is an instance of the process: what is proved of the process
\* holds while the API calls it.
THEOREM ServesTheApi == CallSpec => Spec
  <1>1. CallInit => Init
    BY DEF CallInit
  <1>2. QED
    BY <1>1, CallNextIsProcessNext, PTL DEF CallSpec, Spec

\* Type correctness of the client: a deadline runs exactly while the promise is open.
THEOREM ClientTypeCorrect == CallSpec => []CallTypeOK
  <1>1. CallInv => CallTypeOK
    BY DEF CallInv
  <1>2. QED
    BY <1>1, CallInvariance, PTL

\* A process that ends with code 0 has left no accepted call of the API without an
\* answer or an earlier deadline.
THEOREM CleanExitIsCleanForApi == CallSpec => []CleanExitAnswersApi
  <1>1. CallInv => CleanExitAnswersApi
    BY DEF CallInv, AcceptedInFlight, CleanExitAnswersApi, ProcessInv, CleanExitDrains, Servers
  <1>2. QED
    BY <1>1, CallInvariance, PTL
=============================================================================
