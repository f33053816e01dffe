------------------------ MODULE ServiceProcessProofs ------------------------
(***************************************************************************)
(* What the exit of a Go service says about the calls it had accepted, for *)
(* any number of calls in flight and any of them stuck.                    *)
(***************************************************************************)
EXTENDS ServiceProcess, TLAPS

\* Where main is not asked to stop yet.
Before == {"starting", "serving"}

\* The shutdown branch is entered by a signal, and the timeout starts with it;
\* there is an exit code only at the end.
StoppingIsAsked ==
    /\ exit # None => main = "exited"
    /\ main \in Stopping => signalled
    /\ main \in Before => timer = "unset"
    /\ main = "starting" => \A s \in Servers : calls[s] = {}

\* Servers are told to stop, and ErrServerClosed is sent, only while stopping.
StopsInOrder ==
    /\ \A s \in Servers : server[s] = "stopping" => main \notin Before
    /\ serverErrors = "closed" => main \notin Before

\* The gRPC server accepts nothing while main stops, and it is empty before
\* the HTTP server is told to stop; the search service has none.
GrpcStopsFirst ==
    /\ main \in Stopping => server["grpc"] \notin {"created", "serving"}
    /\ main \in {"stoppingHttp", "waiting"} => calls["grpc"] = {}
    /\ service = "search" => server["grpc"] = "absent"
    /\ server["grpc"] = "absent" => calls["grpc"] = {}

\* The inductive invariant.
ProcessInv ==
    /\ TypeOK
    /\ StoppingIsAsked
    /\ StopsInOrder
    /\ GrpcStopsFirst
    /\ CleanExitDrains
    /\ DropsExplained

LEMMA InitProcessInv == Init => ProcessInv
  BY NoneAssumption DEF Init, ProcessInv, TypeOK, StoppingIsAsked, StopsInOrder,
     GrpcStopsFirst, CleanExitDrains, DropsExplained, Services, Servers, Stopping, Before

LEMMA MainKeepsInv ==
    ASSUME ProcessInv, Main
    PROVE  ProcessInv'
  <1> USE NoneAssumption DEF ProcessInv, TypeOK, StoppingIsAsked, StopsInOrder,
      GrpcStopsFirst, CleanExitDrains, DropsExplained, Servers, Stopping, Before
  <1>1. CASE StartFails
    BY <1>1 DEF StartFails, Exit
  <1>2. CASE Start
    BY <1>2 DEF Start
  <1>3. CASE SelectSignal
    <2>1. CASE service = "availability"
      BY <1>3, <2>1 DEF SelectSignal, StopServer
    <2>2. CASE service = "search"
      BY <1>3, <2>2 DEF SelectSignal, StopServer
    <2>3. QED
      BY <2>1, <2>2 DEF Services
  <1>4. CASE SelectError
    BY <1>4 DEF SelectError, Exit
  <1>5. CASE GracefulStopReturns
    BY <1>5 DEF GracefulStopReturns, StopServer
  <1>6. CASE ShutdownWaits
    BY <1>6 DEF ShutdownWaits
  <1>7. CASE ShutdownDrained
    BY <1>7 DEF ShutdownDrained, Exit
  <1>8. CASE ShutdownTimesOut
    BY <1>8 DEF ShutdownTimesOut, Exit
  <1>9. QED
    BY <1>1, <1>2, <1>3, <1>4, <1>5, <1>6, <1>7, <1>8 DEF Main

LEMMA ServersKeepInv ==
    ASSUME ProcessInv, NEW s \in Servers,
           \/ Serve(s) \/ ServerFails(s) \/ ServerReturns(s)
           \/ \E c \in Calls : CallBegins(s, c) \/ CallEnds(s, c)
    PROVE  ProcessInv'
  <1> USE NoneAssumption DEF ProcessInv, TypeOK, StoppingIsAsked, StopsInOrder,
      GrpcStopsFirst, CleanExitDrains, DropsExplained, Servers, Stopping, Before, Launched
  <1>1. CASE Serve(s)
    BY <1>1 DEF Serve
  <1>2. CASE ServerFails(s)
    BY <1>2 DEF ServerFails, Send
  <1>3. CASE ServerReturns(s)
    BY <1>3 DEF ServerReturns, Send
  <1>4. ASSUME NEW c \in Calls, CallBegins(s, c)
        PROVE  ProcessInv'
    BY <1>4 DEF CallBegins
  <1>5. ASSUME NEW c \in Calls, CallEnds(s, c)
        PROVE  ProcessInv'
    BY <1>5 DEF CallEnds, Running
  <1>6. QED
    BY <1>1, <1>2, <1>3, <1>4, <1>5

LEMMA NextKeepsProcessInv == ProcessInv /\ [Next]_vars => ProcessInv'
  <1> SUFFICES ASSUME ProcessInv, [Next]_vars PROVE ProcessInv'
    OBVIOUS
  <1>1. CASE Main
    BY <1>1, MainKeepsInv
  <1>2. ASSUME NEW s \in Servers,
               \/ Serve(s) \/ ServerFails(s) \/ ServerReturns(s)
               \/ \E c \in Calls : CallBegins(s, c) \/ CallEnds(s, c)
        PROVE  ProcessInv'
    BY <1>2, ServersKeepInv
  <1>3. CASE Signal \/ Kill \/ TimerExpires \/ UNCHANGED vars
    <2> USE NoneAssumption DEF ProcessInv, TypeOK, StoppingIsAsked, StopsInOrder,
        GrpcStopsFirst, CleanExitDrains, DropsExplained, Servers, Stopping, Before
    <2>1. CASE Signal
      BY <2>1 DEF Signal, Running, Exit
    <2>2. CASE Kill
      BY <2>2 DEF Kill, Running, Exit
    <2>3. CASE TimerExpires
      BY <2>3 DEF TimerExpires, Running
    <2>4. CASE UNCHANGED vars
      BY <2>4 DEF vars
    <2>5. QED
      BY <1>3, <2>1, <2>2, <2>3, <2>4
  <1>4. QED
    BY <1>1, <1>2, <1>3 DEF Next

LEMMA ProcessInvariance == Spec => []ProcessInv
  BY InitProcessInv, NextKeepsProcessInv, PTL DEF Spec

\* Type correctness of the process.
THEOREM ProcessTypeCorrect == Spec => []TypeOK
  BY ProcessInvariance, PTL DEF ProcessInv

\* Exit code 0 follows a signal and leaves no accepted call unanswered.
THEOREM CleanExit == Spec => []CleanExitDrains
  BY ProcessInvariance, PTL DEF ProcessInv

\* Exit code 1 drops requests only after a failure or the timeout, and RPCs
\* only for a failure before the shutdown began.
THEOREM DropsAreExplained == Spec => []DropsExplained
  BY ProcessInvariance, PTL DEF ProcessInv
=============================================================================
