--------------------------- MODULE ServiceProcess ---------------------------
(***************************************************************************)
(* main() of the two Go services, from start to exit.  The availability    *)
(* service runs a gRPC server and an HTTP server, the search service only  *)
(* an HTTP server; apart from that they are built alike.                   *)
(*                                                                         *)
(* Each server runs in a goroutine of its own, and main waits for a signal *)
(* or for the first error.  net/http and grpc-go are external: Shutdown    *)
(* stops a server from accepting and waits for its requests until the      *)
(* context ends, GracefulStop waits for its RPCs without any limit.        *)
(***************************************************************************)
CONSTANTS
    Calls,   \* requests and RPCs that may be in flight at once
    Stuck,   \* RPCs whose client neither finishes nor cancels them
    None

Services == {"availability", "search"}
Servers  == {"http", "grpc"}

ASSUME StuckAssumption == Stuck \subseteq Calls
ASSUME NoneAssumption  == None \notin {"code0", "code1", "killed", "terminated", "closed", "failed"}

VARIABLES
    service,       \* which of the two programs this is
    main,          \* where main() is
    exit,          \* exit code, or how the process was ended
    server,        \* the state of each server
    calls,         \* calls in flight, per server
    serverErrors,  \* the channel of capacity one
    signalled,     \* ctx.Done() of NotifyContext
    timer          \* the context with ShutdownTimeout

vars == <<service, main, exit, server, calls, serverErrors, signalled, timer>>

Stopping == {"stoppingGrpc", "stoppingHttp", "waiting"}

Running == main # "exited"

Init ==
    /\ service \in Services
    /\ main = "starting"
    /\ exit = None
    /\ server = [s \in Servers |-> IF s = "grpc" /\ service = "search" THEN "absent" ELSE "created"]
    /\ calls = [s \in Servers |-> {}]
    /\ serverErrors = None
    /\ signalled = FALSE
    /\ timer = "unset"

----------------------------------------------------------------------------
(* Helpers *)

\* The process ends; calls that are in flight now are dropped.
Exit(code) ==
    /\ main' = "exited"
    /\ exit' = code

\* `serverErrors <- err`.  main receives at most once and then ends, so an
\* error that finds the channel full is never received.
Send(err) == serverErrors' = IF serverErrors = None THEN err ELSE serverErrors

\* A server that is told to stop accepts nothing any more.
StopServer(s) ==
    server' = [server EXCEPT ![s] = IF @ \in {"created", "serving"} THEN "stopping" ELSE @]

----------------------------------------------------------------------------
(* main() *)

\* Invalid configuration, no database, gRPC port taken.
StartFails ==
    /\ main = "starting"
    /\ Exit("code1")
    /\ UNCHANGED <<service, server, calls, serverErrors, signalled, timer>>

\* Up to NotifyContext and the two `go` statements.
Start ==
    /\ main = "starting"
    /\ main' = "serving"
    /\ UNCHANGED <<service, exit, server, calls, serverErrors, signalled, timer>>

\* Seeded fault: a context without a timeout.
SelectSignalWithoutTimeout ==
    /\ main = "serving"
    /\ signalled
    /\ main' = IF service = "availability" THEN "stoppingGrpc" ELSE "stoppingHttp"
    /\ StopServer(IF service = "availability" THEN "grpc" ELSE "http")
    /\ UNCHANGED <<service, exit, calls, serverErrors, signalled, timer>>

\* `case <-ctx.Done()`: the timeout starts here, for both servers together.
SelectSignal ==
    /\ main = "serving"
    /\ signalled
    /\ timer' = "running"
    /\ main' = IF service = "availability" THEN "stoppingGrpc" ELSE "stoppingHttp"
    /\ StopServer(IF service = "availability" THEN "grpc" ELSE "http")
    /\ UNCHANGED <<service, exit, calls, serverErrors, signalled>>

\* `case err := <-serverErrors`; with a signal pending, select may take either.
SelectError ==
    /\ main = "serving"
    /\ serverErrors # None
    /\ Exit(IF serverErrors = "closed" THEN "code0" ELSE "code1")
    /\ UNCHANGED <<service, server, calls, serverErrors, signalled, timer>>

\* Seeded fault: Stop() instead of GracefulStop().
GracefulStopDoesNotWait ==
    /\ main = "stoppingGrpc"
    /\ main' = "stoppingHttp"
    /\ StopServer("http")
    /\ UNCHANGED <<service, exit, calls, serverErrors, signalled, timer>>

\* GracefulStop() returns when no RPC is left; then server.Shutdown begins.
GracefulStopReturns ==
    /\ main = "stoppingGrpc"
    /\ calls["grpc"] = {}
    /\ main' = "stoppingHttp"
    /\ StopServer("http")
    /\ UNCHANGED <<service, exit, calls, serverErrors, signalled, timer>>

\* Shutdown first looks for busy connections, then waits with the context.
ShutdownWaits ==
    /\ main = "stoppingHttp"
    /\ calls["http"] # {}
    /\ main' = "waiting"
    /\ UNCHANGED <<service, exit, server, calls, serverErrors, signalled, timer>>

ShutdownDrained ==
    /\ main \in {"stoppingHttp", "waiting"}
    /\ calls["http"] = {}
    /\ Exit("code0")
    /\ UNCHANGED <<service, server, calls, serverErrors, signalled, timer>>

\* Seeded fault: Close() instead of Shutdown().
ShutdownAtOnce ==
    /\ main = "waiting"
    /\ Exit("code1")
    /\ UNCHANGED <<service, server, calls, serverErrors, signalled, timer>>

\* Shutdown returns the context's error.
ShutdownTimesOut ==
    /\ main = "waiting"
    /\ timer = "expired"
    /\ Exit("code1")
    /\ UNCHANGED <<service, server, calls, serverErrors, signalled, timer>>

Main ==
    \/ StartFails
    \/ Start
    \/ SelectSignal
    \/ SelectError
    \/ GracefulStopReturns
    \/ ShutdownWaits
    \/ ShutdownDrained
    \/ ShutdownTimesOut

----------------------------------------------------------------------------
(* The servers' goroutines and their clients *)

Launched(s) == main \in {"serving"} \cup Stopping /\ server[s] # "absent"

Serve(s) ==
    /\ Launched(s)
    /\ server[s] = "created"
    /\ server' = [server EXCEPT ![s] = "serving"]
    /\ UNCHANGED <<service, main, exit, calls, serverErrors, signalled, timer>>

\* The port is taken or accepting fails: ListenAndServe or Serve returns.
ServerFails(s) ==
    /\ Launched(s)
    /\ server[s] \in {"created", "serving"}
    /\ server' = [server EXCEPT ![s] = "returned"]
    /\ Send("failed")
    /\ UNCHANGED <<service, main, exit, calls, signalled, timer>>

\* ListenAndServe returns ErrServerClosed as soon as Shutdown is called; Serve
\* returns nil, or ErrServerStopped if it had not begun.
ServerReturns(s) ==
    /\ Launched(s)
    /\ server[s] = "stopping"
    /\ server' = [server EXCEPT ![s] = "returned"]
    /\ IF s = "http" THEN Send("closed") ELSE UNCHANGED serverErrors \/ Send("failed")
    /\ UNCHANGED <<service, main, exit, calls, signalled, timer>>

CallBegins(s, c) ==
    /\ Launched(s)
    /\ server[s] = "serving"
    /\ calls' = [calls EXCEPT ![s] = @ \cup {c}]
    /\ UNCHANGED <<service, main, exit, server, serverErrors, signalled, timer>>

CallEnds(s, c) ==
    /\ Running
    /\ c \in calls[s]
    /\ s = "grpc" => c \notin Stuck
    /\ calls' = [calls EXCEPT ![s] = @ \ {c}]
    /\ UNCHANGED <<service, main, exit, server, serverErrors, signalled, timer>>

----------------------------------------------------------------------------
(* Signals and time *)

\* SIGINT or SIGTERM.  Before NotifyContext it ends the process; later ones
\* than the first have no effect, since stop() is deferred to the end of main.
Signal ==
    /\ Running
    /\ ~signalled
    /\ IF main = "starting"
       THEN Exit("terminated") /\ UNCHANGED signalled
       ELSE signalled' = TRUE /\ UNCHANGED <<main, exit>>
    /\ UNCHANGED <<service, server, calls, serverErrors, timer>>

\* The orchestrator loses patience.
Kill ==
    /\ Running
    /\ signalled
    /\ Exit("killed")
    /\ UNCHANGED <<service, server, calls, serverErrors, signalled, timer>>

TimerExpires ==
    /\ Running
    /\ timer = "running"
    /\ timer' = "expired"
    /\ UNCHANGED <<service, main, exit, server, calls, serverErrors, signalled>>

Next ==
    \/ Main
    \/ \E s \in Servers :
        \/ Serve(s)
        \/ ServerFails(s)
        \/ ServerReturns(s)
        \/ \E c \in Calls : CallBegins(s, c) \/ CallEnds(s, c)
    \/ Signal
    \/ Kill
    \/ TimerExpires

Spec == Init /\ [][Next]_vars

----------------------------------------------------------------------------
(* Properties *)

\* The type invariant; while the process stops, the timeout has been started.
TypeOK ==
    /\ service \in Services
    /\ main \in {"starting", "serving", "exited"} \cup Stopping
    /\ exit \in {None, "code0", "code1", "killed", "terminated"}
    /\ server \in [Servers -> {"absent", "created", "serving", "stopping", "returned"}]
    /\ calls \in [Servers -> SUBSET Calls]
    /\ serverErrors \in {None, "closed", "failed"}
    /\ signalled \in BOOLEAN
    /\ timer \in {"unset", "running", "expired"}
    /\ main \in Stopping => timer # "unset"

\* Exit code 0 means that somebody asked for the end and that every call that
\* was accepted had been answered, RPCs and requests (main.go:81-100 and
\* search main.go:56-75).
CleanExitDrains ==
    exit = "code0" => signalled /\ \A s \in Servers : calls[s] = {}

\* A process that exits by itself drops HTTP requests only if a server failed
\* or the timeout is over, and RPCs only if a server failed before any signal
\* was taken up: the shutdown timeout never cuts an RPC.
DropsExplained ==
    exit = "code1" =>
        /\ calls["http"] # {} => serverErrors = "failed" \/ timer = "expired"
        /\ calls["grpc"] # {} => serverErrors = "failed" /\ timer = "unset"

=============================================================================
