------------------------------ MODULE RcaShutdown ------------------------------
(***************************************************************************)
(* The life of the RCA process (cmd/rca/main.go): a gRPC and an HTTP       *)
(* server, each in a goroutine, a signal or the end of either of which     *)
(* stops the other.  The HTTP half is serve() of internal/platform/        *)
(* server.go.  Both wait for the requests under way, up to ten seconds.    *)
(***************************************************************************)
EXTENDS Naturals, FiniteSets

CONSTANTS Requests   \* requests of either server (bound)

VARIABLES
    main,        \* where main() is
    cancelled,   \* runCtx is done: a signal, or the gRPC server ended
    server,      \* "serving", "stopping", "ended" of each of the two
    error,       \* the error each server's Serve put in its channel
    failed,      \* history: the servers that failed of themselves
    open,        \* requests under way at each server
    served,      \* requests begun
    timer,       \* the ten seconds of the stop under way are over
    httpErr,     \* what platform.Serve returned
    code         \* exit code

vars == <<main, cancelled, server, error, failed, open, served, timer, httpErr, code>>

Servers == {"grpc", "http"}
Errors == {"none", "stopped", "failed", "timeout"}
Up(s) == server[s] # "ended"

-----------------------------------------------------------------------------
(* The world *)

Signal ==
    /\ ~cancelled /\ cancelled' = TRUE
    /\ UNCHANGED <<main, server, error, failed, open, served, timer, httpErr, code>>

Accept(s) ==
    /\ main # "exited" /\ server[s] = "serving" /\ served < Requests
    /\ served' = served + 1 /\ open' = [open EXCEPT ![s] = @ + 1]
    /\ UNCHANGED <<main, cancelled, server, error, failed, timer, httpErr, code>>

Finish(s) ==
    /\ main # "exited" /\ open[s] > 0
    /\ open' = [open EXCEPT ![s] = @ - 1]
    /\ UNCHANGED <<main, cancelled, server, error, failed, served, timer, httpErr, code>>

\* The end of grpcServer.Serve cancels the context; of ListenAndServe is read by
\* serve().
Ends(s, e) ==
    /\ server' = [server EXCEPT ![s] = "ended"]
    /\ error' = [error EXCEPT ![s] = e]
    /\ cancelled' = (cancelled \/ s = "grpc")

\* The listener breaks while the server serves.
Breaks(s) ==
    /\ main # "exited" /\ server[s] = "serving"
    /\ Ends(s, "failed") /\ failed' = failed \cup {s}
    /\ UNCHANGED <<main, open, served, timer, httpErr, code>>

TenSeconds ==
    /\ main \in {"shutdown http", "stop grpc"} /\ ~timer
    /\ timer' = TRUE
    /\ UNCHANGED <<main, cancelled, server, error, failed, open, served, httpErr, code>>

-----------------------------------------------------------------------------
(* serve() *)

\* select: the server's error, or the context; either when both are ready.
ServeReturns ==
    /\ main = "serve" /\ server["http"] = "ended"
    /\ httpErr' = error["http"] /\ main' = "http done"
    /\ UNCHANGED <<cancelled, server, error, failed, open, served, timer, code>>

ShutdownBegins ==
    /\ main = "serve" /\ cancelled
    /\ main' = "shutdown http" /\ timer' = FALSE
    /\ IF Up("http") THEN /\ server' = [server EXCEPT !["http"] = "ended"]
                          /\ error' = [error EXCEPT !["http"] = "stopped"]
       ELSE UNCHANGED <<server, error>>
    /\ UNCHANGED <<cancelled, failed, open, served, httpErr, code>>

\* Shutdown waits for the requests, then serve() for the server's own result.
ShutdownDone ==
    /\ main = "shutdown http" /\ open["http"] = 0
    /\ httpErr' = IF error["http"] = "stopped" THEN "none" ELSE error["http"]
    /\ main' = "http done"
    /\ UNCHANGED <<cancelled, server, error, failed, open, served, timer, code>>

ShutdownTimesOut ==
    /\ main = "shutdown http" /\ timer /\ open["http"] > 0
    /\ httpErr' = "timeout" /\ main' = "http done"
    /\ UNCHANGED <<cancelled, server, error, failed, open, served, timer, code>>

-----------------------------------------------------------------------------
(* main() after platform.Serve *)

StopGRPC ==
    /\ main = "http done" /\ main' = "stop grpc" /\ timer' = FALSE
    /\ cancelled' = TRUE
    /\ server' = [server EXCEPT !["grpc"] = IF @ = "serving" THEN "stopping" ELSE @]
    /\ UNCHANGED <<error, failed, open, served, httpErr, code>>

Stopped ==
    /\ IF server["grpc"] = "stopping"
       THEN Ends("grpc", "stopped") ELSE UNCHANGED <<server, error, cancelled>>
    /\ main' = "join"
    /\ UNCHANGED <<failed, served, timer, httpErr, code>>

\* Mutant: after the ten seconds main goes on without Stop.
ForceNothing ==
    /\ main = "stop grpc" /\ timer /\ open["grpc"] > 0
    /\ main' = "join"
    /\ UNCHANGED <<cancelled, server, error, failed, open, served, timer, httpErr, code>>
Graceful == main = "stop grpc" /\ open["grpc"] = 0 /\ UNCHANGED open /\ Stopped
\* Stop() cuts the connections and waits for the handlers.
Force == /\ main = "stop grpc" /\ timer /\ open["grpc"] > 0
         /\ open' = [open EXCEPT !["grpc"] = 0] /\ Stopped

\* The result of Serve is awaited; the process exits.
Exit ==
    /\ main = "join" /\ server["grpc"] = "ended"
    /\ main' = "exited"
    /\ code' = IF httpErr = "none" /\ error["grpc"] = "stopped" THEN 0 ELSE 1
    /\ UNCHANGED <<cancelled, server, error, failed, open, served, timer, httpErr>>

-----------------------------------------------------------------------------
Init ==
    /\ main = "serve" /\ cancelled = FALSE
    /\ server = [s \in Servers |-> "serving"] /\ error = [s \in Servers |-> "none"]
    /\ failed = {} /\ open = [s \in Servers |-> 0] /\ served = 0
    /\ timer = FALSE /\ httpErr = "none" /\ code = 0

Step == \/ ServeReturns \/ ShutdownBegins \/ ShutdownDone \/ ShutdownTimesOut
        \/ StopGRPC \/ Graceful \/ Force \/ Exit
Next == \/ Signal \/ TenSeconds \/ Step
        \/ \E s \in Servers : Accept(s) \/ Finish(s) \/ Breaks(s)

\* Handlers need not end; the timers and the goroutines go on.
Spec == Init /\ [][Next]_vars /\ WF_vars(Step) /\ WF_vars(TenSeconds)

-----------------------------------------------------------------------------
(* Properties *)

\* A signal, or the failure of either server, ends the process, however long the
\* requests under way take.
StopsInTheEnd == (cancelled \/ failed # {}) ~> main = "exited"

\* A server that failed of itself is never reported as a clean stop, also when a
\* signal or the failure of the other came in between.
FailureReported == main = "exited" /\ failed # {} => code = 1

\* A clean exit has cut nobody off at the HTTP server, and both servers ended.
CleanExit ==
    main = "exited" /\ code = 0 =>
        open["http"] = 0 /\ open["grpc"] = 0 /\ \A s \in Servers : ~Up(s)

-----------------------------------------------------------------------------
(* What every step keeps, and the safety properties follow from. *)

ShutdownTypes ==
    /\ main \in {"serve", "shutdown http", "http done", "stop grpc", "join", "exited"}
    /\ cancelled \in BOOLEAN /\ timer \in BOOLEAN /\ code \in {0, 1}
    /\ server \in [Servers -> {"serving", "stopping", "ended"}]
    /\ error \in [Servers -> Errors] /\ httpErr \in Errors
    /\ failed \subseteq Servers /\ open \in [Servers -> Nat] /\ served \in Nat

\* The end of a server that failed stays its error, and what serve() returned
\* tells of it.
EndsFollowed ==
    /\ \A s \in failed : server[s] = "ended" /\ error[s] = "failed"
    /\ main = "serve" /\ server["http"] = "ended" => error["http"] = "failed"
    /\ main = "exited" /\ code = 0 => httpErr = "none" /\ error["grpc"] = "stopped"
    /\ main \notin {"serve", "shutdown http"} /\ httpErr = "none" =>
         "http" \notin failed /\ open["http"] = 0

\* A server that no longer serves takes no requests.
StopsFollowed ==
    /\ server["http"] # "stopping"
    /\ main # "serve" => server["http"] = "ended"
    /\ main \in {"stop grpc", "join", "exited"} => server["grpc"] # "serving"
    /\ main \in {"join", "exited"} => server["grpc"] = "ended" /\ open["grpc"] = 0

ShutdownInv == ShutdownTypes /\ EndsFollowed /\ StopsFollowed
=============================================================================
