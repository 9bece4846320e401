---------------------------- MODULE ServiceTelemetry ----------------------------
(***************************************************************************)
(* What a sample service (cmd/gateway, orders, payment, benchmark) reports *)
(* of the requests it serves, up to its last breath: a span per request in *)
(* the queue of OpenTelemetry's batch processor (internal/telemetry/       *)
(* telemetry.go), and the RED counters (red.go).  All four main functions  *)
(* stop the server first and the tracer after it, ten seconds each.        *)
(***************************************************************************)
EXTENDS Naturals, FiniteSets

CONSTANTS
    Requests, NONE,
    Queue          \* capacity of the batch processor's queue

TelemetryAssumption == NONE \notin {"business", "other", "health", "metrics"}

VARIABLES
    main,          \* "serve", "shutdown", "flush", "exited"
    open,          \* request -> path while its handler runs, else NONE
    done,          \* request -> path once answered, else NONE
    queue,         \* requests whose span is ended and waits for a batch
    exported, lost,\* spans delivered; dropped at a full queue or by a failed export
    tracer,        \* the provider takes spans
    counted,       \* rca_http_server_requests_total
    broken,        \* an error of platform.Serve or of the tracer's Shutdown
    code

vars == <<main, open, done, queue, exported, lost, tracer, counted, broken, code>>

\* Business paths, fault controls and other pages, /health and /debug/, /metrics.
Paths == {"business", "other", "health", "metrics"}
Running == {r \in Requests : open[r] # NONE}

\* The paths given to InstrumentRED.
Measured(path) == path = "business"
\* WithFilter of InstrumentHandler; /metrics is answered before it is reached.
Traced(path) == path \in {"business", "other"}

-----------------------------------------------------------------------------
Accept(r, path) ==
    /\ main = "serve" /\ open[r] = NONE /\ done[r] = NONE
    /\ open' = [open EXCEPT ![r] = path]
    /\ UNCHANGED <<main, done, queue, exported, lost, tracer, counted, broken, code>>

\* The handler returns: its span ends, then the counter goes up.
Answer(r) ==
    /\ main # "exited" /\ open[r] # NONE
    /\ open' = [open EXCEPT ![r] = NONE] /\ done' = [done EXCEPT ![r] = open[r]]
    /\ counted' = counted + (IF Measured(open[r]) THEN 1 ELSE 0)
    /\ CASE ~Traced(open[r]) -> UNCHANGED <<queue, lost>>
         [] Traced(open[r]) /\ tracer /\ Cardinality(queue) < Queue ->
                queue' = queue \cup {r} /\ UNCHANGED lost
         [] OTHER -> lost' = lost \cup {r} /\ UNCHANGED queue
    /\ UNCHANGED <<main, exported, tracer, broken, code>>

\* A batch after a second, when it is full, or at the tracer's shutdown.
Export ==
    /\ main # "exited" /\ queue # {} /\ queue' = {}
    /\ \/ exported' = exported \cup queue /\ UNCHANGED lost
       \/ lost' = lost \cup queue /\ UNCHANGED exported
    /\ UNCHANGED <<main, open, done, tracer, counted, broken, code>>

Stop ==
    /\ main = "serve" /\ main' = "shutdown"
    /\ UNCHANGED <<open, done, queue, exported, lost, tracer, counted, broken, code>>

\* Shutdown of the server has waited for the handlers, or ten seconds.
Served ==
    /\ main = "shutdown" /\ main' = "flush" /\ tracer' = FALSE
    /\ broken' = (Running # {})
    /\ UNCHANGED <<open, done, queue, exported, lost, counted, code>>

\* The listener failed: the server is not shut down, its handlers are cut off.
ListenerFails ==
    /\ main = "serve" /\ main' = "flush" /\ tracer' = FALSE /\ broken' = TRUE
    /\ UNCHANGED <<open, done, queue, exported, lost, counted, code>>

\* Mutant: the process exits as soon as the tracer takes no more spans.
ExitUnflushed ==
    /\ main = "flush" /\ main' = "exited" /\ code' = (IF broken THEN 1 ELSE 0)
    /\ UNCHANGED <<open, done, queue, exported, lost, tracer, counted, broken>>
\* The tracer's Shutdown has emptied the queue, or ten seconds are over.
Exit ==
    /\ main = "flush" /\ main' = "exited"
    /\ code' = IF broken \/ queue # {} THEN 1 ELSE 0
    /\ UNCHANGED <<open, done, queue, exported, lost, tracer, counted, broken>>

Init ==
    /\ main = "serve" /\ tracer = TRUE /\ broken = FALSE /\ code = 0 /\ counted = 0
    /\ open = [r \in Requests |-> NONE] /\ done = [r \in Requests |-> NONE]
    /\ queue = {} /\ exported = {} /\ lost = {}

Next ==
    \/ \E r \in Requests : Answer(r) \/ \E path \in Paths : Accept(r, path)
    \/ Export \/ Stop \/ Served \/ ListenerFails \/ Exit

Spec == Init /\ [][Next]_vars

-----------------------------------------------------------------------------
(* Properties *)

\* After a clean exit every accepted request was answered, and every span of one
\* was exported or is one the exporter reported as lost: none was still waiting.
NothingLeftBehind ==
    main = "exited" /\ code = 0 =>
        /\ Running = {}
        /\ {r \in Requests : Traced(done[r])} = exported \cup lost

\* Where no span was lost, the counters of a process that ended cleanly and the
\* traces it left tell the same number of business requests.
CountsAgree ==
    main = "exited" /\ code = 0 /\ lost = {} =>
        counted = Cardinality({r \in exported : done[r] = "business"})

-----------------------------------------------------------------------------
(* What every step keeps, and the safety properties follow from. *)

Counted == {r \in Requests : done[r] = "business"}
TelemetryTypes ==
    /\ main \in {"serve", "shutdown", "flush", "exited"} /\ code \in {0, 1}
    /\ open \in [Requests -> Paths \cup {NONE}] /\ done \in [Requests -> Paths \cup {NONE}]
    /\ {queue, exported, lost} \subseteq SUBSET Requests
    /\ tracer \in BOOLEAN /\ broken \in BOOLEAN

\* A request is answered once; its span waits, is delivered or is lost, and it is
\* counted; once the server has stopped cleanly nothing runs.
SpansFollowed ==
    /\ \A r \in Requests : open[r] # NONE => done[r] = NONE
    /\ {r \in Requests : Traced(done[r])} = queue \cup exported \cup lost
    /\ IsFiniteSet(Counted) /\ counted = Cardinality(Counted)
    /\ main \in {"flush", "exited"} /\ ~broken => Running = {}
    /\ main = "exited" /\ code = 0 => ~broken /\ queue = {}

TelemetryInv == TelemetryTypes /\ SpansFollowed
=============================================================================
