-------------------------- MODULE MCEngine -----------------------------------
(****************************************************************************)
(* The diagnostic engine and the services it watches: the trace graph alone *)
(* and in the receiver with its detector, the samples of external cases,    *)
(* the intake of exported spans, the shutdown of the engine, the telemetry  *)
(* of a service and the calls between the services. A behaviour is one of a *)
(* part; the variables of the others keep initial values.                   *)
(****************************************************************************)
EXTENDS RcaService

CONSTANTS t1, t2, t3, s1, s2, s3, gateway, orders, payment, stock, good, bad,
     slow, r1, r2, r3

\* What the parts are checked with, and may be anything their modules assume.
CONSTANTS IntakeRequests, Half, IntakeExports, EngineRequests, ServedRequests,
     Queue, Calls, RootCall, CallParent, CallOrder, CallServices, CallServiceOf,
     Parallel, AlwaysOk, MaxChanges

\* The traces of the graph alone are dropped at most once: a bound.
Bounded == \A t \in TraceIds : episode[t] <= 1
receiverVars == <<detector, export, owner, exports, reader, observed>>

MCRank == [t \in TraceIds |-> IF t = t1 THEN 1 ELSE IF t = t2 THEN 2 ELSE 3]
\* A chain gateway -> orders -> orders in t1, and a call orders -> gateway in t2.
Root  == [trace |-> t1, id |-> s1, parent |-> NONE, service |-> gateway, start |-> 1]
Child == [trace |-> t1, id |-> s2, parent |-> s1, service |-> orders, start |-> 0]
Leaf  == [trace |-> t1, id |-> s3, parent |-> s2, service |-> orders, start |-> 2]
Loop  == [trace |-> t1, id |-> s1, parent |-> s3, service |-> gateway, start |-> 2]
Other == [trace |-> t2, id |-> s1, parent |-> s2, service |-> gateway, start |-> 1]
Peer  == [trace |-> t2, id |-> s2, parent |-> NONE, service |-> orders, start |-> 1]
Third == [Peer EXCEPT !.trace = t3]

GraphBatches == {<<Root>>, <<Child>>, <<Leaf, Child>>, <<Loop>>, <<Other>>,
                 <<Peer, Root>>, <<Leaf, Leaf>>}
\* Three traces for two places, and a batch that overtakes itself.
WideBatches == {<<Root>>, <<Child>>, <<Peer>>, <<Third, Other>>}
\* A call in one trace, a span in another.
Lone == [Peer EXCEPT !.id = s1]
ServiceBatches == {<<Root>>, <<Child, Root>>, <<Lone>>}
MCBatches == GraphBatches \cup WideBatches \cup ServiceBatches
MCServer(s) == s # Root
MCFailed(s) == s = Child
SampleFailed(sample) == sample = bad
SampleLatency(sample) == CASE sample = good -> 0 [] sample = bad -> 1 [] sample = slow -> 4

\* Exports: times in and out of order, missing, and beyond the signed range,
\* identifiers that are not valid, and spans that are no requests.
Base == [trace |-> "t", id |-> "s", parent |-> "none", kind |-> "server",
         path |-> "business", statuses |-> <<>>, error |-> FALSE, start |-> 1, end |-> 2]
Timed == {[Base EXCEPT !.start = a, !.end = b] : a \in {0, 1, 5}, b \in {0, 1, 2, 6}}
Odd == {[Base EXCEPT !.id = "zero"], [Base EXCEPT !.parent = "short"],
        [Base EXCEPT !.id = "u", !.kind = "client"],
        [Base EXCEPT !.id = "v", !.path = "health"],
        [Base EXCEPT !.id = "w", !.statuses = <<500, 404>>, !.error = TRUE],
        [Base EXCEPT !.id = "w", !.parent = "s", !.error = TRUE]}
Exports ==
    {<<[service |-> v, spans |-> <<a, b>>]>> :
        v \in {"orders", ""}, a \in Odd, b \in Odd \cup Timed}
    \cup {<<[service |-> "orders", spans |-> <<a>>], [service |-> "", spans |-> <<Base>>]>> :
        a \in Timed}

\* Roots, children in and out of their parent's service and window, an orphan, a
\* clock that is behind, an identifier used in two traces, and a blank span.
Input(t, i, p, v, at) ==
    [trace |-> t, id |-> i, parent |-> p, svc |-> v, start |-> at,
     known |-> i # 2, valid |-> i # 9]
CaseCandidates ==
    {Input("t", 1, NONE, "a", 0), Input("t", 2, 1, "a", 0), Input("t", 3, 2, "b", 0),
     Input("t", 4, 2, "b", 2), Input("t", 5, 1, "b", 1), Input("t", 6, 4, "b", 2),
     Input("t", 7, 8, "b", 1), Input("u", 1, NONE, "b", 2), Input("u", 2, 1, "a", 1),
     Input("u", 3, 7, "a", 3), Input("t", 9, 1, "b", 1)}

\* gateway calls orders and then, or at once, stock; orders calls payment.
CallTree == {gateway, orders, payment, stock}
Fork == [c \in CallTree |-> CASE c \in {orders, stock} -> gateway [] c = payment -> orders
                              [] OTHER -> NONE]
ForkOrder == [c \in CallTree |-> IF c = stock THEN 2 ELSE 1]
Itself == [c \in CallTree |-> c]

VARIABLES part, mode, input, output, detectingPhase, detectingSamples, detectingBaseline,
     detectingCurrent, detectingLog, stored, observations, intakeStats,
     response, sent, exported, main, cancelled, server, error, failed, open,
     served, timer, httpErr, code, telemetryMain, telemetryOpen, done, queue,
     telemetryExported, lost, tracer, counted, broken, telemetryCode, config,
     changes, pc, taken, sequentialCancelled, status, recorded, heard

-----------------------------------------------------------------------------
Service == INSTANCE RcaService WITH Batches <- ServiceBatches, MaxTraces <- 1,
     TTL <- 1, MaxTime <- 2
Graph == INSTANCE TraceGraph WITH Batches <- GraphBatches, MaxTraces <- 1,
     TTL <- 2, MaxTime <- 3
Wide == INSTANCE TraceGraph WITH Batches <- WideBatches
Detecting == INSTANCE Detector WITH phase <- detectingPhase,
     samples <- detectingSamples, baseline <- detectingBaseline,
     current <- detectingCurrent, log <- detectingLog, Keys <- {"orders"},
     Samples <- {good, bad, slow}, Failed <- SampleFailed,
     Latency <- SampleLatency, LatencyThreshold <- 2, ScaleEpsilon <- 1,
     MinBaseline <- 3, MaxBaseline <- 4, Window <- 4, MinCurrent <- 3,
     ErrorThreshold <- 1, MaxObserved <- 6
Case == INSTANCE ExternalCase WITH Candidates <- CaseCandidates, Window <- 1,
     MaxSpans <- 4
Intake == INSTANCE SpanIntake WITH exports <- exported, stats <- intakeStats,
     Requests <- IntakeRequests, MaxExports <- IntakeExports
Shutdown == INSTANCE RcaShutdown WITH Requests <- EngineRequests
Telemetry == INSTANCE ServiceTelemetry WITH main <- telemetryMain,
     open <- telemetryOpen, exported <- telemetryExported,
     code <- telemetryCode, Requests <- ServedRequests
Sequential == INSTANCE ServiceCalls WITH cancelled <- sequentialCancelled,
     Root <- RootCall, Parent <- CallParent, Order <- CallOrder,
     Services <- CallServices, ServiceOf <- CallServiceOf,
     Parallel <- {}, AlwaysOk <- {}
InParallel == INSTANCE ServiceCalls WITH cancelled <- sequentialCancelled,
     Root <- RootCall, Parent <- CallParent, Order <- CallOrder,
     Services <- CallServices, ServiceOf <- CallServiceOf
ASSUME InstancesAssumption ==
    /\ Service!GraphAssumption /\ Graph!GraphAssumption /\ Wide!GraphAssumption
    /\ Detecting!DetectorAssumption
    /\ Intake!IntakeAssumption /\ Telemetry!TelemetryAssumption
    /\ Sequential!CallsAssumption /\ InParallel!CallsAssumption

-----------------------------------------------------------------------------
detectingVars == <<detectingPhase, detectingSamples, detectingBaseline,
     detectingCurrent, detectingLog>>
caseVars == <<mode, input, output>>
intakeVars == <<stored, observations, intakeStats, response, sent, exported>>
shutdownVars == <<main, cancelled, server, error, failed, open, served, timer,
     httpErr, code>>
telemetryVars == <<telemetryMain, telemetryOpen, done, queue,
     telemetryExported, lost, tracer, counted, broken, telemetryCode>>
sequentialVars == <<config, changes, pc, taken, sequentialCancelled, status,
     recorded, heard>>

Parts == {"service", "graph", "wide", "detector", "case", "intake", "shutdown",
     "telemetry", "sequential", "parallel"}
SuiteInit ==
    /\ part \in Parts
    /\ ServiceInit
    /\ Detecting!Init
    /\ IF part = "case" THEN TRUE
       ELSE mode = "fault"
    /\ Case!Init
    /\ Intake!Init
    /\ Shutdown!Init
    /\ Telemetry!Init
    /\ Sequential!Init

SuiteNext ==
    /\ UNCHANGED part
    /\ \/ part = "service" /\ Service!ServiceNext
       \/ part = "graph" /\ Graph!Next /\ UNCHANGED receiverVars /\ Bounded'
       \/ part = "wide" /\ Wide!Next /\ UNCHANGED receiverVars /\ Bounded'
       \/ part = "detector" /\ Detecting!Next
       \/ part = "case" /\ Case!Next
       \/ part = "intake" /\ Intake!Next
       \/ part = "shutdown" /\ Shutdown!Next
       \/ part = "telemetry" /\ Telemetry!Next
       \/ part = "sequential" /\ Sequential!Next
       \/ part = "parallel" /\ InParallel!Next
    /\ IF part \in {"service", "graph", "wide"} THEN TRUE ELSE UNCHANGED svars
    /\ IF part = "detector" THEN TRUE ELSE UNCHANGED detectingVars
    /\ IF part = "case" THEN TRUE ELSE UNCHANGED caseVars
    /\ IF part = "intake" THEN TRUE ELSE UNCHANGED intakeVars
    /\ IF part = "shutdown" THEN TRUE ELSE UNCHANGED shutdownVars
    /\ IF part = "telemetry" THEN TRUE ELSE UNCHANGED telemetryVars
    /\ IF part \in {"sequential", "parallel"} THEN TRUE ELSE UNCHANGED sequentialVars

suiteVars == <<part, svars, detectingVars, caseVars, intakeVars, shutdownVars,
     telemetryVars, sequentialVars>>
SuiteSpec ==
    /\ SuiteInit /\ [][SuiteNext]_suiteVars
    /\ WF_shutdownVars(part = "shutdown" /\ Shutdown!Step)
    /\ WF_shutdownVars(part = "shutdown" /\ Shutdown!TenSeconds)
    /\ \A c \in Calls :
         /\ WF_sequentialVars(part = "sequential" /\ Sequential!Handle(c))
         /\ WF_sequentialVars(/\ part = "sequential" /\ c # RootCall
                              /\ Sequential!Arrive(c) \/ Sequential!Unreachable(c))

-----------------------------------------------------------------------------
(* Properties *)

\* The window holds the last observations since the baseline was frozen or the
\* incident cleared, and the baseline the last samples since its start; an
\* operation is anomalous by its errors only against a frozen baseline, with
\* enough observations on both sides, and when more of its requests fail than
\* the rate of the baseline says, by its latency only when half of the window is
\* slower than half of the baseline; and the percentile shown is one. What a
\* detector is given of an external case are the same samples in any order of the
\* spans in its file, none of them of what begins after the window, and every
\* service that a call in the window goes to has one.
DetectorSound ==
    /\ part = "detector" =>
         /\ Detecting!DetectorTypeOK
         /\ Detecting!WindowIsRecent
         /\ Detecting!AnomalyHasEvidence
         /\ Detecting!LatencyIsRobust
    /\ part = "case" =>
         /\ Case!OrderIrrelevant
         /\ Case!NothingOfTheFuture
         /\ Case!CallsAreMeasured

\* Every span sent is counted once as stored, repeated or refused, and every
\* stored request reaches the detector once; a clean exit of a service leaves no
\* request unanswered and no span waiting, and its counters and traces agree; a
\* clean exit of the engine has cut nobody off, and a server that failed of
\* itself never ends in one.
NothingUncounted ==
    /\ part = "intake" =>
         /\ Intake!EverySpanCounted
         /\ Intake!RequestsReachDetector
    /\ part = "shutdown" =>
         /\ Shutdown!FailureReported
         /\ Shutdown!CleanExit
    /\ part = "telemetry" =>
         /\ Telemetry!NothingLeftBehind
         /\ Telemetry!CountsAgree

\* Across the services a failure, a timeout or a lost connection below is never
\* taken for success; a server error has its origin at or below the service that
\* recorded it; and a handler outlives none of the calls it listens to.
FailuresHeard ==
    /\ part = "sequential" =>
         /\ Sequential!OkMeansServed
         /\ Sequential!ErrorsHaveOrigin
    /\ part = "parallel" =>
         /\ InParallel!OkMeansServed
         /\ InParallel!NoneLeftBehind

\* A signal or the failure of either server ends the engine, however long its
\* requests take, and every call between the services ends, whatever fails or is
\* cancelled below it. On the way a trace leaves the graph only by its age, by a
\* reset, or as the least recently updated of a full store, and more failures in
\* the same window never make an anomaly disappear.
EngineEnds ==
    /\ [][part = "wide" => Wide!LeavesByAgeStep]_svars
    /\ Detecting!MoreErrorsStayAnomalous
    /\ part = "shutdown" => Shutdown!StopsInTheEnd
    /\ part = "sequential" => Sequential!EveryCallEnds
=============================================================================
