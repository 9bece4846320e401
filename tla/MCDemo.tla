-------------------------- MODULE MCDemo -------------------------------------
(****************************************************************************)
(* The parts of a demonstration: the search for the services a candidate    *)
(* affects and the waiting time of a span (with the names of their own      *)
(* module), the diagnosis, the live demonstration, the prepared replay and  *)
(* its rankings, and the container metrics. A behaviour is one of a part;   *)
(* the variables of the others keep initial values.                         *)
(****************************************************************************)
EXTENDS DiagnosisLoops

CONSTANTS NONE, TORN, gateway, orders, payment, c1, c2, t1, t2

\* A server span from 1 to 4 and three spans below, beside or above it.
Times == {<<0, 2>>, <<1, 5>>, <<2, 3>>, <<3, 5>>, <<4, 2>>}
MCServer == [id |-> "s", parent |-> "up", kind |-> "server", service |-> "orders",
             start |-> 1, end |-> 4]
Call(id, parents, kinds) ==
    {[id |-> id, parent |-> p, kind |-> k, service |-> "orders", start |-> t[1], end |-> t[2]] :
        p \in parents, k \in kinds, t \in Times}
Remote == [id |-> "r", parent |-> "a", kind |-> "client", service |-> "payment",
           start |-> 1, end |-> 2]
MCTraces ==
    {{MCServer, a, b, c, Remote} : a \in Call("a", {"s"}, {"client", "internal"}),
                      b \in Call("b", {"a", "s", "lost"}, {"client"}),
                      c \in Call("c", {"b", "r", "c"}, {"client"})}
    \cup {{[MCServer EXCEPT !.parent = "a"], a} : a \in Call("a", {"s"}, {"client"})}
    \cup {{[MCServer EXCEPT !.kind = "client"]}, {[MCServer EXCEPT !.end = 1]}, {}}

\* Evidence of an operation of a service.
E(op, lat, err, sev, traced, own) ==
    [op |-> op, ready |-> TRUE, latency |-> lat, error |-> err, slow |-> lat >= 2,
     failing |-> err = 2, severity |-> sev, samples |-> 2, traced |-> traced, own |-> own]
Unready == [E(1, 0, 0, 0, 0, 0) EXCEPT !.ready = FALSE]
\* nothing known; quiet; one slow operation of two; slow without traces; failing and slow
Findings == {<<>>, <<Unready>>, <<E(1, 1, 0, 1, 2, 1)>>,
             <<E(1, 2, 0, 1, 2, 0), E(2, 2, 1, 3, 1, 2)>>,
             <<E(1, 3, 0, 2, 0, 1)>>, <<Unready, E(2, 1, 2, 3, 1, 1)>>}
CallGraphs == {{}, {<<1, 2>>, <<2, 3>>}, {<<1, 2>>, <<1, 3>>}, {<<3, 1>>, <<2, 1>>, <<1, 2>>},
               {<<1, 3>>, <<2, 3>>, <<3, 3>>}}
Quiet == [evidence |-> [s \in 1..3 |-> <<>>], active |-> {}, global |-> {},
          baseline |-> "collecting"]
DiagnosisInputs ==
    {[evidence |-> v, active |-> a, global |-> g, baseline |-> "frozen"] :
        v \in [1..3 -> Findings], a \in CallGraphs, g \in CallGraphs}
    \cup {[Quiet EXCEPT !.evidence = v] : v \in [1..3 -> Findings]}

VARIABLES part, input, diagnosisPc, features, ranking, op, live, lastLive,
     fault, phase, baseline, window, graph, flight, late, unsure, resetAt,
     operations, lates, restarts, prediction, truth, manifest, prep, runs, up,
     servers, replay, served, request, tab, revealed, requests, scores, file,
     base, final, top, now, clockBack, running, exporterTotal, used, boot,
     previous, round, samples, updated, uptime

-----------------------------------------------------------------------------
Diagnosing == INSTANCE Diagnosis WITH pc <- diagnosisPc, Services <- 1..3,
     Inputs <- DiagnosisInputs
Live == INSTANCE LiveDemo WITH Services <- {gateway, payment},
     Kinds <- {"latency"}, MaxOperations <- 3, MaxLate <- 1, MaxRestarts <- 1
Replay == INSTANCE DemoReplay WITH Cases <- {c1, c2}, Tabs <- {t1, t2},
     MaxRuns <- 2, MaxServers <- 2, MaxRequests <- 3
Ranking == INSTANCE ReplayRanking WITH Services <- 1..4, Scores <- 0..2,
     MaxEntries <- 3, Within <- 3
Exporter == INSTANCE ContainerMetrics WITH total <- exporterTotal,
     Containers <- {c1, c2}, Lenient <- FALSE, Fresh <- 1, MaxTime <- 1,
     MaxUse <- 2, MaxRestarts <- 1
Long == INSTANCE ContainerMetrics WITH total <- exporterTotal,
     Containers <- {c1}, Lenient <- FALSE, Fresh <- 1, MaxTime <- 3,
     MaxUse <- 2, MaxRestarts <- 1
Tolerant == INSTANCE ContainerMetrics WITH total <- exporterTotal,
     Containers <- {c1}, Lenient <- TRUE, Fresh <- 1, MaxTime <- 2,
     MaxUse <- 2, MaxRestarts <- 1
ASSUME InstancesAssumption == Live!DemoAssumption

-----------------------------------------------------------------------------
diagnosingVars == <<input, diagnosisPc, features, ranking>>
liveVars == <<op, live, lastLive, fault, phase, baseline, window, graph,
     flight, late, unsure, resetAt, operations, lates, restarts>>
replayVars == <<prediction, truth, manifest, prep, runs, up, servers, replay,
     served, request, tab, revealed, requests>>
rankingVars == <<scores, file, base, final, top>>
exporterVars == <<now, clockBack, running, exporterTotal, used, boot,
     previous, round, samples, updated, uptime>>

Parts == {"affected", "wait", "diagnosis", "live", "replay", "ranking",
     "exporter", "long", "lenient"}
SuiteInit ==
    /\ part \in Parts
    /\ IF part = "affected" THEN TRUE
       ELSE candidate = gateway /\ edges = {}
    /\ AffectedInit
    /\ IF part = "wait" THEN TRUE
       ELSE trace = {}
    /\ Init
    /\ IF part = "diagnosis" THEN Diagnosing!Init
       ELSE input = Quiet /\ diagnosisPc = "given" /\ features = NONE /\ ranking = NONE
    /\ IF part = "live" THEN TRUE
       ELSE fault = Live!Healthy
    /\ Live!Init
    /\ Replay!Init
    /\ IF part = "ranking" THEN TRUE
       ELSE scores = [s \in {1} |-> 0] /\ base = <<1>> /\ top = 1
    /\ Ranking!Init /\ (scores = [s \in {1} |-> 0] \/ (base = <<1>> /\ top = 1))
    /\ IF part \in {"exporter", "long", "lenient"} THEN TRUE
       ELSE running = {}
    /\ IF part = "long" THEN Long!Init
       ELSE IF part = "lenient" THEN Tolerant!Init
       ELSE Exporter!Init

SuiteNext ==
    /\ UNCHANGED part
    /\ \/ part = "affected" /\ AffectedNext
       \/ part = "wait" /\ Next
       \/ part = "diagnosis" /\ Diagnosing!Next
       \/ part = "live" /\ Live!Next
       \/ part = "replay" /\ Replay!Next
       \/ part = "ranking" /\ (Ranking!Rerank \/ (scores = [s \in {1} |-> 0] /\ base = <<1>> /\ top = 1 /\ Ranking!Add))
       \/ part = "exporter" /\ Exporter!Next
       \/ part = "long" /\ Long!Next
       \/ part = "lenient" /\ Tolerant!Next
    /\ IF part = "affected" THEN TRUE ELSE UNCHANGED affectedVars
    /\ IF part = "wait" THEN TRUE ELSE UNCHANGED vars
    /\ IF part = "diagnosis" THEN TRUE ELSE UNCHANGED diagnosingVars
    /\ IF part = "live" THEN TRUE ELSE UNCHANGED liveVars
    /\ IF part = "replay" THEN TRUE ELSE UNCHANGED replayVars
    /\ IF part = "ranking" THEN TRUE ELSE UNCHANGED rankingVars
    /\ IF part \in {"exporter", "long", "lenient"} THEN TRUE ELSE UNCHANGED exporterVars

suiteVars == <<part, affectedVars, vars, diagnosingVars, liveVars, replayVars,
     rankingVars, exporterVars>>
SuiteSpec ==
    /\ SuiteInit /\ [][SuiteNext]_suiteVars
    /\ WF_affectedVars(part = "affected" /\ AffectedNext)
    /\ WF_liveVars(/\ part = "live"
                   /\ Live!CallAnswered \/ Live!Complete \/ Live!CallFails)

-----------------------------------------------------------------------------
(* Properties *)

\* A ready diagnosis ranks exactly the services with the primary signal, once;
\* where the ready services a candidate affects are exactly the anomalous ones,
\* none that explains them less well stands above it; a candidate explains at
\* least itself; a score comes from the operation it names; a few traces never
\* hide a caller the whole graph knows; and the waiting time of a span is that
\* of its calls under way, however they overlap.
DiagnosisSound ==
    /\ AffectedTypeOK
    /\ WaitIsCallsUnderWay
    /\ part = "diagnosis" =>
         /\ Diagnosing!RanksTheAnomalous
         /\ Diagnosing!CulpritOnTop
         /\ Diagnosing!CandidatesExplainThemselves
         /\ Diagnosing!SourceIsStrongest
         /\ Diagnosing!FewTracesHideNothing

\* A result of the live demonstration never carries a wrong label: neither a
\* restart, a call that failed or one that was served late makes it one; and
\* what was sent up to the end of a reset stays out of the window and the graph
\* of every later result.
LabelsHonest ==
    part = "live" =>
        /\ Live!LiveTypeOK
        /\ Live!LabelNeverWrong
        /\ Live!StaleStaysOut

\* The truth that is revealed judges the prediction this server had served for
\* that case before, also after a preparation that stopped half-way; a tab shows
\* the prediction and the truth of the case selected in it; and what the
\* preparation writes is a ranking for both programs that validate it, which
\* accept the same files. However often its head is reordered, by whichever of
\* the three rerankers, a root below it keeps its rank and one in it stays in
\* it; they differ in ties only; and the two classifications of a failure agree
\* as long as no more than the first ranks are reranked, with no failure left
\* without a stage. More evidence of its own never lowers the support of a
\* candidate, nor raises that of another; and no source that is missing speaks
\* against one.
ReplayHonest ==
    /\ part = "replay" =>
         /\ Replay!RevealJudgesServed
         /\ Replay!TabShowsSelected
    /\ part = "ranking" =>
         /\ Ranking!PreparedIsServed
         /\ Ranking!ValidatorsAgree
         /\ Ranking!DeepRootsStay
         /\ Ranking!TaxonomyAgrees
         /\ Ranking!RerankersAgree
         /\ Ranking!EvidenceFair

\* The rate that is served for a container never exceeds what it used between
\* the two readings, though its counter may have been reset once or twice in
\* between, and no reading is repeated after a round in which the container
\* could not be read.
RatesHonest ==
    /\ part = "exporter" =>
         /\ Exporter!CpuNotOverstated
         /\ Exporter!NothingReplayed
    /\ part = "long" =>
         /\ Long!CpuNotOverstated
         /\ Long!NothingReplayed
    /\ part = "lenient" =>
         /\ Tolerant!CpuNotOverstated
         /\ Tolerant!NothingReplayed

\* The search for affected services ends, whatever cycles the calls form; and an
\* operation of the live demonstration ends and frees the lock, whatever is
\* refused, lost or late.
DemoEnds ==
    /\ part = "affected" => SearchEnds
    /\ part = "live" => Live!OperationEnds
=============================================================================
