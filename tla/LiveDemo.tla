-------------------------------- MODULE LiveDemo --------------------------------
(***************************************************************************)
(* The live half of the controlled demonstration: the operations of        *)
(* internal/demo/server.go, made of the calls of internal/demo/live.go to  *)
(* the sample services (a fault each) and to the RCA service (a graph, a   *)
(* baseline, a window of current samples), with the Collector in between,  *)
(* which delivers what was sent at any later time.  Every call may fail    *)
(* before it is served, after it, or be served after the demonstration has *)
(* given up on it; the demonstration may be restarted.                     *)
(***************************************************************************)
EXTENDS Naturals, Sequences, FiniteSets

CONSTANTS
    Services, Kinds,   \* of the faults; a scenario is one fault or none
    NONE,
    MaxOperations, MaxLate, MaxRestarts      \* bounds

VARIABLES
    op,          \* the operation that holds the mutation lock, or NONE
    live,        \* liveState: state and scenario (NONE: the label is lost)
    lastLive,    \* the last result, or NONE
    fault,       \* the fault configured in each service
    phase, baseline, window, graph,   \* the RCA service: what it was sent
    flight,      \* batches of traffic the Collector has yet to deliver
    late,        \* calls that were given up and are served later
    unsure,      \* the demonstration was restarted, or such a call was served,
                 \* since an operation last set the faults
    resetAt,     \* number of the last reset completed, 0 for none
    operations, lates, restarts

vars == <<op, live, lastLive, fault, phase, baseline, window, graph, flight,
          late, unsure, resetAt, operations, lates, restarts>>
counters == <<operations, lates, restarts>>
rca == <<phase, baseline, window, graph>>

Healthy == [s \in Services |-> NONE]
Scenarios == {Healthy} \cup {[Healthy EXCEPT ![s] = k] : s \in Services, k \in Kinds}
Batch == [number : 1..MaxOperations, under : [Services -> Kinds \cup {NONE}]]
Calls == [do : {"health", "fault", "start", "send", "drain", "freeze", "snapshot",
                "clear graph", "clear window"},
          at : Services \cup {NONE}, kind : Kinds \cup {NONE}]
Operations == [kind : {"reset", "scenario", "traffic"}, scenario : Scenarios \cup {NONE},
               calls : Seq(Calls), under : [Services -> Kinds \cup {NONE}] \cup {NONE}]
DemoAssumption == NONE \notin Operations

-----------------------------------------------------------------------------
(* The calls an operation makes, in order *)

Call(do) == [do |-> do, at |-> NONE, kind |-> NONE]
SetFault(s, k) == [do |-> "fault", at |-> s, kind |-> k]
ORDERED == CHOOSE seq \in [1..Cardinality(Services) -> Services] :
               {seq[n] : n \in DOMAIN seq} = Services
resetFaults == [n \in DOMAIN ORDERED |-> SetFault(ORDERED[n], NONE)]
clearIncident == <<Call("clear graph"), Call("clear window")>>

\* Mutant: a reset that never waits for the Collector.
ResetUndrained ==
    <<Call("health")>> \o resetFaults \o <<Call("start"), Call("send"), Call("freeze")>>
    \o clearIncident \o clearIncident \o <<Call("health")>>
ResetCalls ==
    <<Call("health")>> \o resetFaults
    \o <<Call("start"), Call("send"), Call("drain"), Call("freeze")>>
    \o clearIncident \o <<Call("drain")>> \o clearIncident \o <<Call("health")>>

ApplyScenario(scenario) ==
    resetFaults \o
    IF scenario = Healthy THEN <<>>
    ELSE LET s == CHOOSE x \in Services : scenario[x] # NONE
         IN <<SetFault(s, scenario[s])>>

TrafficCalls == <<Call("send"), Call("drain"), Call("snapshot")>>

-----------------------------------------------------------------------------
(* The operations begin; a second one gets 409 and changes nothing *)

Start(kind, scenario, calls) ==
    /\ op = NONE /\ operations < MaxOperations
    /\ operations' = operations + 1
    /\ op' = [kind |-> kind, scenario |-> scenario, calls |-> calls, under |-> NONE]
    /\ live' = [state |-> "running", scenario |-> scenario]
    /\ unsure' = (unsure /\ kind = "traffic")
    /\ UNCHANGED <<lastLive, fault, rca, flight, late, resetAt, lates, restarts>>

handleLiveReset == Start("reset", Healthy, ResetCalls)
handleLiveScenario ==
    \E scenario \in Scenarios : Start("scenario", scenario, ApplyScenario(scenario))
handleLiveTraffic == Start("traffic", live.scenario, TrafficCalls)

-----------------------------------------------------------------------------
(* What a call does where it is served *)

Serve(call) ==
    /\ fault' = IF call.do = "fault" THEN [fault EXCEPT ![call.at] = call.kind] ELSE fault
    /\ flight' = IF call.do = "send"
                 THEN flight \cup {[number |-> operations, under |-> fault]} ELSE flight
    /\ phase' = CASE call.do = "start" -> "collecting"
                  [] call.do = "freeze" /\ phase = "collecting" -> "frozen"
                  [] OTHER -> phase
    /\ baseline' = IF call.do = "start" THEN {} ELSE baseline
    /\ window' = IF call.do \in {"start", "clear window"}
                    \/ (call.do = "freeze" /\ phase = "collecting") THEN {} ELSE window
    /\ graph' = IF call.do = "clear graph" THEN {} ELSE graph

\* The drain is long enough for the Collector; to freeze is refused unless a
\* baseline is being collected.
Answered(call) ==
    /\ call.do = "drain" => flight = {}
    /\ call.do = "freeze" => phase = "collecting"

CallAnswered ==
    /\ op # NONE /\ op.calls # <<>>
    /\ LET call == Head(op.calls)
       IN /\ Answered(call) /\ Serve(call)
          /\ op' = [op EXCEPT !.calls = Tail(@),
                              !.under = IF call.do = "send" THEN fault ELSE @]
          /\ live' = IF op.kind = "traffic" /\ call.do = "drain"
                     THEN [live EXCEPT !.state = "analyzing"] ELSE live
    /\ UNCHANGED <<lastLive, late, unsure, resetAt, counters>>

\* The operation's last call was answered: its state and, of traffic, its result.
Complete ==
    /\ op # NONE /\ op.calls = <<>>
    /\ op' = NONE
    /\ live' = [state |-> IF op.kind = "traffic" THEN "complete" ELSE "idle",
                scenario |-> op.scenario]
    /\ lastLive' = CASE op.kind = "traffic" ->
                          [label |-> op.scenario, under |-> op.under,
                           window |-> window, graph |-> graph,
                           sure |-> ~unsure, resetAt |-> resetAt]
                     [] op.kind = "reset" -> NONE
                     [] OTHER -> lastLive
    /\ resetAt' = IF op.kind = "reset" THEN operations ELSE resetAt
    /\ UNCHANGED <<fault, rca, flight, late, unsure, counters>>

\* Mutant: a failure returns without releasing the lock.
FailedHolding == op' = op
Failed(o) == [state |-> "error", scenario |-> NONE]
Unlock == op' = NONE

\* A call is refused, times out or is cancelled: it was not served, or it was and
\* its answer is lost, or it will be; nothing that follows it is done, not even
\* the drain after a part of the traffic.
CallFails ==
    /\ op # NONE /\ op.calls # <<>>
    /\ Unlock /\ live' = Failed(op)
    /\ \/ /\ UNCHANGED <<fault, rca, flight, late, lates>>
       \/ Serve(Head(op.calls)) /\ UNCHANGED <<late, lates>>
       \/ /\ Head(op.calls).do \in {"fault", "start", "freeze"} /\ lates < MaxLate
          /\ late' = late \cup {Head(op.calls)} /\ lates' = lates + 1
          /\ UNCHANGED <<fault, rca, flight>>
    /\ UNCHANGED <<lastLive, unsure, resetAt, operations, restarts>>

ServedLate ==
    \E call \in late :
        /\ Serve(call) /\ late' = late \ {call} /\ unsure' = TRUE
        /\ UNCHANGED <<op, live, lastLive, resetAt, counters>>

\* The Collector delivers a batch to the receiver.
Deliver ==
    \E b \in flight :
        /\ flight' = flight \ {b} /\ graph' = graph \cup {b}
        /\ baseline' = IF phase = "collecting" THEN baseline \cup {b} ELSE baseline
        /\ window' = IF phase = "frozen" THEN window \cup {b} ELSE window
        /\ UNCHANGED <<op, live, lastLive, fault, phase, late, unsure, resetAt, counters>>

\* NewServer: whatever the services are in, the state says healthy.
Idle == [state |-> "idle", scenario |-> Healthy]
Restart ==
    /\ restarts < MaxRestarts /\ restarts' = restarts + 1
    /\ op' = NONE /\ live' = Idle /\ lastLive' = NONE /\ unsure' = TRUE /\ resetAt' = 0
    /\ UNCHANGED <<fault, rca, flight, late, operations, lates>>

-----------------------------------------------------------------------------
Init ==
    /\ op = NONE /\ live = Idle /\ lastLive = NONE
    /\ fault \in Scenarios /\ phase = "empty"
    /\ baseline = {} /\ window = {} /\ graph = {} /\ flight = {} /\ late = {}
    /\ unsure = TRUE /\ resetAt = 0 /\ operations = 0 /\ lates = 0 /\ restarts = 0

Next ==
    \/ handleLiveReset \/ handleLiveScenario \/ handleLiveTraffic
    \/ CallAnswered \/ Complete \/ CallFails
    \/ ServedLate \/ Deliver \/ Restart

Spec == Init /\ [][Next]_vars /\ WF_vars(CallAnswered \/ Complete \/ CallFails)

-----------------------------------------------------------------------------
(* Properties *)

LiveTypeOK ==
    /\ op \in Operations \cup {NONE}
    /\ fault \in [Services -> Kinds \cup {NONE}]
    /\ live.state \in {"idle", "running", "analyzing", "complete", "error"}
    /\ live.scenario \in Scenarios \cup {NONE}
    /\ phase \in {"empty", "collecting", "frozen"}
    /\ flight \cup baseline \cup window \cup graph \subseteq Batch

\* A result never carries a wrong label: where the traffic's label is known, and
\* neither a restart nor a call served late made it a guess, the traffic ran under
\* exactly that scenario; after a failure the label is missing.
LabelNeverWrong ==
    lastLive # NONE =>
        (lastLive.label # NONE /\ lastLive.sure => lastLive.under = lastLive.label)

\* The two drains and the clearing before and after the second keep what was sent
\* up to a reset's end out of the window and the graph of every later result.
StaleStaysOut ==
    lastLive # NONE =>
        \A b \in lastLive.window \cup lastLive.graph : b.number > lastLive.resetAt

\* What docs/defense-demo-script.md says of the calibration: the baseline of a
\* completed reset is of healthy requests.  Traffic that failed half-way is not
\* drained, and what the Collector still holds of it is taken for the baseline.
BaselineOfHealthyRequests ==
    live.state = "idle" /\ resetAt = operations /\ resetAt > 0 =>
        \A b \in baseline : b.under = Healthy

\* Whatever is refused, lost or late, an operation ends and frees the lock.
OperationEnds == op # NONE ~> op = NONE
=============================================================================
