----------------------- MODULE MCInvestigationService -----------------------
(***************************************************************************)
(* Small instances of InvestigationService, and of the request cache in    *)
(* front of the analyses.  A behaviour is one of an instance, and part     *)
(* says of which: the specification with the bounds of this module's own   *)
(* constants, or one of narrower ones on the same variables; the variables *)
(* of what is not of the part keep initial values.  Parts selects the      *)
(* instances of a run.                                                     *)
(***************************************************************************)
EXTENDS InvestigationService, TLC

CONSTANTS Parts, a1, p1, rB, rD, blank, c1, c2, k1, f1, f2, Nobody, Replayer

VARIABLES part, now, cache, computing, tombstones, slot, flights, caller,
          evicted, flushed

requestVars == <<now, cache, computing, tombstones, slot, flights, caller,
                 evicted, flushed>>

MCPayloadSize == [p \in Payloads |-> 1]
MCRequestSize == [r \in Requests |-> 1]
MCBodySize == [b \in Bodies |-> 1]

\* Follow-ups of both modes while a single process lives; no time passes.
FollowUps == INSTANCE InvestigationService WITH MaxClock <- 0, MaxStarts <- 1

\* Follow-ups across a restart, with snapshots that expire.
Restarts == INSTANCE InvestigationService WITH
    Requests <- {rD}, RequestSize <- [r \in {rD} |-> 1]

\* The store works; the process may be restarted once.
Jobs == INSTANCE InvestigationService WITH OutcomeSizes <- {1}, MaxFaults <- 0

\* Two store calls fail; an answer may be over the budget.
Faults == INSTANCE InvestigationService WITH MaxStarts <- 1, MaxClock <- 0

Analyses1 == INSTANCE AnalysisRequests WITH
    clock <- now, pending <- computing,
    Callers <- {c1, c2}, Keys <- {k1}, Flights <- {f1, f2}, Ttl <- 1,
    Wait <- 1, Entries <- 1, MaxTombstones <- 3, MaxClock <- 1

ASSUME InstancesAssumption ==
    /\ FollowUps!StoreAssumption /\ FollowUps!ServiceAssumption
    /\ Restarts!StoreAssumption /\ Restarts!ServiceAssumption
    /\ Jobs!StoreAssumption /\ Jobs!ServiceAssumption
    /\ Faults!StoreAssumption /\ Faults!ServiceAssumption
    /\ Analyses1!RequestsAssumption

SuiteInit == part \in Parts /\ ServiceInit /\ Analyses1!Init
SuiteNext ==
    /\ UNCHANGED part
    /\ \/ part = "admission" /\ ServiceNext /\ UNCHANGED requestVars
       \/ part = "followups" /\ FollowUps!ServiceNext /\ UNCHANGED requestVars
       \/ part = "restarts" /\ Restarts!ServiceNext /\ UNCHANGED requestVars
       \/ part = "jobs" /\ Jobs!ServiceNext /\ UNCHANGED requestVars
       \/ part = "faults" /\ Faults!ServiceNext /\ UNCHANGED requestVars
       \/ part = "requests" /\ Analyses1!Next /\ UNCHANGED vars
SuiteSpec == SuiteInit /\ [][SuiteNext]_<<part, vars, requestVars>>

\* InvestigationService!Fairness and that of AnalysisRequests!FairRequestsSpec,
\* for the parts that are about what must eventually happen.  The instances of
\* the service differ in bounds that only Start depends on, so the other actions
\* are those of this module.
SuiteFairness ==
    /\ WF_vars(part \in {"jobs", "faults"} /\ WorkerStep)
    /\ WF_vars(part \in {"jobs", "faults"} /\ Maintain)
    /\ WF_vars(part \in {"jobs", "faults"} /\ Enqueue)
    /\ WF_vars(part \in {"jobs", "faults"} /\ CloseSignal)
    /\ WF_vars(part \in {"jobs", "faults"} /\ proc = "joining" /\ Terminate)
    /\ WF_vars(part = "jobs" /\ Jobs!Start)
    /\ WF_vars(part = "faults" /\ Faults!Start)
    /\ \A c \in {c1, c2} :
         WF_requestVars(part = "requests" /\ Analyses1!Work(c))

FairSuiteSpec == SuiteSpec /\ SuiteFairness

Symmetry == Permutations(Ids) \cup Permutations(Keys)

-----------------------------------------------------------------------------
(* Properties *)

\* Every job ends, unless the process is down for good; and every slot is given
\* back, also when the store fails the worker twice, with _pending, _queue, _events
\* and the worker's hands in agreement throughout.
JobsAndSlotsEnd ==
    /\ part = "jobs" => Jobs!EveryJobEnds
    /\ [](part = "faults" => SlotsAccounted)
    /\ part = "faults" => Faults!SlotsComeBack

\* The computation under way always ends and its place comes free, and a request
\* that waits for another one's computation is answered, without its timeout.
RequestsServed ==
    /\ part = "requests" => Analyses1!PendingComesBack
    /\ part = "requests" => Analyses1!JoinersAnswered
=============================================================================
