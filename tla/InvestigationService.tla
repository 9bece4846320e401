------------------------ MODULE InvestigationService ------------------------
(***************************************************************************)
(* cmd/thesis_demo/investigations.py: the single worker thread that        *)
(* answers the jobs of the workspace store, and the HTTP handler threads   *)
(* that submit, continue, cancel and delete under the service's lock.      *)
(*                                                                         *)
(* The module composes WorkspaceStore: a step here is one store            *)
(* transaction together with the bookkeeping the service does in the same  *)
(* critical section.  What happens outside that lock is a step of its own: *)
(* the worker's look at the snapshot, at the cancel event and at the clock *)
(* of the retention sweep, its final write, and close() raising its flag.  *)
(*                                                                         *)
(* A cancel event is an object, not a name: the worker keeps a reference   *)
(* to the one it fetched, while _events may already hold another for the   *)
(* same investigation.  The event made for turn n of investigation i is    *)
(* <<i, n>>.                                                               *)
(***************************************************************************)
EXTENDS WorkspaceStore

CONSTANTS
    Capacity,          \* maxsize of the queue and bound of _pending (2)
    MaxStarts,         \* bound on process starts, for model checking
    MaxFaults          \* bound on failing store calls, for model checking

ASSUME ServiceAssumption ==
    /\ Capacity \in Nat \ {0}
    /\ MaxStarts \in Nat
    /\ MaxFaults \in Nat

VARIABLES
    proc,              \* the process: down, up, or on its way through close()
    queue,             \* _queue
    pending,           \* _pending
    events,            \* _events: 0, or the turn whose event is registered
    signalled,         \* the event objects that are set
    admitting,         \* a job committed by the lock's holder, not yet queued
    worker,            \* the worker thread: program counter and locals
    starts,            \* how often the process was started
    faults,            \* how often the store failed
    asked              \* history: the turns ever handed to the model

serviceVars == <<proc, queue, pending, events, signalled, admitting, worker,
                 starts, faults, asked>>
vars == <<allStoreVars, serviceVars>>

-----------------------------------------------------------------------------
NoJob == [id |-> NONE, turn |-> 0]
Idle == [pc |-> "idle", id |-> NONE, turn |-> 0, analysis |-> NONE,
         request |-> NONE, outcome |-> NoOutcome]

\* No handler is inside its critical section.
LockFree == admitting = NoJob
\* Handlers run until the process ends; close() only raises a flag for them.
Serving == proc # "down"
At(pc) == worker.pc = pc
\* The event object the worker holds.
MyEventSet == <<worker.id, worker.turn>> \in signalled
Goto(pc) == worker' = [worker EXCEPT !.pc = pc]

-----------------------------------------------------------------------------
(* HTTP handlers *)

\* submit, from the lock on.  The snapshot read before the lock only fills
\* the request; create_investigation looks for the snapshot again.
Submit(i, a, k, r) ==
    /\ proc = "up" /\ LockFree
    /\ Cardinality(pending) < Capacity
    /\ CreateInvestigation(i, a, k, r)
    /\ admitting' = [id |-> i, turn |-> 1]
    /\ UNCHANGED <<proc, queue, pending, events, signalled, worker, starts,
                   faults, asked>>

\* follow_up, from the lock on.
FollowUp(i, k, r) ==
    /\ proc = "up" /\ LockFree
    /\ i \notin pending
    /\ Cardinality(pending) < Capacity
    /\ AddTurn(i, k, r)
    /\ admitting' = [id |-> i, turn |-> Last(i) + 1]
    /\ UNCHANGED <<proc, queue, pending, events, signalled, worker, starts,
                   faults, asked>>

\* The rest of submit and follow_up: the committed job becomes pending and is
\* queued.  put_nowait raises Full when there is no slot.
Enqueue ==
    LET i == admitting.id IN
    /\ ~LockFree
    /\ Len(queue) < Capacity
    /\ pending' = pending \cup {i}
    /\ events' = [events EXCEPT ![i] = admitting.turn]
    /\ queue' = Append(queue, i)
    /\ admitting' = NoJob
    /\ UNCHANGED <<allStoreVars, proc, signalled, worker, starts, faults,
                   asked>>

\* cancel: without a registered event there is nothing to cancel.
Cancel(i) ==
    /\ Serving /\ LockFree
    /\ Visible(i)
    /\ events[i] # 0
    /\ signalled' = signalled \cup {<<i, events[i]>>}
    /\ CancelJob(i)
    /\ UNCHANGED <<proc, queue, pending, events, admitting, worker, starts,
                   faults, asked>>

\* delete_snapshot: the pending jobs of the snapshot are told to stop first.
Delete(a) ==
    /\ Serving /\ LockFree
    /\ signalled' = signalled \cup
         {<<i, events[i]>> : i \in {j \in pending :
              Visible(j) /\ investigations[j].analysis = a}}
    /\ DeleteSnapshot(a)
    /\ UNCHANGED <<proc, queue, pending, events, admitting, worker, starts,
                   faults, asked>>

\* put_snapshot by an analysis thread, which takes no lock of the service.
SaveAnalysis(a, p) ==
    /\ Serving
    /\ PutSnapshot(a, p)
    /\ UNCHANGED serviceVars

-----------------------------------------------------------------------------
(* The worker thread: _work *)

Take ==
    /\ Serving /\ At("idle") /\ queue # <<>>
    /\ worker' = [Idle EXCEPT !.pc = "taken", !.id = Head(queue)]
    /\ queue' = Tail(queue)
    /\ UNCHANGED <<allStoreVars, proc, pending, events, signalled, admitting,
                   starts, faults, asked>>

\* queue.Empty, and a minute has passed since the last sweep.
Maintain ==
    /\ Serving /\ At("idle")
    /\ PurgeExpired
    /\ UNCHANGED serviceVars

\* The loop ends when close() has begun and nothing is queued.
Leave ==
    /\ proc \in {"closing", "joining"} /\ At("idle") /\ queue = <<>>
    /\ Goto("exited")
    /\ UNCHANGED <<allStoreVars, proc, queue, pending, events, signalled,
                   admitting, starts, faults, asked>>

\* Under the lock: read the job, fetch its event, mark it running.
Claim ==
    LET i == worker.id IN
    /\ Serving /\ At("taken") /\ LockFree
    /\ events[i] # 0
    /\ IF Visible(i)
       THEN /\ ClaimJob(i)
            /\ worker' = [worker EXCEPT !.pc = "claimed", !.turn = events[i],
                            !.analysis = investigations[i].analysis,
                            !.request = turns[i][Last(i)].request]
       ELSE /\ worker' = [worker EXCEPT !.pc = "cleanup", !.turn = events[i]]
            /\ UNCHANGED allStoreVars
    /\ UNCHANGED <<proc, queue, pending, events, signalled, admitting, starts,
                   faults, asked>>

\* get_snapshot, outside the lock.
LoadSnapshot ==
    /\ Serving /\ At("claimed")
    /\ Goto(IF Unexpired(worker.analysis) THEN "loaded" ELSE "cleanup")
    /\ UNCHANGED <<allStoreVars, proc, queue, pending, events, signalled,
                   admitting, starts, faults, asked>>

\* The first look at the event: a cancelled job never reaches the model, and
\* mode B is answered from the stored checks.
Decide ==
    /\ Serving /\ At("loaded")
    /\ \/ /\ MyEventSet
          /\ worker' = [worker EXCEPT !.pc = "answered",
                                      !.outcome = CancelledOutcome]
          /\ UNCHANGED asked
       \/ /\ ~MyEventSet /\ worker.request \notin LLM
          /\ \E n \in OutcomeSizes :
               worker' = [worker EXCEPT !.pc = "answered",
                            !.outcome = [status |-> "completed", bytes |-> n]]
          /\ UNCHANGED asked
       \/ /\ ~MyEventSet /\ worker.request \in LLM
          /\ Goto("calling")
          /\ asked' = asked \cup {<<worker.id, worker.turn>>}
    /\ UNCHANGED <<allStoreVars, proc, queue, pending, events, signalled,
                   admitting, starts, faults>>

\* The runner returns an outcome, or raises.
RunnerReturns ==
    /\ Serving /\ At("calling")
    /\ \/ \E o \in RunOutcome :
            worker' = [worker EXCEPT !.pc = "answered", !.outcome = o]
       \/ Goto("failing")
    /\ UNCHANGED <<allStoreVars, proc, queue, pending, events, signalled,
                   admitting, starts, faults, asked>>

\* Mutant: the event is not looked at again.
RecheckSkipped ==
    /\ Serving /\ At("answered")
    /\ Goto("finishing")
    /\ UNCHANGED <<allStoreVars, proc, queue, pending, events, signalled,
                   admitting, starts, faults, asked>>

\* The second look at the event.
Recheck ==
    /\ Serving /\ At("answered")
    /\ worker' = [worker EXCEPT !.pc = "finishing",
                    !.outcome = IF MyEventSet THEN CancelledOutcome ELSE @]
    /\ UNCHANGED <<allStoreVars, proc, queue, pending, events, signalled,
                   admitting, starts, faults, asked>>

\* The final write, outside the lock.  An outcome over the budget raises.
Finish ==
    /\ Serving /\ At("finishing")
    /\ IF worker.outcome.bytes <= MaxOutcome
       THEN FinishJob(worker.id, worker.outcome) /\ Goto("cleanup")
       ELSE Goto("failing") /\ UNCHANGED allStoreVars
    /\ UNCHANGED <<proc, queue, pending, events, signalled, admitting, starts,
                   faults, asked>>

\* except Exception: the job is marked failed.
Fail ==
    /\ Serving /\ At("failing")
    /\ FailJob(worker.id)
    /\ Goto("cleanup")
    /\ UNCHANGED <<proc, queue, pending, events, signalled, admitting, starts,
                   faults, asked>>

\* A store call of the worker raises (locked or full database); in the
\* handler of an exception the second one is swallowed.
StoreFails ==
    /\ Serving /\ faults < MaxFaults
    /\ worker.pc \in {"taken", "claimed", "finishing", "failing"}
    /\ At("taken") => LockFree
    /\ Goto(IF At("failing") THEN "cleanup" ELSE "failing")
    /\ faults' = faults + 1
    /\ UNCHANGED <<allStoreVars, proc, queue, pending, events, signalled,
                   admitting, starts, asked>>

\* finally: under the lock, the job gives up its slot and its event.
Cleanup ==
    LET i == worker.id IN
    /\ Serving /\ At("cleanup") /\ LockFree
    /\ pending' = pending \ {i}
    /\ events' = [events EXCEPT ![i] = 0]
    /\ worker' = Idle
    /\ UNCHANGED <<allStoreVars, proc, queue, signalled, admitting, starts,
                   faults, asked>>

-----------------------------------------------------------------------------
(* The process *)

\* close(): the flag goes up without the lock, then every event is set.
CloseFlag ==
    /\ proc = "up"
    /\ proc' = "closing"
    /\ UNCHANGED <<allStoreVars, queue, pending, events, signalled, admitting,
                   worker, starts, faults, asked>>

\* Mutant: the events are set without waiting for the lock.
CloseSignalUnlocked ==
    /\ proc = "closing"
    /\ proc' = "joining"
    /\ signalled' = signalled \cup
         {<<i, events[i]>> : i \in {j \in Ids : events[j] # 0}}
    /\ UNCHANGED <<allStoreVars, queue, pending, events, admitting, worker,
                   starts, faults, asked>>
CloseSignal ==
    /\ proc = "closing" /\ LockFree
    /\ proc' = "joining"
    /\ signalled' = signalled \cup
         {<<i, events[i]>> : i \in {j \in Ids : events[j] # 0}}
    /\ UNCHANGED <<allStoreVars, queue, pending, events, admitting, worker,
                   starts, faults, asked>>

\* The process ends: after close(), or killed at any point.  Threads, queue
\* and events are gone; the file lock is released; the database stays.
Terminate ==
    /\ Serving
    /\ proc' = "down"
    /\ queue' = <<>> /\ pending' = {} /\ signalled' = {}
    /\ events' = [i \in Ids |-> 0]
    /\ admitting' = NoJob
    /\ worker' = [Idle EXCEPT !.pc = "exited"]
    /\ UNCHANGED <<allStoreVars, starts, faults, asked>>

\* Mutant: nothing is recovered.
StartWithoutRecovery ==
    /\ proc = "down" /\ starts < MaxStarts
    /\ proc' = "up"
    /\ worker' = Idle
    /\ starts' = starts + 1
    /\ UNCHANGED <<allStoreVars, queue, pending, events, signalled, admitting,
                   faults, asked>>
\* __init__: owner lock, recovery of what the last process left, new worker.
Start ==
    /\ proc = "down" /\ starts < MaxStarts
    /\ RecoverInterrupted
    /\ proc' = "up"
    /\ worker' = Idle
    /\ starts' = starts + 1
    /\ UNCHANGED <<queue, pending, events, signalled, admitting, faults,
                   asked>>

TimePasses == Tick /\ UNCHANGED serviceVars

-----------------------------------------------------------------------------
ServiceInit ==
    /\ Init
    /\ proc = "down"
    /\ queue = <<>>
    /\ pending = {}
    /\ events = [i \in Ids |-> 0]
    /\ signalled = {}
    /\ admitting = NoJob
    /\ worker = [Idle EXCEPT !.pc = "exited"]
    /\ starts = 0
    /\ faults = 0
    /\ asked = {}

Handlers ==
    \/ Enqueue
    \/ \E i \in Ids, k \in Keys, r \in Requests :
         \/ \E a \in Analyses : Submit(i, a, k, r)
         \/ FollowUp(i, k, r)
    \/ \E i \in Ids : Cancel(i)
    \/ \E a \in Analyses : Delete(a) \/ \E p \in Payloads : SaveAnalysis(a, p)

\* The steps that carry a job through the worker.
WorkerStep ==
    Take \/ Claim \/ LoadSnapshot \/ Decide \/ RunnerReturns \/ Recheck
         \/ Finish \/ Fail \/ Cleanup \/ Leave

Process == CloseFlag \/ CloseSignal \/ Terminate \/ Start

ServiceNext ==
    Handlers \/ WorkerStep \/ Maintain \/ StoreFails \/ Process \/ TimePasses

Spec == ServiceInit /\ [][ServiceNext]_vars

\* The worker thread is always scheduled and its runner has a deadline; once
\* a minute an idle worker sweeps; a
\* handler inside its critical section leaves it; close() runs to the end of
\* main(); the container restarts a process that ended.
Fairness ==
    /\ WF_vars(WorkerStep)
    /\ WF_vars(Maintain)
    /\ WF_vars(Enqueue)
    /\ WF_vars(CloseSignal)
    /\ WF_vars(proc = "joining" /\ Terminate)
    /\ WF_vars(Start)

FairSpec == Spec /\ Fairness

-----------------------------------------------------------------------------
(* Properties *)

WorkerPC == {"idle", "taken", "claimed", "loaded", "calling", "answered",
             "finishing", "failing", "cleanup", "exited"}
WorkerState == [pc : WorkerPC, id : Ids \cup {NONE}, turn : 0..MaxTurns,
                analysis : Analyses \cup {NONE},
                request : Requests \cup {NONE},
                outcome : JobOutcome \cup {NoOutcome}]
Busy == worker.pc \notin {"idle", "exited"}
\* The job the worker has claimed, with its event in hand.
InHand == worker.pc \in {"claimed", "loaded", "calling", "answered", "finishing"}
Queued == {queue[n] : n \in DOMAIN queue}

ServiceTypeOK ==
    /\ TypeOK
    /\ proc \in {"down", "up", "closing", "joining"}
    /\ queue \in Seq(Ids)
    /\ pending \subseteq Ids
    /\ events \in [Ids -> 0..MaxTurns]
    /\ signalled \subseteq Ids \X (1..MaxTurns)
    /\ admitting \in {NoJob} \cup [id : Ids, turn : 1..MaxTurns]
    /\ worker \in WorkerState
    /\ worker.id \in Ids <=> Busy
    /\ starts \in 0..MaxStarts
    /\ faults \in 0..MaxFaults
    /\ asked \subseteq Ids \X (1..MaxTurns)

\* _pending, _queue, _events and the worker's hands agree: every pending job
\* is queued once or being worked on, never both, and has its event.  So
\* put_nowait always finds a slot for a job already committed to the store,
\* and the worker always finds the event of the job it took.
SlotsAccounted ==
    /\ pending = Queued \cup (IF Busy THEN {worker.id} ELSE {})
    /\ Busy => worker.id \notin Queued
    /\ \A m, n \in DOMAIN queue : queue[m] = queue[n] => m = n
    /\ \A i \in Ids : events[i] # 0 <=> i \in pending
    /\ admitting.id \notin pending
    /\ ~LockFree => Cardinality(pending) < Capacity
    /\ Cardinality(pending) <= Capacity

\* No job is forgotten: as long as the store works, every unfinished job a
\* client can see is queued, in the worker's hands or about to be queued.
NoJobForgotten ==
    \A i \in Ids : Serving /\ faults = 0 /\ Visible(i) /\ Active(i) =>
        i \in pending \/ admitting.id = i

\* The worker holds the event that cancel() will set, and the question of the
\* turn its answer will be written to, however long the runner takes.
WorkerOnLastTurn ==
    InHand =>
        /\ events[worker.id] = worker.turn
        /\ Exists(worker.id) =>
             /\ worker.turn = Last(worker.id)
             /\ worker.request = turns[worker.id][worker.turn].request
             /\ worker.analysis = investigations[worker.id].analysis

\* A job shown as cancelling has its event set: the worker can learn of it.
CancellingIsSignalled ==
    \A i \in Ids : Serving /\ investigations[i].state = "cancelling" =>
        <<i, Last(i)>> \in signalled

\* Once close() has signalled, every job that holds a slot is told to stop,
\* also the one whose submit was under way when the flag went up.
ClosingStopsAll ==
    proc = "joining" => \A i \in pending : <<i, events[i]>> \in signalled

\* A job that is cancelling when the worker looks at its event for the second
\* time gets the cancelled outcome, whatever the runner returned.
CancelObeyed ==
    [][At("answered") /\ worker'.pc = "finishing"
         /\ investigations[worker.id].state = "cancelling"
       => worker'.outcome = CancelledOutcome]_vars

\* An idempotency key names one investigation of its analysis, and one turn
\* of its investigation, under any interleaving of retries.
OneJobPerKey ==
    \A i, j \in Ids : Exists(i) /\ Exists(j) =>
        /\ (/\ investigations[i].analysis = investigations[j].analysis
            /\ investigations[i].key = investigations[j].key) => i = j
        /\ \A m, n \in DOMAIN turns[i] :
             turns[i][m].key = turns[i][n].key => m = n

\* No question is handed to the model twice: not by a retry, not by a second
\* worker, not by a restart that finds it unfinished.
AskedOnce ==
    [][At("loaded") /\ worker'.pc = "calling" =>
         <<worker.id, worker.turn>> \notin asked]_vars

\* Whatever reaches the model was admitted under the daily allowance.
AskedWithinAllowance == asked \subseteq {j.job : j \in started}

\* Every job ends, unless the process is down for good.
EveryJobEnds ==
    \A i \in Ids :
        Active(i) ~> (~Active(i) \/ (proc = "down" /\ starts = MaxStarts))

\* Every slot is given back, also when the store fails the worker.
SlotsComeBack == \A i \in Ids : i \in pending ~> i \notin pending

\* The service implements the job lifecycle its clients rely on.
Lifecycle == INSTANCE JobLifecycle
                 WITH job <- [i \in Ids |-> investigations[i].state]
ImplementsLifecycle == Lifecycle!Spec

\* As long as the store works every unfinished job a client can see is queued, in
\* the worker's hands or about to be queued, in one place only and within the
\* capacity; one whose submit was under way when close() raised its flag is told
\* to stop as well; and an idempotency key names one investigation and one turn,
\* whatever retries race.
EveryJobAccounted ==
    /\ ServiceTypeOK /\ SlotsAccounted
    /\ NoJobForgotten /\ ClosingStopsAll /\ OneJobPerKey

\* However long the runner takes, the worker holds the event that cancel() sets and
\* the question of the turn its answer goes to; a job shown as cancelling has its
\* event set, and gets the cancelled outcome when the worker looks again; what
\* reaches the model was admitted under the allowance and is handed to it once, not
\* again by a retry or a restart.
WorkerInStep ==
    /\ [](WorkerOnLastTurn /\ CancellingIsSignalled /\ AskedWithinAllowance)
    /\ CancelObeyed
    /\ AskedOnce
=============================================================================
