# A specification of the diagnostic workspace and its laboratory

TLA+ modules for the parts of this repository whose correctness depends on the
order of things: the investigation workspace (`cmd/thesis_demo`), the diagnostic
engine and the services it watches (`internal/`), the controlled demonstration,
and the protocols of the experiments (`ml/rca_ml`, `scripts/`). TLC checks small
instances; TLAPS proves what holds for every value of the constants.

    tlc -workers 2 -config Store.cfg MCRecordEditing
    tlapm WorkspaceStore_proofs.tla

## 1. Inventory

The repository ranks the services of an observed system after an incident. A
Python application collects telemetry on demand, ranks services, keeps the
result as a snapshot and lets people investigate it, with an optional external
assistant. A Go laboratory (gateway, orders, payment, an RCA collector and a
demo server) produces controlled incidents. `ml/` and `scripts/` hold the
experiments that chose the ranking.

| component | state it keeps | operations | how it interacts | what is hard |
|---|---|---|---|---|
| Workspace store, `workspace_store.py` | SQLite tables: snapshots, investigations, turns, reservations | put, get, delete, expire; create, continue, move, recover; save and approve a record | one transaction per method | two copies of a job's state; quota reserved before it is used; rolling allowance; cascades; optimistic revisions |
| Investigation service, `investigations.py` | a queue, the pending jobs, a cancel event per job, one worker thread | submit, follow_up, cancel, delete_snapshot, the worker loop, close | handlers call it under a lock; the worker calls the store outside it | cancel and delete against a running job; commit before enqueue; closing; crash and restart; a store that fails |
| Workspace HTTP, `workspace_http.py`; the page, `static/workspace.js` | browser sessions; what the page shows, drafts, requests under way | open, save, review, export, ask, cancel, delete, poll | requests answered in any order | an answer for what is no longer on the screen; typed text that is nowhere |
| Analysis requests, `analysis_requests.py` | a small cache, one pending computation, tombstones | run, delete | analysis threads of `server.py` | joining, refreshing and deleting while a computation is under way |
| Application, `server.py`; evidence catalogue, `evidence_catalog.py` | analysis slot, profiles, a bounded registry | live analysis, replay, start and end | own all of the above | what one stage put is evicted before the next reads it |
| Assistant, `assistant_*.py` | a child process and its pipes, a conversation and its budgets, a streamed answer, a stored sign-in | run, cancel, call tools, repair, stream, sign in, refresh | the service's runner; the provider | deadline against cancel against exit; two pipes; limits that meet; a token spent twice |
| Sources, `live_sources.py`, `context_source.py`, `trace_adapters.py`, `http_observations.py` | budgets of one collection, a child process | search and split, decode, probe, classify | a telemetry backend that moves | a search cut off in silence; a child that outlives its caller |
| Profiles, `profile_*.py`, `baseline_applicability.py` | draft, active profile, history, baseline files | check, prepare, activate, roll back, load, inspect | operators' commands, the server, people with editors | kills between two files; two commands on one directory; files edited while they are read |
| Trace graph, `internal/graph` | traces, parent links, edges | ingest, snapshot, expiry, reset | receiver, diagnosis | out-of-order and duplicate spans, eviction |
| Anomaly detector, `internal/anomaly` | baseline and its samples, windows | start, freeze, reset, observe, snapshot | receiver, diagnosis | observation against freeze and reset; statistics at their edges |
| RCA receiver and diagnosis, `internal/rca`, `internal/diagnosis` | counters | export, features, rankings | graph, detector | three parts read at three moments; cycles; overlapping calls |
| Controlled demo, `internal/demo`, `demo_prepare.py`, `demo_predict.py` | one live operation, files, tabs | reset, scenario, traffic, diagnose; prepare, serve, reveal | services, RCA, Collector | steps that fail half-way; spans delivered later; files of two preparations |
| Services and platform, `internal/gateway`, `orders`, `payment`, `benchmark`, `fault`, `platform`, `telemetry`, `cmd/` | faults, counters, a queue of spans, readings of containers | requests, shutdown, export | each other, Docker | timeouts, cancellations, exits, counters that start again |
| Experiments, `ml/rca_ml`, `scripts/m12`-`m14` | files of models, predictions, truths, freezes, ledgers | collect, freeze, score, open; fit, choose, evaluate | commands killed and resumed, files of earlier runs | what was held out decides; what was sealed is evaluated twice |
| External cases, `internal/externalrca` | none | read a case | detector, diagnosis | order of the spans, the window's end |
| Runbooks, evaluation ledger, HTTP contract, documents | files | read, write | - | sequential |

`PROJECT.json` names the hazards of the code line by line, with the property that
covers each, or why none does.

## 2. Modules

| module | models |
|---|---|
| `WorkspaceStore`, `RecordEditing` | the store, one action per method that writes; editors with a screen each |
| `InvestigationService`, `JobLifecycle` | the service composed with the store; abstract: what a client is promised about jobs |
| `AnalysisRequests`, `EvidenceRegistry` | reuse and coalescing of live analyses; the registry an analysis writes in stages |
| `WorkspacePage` | the page: sessions, drafts, polls and every request under way |
| `Supervisor`, `AssistantDialogue`, `ResponseStream`, `AssistantConnection` | the assistant: child process, conversation, one streamed answer, sign-in and refresh |
| `LiveCollection`, `TraceDecoding`, `Enrichments` | reading telemetry; `Enrichments` has the two sources that add to a result, logs around the incident and HTTP observations |
| `ProfileOnboarding` | commands and server around a profile and its baseline |
| `TraceGraph`, `Detector`, `SpanIntake`, `RcaService`, `ExternalCase` | the engine; `RcaService` composes graph and detector; the samples taken of an external case |
| `DiagnosisLoops`, `Diagnosis` | the search for affected services and the waiting time of a span; features and rankings |
| `ServiceCalls`, `ServiceTelemetry`, `RcaShutdown`, `ContainerMetrics` | the services, what they report, and how processes end |
| `LiveDemo`, `DemoReplay`, `ReplayRanking` | the demonstration: live, prepared, and the ranking it serves |
| `LockedCollection`, `SystemHoldout`, `NestedValidation` | the protocols of M12 to M14, of M10C to M11, and of M13 and M13.1 |
| `WorkspaceStore_proofs`, `InvestigationService_proofs`, `Assistant_proofs`, `Engine_proofs`, `Demo_proofs`, `Telemetry_proofs`, `Research_proofs` | theorems; those about `RecordEditing` are in `WorkspaceStore_proofs`, the lemmas about `LockedCollection` in that module itself |
| `MC...` | small instances; `MCInvestigationService` has those of the runs ServiceSafety, ServiceTurns and Liveness |

### How the modules correspond to the code

`WorkspaceStore`. Every method runs in one SQLite transaction under the store's
lock (`_db`), so a method is an action. A method that raises rolls back and is not
enabled. The purge that `put_snapshot`, `create_investigation` and `add_turn` begin
with is part of their actions; when they return early, for a repeated call, what
they commit is the purge alone (`PurgeExpired`). Rows that are not there are values,
so tables are total functions. Texts are model values with a length; a digest is the
text itself. `started` is a history variable.

`InvestigationService`. A handler that has the service's lock and the transaction it
makes are one action, except that a new job is committed first (`Submit`,
`FollowUp`) and registered and queued after (`Enqueue`): between the two, the
process may die and `close()` may raise its flag, which takes no lock. The worker is
a program counter with its locals; its steps are the points where others come in
between. The event made for turn n of investigation i is `<<i, n>>`, and `signalled`
is the set of those that are set. `Terminate` may happen at any point and loses
everything but the tables. `asked` is a history variable.

`AnalysisRequests`. Each lock section of `run` and `delete` is an action; between
them the owner takes the analysis slot, collects, saves its snapshot, returns, caches
and leaves. `EvidenceRegistry` does the same for the stages of `_analyze_live` over
the registry and the workspace. `WorkspacePage` has an action for each thing a person
does and one for each answer, with the numbers the page remembers at the request
(`generation`) kept in the call. How it is used (what does not exist yet, which acts
and how many, texts, revisions, failures) is a member of `Uses`, chosen at the start.

`Supervisor` counts bytes in blocks and has the pipes' contents, the child's exit, its
process group and the clock as state; one round of the loop of `_run_child` is a
step. `AssistantDialogue` is the loop of `run_with_tools` with a model that may ask
for, or report, anything. `ResponseStream` sends finished items in any order.
`AssistantConnection` has the provider's side (which token is the last one) as state,
so that a token sent twice can be seen.

`ProfileOnboarding` has one action for each file an operator's command touches, so
that a kill falls between them, and the reads of a start of the server apart from
each other. `LockedCollection` does so for the collectors and evaluators of three
experiments, which differ in what is resumed, sealed and checked (`Study`).
`SystemHoldout` and `NestedValidation` do not compute: what is learned carries the
groups of labels it was fitted to or chosen by, and the properties are about what it
carries when it ranks an incident.

`TraceGraph` takes an export's spans one by one under the lock; `RcaService` hands the
accepted ones to the detector outside it. `Detector` and `Diagnosis` work in small
whole numbers that keep the order of the code's floats. `DiagnosisLoops` has two
loops of the code, a step each. `ServiceCalls` is one request as a tree of calls. `LiveDemo` is made of the calls of `live.go`, each of which may be
lost before or after it is served, or be served late, with the Collector in between.

### Suites

The runs `Assistant`, `Engine`, `Demo`, `Telemetry`, `Research`, `Store`,
`ServiceSafety`, `ServiceTurns` and `Liveness` each check several instances: `part`
is chosen at the start and never changes, the actions are those of that part, and the
variables of the other parts keep an initial value. The state space of such a run is
the sum of its parts', not their product, and each property is about the part whose
variables it names. Parts do not interact there; where components do, a module
composes them (`InvestigationService` over `WorkspaceStore`, `RecordEditing` over
it, `RcaService` over `TraceGraph` and `Detector`, `LiveDemo` over services, RCA and
Collector, `ProfileOnboarding` over commands and server, `DemoReplay` over
preparation, server and tabs).

## 3. Runs and bounds

| run | parts and instances | what it shows |
|---|---|---|
| Store | jobs: 2 analyses, 2 investigations of 2 turns, clock to 2; quota: 24 bytes, answers of 1, 2 and 3 with a budget of 2; allowance: 2 jobs a day, a day of 2 ticks, clock to 4; editing: 2 editors, 3 records, 3 revisions | rows stay within their limits; copies, approvals and answers stand; no saved edit is lost |
| ServiceSafety | 3 jobs for 2 slots, 2 starts | slots, active jobs and stop signals agree; nothing is orphaned |
| ServiceTurns | 2 jobs of 2 turns, of both modes; again with restarts and expiry | the worker and the cancel are about the same turn; the abstract life cycle is implemented |
| Liveness | 2 jobs, 2 starts, fair; 2 failing store calls, fair; 2 requests for one analysis, fair | jobs end, slots come back, requests are answered |
| Assistant | a child that hangs or helps (deadline 1, pipes of 2 blocks); a healthy one; 3 calls, 3 tools, 2 steps; answers of 3 items; 2 workers with 2 sign-ins; 2 accounts; the page with 2 investigations and 2 requests under way, used in three ways (`PageUses`) | see section 4 |
| Engine | 3 traces of 3 spans for 1 and for 2 places; 6 observations for windows of 4; all files of 4 spans of 11; 3 exports; 3 requests at a shutdown; a tree of 4 calls, in sequence and in parallel | see section 4 |
| Demo | all graphs of 3 services; traces of 5 spans; 3 services with 6 kinds of findings; 3 live operations; 2 preparations and 2 servers; rankings of 4; 1 and 2 containers | see section 4 |
| Telemetry | a backend of 5 spans and 2 late ones, an interval of 2 chunks, 6 searches; 3 lines; 2 stores of 3 entries; grids of 3 times; 2 analyses of 2 threads; 3 callers; 2 operators and a server | see section 4 |
| Research | 2 incidents, 2 attempts, 5 to 8 commands with a kill; 3 systems, 5 runs with a kill; 7 incidents in 4 clusters | see section 4 |
| RequestsRefresh, LiveDemoBaseline, StackedSelected | 2 threads; 3 operations; 1 run | what does not hold, section 6 |

Constants named `Max...` of clocks, revisions, starts, faults, kills, runs, acts,
edits and failures, and the number of flights, exist for model checking. The others
are limits of the code with smaller values: two turns instead of ten, one cached
result instead of four, a window of four samples, three tool calls. Each is the
smallest value at which the limit is met and the interesting order occurs: two turns
make an event be replaced, a third job meets a full service, two failures reach the
handler of a failure, two starts make a restart find what the first process left, a
third thread finds the computation joined, two traces for one place evict each other,
a helper that holds the pipe outlives the child, two preparations leave files of two
runs, a kill falls between any two files of a command and a third command meets what
it left. `MaxBytes` is 24 in every part of Store, and the payload of the
part `quota` has 9 bytes, so that an admitted job with its reserve leaves room for a
record or for a follow-up but not for both. Client and job
identifiers are symmetric in Store, ServiceSafety and ServiceTurns; runs with
liveness use no symmetry.

Deadlock is not checked in the suites: in most parts the system stops, when a process
has ended, a budget is spent or a bound is met. That something does not stop too
early is what the liveness properties are for.

Fairness, and why the code justifies it.

- The worker thread is a daemon thread in a loop with a timeout, and its runner has a
  deadline: weak fairness of its steps taken together, and of its sweep, once a
  minute. A handler inside the lock leaves it (`Enqueue`), `close()` signals and the
  process ends after it. `restart: unless-stopped` in
  `deploy/product/compose.workspace.yml` starts the container again. In
  `AnalysisRequests` only the steps of a thread that has taken on a request are fair.
- `Supervisor`: the parent's loop waits in `select` with a timeout, so it goes on, and
  the clock advances. The child is under no fairness in `deadline`; in `pipes` it
  runs, and then no clock is needed.
- `AssistantDialogue`: every request to the provider has a timeout (`Progress`).
- `RcaShutdown`: goroutines that can go on do (`Step`), and ten seconds pass.
  `ServiceCalls`: a handler goes on, and a request arrives or cannot be delivered.
- `LiveDemo`: each call of an operation is answered or fails, by its timeout.
  `DiagnosisLoops`: the search for affected services goes on.
- `LiveCollection`, `TraceDecoding`, `Enrichments`: requests have timeouts; loops go
  on; the parent waits with a deadline. The child is under no fairness.

Clients, operators, crashes, store failures, faults and the Collector are under none.

## 4. Properties

A property of a run is a conjunction; its parts are named where the behaviour is.

Store. `RowsAndLimits`: `NoOrphans` (cascades), `AnsweredIffEnded`, `WithinQuota`,
`RollingAllowance`, `RevisionIdentifiesRecord`, and `ReadsAgree` (what the reads say
of a key and of the allowance is what the writes go by). `MirrorsLastTurn`,
`ApprovalMatchesRecord`, `AnswersAreFinal`, `NoLostUpdate`.

Service. `EveryJobAccounted`: `SlotsAccounted` (pending, queue, events and worker
agree), `NoJobForgotten`, `ClosingStopsAll`, `OneJobPerKey`. `WorkerInStep`:
`WorkerOnLastTurn`, `CancellingIsSignalled`, `AskedWithinAllowance`, `CancelObeyed`,
`AskedOnce`. `ImplementsLifecycle`: the refinement of `JobLifecycle` under
`job[i] = investigations[i].state`. `JobsAndSlotsEnd`, `RequestsServed`.
`NoJobForgotten` holds while the store works. When two store calls of the worker fail
in a row the job stays active in the store until the next start, which interrupts it;
`EveryJobEnds` is checked without such failures for that reason, `SlotsComeBack` with
them.

Assistant. `JobLeavesNothing` (no process of the child's group is left, only whole
reports are returned, accounting is honest), `ConversationSound` (budgets, repeated
reads, one output per call, citations, accounting), `ReplyIsWhole`, `TokensSpentOnce`,
`AccountKept`, `AssistantEnds`. `PageTogether`: what the page shows is of one
analysis, typed text is somewhere, one chain of polls watches a job, an export is of
one investigation; until an answer to a save, review or cancel becomes the session of
another investigation or of a job that ended meanwhile (`overtaken`), as the code allows.

Engine. `LinkedExactly` and `GraphSound` (edges are those of the parent relation,
each once, whatever the order), `DetectorSound` (also what it is given of an external
case), `NothingUncounted` (spans, samples,
exits), `FailuresHeard`, `EngineEnds`.

Demo. `AffectedExact`, `UnionExact`, `DiagnosisSound`, `LabelsHonest`, `ReplayHonest`
(what is revealed judges what was served; two validators agree; rerankers,
taxonomies and evidence are fair), `RatesHonest`, `DemoEnds`.

Telemetry. `CollectionHonest` (all traces or said to be unavailable),
`ObservationsHonest`, `CatalogueHonest`, `ReuseHonest`, `OnboardingSound`,
`TelemetryEnds`.

Research. `LockedOnce` (incidents are not replaced, one fault at a time, one
evaluation of what M14 froze, no incident judged by the truth of another capture), `HoldoutUnseen`, `RepetitionsUnseen`.

Each property has a mutant of the code beside the definition it mutates, marked
"Mutant:" in a comment, which TLC refutes in the run of the property.

## 5. Proofs

The theorems hold for every value of the constants that satisfies the named
assumptions (`StoreAssumption`, `ServiceAssumption`, `GraphAssumption`,
`TracesAssumption`, `DemoAssumption`, `LockedAssumption`, `HoldoutAssumption`, and the
`InstancesAssumption` of a suite); nothing else is assumed, except where a statement says so.

`WorkspaceStore_proofs`. `NoOrphans`, `MirrorsLastTurn` and `AnsweredIffEnded` are
not inductive one by one. A move writes the last turn: that this leaves every
earlier turn ended needs `AnsweredIffEnded`; that there is a last turn needs
`NoOrphans`; that recovery sweeps both copies the same way needs that they agree
before. `Consistent` says of one investigation and its turns what the three say
of all, and `StoreInv` adds the types and that a stored investigation's snapshot
is held. Lemmas show that each way of writing (create, reopen, move, sweep,
remove, write a record) keeps one investigation consistent; then that each
operation writes in one of these ways.

- `StoreConsistent`: `StoreSpec => [](TypeOK /\ NoOrphans /\ MirrorsLastTurn /\ AnsweredIffEnded)`.
- `ApprovalsStand`: `StoreSpec => []ApprovalMatchesRecord`, inductive with the types.
- `QuotaKept`: `StoreSpec => []WithinQuota`. `Used` is a sum over rows of different
  sizes; an admission is within `MaxBytes` with its reserve, and `QuotaInv` needs that a
  row's size grows only where a write has compared it, that a removal makes no sum
  larger (`SumAtMost`), and that an answer and its outcome fit in what was reserved
  (`MovedBytes`, `SweptBytes`).
- `AllowanceKept`: `StoreSpec => []RollingAllowance`. `AllowanceInv`: the reservations
  of the last day are the jobs started in it, since a purge drops only older ones and a
  deletion none.
- `ReadsTellTrue`: `StoreSpec => []ReadsAgree`. `KeysInv`: an investigation's key is
  that of its first turn and of no other, and no two of an analysis share one, so what
  the reads find by either key is what a write would find.
- `AnswersStayFinal`: `StoreSpec => AnswersAreFinal`. A turn that has ended is not
  the last turn of an active investigation, which is all a move or a recovery writes.

`RecordEditing`. `EditInv` says of each screen that it is not ahead of its row:
what it shows was in the row, and is still there if the revision is. Every
operation of the store either keeps the record of a row or counts its revision up
(`RecordSteps`), so a screen that falls behind has an older revision for good.

- `RevisionsIdentify`: who still has the current revision of a record has the
  current record and approval on the screen.
- `RowsAndLimitsHold`: the store's tables and limits under editors, too.
- `NoUpdateIsLost`: a save or a review that succeeds replaces or approves only what
  its editor has read, for every number of editors and whatever the jobs do.

`InvestigationService_proofs`. Four invariants, each with the one before it.
`ServiceInv` is `StoreInv`, the service's types, and what keeps them: a pending job
has an event, a claimed one a turn, and at the final write there is an outcome.
`SlotInv` says where a job is: queue, worker and events agree with `pending`, a
process that is down has nothing in hand, and no handler is inside its critical
section once `close()` has signalled. `JobInv` relates these books to the tables:
an event is that of the last turn, a job in the worker's hands is not queued, one
that is cancelling has its event set, none is forgotten, and one the worker cleans up
after is over, out of sight, or the store has failed. `AskInv` adds what the model
has seen: a question asked is that of a turn that exists, and of no job that still
waits for the worker. What most steps leave alone is one definition, `Kept`: a row
that is not opened keeps its analysis, key and turns, and becomes neither active nor
visible nor younger. `Kept` holds of every investigation but the one that `Submit` or
`FollowUp` opens (`StepKept`), which leaves few cases to each part.

- `ServiceTypes`: `Spec => []ServiceTypeOK`.
- `ServiceImplementsStore`: `Spec => StoreSpec`; every step of the service is a
  step of the store or leaves it alone. The invariant is needed because the final
  write is a store operation only if the worker's outcome is one a job may have.
- `ServiceKeepsStoreConsistent`: the tables stay consistent under the service.
- `ServiceKeepsLimits`: and so do quota, allowance, approvals and keys, whatever fails
  or restarts between an admission and its answer.
- `JobsAccounted`: `Spec => []EveryJobAccounted`.
- `WorkerKeepsInStep`: `Spec => WorkerInStep`, two of whose parts are action
  properties: a job that is cancelling at the worker's second look gets the cancelled
  outcome, and no question is handed to the model twice.
- `ServiceImplementsLifecycle`: `Spec => ImplementsLifecycle` if `MaxFaults = 0`.
  Without that it is false: after two store failures in a row an unfinished job has
  no slot, and another may be accepted in its place. A job is admitted by a count of
  `pending`, and promised by a count of unfinished jobs; `NoJobForgotten` is what makes
  the second set part of the first.

`Assistant_proofs` and `Engine_proofs` are about the suites `MCAssistant` and
`MCEngine`, whose constants are declared there and given values in the `.cfg` only, so
that a theorem of the suite is one about every job size, budget, queue, export or tree
of calls. The invariants are defined at the end of each component's module, that of the
page beside its proof, and a run has checked each of them. One lemma per component says that every step keeps its
invariant; `SuiteInv` and `EngineInv` say it of the parts.

- `JobLeavesNothingHolds` rests on `SupervisorInv`: `ChildFollowed` says in which
  state the child, its helper and its document are at each place the parent can be
  after its loop, `ResultEarned` when a result may be there and whose it is.
- `ConversationSoundHolds` rests on `DialogueInv`: how far an iteration is and what it
  may still spend (`TurnFollowed`), that `usage` is what was spent until it is said
  not to be (`TokensCounted`), and that every call of the history is still in the batch
  or has its one output (`CallsAnswered`).
- `ReplyIsWholeHolds` rests on `StreamInv`: until a reply is refused, the items taken
  in are those that were sent, in whatever order they came. That no call is gathered
  twice is an induction over the answer (`CallsGathered`).
- `TokensSpentOnceHolds` rests on `ConnectionInv`: an attempt is with the state, or then
  with one thread, or over (`AttemptsFollowed`); whoever has the lock has the last token
  of its grant, and so has the file but for the worker about to write it
  (`TokensFollowed`).
- `PageTogetherHolds` rests on `PageInv`. What is under way is what can go wrong later,
  so it is mostly about the requests: an answer is of what was asked and its record was
  accepted (`Truthful`); a text that the server has not taken is in its place and nothing
  under way would put another one there (`Unreplaced`): a save carries that very text, a
  review that is current is of another investigation, and a current snapshot means that
  the draft is that text; and of the polls and snapshots that are current there is one at
  most, none while the timer runs, and it is of what is open (`PollsFollowed`, `Watched`).
  `TextsCarried` is the step of the texts for any action: requests go, are outdated, or
  spare the text. `Ids`, `Analyses`, `Slots` and `Uses` are left open.
- `AccountKeptHolds`: `SuiteSpec => AccountKept`, four properties of steps. That a review
  marks the text it was asked for needs a further invariant of the page,
  `RevisionsKnown`: of a session, a snapshot under way, a review or an answer, the
  revision is no later than the server's, and where it is the server's, so is the text
  (`Dated`). The server only moves ahead (`Ahead`), which keeps it for all that is under
  way. That a later sign-in is not undone follows from `ConnectionInv`, for any number of
  workers and threads, and that nothing is read after a repair from `DialogueInv`. That a
  directory keeps its account rests on `AccountInv`: whoever is about to write has the
  account that is there, and who has the lock also its grant unless a sign-in crossed it.
  It is about the instance `Account`: two accounts and clients, three sign-ins one after
  the other, and one worker (see section 6 for sign-ins at the same time).
- `NothingUncountedHolds`: `IntakeInv` (an observation for each stored request, and one),
  `ShutdownInv` (a server that no longer serves takes no requests), `TelemetryInv` (the
  spans of answered requests are queued, exported or lost, and counted).
- `FailuresHeardHolds`: `CallsInv` says that what a handler was told is what was
  answered, and that it calls on only past its own fault. It is inductive for calls in
  turn and in parallel.

`Engine_proofs`, the graph. `LinkInv` is the types, that a trace that is not live has
no spans, that spans of a trace are distinct, and that the links made so far are exactly
the spans whose parent is there. Adding a span completes the links it takes part in
(`NewLinksComplete`), and dropping a trace drops both sides. Edges are counted when a
link is made and never taken back, while traces come, go and come again. What the count
is to be compared with is the history: `seen` has each span with the episode of its
trace it was taken in, and `HistoryInv` says that what a trace holds is what was seen in
its present episode. `EdgesInv` then says that an edge counts the pairs seen in one
episode, with the first and the last start among them; `LinksAreCalls` and `TakeEdges`
show that the pairs a new span adds are the links it completes. `StoreInv` bounds the
store and types what is under way.

In the receiver, `SamplesKnown` says that a sample is at most as young as its trace and,
if it is of the present episode, its span is stored: so what a diagnosis misses has been
dropped since. `HandedOnce` says that the store's list, the lists of the exporters and
what was observed have no sample in common, nor twice. A reset, an expiry or an eviction
between any two steps of an export keeps both, because they start a new episode.

- `GraphLinksExactly`: whatever the order, the repetitions and the evictions, a span
  is linked if and only if its parent is in its trace.
- `GraphSpansDistinct`: a span that is delivered again is kept once.
- `GraphSoundHolds`: `ServiceSpec => []GraphSound`, for any number of exporters.

`Demo_proofs`, the two loops. The search's invariant: the callers of everything visited
and not in the queue are visited, and what is visited lies in every set that has the
candidate and the callers of its members. `MergeInv` of the waiting time: what was
merged lies before the current interval with the length counted so far, or is the
current interval, and what is left does not start before it.

- `AffectedIsLeastClosed`: when the queue is empty, what was visited is the least set
  that has the candidate and the callers of its members, in every graph, with cycles.
- `WaitMeasuresUnion`: the result is the number of instants that lie in some interval,
  however they overlap.

`Demo_proofs`, the demonstration. A label of a result is right because of what is left
of the operation: `LiveInv` says of each step of an operation that its remaining calls
will give every service the fault of the scenario (`Settles`), unless a call's outcome is
unknown; and of a reset that what is left of it is an end of `Ending`, where the
Collector is drained before the graph and the window are cleared for the last time, so
that what was sent earlier is in none of the three (`ResetFollowed`). A rate is honest because
the counter read minus what was used never grows: a counter starts again at zero only
with its container, so the lead a reading has over the next bounds their difference.

- `LabelsHonestHolds`: `SuiteSpec => []LabelsHonest`.
- `RatesHonestHolds`: `SuiteSpec => []RatesHonest`, for each of its three parts.

`Telemetry_proofs`, the requests. A result may get into the cache until its owner has
left, and every deletion and refresh comes in between at will; `RequestsInv` says what
keeps those away from it. `WayGuarded`: what is on its way was not set aside, since a
refresh sets aside what is cached and nothing is both; and if it was deleted there is a
tombstone that has not expired, because time stands still from the snapshot on, before
which nobody knows the result. `CacheTrue`: what is cached was computed for its key, and
is neither deleted, set aside nor on its way. `OwnersApart` and `OneJoins` count the
threads, `FlightsFollow` says how far each one's computation is. `Delete` may drop the
oldest tombstone; `OneTombEach` and `FewTombs` (an injection from the tombstones to the
results) show that it does not while results are no more than `MaxTombstones`, which is
the one assumption a larger number of deletions within two and a half minutes breaks.

The registry. `RegistryInv` says that who is at work holds the slot, has an identifier of
its own, nothing of which is saved before its time (`AnalysesApart`), and that the status
is of the catalogue, in the registry and in the workspace (`StatusAgrees`). `AfterPut` is
about a whole put: what is left after pruning, replacing and evicting fits. That there is
a least number of catalogues to drop is `LeastOne`, by the well-foundedness of the
numbers. Both modules keep "the elements at some places" (`Kept`, with `KeptIs`) where
the library's `SelectSeq` is a fold the provers cannot open.

- `ReuseHonestHolds`: `SuiteSpec => []ReuseHonest`.
- `CatalogueHonestHolds`: `SuiteSpec => []CatalogueHonest`.

The profiles. `OnboardingInv` follows the three files of a baseline: `FilesInOrder` says
that one is begun when the one before it is done, by the same preparation, and
`WritersFollowed` that a directory has one writer, which a kill takes away for good. So
what the server finds whole is of one preparation, and between its two readings only the
provenance can change, since nobody removes a baseline then (`ServerFollowed`).
`ActivationFollowed` says that who replaces a profile has the lock, has seen what is
active, and has a whole backup of it. What the checks, the inspection and the projection
compute is proved of every input of their definitions, which are finite.

- `OnboardingSoundHolds`: `SuiteSpec => []OnboardingSound`.

The context and the observations. `ContextInv` says of the rows of the services the child
has asked (`Asked`) that an available one has every entry, since fewer came than could,
and that their entries and what remains are no more than the limit; the batch put into
the queue is those rows when all were asked, which takes that no service is listed twice,
or one that failed. `HttpInv` says that what is left of the four matrices is true of the
traffic (`MatricesTrue`) and that the verdict is of them. That the bins hold each point
once is arithmetic: `BinsFit`, of any number of points and of bins. `InOrder` puts times
in order by their rank, since the library's sorting is not open to the provers.

- `ObservationsHonestHolds`: `SuiteSpec => []ObservationsHonest`.

The collection and the decoding. Every span of the interval when the collection began is
read with its whole trace, or found by a search that is still to be made (`Coming`, the
core of `LiveInv`): chunks and halves leave nothing between them (`NothingBetween`), and
an answer below the limit has all there is (`AllOrSaturated`), whatever arrives.
`DecodingInv` says that the spans are those of the lines before what is left
(`StreamRead`), and of the walk along the parents (`WalkSound`) that no spans among those
visited have all their parents among themselves, and none of the trail without the span
that comes next. That no span of the trail is met again thus shows that there is no
cycle; one that is met makes the trail a set of the kind that `Cyclic` is about.

- `CollectionHonestHolds`: `SuiteSpec => []CollectionHonest`.

`Research_proofs`, the studies that hold out a system. What is learned carries the
groups of labels it depends on; `HoldoutInv` bounds them for each variable at each step
of the three studies, and says of the files of earlier runs that what they hold depends
on development labels only, that the files M10D accepts from M10C are of one run, that
what is ranked externally is what the freeze holds, and that a manifest whose hashes
agree is of one run.

- `HoldoutUnseenHolds`: `SuiteSpec => []HoldoutUnseen`.

`LockedCollection` and `Research_proofs`. The lemmas about the collection are proved in
its module for every study, plan and bound, and cited once for each of the four
instances. `FilesFollowed` is the heart: a line of a progress file is of the incident's
file; a sealed line is of it or of one that a later command replaced (`AsKeptOnce`); and
where index and truth both have a line, the index's is not the newer one, for the truth
is sealed first and a kill between the two leaves the older index. So where the
evaluation finds the index to agree with the files and with the incidents of the truth,
both are of the same captures (`SameCaptures`), though nothing compares them.
`CollectionFollowed` says where the collector is and that what it writes is of its own
command; `FreezeFollowed` that M14's freeze ends its collection (`guard_sealed_collection`)
and that what is ranked and opened is what it froze; `FaultsFollowed` counts faults as
long as nothing was killed or left unheard. `LockedAssumption` lets files be edited
between the commands of M14 only, whose hashes are what is claimed of edits.

- `LockedOnceHolds`: `SuiteSpec => []LockedOnce`.

`Research_proofs`, the nested validation. `FoldsAre` is about `grouped_folds`: the groups
come in any order, each to the fold that is the lightest at its turn, so repetitions stay
together (`Grouped`) and, by the turn of the last group of a fold, it is no heavier than
another by more than that group (`Balanced`). `OofApart` and `FusionSees` bound what a
ranking out of fold and a fusion have seen. `NestedInv` says that a study begins with
nothing ranked and that what it ranks carries nothing of the incident's repetitions
(`RankingsFollowed`); that the folds to do are those whose incidents are not ranked, and
that what the inner search looked at is the training part of the fold it is for
(`FoldsFollowed`); and that a file written before another in a run is of that run, as a
manifest is (`NestedFiles`). The incidents, their repetitions and roots, the numbers of
folds and the bounds are constants of `MCResearch`, which the theorem leaves open:
`NestedAssumption` asks for finitely many incidents, at least one fold, and one root for
the repetitions of an incident, which `cluster_key` has in it.

- `RepetitionsUnseenHolds`: `SuiteSpec => []RepetitionsUnseen`.

Induction. An induction theorem that takes an operator as a parameter cannot be used,
but one about a set can: `NatSetInduction` and `FiniteSetInduction` are proved from
`WFMin` of the library, and used with the set of the numbers, or of the finite sets, for
which a claim holds. What a fold or a recursive function gives follows once it is shown
to exist, which is how the sums of the quota and the flattened exports are dealt with.

Only model-checked: `DetectorSound`, which is about medians of sorted
windows and sorted spans; `DiagnosisSound` but for its two loops, and `ReplayHonest`,
which are about sorted sequences. Out of the prover's reach: liveness under fairness,
`ENABLED`, and what an operator declared `RECURSIVE` computes.

## 6. Where code and documents disagree

`RequestsRefresh`. `docs/product-architecture/ONBOARDING.md:103` says that
`force_refresh` drops the earlier answer and creates a new snapshot, and
`api_contract.py:207` that it "creates a new result". When an identical
computation is under way, `analysis_requests.py:72` lets the refresh join it. Its
answer is then a result whose collection began before the refresh was asked for.

`LiveDemoBaseline`. `docs/defense-demo-script.md:15` says that a drain barrier of the
Collector keeps stale traces out of the next incident. `GenerateTraffic` returns
without its drain when a request fails or the page gives up (`live.go:146`), and the
reset that follows starts a baseline with no drain before it: spans of the faulty
traffic that the Collector still holds become part of the baseline.

`StackedSelected`. `docs/m10c-fusion.md:8` lists "Stacked LambdaMART" among the methods
selected from. If it is selected, the study of missing families refers to
`final_meta` (`m10c_experiment.py:289`), which is defined nowhere, and the run fails
before anything is saved.

Observed while modelling, of no document's contrary, and part of the models:

- The page. A poll moves the revision the page sends while the form keeps older text,
  so the next save replaces another browser's edit (`workspace.js:402,495`). An answer
  to save or cancel that a poll overtook shows the job as active with no polls to
  follow. Text typed while a save is under way is lost; a snapshot that fails to load
  leaves the earlier session unwatched.
- `find_turn_idempotent` finds the turns of an expired investigation; `add_turn` does not.
- M14 counts attempts per process, while `docs/m14-engineering-log.md:189` calls
  the limit of two unchanged by a resume. A kill between the progress of truth and of
  index, or between the predictions and their marker, makes every later run refuse. A
  fault left by a kill is in the following incidents; replacements are undercounted.
- M12 evaluates again until its marker is written, though `docs/m12-protocol.md:60` says
  once; a freeze accepts truth and index of different runs, which the evaluation then
  refuses. Its evaluation compares the hash of the truth with the freeze's, but not that
  of the telemetry index, and a line of the truth holds neither a time nor a hash
  (`scripts/m12/run.py:256`): incidents collected again after the freeze are evaluated
  though they were not frozen, if their truth reads the same (`Reads`).
- Two sign-ins of different accounts that are completed at the same time, before there is
  a connection, both find no `connection.json` in `exchange()` of `assistant_auth.py`,
  which reads and writes it with no lock in between: both succeed, and the later one
  stays. `OneAccount` is about sign-ins one after the other.
- M10C hashes a core file that some of its systems do not write, and its choice of
  columns looks at the fitting labels of all systems. M13.1 and M11 refuse once M13 or
  M10C is run again, since the frozen results contain running times.
- A kill between the copy and the write of an activation makes later activations
  refuse, and one during a preparation leaves a directory that later ones refuse and
  the server may load as "needs review". Files that cannot be hashed after they were
  loaded end the server's start.
- `MetricSupport` is the mean of the two strongest families, so that a further, weaker
  family lowers it.

## 7. Not modelled

- The store: schema migration, checks on files and modes, `list_investigations`, the
  validation of record texts.
- The three seconds `close()` waits for the worker, and a second process at the owner
  lock. `Terminate` at any point covers what either leaves behind.
- A wall clock that goes back, and more than 256 deletions within the life of a
  tombstone. `Tick` waits for an owner between its snapshot and its cache entry:
  there is no source and no long computation between the two.
- HTTP: sessions, CSRF, parsing, messages; `HTTP contract` describes the interface.
- Runbooks and the evaluation ledger: small sequential readers and writers of files.
- What is computed and not decided: numeric features, fitting of models, metrics, plots;
  the studies before M10C; the pages of research results and the drawing of graphs.
- Reading of environments and command lines, and the text of prompts and reports.
- What is left out within a modelled component is in its note in `PROJECT.json`.

## 8. Plan

1. Proofs: `DetectorSound`, `DiagnosisSound` and `ReplayHonest` with lemmas about
   sorted sequences.
2. `OwnerLock`: `close()` with its timeout, the daemon worker, and the next process.
3. A page that takes the revision it sends from what the form was filled with, and
   `NoLostUpdate` of it.
4. The sessions of `workspace_http.py`, with their expiry against a request under way.
