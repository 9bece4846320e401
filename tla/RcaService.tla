------------------------------ MODULE RcaService ------------------------------
(***************************************************************************)
(* The RCA service: the OTLP receiver (internal/rca/receiver.go), which    *)
(* hands the spans that the trace store accepted to the detector, the      *)
(* debugging requests, and a diagnosis, which reads both                   *)
(* (internal/rca/diagnosis.go).  Store and detector have a lock each; what *)
(* a request does between them is not atomic.                              *)
(***************************************************************************)
EXTENDS TraceGraph

CONSTANTS
    Threads,       \* concurrent Export calls
    IsServer(_),   \* server spans of operations that are not ignored
    SpanFailed(_),
    MinBaseline, MaxBaseline, Window, MinCurrent, ErrorThreshold,
    MaxExports     \* Export calls (bound)

VARIABLES
    phase, samples, baseline, current, log,   \* the detector
    export,        \* Export calls: step and spans still to be observed
    owner,         \* the call that holds the store's lock
    exports,       \* calls begun
    reader,        \* a diagnosis: step and what it has read
    observed       \* samples handed to the detector, with how often

Sample == [span : Span, episode : Nat]
detector == <<phase, samples, baseline, current, log>>
D == INSTANCE Detector WITH
        Keys <- Services, Samples <- Sample,
        Failed <- LAMBDA x : SpanFailed(x.span), MaxObserved <- MaxExports,
        Latency <- LAMBDA x : 0, LatencyThreshold <- 1, ScaleEpsilon <- 1

svars == <<vars, detector, export, owner, exports, reader, observed>>

-----------------------------------------------------------------------------
(* Export *)

Export(t) ==
    /\ export[t].pc = "idle" /\ exports < MaxExports
    /\ Begin
    /\ owner' = t /\ exports' = exports + 1
    /\ export' = [export EXCEPT ![t].pc = "ingest"]
    /\ UNCHANGED <<detector, reader, observed>>

Ingest == Take /\ UNCHANGED <<detector, export, owner, exports, reader, observed>>

\* The lock is released with the result.
Ingested ==
    /\ End
    /\ export' = [export EXCEPT ![owner] = [pc |-> "observe", todo |-> accepted]]
    /\ owner' = NONE
    /\ UNCHANGED <<detector, exports, reader, observed>>

\* ObserveSpan of the next accepted span; the detector sees server spans only.
ObserveSpan(t) ==
    /\ export[t].pc = "observe" /\ export[t].todo # <<>>
    /\ LET sample == Head(export[t].todo)
       IN IF IsServer(sample.span)
          THEN /\ D!Observe(sample.span.service, sample)
               /\ observed' = Append(observed, sample)
          ELSE UNCHANGED <<detector, observed>>
    /\ export' = [export EXCEPT ![t].todo = Tail(@)]
    /\ UNCHANGED <<vars, owner, exports, reader>>

Exported(t) ==
    /\ export[t].pc = "observe" /\ export[t].todo = <<>>
    /\ export' = [export EXCEPT ![t].pc = "idle"]
    /\ UNCHANGED <<vars, detector, owner, exports, reader, observed>>

-----------------------------------------------------------------------------
(* Requests *)

\* /debug/reset empties the store and leaves the detector alone.
DebugReset == Reset /\ UNCHANGED <<detector, export, owner, exports, reader, observed>>

\* /debug/baseline/start, /debug/baseline/freeze, /debug/anomaly/reset
DebugBaseline ==
    /\ D!StartBaseline \/ D!FreezeBaseline \/ D!ResetCurrent
    /\ UNCHANGED <<vars, export, owner, exports, reader, observed>>

NoReading == [pc |-> "idle", refs |-> {}, traces |-> {}]

\* Features(): the graph, then the detector's current samples, then the traces
\* of these samples; each under its own lock.
ReadGraph ==
    /\ reader.pc = "idle" /\ Read
    /\ reader' = [NoReading EXCEPT !.pc = "graph"]
    /\ UNCHANGED <<detector, export, owner, exports, observed>>
CurrentRefs == UNION {{current[k][n] : n \in DOMAIN current[k]} : k \in Services}
ReadSamples ==
    /\ reader.pc = "graph"
    /\ reader' = [reader EXCEPT !.pc = "samples", !.refs = CurrentRefs]
    /\ UNCHANGED <<vars, detector, export, owner, exports, observed>>

ReadTraces ==
    /\ reader.pc = "samples" /\ Read
    /\ reader' = [reader EXCEPT !.pc = "answered",
                    !.traces = UNION {spans'[x.span.trace] : x \in reader.refs}]
    /\ UNCHANGED <<detector, export, owner, exports, observed>>

\* Samples whose server span is in the traces count as covered.
Covered == {x \in reader.refs :
    \E s \in reader.traces : s.trace = x.span.trace /\ s.id = x.span.id}

Answer ==
    /\ reader.pc = "answered"
    /\ reader' = NoReading
    /\ UNCHANGED <<vars, detector, export, owner, exports, observed>>

\* Time passes, also between the steps of a request.
Age == Tick /\ UNCHANGED <<detector, export, owner, exports, reader, observed>>

ServiceInit ==
    /\ Init /\ D!Init
    /\ export = [t \in Threads |-> [pc |-> "idle", todo |-> <<>>]]
    /\ owner = NONE /\ exports = 0 /\ reader = NoReading /\ observed = <<>>

ServiceNext ==
    \/ \E t \in Threads : Export(t) \/ ObserveSpan(t) \/ Exported(t)
    \/ Ingest \/ Ingested \/ DebugReset \/ DebugBaseline
    \/ ReadGraph \/ ReadSamples \/ ReadTraces \/ Answer \/ Age

ServiceSpec == ServiceInit /\ [][ServiceNext]_svars

-----------------------------------------------------------------------------
(* Properties *)

\* What the detector has seen was accepted by the store, each span once for
\* each time the store took its trace in, whatever the exporters repeat.
ObservedOnce ==
    \A m, n \in DOMAIN observed : observed[m] = observed[n] => m = n

\* A diagnosis misses the span of a sample only where the trace was dropped: a
\* span that arrives while it reads is never a sample without a trace.
MissingWereDropped ==
    reader.pc = "answered" =>
        \A x \in reader.refs \ Covered : x.episode < episode[x.span.trace]

\* What the graph tells is exact in whatever order, how often and from however
\* many threads spans arrive: spans are distinct, an edge counts exactly the
\* calls between stored spans of two services, an observation is made once for a
\* span, a trace outside the store holds nothing, and a trace a reader misses
\* was dropped meanwhile.
GraphSound ==
    /\ GraphTypeOK
    /\ SpansDistinct
    /\ OnlyLiveHeld
    /\ EdgesCountCalls
    /\ EdgesSound
    /\ ObservedOnce
    /\ MissingWereDropped

-----------------------------------------------------------------------------
(* What every step keeps, and the safety properties follow from. *)

\* A sample comes from the store, which holds its span until it drops the trace.
Known(x) ==
    /\ x \in Sample /\ x.episode <= episode[x.span.trace]
    /\ x.episode = episode[x.span.trace] => x.span \in spans[x.span.trace]

SamplesKnown ==
    /\ phase \in {"empty", "collecting", "frozen"}
    /\ \A n \in DOMAIN accepted : Known(accepted[n])
    /\ observed \in Seq(Sample) /\ \A n \in DOMAIN observed : Known(observed[n])
    /\ export \in [Threads -> [pc : {"idle", "ingest", "observe"}, todo : Seq(Sample)]]
    /\ \A t \in Threads : \A n \in DOMAIN export[t].todo : Known(export[t].todo[n])
    /\ current \in [Services -> Seq(Sample)]
    /\ \A k \in Services : \A n \in DOMAIN current[k] : Known(current[k][n])
    /\ reader \in [pc : {"idle", "graph", "samples", "answered"}, refs : SUBSET Sample,
                   traces : SUBSET Span]
    /\ \A x \in reader.refs : Known(x)

\* A sample is on its way to the detector in one place only, and there once.
Once(list) == \A m, n \in DOMAIN list : list[m] = list[n] => m = n
Apart(list, other) == \A m \in DOMAIN list, n \in DOMAIN other : list[m] # other[n]
HandedOnce ==
    /\ Once(observed)
    /\ \A t \in Threads : Once(export[t].todo) /\ Apart(observed, export[t].todo)
    /\ \A t, u \in Threads : t # u => Apart(export[t].todo, export[u].todo)
    /\ batch # NONE =>
         /\ Once(accepted) /\ Apart(accepted, observed)
         /\ \A t \in Threads : Apart(accepted, export[t].todo)

ServiceInv == HistoryInv /\ EdgesInv /\ StoreInv /\ SamplesKnown /\ HandedOnce
              /\ MissingWereDropped
=============================================================================
