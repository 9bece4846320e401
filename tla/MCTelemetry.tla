-------------------------- MODULE MCTelemetry --------------------------------
(****************************************************************************)
(* The parts that read and keep telemetry: the live collection, the         *)
(* decoding of traces, the context of logs, the observations of requests,   *)
(* the registry of evidence, the sharing and reuse of live analyses, and    *)
(* the commands and the server that bring a profile into use. A behaviour   *)
(* is one of a part; the variables of the others keep initial values.       *)
(****************************************************************************)
EXTENDS Integers, Sequences, FiniteSets

CONSTANTS NONE, c1, c2, c3, k2, f2, d0, d1, Nobody, Replayer

\* What the parts are checked with, and may be anything that their modules assume.
CONSTANTS LiveSpans, LivePresent, LiveServices, LiveFamilies, LiveEnd, LiveChunk,
     LiveLimit, LiveQueries, LiveBytes, LiveMaxSpans, StreamLines, LineStreams,
     NoSpan, StreamSpans
CONSTANTS LogServices, LogStores, LogStart, LogEnd, MaxRecords, Timeout, Stamps,
     MaxBins, MaxLosses
CONSTANTS Threads, MaxAnalyses, MaxEntries, MaxBytes, MaxEntryBytes, Ttl, Sizes,
     MaxTime, Callers, Keys, Flights, ReuseTtl, Wait, Entries, MaxTombstones,
     MaxClock, Docs, Shipped, Dirs, ID, Operators, MaxPreparations, MaxKills

\* Traces at the ends and the middle of the interval, one of them of two services
\* of which the other is outside; two more spans arrive late.
Stored(t, i, v, at) == [trace |-> t, id |-> i, svc |-> v, at |-> at]
SearchedServices == <<"a", "b">>
EarlySpans == {Stored(1, 1, "a", 0), Stored(1, 2, "x", 5), Stored(2, 1, "a", 2),
               Stored(3, 1, "a", 4), Stored(4, 1, "b", 4)}
AllSpans == EarlySpans \cup {Stored(4, 2, "a", 2), Stored(5, 1, "a", 1)}

\* Three lines, blank and malformed ones among them, of spans that may form cycles.
SpanLines == {[kind |-> "spans", spans |-> {[id |-> i, parent |-> p]}] : i \in 1..3, p \in 0..3}
BadLine == [kind |-> "bad", spans |-> {}]
BlankLine == [kind |-> "blank", spans |-> {}]
AllLines == SpanLines \cup {BlankLine, BadLine}
Streams ==
    {<<a, b, c>> : a \in SpanLines, b \in AllLines,
                   c \in SpanLines \cup {BadLine}}
    \cup {<<>>, <<BlankLine>>}

Entry(t, n, k) == [at |-> t, n |-> n, ok |-> k]
ContextEntries == {Entry(0, 1, TRUE), Entry(1, 1, TRUE), Entry(1, 2, FALSE),
                   Entry(2, 1, TRUE), Entry(3, 1, TRUE)}
ContextServices == <<"a", "b">>
ContextStores == [{"a", "b"} -> {s \in SUBSET ContextEntries : Cardinality(s) <= 3}]

\* The profile that was shipped, one for it with a baseline of its own, another
\* with the same directory, and one of other services with the shipped baseline.
Profile(id, contract, universe, map, dir) ==
    [id |-> id, contract |-> contract, universe |-> universe, map |-> map, dir |-> dir]
MCShipped == Profile("shop", 0, "ab", "none", d0)
Candidate == Profile("shop", 1, "ab", "reviewed", d1)
CommandDocs == {MCShipped, Candidate, Profile("shop", 2, "ab", "reviewed", d1)}
ServingDocs == CommandDocs \cup {Profile("other", 3, "b", "reviewed", d0),
                               Profile("shop", 4, "ab", "wrong", d1)}

VARIABLES part, fixed, backend, stage, families, todo, queries, bytes, expired,
     found, traceError, received, lines, left, envelopes,
     spans, step, visited, trail, cursor, stored, child, next, remaining,
     rows, queue, elapsed, result, world, presence, rps, ratio, p95, losses,
     state, entries, slot, at, ids, status, saved, deleting, deleted, now,
     clock, cache, pending, tombstones, reuseSlot, flights, caller, evicted,
     flushed, draft, active, history, lock, baseline, made, op, server, past,
     kills

-----------------------------------------------------------------------------
Live == INSTANCE LiveCollection WITH Spans <- LiveSpans, Present <- LivePresent,
     QueryServices <- LiveServices, Families <- LiveFamilies, End <- LiveEnd,
     Chunk <- LiveChunk, LIMIT <- LiveLimit, MaxQueries <- LiveQueries,
     MaxBytes <- LiveBytes, MaxSpans <- LiveMaxSpans
Decoding == INSTANCE TraceDecoding WITH Lines <- StreamLines, Stream <- LineStreams,
     NoParent <- NoSpan, MaxSpans <- StreamSpans
Sources == INSTANCE Enrichments WITH Services <- LogServices, Backends <- LogStores,
     Start <- LogStart, End <- LogEnd
Registry == INSTANCE EvidenceRegistry
Requests == INSTANCE AnalysisRequests WITH slot <- reuseSlot, Ttl <- ReuseTtl
Onboarding == INSTANCE ProfileOnboarding
ASSUME InstancesAssumption ==
    Live!LiveAssumption /\ Decoding!DecodingAssumption
    /\ Sources!EnrichmentsAssumption /\ Registry!RegistryAssumption
    /\ Requests!RequestsAssumption
    /\ Onboarding!OnboardingAssumption

-----------------------------------------------------------------------------
liveVars == <<fixed, backend, stage, families, todo, queries, bytes, expired, found,
     traceError, received>>
decodingVars == <<lines, left, envelopes, spans, step, visited, trail, cursor>>
contextVars == <<stored, child, next, remaining, rows, queue, elapsed, result>>
httpVars == <<world, presence, rps, ratio, p95, losses, state>>
registryVars == <<entries, slot, at, ids, status, saved, deleting, deleted,
     now>>
reuseVars == <<clock, cache, pending, tombstones, reuseSlot, flights, caller,
     evicted, flushed>>
onboardingVars == <<draft, active, history, lock, baseline, made, op, server,
     past, kills>>

Parts == {"collection", "decoding", "context", "http",
     "registry", "requests", "crowd", "onboarding", "serving"}
SuiteInit ==
    /\ part \in Parts
    /\ IF part = "collection" THEN TRUE
       ELSE fixed = FALSE
    /\ Live!Init
    /\ IF part = "decoding" THEN TRUE
       ELSE lines = <<>>
    /\ Decoding!Init
    /\ IF part = "context" THEN TRUE
       ELSE stored = [s \in Sources!Selected |-> {}]
    /\ Sources!ContextInit
    /\ IF part = "http" THEN TRUE
       ELSE world = [t \in Stamps |-> "idle"]
    /\ Sources!HttpInit
    /\ Registry!Init
    /\ Requests!Init
    /\ IF part = "onboarding" THEN draft \in CommandDocs
       ELSE IF part = "serving" THEN TRUE
       ELSE draft = Candidate /\ active = NONE
    /\ Onboarding!Init

SuiteNext ==
    /\ UNCHANGED part
    /\ \/ part = "collection" /\ Live!Next
       \/ part = "decoding" /\ Decoding!Next
       \/ part = "context" /\ Sources!ContextNext
       \/ part = "http" /\ Sources!HttpNext
       \/ part = "registry" /\ Registry!Next
       \/ part = "requests" /\ Requests!Next /\ caller'[c3] = caller[c3]
       \/ part = "crowd" /\ Requests!Next /\ clock' = clock
             /\ flights'[f2] = flights[f2] /\ \A c \in Callers : caller'[c].key # k2
       \/ part = "onboarding" /\ Onboarding!Next /\ draft' \in CommandDocs
             /\ server' = server
       \/ part = "serving" /\ Onboarding!Next /\ op'[c2] = op[c2]
    /\ IF part = "collection" THEN TRUE ELSE UNCHANGED liveVars
    /\ IF part = "decoding" THEN TRUE ELSE UNCHANGED decodingVars
    /\ IF part = "context" THEN TRUE ELSE UNCHANGED contextVars
    /\ IF part = "http" THEN TRUE ELSE UNCHANGED httpVars
    /\ IF part = "registry" THEN TRUE ELSE UNCHANGED registryVars
    /\ IF part \in {"requests", "crowd"} THEN TRUE ELSE UNCHANGED reuseVars
    /\ IF part \in {"onboarding", "serving"} THEN TRUE ELSE UNCHANGED onboardingVars

suiteVars == <<part, liveVars, decodingVars, contextVars, httpVars,
     registryVars, reuseVars, onboardingVars>>
SuiteSpec ==
    /\ SuiteInit /\ [][SuiteNext]_suiteVars
    /\ WF_liveVars(part = "collection" /\ Live!Step)
    /\ WF_decodingVars(part = "decoding" /\ Decoding!Next)
    /\ WF_contextVars(part = "context" /\ Sources!Parent)

-----------------------------------------------------------------------------
(* Properties *)

\* What is read of traces is all of them or is said to be unavailable: a search
\* cut off at its limit, a line that cannot be read or a cycle of parents never
\* leaves some out in silence, while budgets are kept and, with a given
\* workload, nothing that befalls the traces fails the metrics.
CollectionHonest ==
    /\ part = "collection" =>
         /\ Live!CompleteOrUnavailable
         /\ Live!WithinBudgets
         /\ Live!TracesAreOptional
    /\ part = "decoding" =>
         /\ Decoding!AllOrError
         /\ Decoding!CyclesRefused

\* A service whose context is available has every entry of the interval, a late
\* batch has none, and all of them together no more than one may have; a verdict
\* about the traffic of a service is true of what it did, whatever was lost on
\* the way, and its bins hold each point once.
ObservationsHonest ==
    /\ part = "context" =>
         /\ Sources!AvailableIsComplete
         /\ Sources!WithinRecordLimit
         /\ Sources!WholeBatch
    /\ part = "http" =>
         /\ Sources!VerdictIsTrue
         /\ Sources!BinsPartition
         /\ Sources!ObservedCoversTraffic

\* The registry keeps within its bounds and has one version of a catalogue; the
\* status of a result agrees with the catalogue a client gets for it, from the
\* registry or from the workspace; and a confirmed deletion is one for every
\* reader.
CatalogueHonest ==
    part = "registry" =>
        /\ Registry!RegistryBounded
        /\ Registry!StatusTellsCatalogue
        /\ Registry!DeletedNotServed

\* One thread computes at a time, and it alone holds the place and the slot; an
\* answer, cached, joined or computed, was computed for the key that was asked;
\* a result whose deletion has returned is not in the cache, also when it was on
\* its way there; and what a refresh set aside nobody gets as a new answer.
ReuseHonest ==
    part \in {"requests", "crowd"} =>
        /\ Requests!RequestsTypeOK
        /\ Requests!OneComputation
        /\ Requests!ReuseWithinScope
        /\ Requests!DeletedNotCached
        /\ Requests!NoStaleFallback

\* Every profile that was in use can be taken back, none is replaced that the
\* operator has not seen, a bound baseline is of one preparation, and answers
\* come from the expectations of the profile, though commands run side by side
\* and are killed, and people edit and remove files. A profile the check calls
\* ready is one the preparation accepts, what an inspection reports is what a
\* collection will meet, and a provider is told of a baseline what the operator
\* is shown.
OnboardingSound ==
    part \in {"onboarding", "serving"} =>
        /\ Onboarding!HistoryWhole
        /\ Onboarding!NothingLost
        /\ Onboarding!BaselineOfOne
        /\ Onboarding!AnswersBound
        /\ Onboarding!ReadyPrepares
        /\ Onboarding!InspectionTells
        /\ Onboarding!ProjectionFaithful

\* A collection ends while the backend takes in spans, the check for cycles ends
\* whatever the parents are, and the reader of a context gets its answer with
\* the child gone, whatever the store does. On the way an analysis can read back
\* what it has put in the registry until it ends.
TelemetryEnds ==
    /\ Registry!ReadBack
    /\ part = "collection" => Live!CollectionEnds
    /\ part = "decoding" => Decoding!CheckEnds
    /\ part = "context" => Sources!ProbeEnds
=============================================================================
