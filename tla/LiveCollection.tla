----------------------------- MODULE LiveCollection -----------------------------
(***************************************************************************)
(* collect() of cmd/thesis_demo/live_sources.py: the telemetry of one      *)
(* interval.  Four metric queries, of which none may fail; a search for    *)
(* traces, which may; and the workload, measured or given.  A search that  *)
(* returns as many traces as it may return is split in two.  The backend   *)
(* takes in further spans while it is searched.                            *)
(***************************************************************************)
EXTENDS Naturals, Sequences, FiniteSets

CONSTANTS
    Spans,          \* [trace, id, svc, at], all that will ever be stored
    Present,        \* those stored when the collection begins
    QueryServices,  \* trace_query_services, candidates and aliases, in order
    Families,       \* metric queries
    End, Chunk,     \* the interval is 0..End; TRACE_CHUNK_SECONDS
    LIMIT, MaxQueries, MaxBytes, MaxSpans

LiveAssumption ==
    /\ IsFiniteSet(Spans) /\ Present \subseteq Spans
    /\ QueryServices \in Seq({QueryServices[n] : n \in DOMAIN QueryServices})
    /\ \A s \in Spans : s.at \in Nat
    /\ End \in Nat \ {0} /\ Chunk \in Nat \ {0}
    /\ LIMIT \in Nat \ {0}
    /\ MaxQueries \in Nat /\ MaxBytes \in Nat /\ MaxSpans \in Nat

VARIABLES
    fixed,          \* fixed_rps is given
    backend,        \* spans stored
    stage,          \* "metrics", "traces", "workload", "done", "failed"
    families,       \* metric queries answered
    todo,           \* searches to do: [svc, left, right]
    queries, bytes, \* searches made; what is left of the 64 MiB
    expired,        \* the 120 seconds are over
    found,          \* TraceAccumulator: identities of spans
    traceError,
    received        \* history: bytes of all answers taken

vars == <<fixed, backend, stage, families, todo, queries, bytes, expired, found, traceError,
          received>>

Identity(s) == <<s.trace, s.id>>

\* Per service, the whole interval: the searches are made of it chunk by chunk.
AllSearches ==
    [n \in DOMAIN QueryServices |-> [svc |-> QueryServices[n], left |-> 0, right |-> End]]
First(s) == IF s.left + Chunk < s.right THEN [s EXCEPT !.right = s.left + Chunk] ELSE s
Later(s) == IF s.left + Chunk < s.right THEN <<[s EXCEPT !.left = s.left + Chunk]>> ELSE <<>>

\* Both ends belong to the interval: v3_query adds the microsecond that the
\* exclusive bound of that API leaves out.
Matches(search, s) == s.svc = search.svc /\ search.left <= s.at /\ s.at <= search.right

\* A search finds traces, with all their spans, LIMIT of them at most.
Answers(search) ==
    LET hits == {s.trace : s \in {s \in backend : Matches(search, s)}}
    IN {got \in SUBSET hits : Cardinality(got) = IF Cardinality(hits) < LIMIT
                                                 THEN Cardinality(hits) ELSE LIMIT}

-----------------------------------------------------------------------------
(* Requests *)

\* _remaining and the check of the budget, before each request.
MayAsk == ~expired /\ bytes > 0

\* _get_payload: an answer that fits what is left of the budget.
Take(size) == size <= bytes /\ bytes' = bytes - size /\ received' = received + size

Metric ==
    /\ stage = "metrics" /\ families < Families
    /\ \/ /\ MayAsk /\ Take(1) /\ families' = families + 1
          /\ IF families' = Families THEN stage' = "traces" /\ todo' = AllSearches
             ELSE UNCHANGED <<stage, todo>>
       \/ /\ stage' = "failed" /\ UNCHANGED <<families, todo, bytes, received>>
    /\ UNCHANGED <<backend, queries, expired, found, traceError>>

\* Whatever is wrong with the traces, there are none.
GiveUp ==
    /\ stage' = "workload" /\ traceError' = TRUE /\ todo' = <<>>
    /\ found' = {}

SearchFails ==
    /\ stage = "traces" /\ todo # <<>>
    /\ GiveUp /\ queries' = queries + (IF MayAsk /\ queries < MaxQueries THEN 1 ELSE 0)
    /\ UNCHANGED <<backend, families, bytes, expired, received>>

\* Mutant: as many as the limit are taken for all there are.
SaturatedLate(got) == Cardinality(got) > LIMIT
Saturated(got) == Cardinality(got) >= LIMIT

Halves(s) ==
    LET middle == (s.left + s.right) \div 2
    IN <<[s EXCEPT !.right = middle], [s EXCEPT !.left = middle]>>

\* TraceAccumulator.add of each trace: a span that is read again is the same.
Add(spans, rest) ==
    LET all == found \cup {Identity(x) : x \in spans}
    IN IF Cardinality(all) > MaxSpans THEN GiveUp
       ELSE found' = all /\ todo' = rest /\ UNCHANGED <<stage, traceError>>

\* _jaeger_interval, one request of it; at a second a full answer is an error.
Search ==
    /\ stage = "traces" /\ todo # <<>> /\ MayAsk /\ queries < MaxQueries
    /\ LET s == First(Head(todo))
           rest == Later(Head(todo)) \o Tail(todo) IN
       \E got \in Answers(s) :
          LET spans == {x \in backend : x.trace \in got}
          IN /\ Take(1 + Cardinality(spans))
             /\ IF Saturated(got)
                THEN IF s.right - s.left <= 1 THEN GiveUp
                     ELSE todo' = Halves(s) \o rest /\ UNCHANGED <<stage, found, traceError>>
                ELSE Add(spans, rest)
    /\ queries' = queries + 1
    /\ UNCHANGED <<backend, families, expired>>

\* canonicalize_jaeger and the checks on its result accept the traces.
Searched ==
    /\ stage = "traces" /\ todo = <<>> /\ stage' = "workload"
    /\ UNCHANGED <<backend, families, todo, queries, bytes, expired, found, traceError,
                   received>>

Workload ==
    /\ stage = "workload"
    /\ \/ fixed /\ stage' = "done" /\ UNCHANGED <<bytes, received>>
       \/ ~fixed /\ MayAsk /\ Take(1) /\ stage' = "done"
       \/ ~fixed /\ stage' = "failed" /\ UNCHANGED <<bytes, received>>
    /\ UNCHANGED <<backend, families, todo, queries, expired, found, traceError>>

-----------------------------------------------------------------------------
Arrive ==
    /\ \E s \in Spans \ backend : backend' = backend \cup {s}
    /\ UNCHANGED <<fixed, stage, families, todo, queries, bytes, expired, found,
                   traceError, received>>

Expire ==
    /\ ~expired /\ expired' = TRUE
    /\ UNCHANGED <<fixed, backend, stage, families, todo, queries, bytes, found,
                   traceError, received>>

Init ==
    /\ fixed \in BOOLEAN
    /\ backend = Present /\ stage = "metrics" /\ families = 0 /\ todo = <<>>
    /\ queries = 0 /\ bytes = MaxBytes /\ expired = FALSE /\ found = {}
    /\ traceError = FALSE /\ received = 0

Step == UNCHANGED fixed /\ (Metric \/ SearchFails \/ Search \/ Searched \/ Workload)
Next == Step \/ Arrive \/ Expire

\* Every request is answered or times out.
Spec == Init /\ [][Next]_vars /\ WF_vars(Step)

-----------------------------------------------------------------------------
(* Properties *)

\* The traces of a result are all there were, of any queried service and up to
\* both ends of the interval, or they are said to be unavailable: a search that
\* was cut off at its limit never leaves some out in silence.
CompleteOrUnavailable ==
    stage = "done" /\ ~traceError =>
        \A s \in Present :
            (\E t \in Present : t.trace = s.trace /\ t.at \in 0..End
                                /\ \E n \in DOMAIN QueryServices : QueryServices[n] = t.svc)
                => Identity(s) \in found

\* Searches and bytes stay within their budgets, however often searches split.
WithinBudgets == queries <= MaxQueries /\ received <= MaxBytes

\* With a given workload nothing that befalls the trace source fails the whole
\* collection: the metrics are still ranked.
TracesAreOptional == fixed /\ stage = "failed" => families < Families

\* A collection ends, also while the backend takes in spans.
CollectionEnds == <>(stage \in {"done", "failed"})
=============================================================================
