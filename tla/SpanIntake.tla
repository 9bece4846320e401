------------------------------- MODULE SpanIntake -------------------------------
(***************************************************************************)
(* What an OTLP export becomes (internal/rca/receiver.go and anomaly.go):  *)
(* a span is refused, a repetition, or one that is stored; the detector is *)
(* told of those of them that are requests of the application.             *)
(***************************************************************************)
EXTENDS Integers, Sequences, SequencesExt, FiniteSetsExt

CONSTANTS
    Requests,     \* what one export holds: a sequence of resources, each with the
                  \* service name it gives and its spans
    Half,         \* 2^63
    NONE, MaxExports

SentSpans == [trace : STRING, id : STRING, parent : STRING, kind : STRING,
              path : STRING, statuses : Seq(Nat), error : BOOLEAN,
              start : Nat, end : Nat]
IntakeAssumption ==
    /\ Half \in Nat \ {0}
    /\ Requests \subseteq Seq([service : STRING, spans : Seq(SentSpans)])

VARIABLES
    stored,       \* identities in the trace store
    observations, \* what the detector was told, and took
    stats,        \* Stats()
    response,     \* rejected spans of the last export
    sent,         \* history: spans sent, and the requests among those stored
    exports

vars == <<stored, observations, stats, response, sent, exports>>

\* time.Time{}, the year 1, is before whatever a span may say.
Zero == 0 - 4 * Half
unixNano(v) == IF v = 0 THEN Zero ELSE IF v < Half THEN v ELSE v - 2 * Half

Duration(span) ==
    LET start == unixNano(span.start)
        end == unixNano(span.end)
    IN IF start # Zero /\ end >= start THEN end - start ELSE 0

validID(id) == id \notin {"short", "zero"}

\* The last of the attributes' old and new names is what counts.
StatusOf(span) == FoldLeft(LAMBDA old, new : new, 0, span.statuses)

normalizeSpan(service, span) ==
    IF /\ service # "" /\ validID(span.trace) /\ validID(span.id)
       /\ span.parent = "none" \/ validID(span.parent)
    THEN [trace |-> span.trace, id |-> span.id, service |-> service, kind |-> span.kind,
          path |-> span.path, status |-> StatusOf(span), error |-> span.error,
          duration |-> Duration(span)]
    ELSE NONE

Normalized(request) ==
    FlattenSeq([n \in DOMAIN request |->
        [m \in DOMAIN request[n].spans |->
            normalizeSpan(request[n].service, request[n].spans[m])]])

Identity(span) == <<span.trace, span.id>>

\* Ingest: the store as it was before each span of the export decides.
Fresh(spans, n) ==
    /\ spans[n] # NONE /\ Identity(spans[n]) \notin stored
    /\ \A m \in 1..(n - 1) : spans[m] # NONE => Identity(spans[m]) # Identity(spans[n])

\* What ObserveSpan tells the detector: server spans of named operations, health
\* and fault controls not.
Business(span) == span.kind = "server" /\ span.path = "business"

Observation(span) ==
    [span |-> Identity(span), latency |-> span.duration,
     failed |-> IF span.status = 0 THEN span.error ELSE span.status >= 500]

\* Observe() of the detector, while it collects: no negative latency.
Observed(spans) ==
    {Observation(spans[n]) : n \in {n \in DOMAIN spans :
        Fresh(spans, n) /\ Business(spans[n]) /\ spans[n].duration >= 0}}

Ignored(spans) == Quantify(DOMAIN spans, LAMBDA n : spans[n] = NONE)

Export(request) ==
    LET spans == Normalized(request)
        fresh == {n \in DOMAIN spans : Fresh(spans, n)}
        size == Cardinality(fresh)
    IN /\ exports < MaxExports /\ exports' = exports + 1
       /\ stored' = stored \cup {Identity(spans[n]) : n \in fresh}
       /\ observations' = observations \cup Observed(spans)
       /\ stats' = [received |-> stats.received + size,
                    duplicates |-> stats.duplicates
                        + Quantify(DOMAIN spans, LAMBDA n : spans[n] # NONE) - size,
                    ignored |-> stats.ignored + Ignored(spans)]
       /\ response' = Ignored(spans)
       /\ sent' = [spans |-> sent.spans + Len(spans), refused |-> Len(spans) - size,
                   business |-> sent.business \cup
                        {Identity(spans[n]) : n \in {n \in fresh :
                            spans[n].kind = "server" /\ spans[n].path = "business"}}]

Init ==
    /\ stored = {} /\ observations = {} /\ exports = 0 /\ response = 0
    /\ stats = [received |-> 0, duplicates |-> 0, ignored |-> 0]
    /\ sent = [spans |-> 0, refused |-> 0, business |-> {}]

Next == \E request \in Requests : Export(request)
Spec == Init /\ [][Next]_vars

-----------------------------------------------------------------------------
(* Properties *)

\* Every span that was sent is counted once, as stored, repeated or refused; the
\* last answer told the exporter of no more than were not stored.
EverySpanCounted ==
    /\ stats.received + stats.duplicates + stats.ignored = sent.spans
    /\ stats.received = Cardinality(stored)
    /\ response <= sent.refused

\* Every request of the application that was stored reaches the detector once,
\* whatever its times are, and nothing else does.
RequestsReachDetector ==
    /\ {o.span : o \in observations} = sent.business
    /\ Cardinality(observations) = Cardinality(sent.business)

-----------------------------------------------------------------------------
(* What every step keeps, and the safety properties follow from. *)

IntakeTypes ==
    /\ stats \in [received : Nat, duplicates : Nat, ignored : Nat]
    /\ sent.spans \in Nat /\ sent.refused \in Nat /\ response \in Nat
    /\ IsFiniteSet(stored) /\ IsFiniteSet(sent.business)

\* An observation is of one stored request, and there is one for each.
ObservationsFollowed ==
    /\ sent.business \subseteq stored
    /\ \A o, p \in observations : o.span = p.span => o = p

IntakeInv == IntakeTypes /\ EverySpanCounted /\ RequestsReachDetector
             /\ ObservationsFollowed
=============================================================================
