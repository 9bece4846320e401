---------------------------- MODULE DiagnosisLoops ----------------------------
(***************************************************************************)
(* The two loops of internal/diagnosis, a step each.  AffectedServices of  *)
(* topology.go: the services that a fault of a candidate would reach,      *)
(* which are its direct and indirect callers; the search keeps what it     *)
(* visited and a queue, whose order is left open.  ExclusiveObserved of    *)
(* trace.go: how much of a server span its service spent waiting for the   *)
(* calls it made below it, and so how much was its own; the calls may      *)
(* overlap, stick out of the server span, have ends before their starts,   *)
(* and parents that form a cycle.                                          *)
(***************************************************************************)
EXTENDS Integers, FiniteSets, FiniteSetsExt

CONSTANTS
    Services,
    Traces,       \* inputs: sets of spans with distinct identifiers
    ServerId      \* the span asked for

Span == [id : STRING, parent : STRING, service : STRING,
         kind : {"server", "client", "internal", "other"}, start : Nat, end : Nat]
ASSUME TracesAssumption == Traces \subseteq SUBSET Span

-----------------------------------------------------------------------------
(* AffectedServices *)

VARIABLES
    candidate, edges,     \* the input: edges <<caller, callee>>
    visited, queue        \* queue: services whose callers are still to be seen

affectedVars == <<candidate, edges, visited, queue>>

Callers(s) == {a \in Services : <<a, s>> \in edges}

AffectedInit ==
    /\ candidate \in Services /\ edges \in SUBSET (Services \X Services)
    /\ visited = {candidate} /\ queue = {candidate}

\* Mutant: the search goes no further where it meets a service again.
VisitUntilMet(s) ==
    /\ visited' = visited \cup Callers(s)
    /\ queue' = IF Callers(s) \cap visited = {} THEN (queue \ {s}) \cup Callers(s)
                ELSE queue \ {s}
Visit(s) ==
    /\ visited' = visited \cup Callers(s)
    /\ queue' = (queue \ {s}) \cup (Callers(s) \ visited)

AffectedNext ==
    /\ \E s \in queue : Visit(s)
    /\ UNCHANGED <<candidate, edges>>

AffectedSpec == AffectedInit /\ [][AffectedNext]_affectedVars /\ WF_affectedVars(AffectedNext)

-----------------------------------------------------------------------------
(* Properties of the search *)

AffectedTypeOK ==
    /\ candidate \in Services /\ edges \in SUBSET (Services \X Services)
    /\ visited \in SUBSET Services /\ queue \in SUBSET visited

\* A set of services that holds the candidate and every caller of its members.
ClosedUnderCallers(S) ==
    candidate \in S /\ \A e \in edges : e[2] \in S => e[1] \in S

\* When the search ends it has the smallest such set, also where the calls form
\* a cycle: no service that depends on the candidate is missing, and no other
\* is there.
AffectedExact ==
    queue = {} =>
        /\ ClosedUnderCallers(visited)
        /\ \A S \in SUBSET Services : ClosedUnderCallers(S) => visited \subseteq S

\* The search ends, whatever cycles the calls form.
SearchEnds == <>(queue = {})

-----------------------------------------------------------------------------
(* ExclusiveObserved *)

VARIABLES
    trace, pc,
    found,        \* the intervals collected
    rest,         \* those still to be merged
    current,      \* the interval under construction
    total         \* the length of those finished

vars == <<trace, pc, found, rest, current, total>>

Interval == [start : Nat, end : Nat]

-----------------------------------------------------------------------------
(* The spans below the server span *)

Server == CHOOSE s \in trace : s.id = ServerId
\* ExclusiveObserved refuses a span that is not there, not a server's, or empty.
Valid ==
    \E s \in trace : s.id = ServerId /\ s.kind = "server" /\ s.end > s.start

Children(spans) == {c \in trace : \E s \in spans : c.parent = s.id}
Below == FoldSet(LAMBDA n, below : below \cup Children(below \cup {Server}),
                 {}, 1..Cardinality(trace))

Cut(s) == [start |-> Max({s.start, Server.start}), end |-> Min({s.end, Server.end})]

\* Client spans of the same service, cut to the server span.
Waits ==
    {i \in {Cut(s) : s \in {c \in trace : c \in Below /\ c.kind = "client" /\ c.service = Server.service}} :
        i.end > i.start}

Collect ==
    /\ pc = "collect"
    /\ IF ~Valid
       THEN pc' = "invalid" /\ UNCHANGED <<found, rest>>
       ELSE pc' = "merge" /\ found' = Waits /\ rest' = Waits
    /\ UNCHANGED <<trace, current, total>>

-----------------------------------------------------------------------------
(* unionDuration *)

Earliest(next) ==
    \A i \in rest : next.start < i.start \/ (next.start = i.start /\ next.end <= i.end)

Length(i) == i.end - i.start

\* Mutant: an interval within the current one ends it.
MergeEnd(next) ==
    IF next.start <= current.end
    THEN current' = [current EXCEPT !.end = next.end] /\ UNCHANGED total
    ELSE current' = next /\ total' = total + Length(current)
\* The intervals come by their start; an overlapping one extends the current.
Merge(next) ==
    IF next.start <= current.end
    THEN current' = [current EXCEPT !.end = IF next.end > @ THEN next.end ELSE @]
         /\ UNCHANGED total
    ELSE current' = next /\ total' = total + Length(current)

MergeNext ==
    /\ pc = "merge"
    /\ \E next \in rest :
         /\ Earliest(next)
         /\ rest' = rest \ {next}
         /\ IF rest = found
            THEN current' = next /\ UNCHANGED total
            ELSE Merge(next)
    /\ UNCHANGED <<trace, pc, found>>

\* Before the first interval there is no length to add.
Merged ==
    /\ pc = "merge" /\ rest = {}
    /\ pc' = "done"
    /\ total' = IF found = {} THEN 0 ELSE total + Length(current)
    /\ UNCHANGED <<trace, found, rest, current>>

Exclusive == Length(Server) - total

Init ==
    /\ trace \in Traces /\ pc = "collect"
    /\ found = {} /\ rest = {} /\ current = [start |-> 0, end |-> 0] /\ total = 0

Next == Collect \/ MergeNext \/ Merged
Spec == Init /\ [][Next]_vars

-----------------------------------------------------------------------------
(* Properties of the waiting time *)

Instants(intervals) == UNION {i.start..(i.end - 1) : i \in intervals}

\* The merged length is that of the union of the intervals: what several calls
\* in parallel share counts once, and nothing between them counts.
UnionExact == pc = "done" => total = Cardinality(Instants(found))

\* The span from which s descends, through parents in the trace.
AncestorOrSelf(s) ==
    FoldSet(LAMBDA n, line : line \cup {p \in trace : \E c \in line : c.parent = p.id},
            {s}, 1..Cardinality(trace))
WaitingAt ==
    {n \in Server.start..(Server.end - 1) :
        \E s \in trace :
            /\ s.kind = "client" /\ s.service = Server.service
            /\ Server \in AncestorOrSelf(s) /\ s # Server
            /\ s.start <= n /\ n < s.end}

\* Waiting is every instant of the server span in which a call of its service
\* made below it was under way, and no other.
WaitIsCallsUnderWay == pc = "done" => total = Cardinality(WaitingAt)
=============================================================================
