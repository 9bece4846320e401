------------------------------ MODULE ExternalCase ------------------------------
(***************************************************************************)
(* cmd/offline-rca: the spans of an external case are read one by one, in  *)
(* whatever order its dataset has them, and turned into what the detector  *)
(* and the diagnosis take: kinds inferred from the parents, samples before *)
(* and after the injection, and the edges of the call graph                *)
(* (internal/externalrca/processor.go).  Times are in five minutes.        *)
(***************************************************************************)
EXTENDS Naturals, Sequences, SequencesExt

CONSTANTS
    Candidates,    \* spans: [trace, id, parent, svc, start, known, valid]
    NONE,          \* no parent; also no output yet
    Window,        \* samples the detector keeps per service
    MaxSpans       \* bound

VARIABLES mode, input, output
vars == <<mode, input, output>>

Inject == 2        \* two units after the beginning
CaseServices == {s.svc : s \in Candidates}

Before(s, t) == s.start < t.start \/ (s.start = t.start /\ s.id < t.id)

\* Where a span goes into those sorted so far; sort.Slice, on these short inputs,
\* is an insertion sort, which leaves equal ones in their order.
Insert(sorted, s) ==
    LET k == Len(SelectSeq(sorted, LAMBDA t : ~Before(s, t)))
    IN SubSeq(sorted, 1, k) \o <<s>> \o SubSeq(sorted, k + 1, Len(sorted))

validSortedSpans(values) ==
    FoldLeft(Insert, <<>>, SelectSeq(values, LAMBDA s : s.valid))

\* byTrace: the last of two spans of one identifier stays.  {} when there is none.
Parent(spans, s) ==
    LET same == {n \in DOMAIN spans : spans[n].trace = s.trace /\ spans[n].id = s.parent}
    IN {spans[n] : n \in {n \in same : \A m \in same : m <= n}}

hasCrossServiceChild(spans, s) ==
    \E n \in DOMAIN spans : /\ spans[n].trace = s.trace /\ spans[n].parent = s.id
                            /\ spans[n].svc # s.svc

inferKind(spans, s) ==
    IF s.parent = NONE \/ \E p \in Parent(spans, s) : p.svc # s.svc THEN "server"
    ELSE IF hasCrossServiceChild(spans, s) THEN "client"
    ELSE "internal"

inWindow(s, w) == w.from <= s.start /\ s.start < w.to

windows(m) ==
    IF m = "healthy"
    THEN [baseline |-> [from |-> 0, to |-> 1], current |-> [from |-> 1, to |-> Inject],
          all |-> [from |-> 0, to |-> Inject]]
    ELSE [baseline |-> [from |-> 0, to |-> Inject], current |-> [from |-> Inject, to |-> 4],
          all |-> [from |-> 0, to |-> 4]]

Observed(spans, w, svc) ==
    SelectSeq(spans, LAMBDA s : s.svc = svc /\ inWindow(s, w) /\ inferKind(spans, s) = "server")
Recent(q) == SubSeq(q, IF Len(q) > Window THEN Len(q) - Window + 1 ELSE 1, Len(q))

\* The spans of the window, and in it the last of each identifier.
Edges(spans, w) ==
    LET shown == SelectSeq(spans, LAMBDA s : inWindow(s, w))
    IN UNION {{<<p.svc, shown[n].svc>> : p \in {p \in Parent(shown, shown[n]) :
                                                  p.svc # shown[n].svc}} :
              n \in DOMAIN shown}

Count(spans, Test(_)) == Len(SelectSeq(spans, Test))

Result(values, m) ==
    LET spans == validSortedSpans(values)
        w == windows(m)
        At(s) == inWindow(s, w.current) /\ inferKind(spans, s) = "server"
    IN IF spans = <<>> THEN [spans |-> <<>>]   \* no valid spans
       ELSE [spans |-> spans,
             baseline |-> [v \in CaseServices |-> Recent(Observed(spans, w.baseline, v))],
             current |-> [v \in CaseServices |-> Recent(Observed(spans, w.current, v))],
             edges |-> Edges(spans, w.all),
             windowSpans |-> Count(spans, LAMBDA s : inWindow(s, w.all)),
             serverCurrent |-> Count(spans, At),
             statusKnown |-> Count(spans, LAMBDA s : At(s) /\ s.known)]

-----------------------------------------------------------------------------
Init == mode \in {"fault", "healthy"} /\ input = <<>> /\ output = NONE

readNDJSON ==
    /\ output = NONE /\ Len(input) < MaxSpans
    /\ \E s \in Candidates : input' = Append(input, s)
    /\ UNCHANGED <<mode, output>>

Process ==
    /\ output = NONE /\ output' = Result(input, mode)
    /\ UNCHANGED <<mode, input>>

Next == readNDJSON \/ Process
Spec == Init /\ [][Next]_vars

-----------------------------------------------------------------------------
(* Properties *)

Ready == output # NONE /\ output.spans # <<>>
Identified == \* no two spans of the input are the same one or begin as twins
    \A m, n \in DOMAIN input :
        m # n => <<input[m].start, input[m].id>> # <<input[n].start, input[n].id>>
                 /\ <<input[m].trace, input[m].id>> # <<input[n].trace, input[n].id>>
Causal == \* no span begins before its parent
    \A m, n \in DOMAIN input :
        input[m].trace = input[n].trace /\ input[m].parent = input[n].id =>
            input[n].start <= input[m].start

\* The order in which the dataset lists its spans does not change the result.
OrderIrrelevant == Ready /\ Identified => output = Result(Reverse(input), mode)

\* Nothing that begins after a window has any part in it: the samples of the
\* baseline, and in the healthy mode those of the current window and the edges
\* too, are the same when every span from the injection on is taken away.
NothingOfTheFuture ==
    Ready /\ Identified /\ Causal =>
        LET past == Result(SelectSeq(input, LAMBDA s : s.start < Inject), mode)
        IN past.spans # <<>> =>
              /\ output.baseline = past.baseline
              /\ mode = "healthy" => output.current = past.current /\ output.edges = past.edges

\* The service a call goes to has a sample of it, unless the call is outside both
\* windows: a fault cannot hide behind an edge whose callee is never measured; and
\* a service none calls into and that has no root has no samples at all.
CallsAreMeasured ==
    Ready /\ Identified =>
        \A v \in CaseServices :
            (output.baseline[v] # <<>> \/ output.current[v] # <<>>) <=>
                (\E n \in DOMAIN output.spans :
                    LET s == output.spans[n]
                    IN /\ s.svc = v /\ inWindow(s, windows(mode).all)
                       /\ \/ s.parent = NONE
                          \/ \E m \in DOMAIN output.spans :
                                LET p == output.spans[m]
                                IN p.trace = s.trace /\ p.id = s.parent /\ p.svc # v)
=============================================================================
