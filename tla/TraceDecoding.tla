----------------------------- MODULE TraceDecoding -----------------------------
(***************************************************************************)
(* What becomes of a stream of Jaeger's v3 interface, before any feature   *)
(* is computed of it (cmd/thesis_demo/trace_adapters.py): all lines are    *)
(* decoded or none, and spans whose parents form a cycle are refused,      *)
(* which the model's walk along the parents relies on to end.              *)
(***************************************************************************)
EXTENDS Naturals, Sequences, FiniteSets

CONSTANTS
    Lines,        \* [kind, spans]: "spans" and what they are, [id, parent], "blank" or "bad"
    Stream,       \* sequences of lines
    NoParent,     \* an identifier no span has
    MaxSpans      \* MAX_CANONICAL_SPANS

DecodingAssumption ==
    /\ Stream \subseteq Seq(Lines)
    /\ \A l \in Lines : /\ l.kind # "spans" => l.spans = {}
                        /\ l.kind \in {"spans", "blank", "bad"}
                        /\ \A s \in l.spans : s.id # NoParent

VARIABLES
    lines, left,  \* the stream, and what is left of it
    envelopes,    \* lines decoded
    spans,        \* spans so far
    step,         \* "decode", "walk", "accepted", "refused"
    visited, trail, cursor   \* of the walk along the parents

vars == <<lines, left, envelopes, spans, step, visited, trail, cursor>>

Ids == {s.id : s \in spans}
ParentOf(i) == (CHOOSE s \in spans : s.id = i).parent

Refuse == step' = "refused" /\ UNCHANGED <<left, envelopes, spans>>

\* JSON that cannot be read, an error in place of a result, or a span that is
\* not one.
BadLine ==
    /\ step = "decode" /\ left # <<>> /\ Head(left).kind = "bad"
    /\ Refuse /\ UNCHANGED <<lines, visited, trail, cursor>>

BlankLine ==
    /\ step = "decode" /\ left # <<>> /\ Head(left).kind = "blank"
    /\ left' = Tail(left)
    /\ UNCHANGED <<lines, step, envelopes, spans, visited, trail, cursor>>

\* A repetition changes nothing, another span of the same identifier is a conflict.
DecodeLine ==
    /\ step = "decode" /\ left # <<>> /\ Head(left).kind = "spans"
    /\ LET all == spans \cup Head(left).spans
           conflict == \E s, t \in all : s.id = t.id /\ s # t
       IN IF conflict \/ Cardinality(all) > MaxSpans THEN Refuse
          ELSE /\ spans' = all /\ envelopes' = envelopes + 1 /\ left' = Tail(left)
               /\ UNCHANGED step
    /\ UNCHANGED <<lines, visited, trail, cursor>>

\* A stream without any line is an error too.
Decoded ==
    /\ step = "decode" /\ left = <<>>
    /\ step' = IF envelopes = 0 THEN "refused" ELSE "walk"
    /\ UNCHANGED <<lines, left, envelopes, spans, visited, trail, cursor>>

-----------------------------------------------------------------------------
(* validate_canonical_spans: from each span that was not visited along the     *)
(* parents, until one that was or that is not there.                           *)

Idle == cursor = NoParent /\ trail = {}

BeginWalk ==
    /\ step = "walk" /\ Idle
    /\ \E i \in Ids \ visited : cursor' = i
    /\ UNCHANGED <<lines, left, envelopes, spans, step, visited, trail>>

Met(i) == i \in trail

OnWalk == step = "walk" /\ ~Idle

Follow ==
    /\ OnWalk /\ cursor \in Ids
    /\ IF Met(cursor)
       THEN step' = "refused" /\ UNCHANGED <<trail, cursor, visited>>
       ELSE IF cursor \in visited
       THEN /\ visited' = visited \cup trail /\ trail' = {} /\ cursor' = NoParent
            /\ UNCHANGED step
       ELSE /\ trail' = trail \cup {cursor} /\ cursor' = ParentOf(cursor)
            /\ UNCHANGED <<step, visited>>
    /\ UNCHANGED <<lines, left, envelopes, spans>>

\* The parent is missing, which a partial trace may do.
EndWalk ==
    /\ OnWalk /\ cursor \notin Ids
    /\ visited' = visited \cup trail /\ trail' = {} /\ cursor' = NoParent
    /\ UNCHANGED <<lines, left, envelopes, spans, step>>

Accept ==
    /\ step = "walk" /\ Idle /\ Ids \subseteq visited
    /\ step' = "accepted"
    /\ UNCHANGED <<lines, left, envelopes, spans, visited, trail, cursor>>

Init ==
    /\ lines \in Stream /\ left = lines /\ envelopes = 0 /\ spans = {} /\ step = "decode"
    /\ visited = {} /\ trail = {} /\ cursor = NoParent

Next == \/ BadLine \/ BlankLine \/ DecodeLine \/ Decoded
        \/ BeginWalk \/ Follow \/ EndWalk \/ Accept

Spec == Init /\ [][Next]_vars /\ WF_vars(Next)

-----------------------------------------------------------------------------
(* Properties *)

\* A stream is decoded as a whole: what is accepted is every span of every line,
\* and no line was one that could not be read, the last one included.
AllOrError ==
    step = "accepted" =>
        /\ \A n \in DOMAIN lines : lines[n].kind # "bad"
        /\ spans = UNION {lines[n].spans : n \in DOMAIN lines}

\* Some spans have all their parents among themselves: those of a cycle do, and
\* the parents of such spans, of which there are finitely many, come to a cycle.
Cyclic == \E S \in SUBSET Ids : S # {} /\ \A i \in S : ParentOf(i) \in S

\* Spans are refused for a cycle exactly where there is one: not for a diamond of
\* walks that meet, nor for a parent that is missing.
CyclesRefused ==
    /\ step = "accepted" => ~Cyclic
    /\ step = "refused" /\ left = <<>> /\ envelopes > 0 => Cyclic

\* The check itself ends, whatever the parents are.
CheckEnds == <>(step \in {"accepted", "refused"})
=============================================================================
