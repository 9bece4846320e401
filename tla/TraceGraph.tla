------------------------------ MODULE TraceGraph ------------------------------
(***************************************************************************)
(* The trace store of internal/graph/store.go: recent spans by trace, and  *)
(* the services and call edges they showed since the last reset.           *)
(*                                                                         *)
(* Every operation holds the store's lock from its first to its last step. *)
(* Ingest takes its spans one by one, so it is a Begin, a Take for each    *)
(* span and an End; other operations wait meanwhile and are one step.      *)
(* Spans without identity are ignored before they touch the store.        *)
(* The index childrenByParent is a function of the spans (NewLinks).       *)
(***************************************************************************)
EXTENDS Integers, Sequences, FiniteSets, FiniteSetsExt

CONSTANTS
    TraceIds, SpanIds, Services,
    Rank,        \* order of the trace ids as strings
    MaxTraces,   \* traces kept
    TTL,         \* lifetime of a trace that is not updated
    Batches,     \* what may be ingested: sequences of spans
    MaxTime,     \* (bound)
    NONE         \* no parent; no batch

Times == 0..MaxTime
\* A span without a start has the start 0.
Span == [trace : TraceIds, id : SpanIds, parent : SpanIds \cup {NONE},
         service : Services, start : Times]

ASSUME GraphAssumption ==
    /\ MaxTraces \in Nat \ {0} /\ TTL \in Nat \ {0} /\ MaxTime \in Nat \ {0}
    /\ Batches \subseteq Seq(Span) /\ NONE \notin SpanIds /\ NONE # <<>>
    /\ Rank \in [TraceIds -> Nat]
    /\ \A t, u \in TraceIds : Rank[t] = Rank[u] => t = u

VARIABLES
    now,
    live,        \* traces in the store
    spans,       \* their spans
    linked,      \* their linkedChildren
    updated,     \* their lastUpdated
    nodes,       \* services
    edges,       \* observations, first and last time of each edge; n = 0: absent
    batch,       \* rest of the batch under the lock; NONE: the lock is free
    accepted,    \* AcceptedSpans of this batch, with their trace's episode
    episode,     \* how often each trace was dropped
    seen         \* spans accepted since the reset, with their episode

store == <<live, spans, linked, updated, nodes, edges>>
history == <<episode, seen>>
vars == <<now, store, batch, accepted, history>>

Free == batch = NONE
Pairs == Services \X Services
NoEdge == [n |-> 0, first |-> 0, last |-> 0]

-----------------------------------------------------------------------------

\* cleanupLocked and ensureCapacityLocked delete traces with all they hold.
Drop(gone) ==
    /\ spans' = [t \in TraceIds |-> IF t \in gone THEN {} ELSE spans[t]]
    /\ linked' = [t \in TraceIds |-> IF t \in gone THEN {} ELSE linked[t]]
    /\ episode' = [t \in TraceIds |-> IF t \in gone THEN episode[t] + 1 ELSE episode[t]]

Expired == {t \in live : now - updated[t] >= TTL}

Cleanup ==
    /\ live' = live \ Expired
    /\ Drop(Expired)

\* The least recently updated trace, by identifier among equals.
Oldest ==
    {t \in live : \A u \in live \ {t} :
        updated[t] < updated[u] \/ (updated[t] = updated[u] /\ Rank[t] < Rank[u])}

\* What a new trace t drops: nothing while there is room.
Evicted(t) ==
    IF t \in live \/ Cardinality(live) < MaxTraces THEN {} ELSE Oldest

Ids(t) == {s.id : s \in spans[t]}
\* linkChildLocked links a child once, when both it and its parent are there.
Linkable(set, done) ==
    {s \in set : s.id \notin done /\ s.parent \in {p.id : p \in set}}
ParentIn(set, s) == CHOOSE p \in set : p.id = s.parent

\* Links between services make or update an edge.
ObservedAt(s) == IF s.start = 0 THEN now ELSE s.start
EdgeOf(set, s) == <<ParentIn(set, s).service, s.service>>
\* Mutant: the first time is that of the first link made.
ObserveByArrival(set, links) ==
    edges' = [e \in Pairs |->
        LET new == {s \in links : EdgeOf(set, s) = e /\ e[1] # e[2]}
            at == {ObservedAt(s) : s \in new}
        IN IF new = {} THEN edges[e]
           ELSE [n |-> edges[e].n + Cardinality(new),
                 first |-> IF edges[e].n = 0 THEN Min(at) ELSE edges[e].first,
                 last |-> Max(at)]]
Observe(set, links) ==
    edges' = [e \in Pairs |->
        LET new == {s \in links : EdgeOf(set, s) = e /\ e[1] # e[2]}
            at == {ObservedAt(s) : s \in new}
            old == edges[e]
        IN IF new = {} THEN old
           ELSE [n |-> old.n + Cardinality(new),
                 first |-> Min(at \cup (IF old.n = 0 THEN {} ELSE {old.first})),
                 last |-> Max(at \cup (IF old.n = 0 THEN {} ELSE {old.last}))]]

\* Mutant: children that came before their parent are forgotten.
NewLinksOwnOnly(set, done, s) == {c \in Linkable(set, done) : c.id = s.id}
\* Links that span s completes: its own, and those of its waiting children.
NewLinks(set, done, s) ==
    {c \in Linkable(set, done) : c.id = s.id \/ c.parent = s.id}

\* Ingest: the lock is taken, and traces past their lifetime go.
Begin ==
    /\ Free
    /\ batch' \in Batches
    /\ accepted' = <<>>
    /\ Cleanup
    /\ UNCHANGED <<now, updated, nodes, edges, seen>>

Fresh(s) == s.id \notin Ids(s.trace)
Touched(t, s) == [updated EXCEPT ![t] = now]

\* One span: its trace is found or made, and updated even by a duplicate.
Take ==
    /\ batch # NONE /\ batch # <<>>
    /\ batch' = Tail(batch)
    /\ LET s == Head(batch)
           gone == Evicted(s.trace)
           set == spans[s.trace] \cup {s}
           links == NewLinks(set, linked[s.trace], s)
       IN /\ live' = (live \ gone) \cup {s.trace}
          /\ updated' = Touched(s.trace, s)
          /\ episode' = [t \in TraceIds |-> IF t \in gone THEN episode[t] + 1 ELSE episode[t]]
          /\ IF ~Fresh(s)
             THEN UNCHANGED <<spans, linked, edges, nodes, accepted, seen>>
             ELSE /\ spans' = [t \in TraceIds |-> IF t = s.trace THEN set
                                                  ELSE IF t \in gone THEN {} ELSE spans[t]]
                  /\ linked' = [t \in TraceIds |->
                                   IF t = s.trace THEN linked[t] \cup {c.id : c \in links}
                                   ELSE IF t \in gone THEN {} ELSE linked[t]]
                  /\ Observe(set, links)
                  /\ nodes' = nodes \cup {s.service}
                  /\ accepted' = Append(accepted, [span |-> s, episode |-> episode[s.trace]])
                  /\ seen' = seen \cup {[span |-> s, episode |-> episode[s.trace]]}
    /\ UNCHANGED now

End ==
    /\ batch = <<>>
    /\ batch' = NONE
    /\ UNCHANGED <<now, store, accepted, history>>

\* Snapshot, Trace and Traces clean up before they read.
Read ==
    /\ Free
    /\ Cleanup
    /\ UNCHANGED <<now, updated, nodes, edges, batch, accepted, seen>>

Reset ==
    /\ Free
    /\ live' = {} /\ nodes' = {} /\ edges' = [e \in Pairs |-> NoEdge]
    /\ Drop(live) /\ seen' = {}
    /\ UNCHANGED <<now, updated, batch, accepted>>

Tick ==
    /\ Free
    /\ now < MaxTime /\ now' = now + 1
    /\ UNCHANGED <<store, batch, accepted, history>>

Init ==
    /\ now = 1 /\ live = {} /\ nodes = {}
    /\ spans = [t \in TraceIds |-> {}] /\ linked = [t \in TraceIds |-> {}]
    /\ updated = [t \in TraceIds |-> 0]
    /\ edges = [e \in Pairs |-> NoEdge]
    /\ batch = NONE /\ accepted = <<>>
    /\ episode = [t \in TraceIds |-> 0] /\ seen = {}

Next == Begin \/ Take \/ End \/ Read \/ Reset \/ Tick
Spec == Init /\ [][Next]_vars

-----------------------------------------------------------------------------
(* Properties *)

GraphTypeOK ==
    /\ live \subseteq TraceIds /\ nodes \subseteq Services
    /\ spans \in [TraceIds -> SUBSET Span] /\ updated \in [TraceIds -> Times]
    /\ batch \in Seq(Span) \cup {NONE}
    /\ \A n \in DOMAIN accepted : accepted[n].span \in Span
    /\ \A t \in TraceIds : updated[t] <= now

\* In a trace a span identifier is used once, whatever is delivered again.
SpansDistinct ==
    \A t \in TraceIds : \A r, s \in spans[t] : r.id = s.id => r = s

\* A trace outside the store holds nothing, and the store keeps to its bound.
OnlyLiveHeld ==
    /\ \A t \in TraceIds \ live : spans[t] = {} /\ linked[t] = {}
    /\ Cardinality(live) <= MaxTraces

\* The linked children are exactly those whose parent has arrived, in whatever
\* order the two came.
LinkedExactly ==
    \A t \in TraceIds :
        linked[t] = {s.id : s \in {c \in spans[t] : c.parent \in Ids(t)}}

\* An edge counts the pairs of parent and child of different services that were
\* in the store together, each once, since the reset: the order of the spans,
\* their repetition and the loss of their trace later make no difference.
CallsSeen(a, b) ==
    {c \in seen : /\ c.span.service = b
                  /\ \E p \in seen : /\ p.episode = c.episode
                                     /\ p.span.trace = c.span.trace
                                     /\ p.span.id = c.span.parent
                                     /\ p.span.service = a}
EdgesCountCalls ==
    \A a, b \in Services :
        edges[<<a, b>>].n = IF a = b THEN 0 ELSE Cardinality(CallsSeen(a, b))

\* The ends of an edge are services shown, seen first no later than last.
EdgesSound ==
    \A e \in Pairs : edges[e].n > 0 =>
        {e[1], e[2]} \subseteq nodes /\ edges[e].first <= edges[e].last

\* A trace leaves only by its age, by a reset, or as the least recently updated
\* of a full store for the sake of a new trace.
LeavesByAgeStep ==
    \A t \in live \ live' :
        \/ now - updated[t] >= TTL
        \/ live' = {} /\ Free
        \/ /\ Cardinality(live) = MaxTraces /\ live' \ live # {}
           /\ \A u \in live : updated[t] <= updated[u]
LeavesByAge == [][LeavesByAgeStep]_vars

-----------------------------------------------------------------------------
(* What every step keeps, and the safety properties follow from. *)

Entry(s, e) == [span |-> s, episode |-> e]

\* What was seen in the present episode of a trace is what the trace holds, and
\* in an episode no identifier is seen twice.
HistoryInv ==
    /\ now \in Times /\ episode \in [TraceIds -> Nat]
    /\ IsFiniteSet(seen) /\ seen \subseteq [span : Span, episode : Nat]
    /\ \A c \in seen : c.episode <= episode[c.span.trace]
    /\ \A t \in TraceIds, s \in Span :
         s \in spans[t] <=> s.trace = t /\ Entry(s, episode[t]) \in seen
    /\ \A c, d \in seen :
         c.episode = d.episode /\ c.span.trace = d.span.trace /\ c.span.id = d.span.id
         => c = d

EdgesInv ==
    /\ edges \in [Pairs -> [n : Nat, first : Times, last : Times]]
    /\ \A t \in TraceIds : \A s \in spans[t] : s.service \in nodes
    /\ EdgesCountCalls /\ EdgesSound

StoreInv ==
    /\ nodes \subseteq Services /\ IsFiniteSet(live) /\ Cardinality(live) <= MaxTraces
    /\ updated \in [TraceIds -> Times] /\ \A t \in TraceIds : updated[t] <= now
    /\ accepted \in Seq([span : Span, episode : Nat])
=============================================================================
