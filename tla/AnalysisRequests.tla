-------------------------- MODULE AnalysisRequests --------------------------
(***************************************************************************)
(* cmd/thesis_demo/analysis_requests.py and the requests that use it: live *)
(* analyses share one computation, its result is reused for a short while, *)
(* and a deleted result must not come back (server.py: analyze_live, the   *)
(* analysis slot, _evict_analysis).                                        *)
(*                                                                         *)
(* A flight is one computation: the _pending object and the result it will *)
(* carry, whose result_id is unique.  Every lock section of run() and      *)
(* delete() is one action, and so is every step between them that another  *)
(* thread can observe.                                                     *)
(***************************************************************************)
EXTENDS Integers, Sequences, FiniteSets

CONSTANTS
    Callers,           \* HTTP handler threads
    Keys,              \* digests of project, profile, interval and access
    Flights,           \* computations; bounds how many are started, and there
                       \* are no more of them than deletions are remembered
    Nobody,
    Replayer,          \* whichever thread replays a saved input
    Ttl,               \* the 15 seconds a result is reused
    Wait,              \* the 140 seconds a joining request waits
    Entries,           \* the four cached results
    MaxTombstones,     \* the 256 remembered deletions
    MaxClock           \* bound on the clock, for model checking

RequestsAssumption ==
    /\ Nobody \notin Callers \cup Flights
    /\ Replayer \notin Callers \cup {Nobody}
    /\ {Ttl, Wait, Entries, MaxTombstones} \subseteq Nat \ {0}
    /\ MaxClock \in Nat
    /\ IsFiniteSet(Flights) /\ Cardinality(Flights) <= MaxTombstones

VARIABLES
    clock,             \* time.monotonic()
    cache,             \* _cache, least recently used first
    pending,           \* _pending, or Nobody
    tombstones,        \* _deleted, oldest first
    slot,              \* who holds analysis_slot
    flights,           \* the computations
    caller,            \* what each thread is doing
    evicted,           \* history: the results whose deletion has returned
    flushed            \* history: the results a refresh has set aside

vars == <<clock, cache, pending, tombstones, slot, flights, caller, evicted,
          flushed>>

-----------------------------------------------------------------------------
Flight == [state : {"new", "flying", "saved", "computed", "failed"},
           key : Keys \cup {Nobody}, joined : BOOLEAN, event : BOOLEAN]
NewFlight ==
    [state |-> "new", key |-> Nobody, joined |-> FALSE, event |-> FALSE]

PC == {"idle", "waiting", "owner", "collecting", "saved", "caching", "leaving",
       "answered"}
Caller == [pc : PC, key : Keys \cup {Nobody}, refresh : BOOLEAN,
           flight : Flights \cup {Nobody}, since : Nat,
           before : SUBSET Flights]
IdleCaller == [pc |-> "idle", key |-> Nobody, refresh |-> FALSE,
               flight |-> Nobody, since |-> 0, before |-> {}]

At(c, pc) == caller[c].pc = pc
Goto(c, pc) == caller' = [caller EXCEPT ![c].pc = pc]
MyFlight(c) == flights[caller[c].flight]
Started == {f \in Flights : flights[f].state # "new"}
\* The results whose identifier can be known outside.
Known == {f \in Flights : flights[f].state \in {"saved", "computed"}}

\* The elements at some places of a sequence, in their order.
Kept(s, places) ==
    [i \in 1..Cardinality(places) |->
        s[CHOOSE n \in places : Cardinality({m \in places : m <= n}) = i]]
Unexpired(c) == Kept(c, {n \in DOMAIN c : c[n].expires > clock})
WithoutKey(c, k) == Kept(c, {n \in DOMAIN c : c[n].key # k})
WithoutFlight(c, f) == Kept(c, {n \in DOMAIN c : c[n].flight # f})
Cached(k) == {cache[n] : n \in {m \in DOMAIN cache : /\ cache[m].key = k
                                                     /\ cache[m].expires > clock}}

\* The request of c, as run() sees it when it takes the lock.
Asking(c, k, refresh, pc, f) ==
    caller' = [caller EXCEPT ![c] = [pc |-> pc, key |-> k, refresh |-> refresh,
                 flight |-> f, since |-> IF pc = "waiting" THEN clock ELSE 0,
                 before |-> IF refresh THEN Started ELSE {}]]

\* What a refresh, or any miss, leaves in the cache before it goes on.
Pruned(k, refresh) ==
    IF refresh THEN WithoutKey(Unexpired(cache), k) ELSE Unexpired(cache)
Flush(k, refresh) ==
    flushed' = IF refresh
               THEN flushed \cup {e.flight : e \in Cached(k)} ELSE flushed

-----------------------------------------------------------------------------
(* run(): the first lock section *)

\* A result that is still fresh is reused and becomes the most recent one.
Hit(c, k) ==
    /\ At(c, "idle")
    /\ \E e \in Cached(k) :
         /\ cache' = Append(WithoutKey(Unexpired(cache), k), e)
         /\ Asking(c, k, FALSE, "answered", e.flight)
    /\ UNCHANGED <<clock, pending, tombstones, slot, flights, evicted,
                   flushed>>

\* Another key is being computed, or someone has joined already: 429.  The
\* cache has been pruned and refreshed all the same.
Refuse(c, k, refresh) ==
    /\ At(c, "idle")
    /\ refresh \/ Cached(k) = {}
    /\ pending # Nobody
    /\ flights[pending].key # k \/ flights[pending].joined
    /\ cache' = Pruned(k, refresh)
    /\ Flush(k, refresh)
    /\ UNCHANGED <<clock, pending, tombstones, slot, flights, caller, evicted>>

\* The same key is being computed and nobody has joined yet.
Join(c, k, refresh) ==
    /\ At(c, "idle")
    /\ refresh \/ Cached(k) = {}
    /\ pending # Nobody
    /\ flights[pending].key = k /\ ~flights[pending].joined
    /\ cache' = Pruned(k, refresh)
    /\ Flush(k, refresh)
    /\ flights' = [flights EXCEPT ![pending].joined = TRUE]
    /\ Asking(c, k, refresh, "waiting", pending)
    /\ UNCHANGED <<clock, pending, tombstones, slot, evicted>>

\* Nothing is being computed: this request computes.
Own(c, k, refresh, f) ==
    /\ At(c, "idle")
    /\ refresh \/ Cached(k) = {}
    /\ pending = Nobody
    /\ flights[f].state = "new"
    /\ cache' = Pruned(k, refresh)
    /\ Flush(k, refresh)
    /\ flights' = [flights EXCEPT ![f].state = "flying", ![f].key = k]
    /\ pending' = f
    /\ Asking(c, k, refresh, "owner", f)
    /\ UNCHANGED <<clock, tombstones, slot, evicted>>

-----------------------------------------------------------------------------
(* run(): the owner computes *)

\* compute() takes the slot a replay may hold; without it, 429.
AcquireSlot(c) ==
    /\ At(c, "owner")
    /\ IF slot = Nobody
       THEN slot' = c /\ Goto(c, "collecting") /\ UNCHANGED flights
       ELSE /\ flights' = [flights EXCEPT ![caller[c].flight].state = "failed"]
            /\ Goto(c, "leaving")
            /\ UNCHANGED slot
    /\ UNCHANGED <<clock, cache, pending, tombstones, evicted, flushed>>

\* A source fails, times out or returns what cannot be used.
CollectFails(c) ==
    /\ At(c, "collecting")
    /\ slot' = Nobody
    /\ flights' = [flights EXCEPT ![caller[c].flight].state = "failed"]
    /\ Goto(c, "leaving")
    /\ UNCHANGED <<clock, cache, pending, tombstones, evicted, flushed>>

\* The snapshot is unless there is no room or no workspace.
Save(c) ==
    /\ At(c, "collecting")
    /\ \/ flights' = [flights EXCEPT ![caller[c].flight].state = "saved"]
       \/ UNCHANGED flights
    /\ Goto(c, "saved")
    /\ UNCHANGED <<clock, cache, pending, tombstones, slot, evicted, flushed>>

\* compute() returns: the slot is free, the payload is there.
Return(c) ==
    /\ At(c, "saved")
    /\ slot' = Nobody
    /\ flights' = [flights EXCEPT ![caller[c].flight].state = "computed"]
    /\ Goto(c, "caching")
    /\ UNCHANGED <<clock, cache, pending, tombstones, evicted, flushed>>

\* Room is made for a result; the byte limit may drop more than the oldest.
Fitting(entries) ==
    {SubSeq(entries, n, Len(entries)) :
        n \in {m \in 1..Len(entries) : Len(entries) - m < Entries}}
Grown(c) ==
    Append(WithoutKey(cache, caller[c].key),
           [key |-> caller[c].key, flight |-> caller[c].flight,
            expires |-> clock + Ttl])

\* Mutant: the tombstones are not looked at.
PutInCacheAnyway(c) ==
    /\ At(c, "caching")
    /\ cache' \in Fitting(Grown(c)) \cup {cache}
    /\ Goto(c, "leaving")
    /\ UNCHANGED <<clock, pending, tombstones, slot, flights, evicted,
                   flushed>>

\* A complete, small enough result that was not deleted in the meantime is
\* cached; the oldest go until entries and bytes are within their limits.
PutInCache(c) ==
    /\ At(c, "caching")
    /\ \/ /\ \A n \in DOMAIN tombstones : tombstones[n].flight # caller[c].flight
          /\ cache' \in Fitting(Grown(c))
       \/ UNCHANGED cache
    /\ Goto(c, "leaving")
    /\ UNCHANGED <<clock, pending, tombstones, slot, flights, evicted,
                   flushed>>

\* A computed result is delivered, an error ends the request.
Answer(c) ==
    IF MyFlight(c).state = "computed"
    THEN Goto(c, "answered")
    ELSE caller' = [caller EXCEPT ![c] = IdleCaller]

\* Mutant: the event of the computation is not set.
LeaveSilently(c) ==
    /\ At(c, "leaving")
    /\ pending' = Nobody
    /\ Answer(c)
    /\ UNCHANGED <<clock, cache, tombstones, slot, flights, evicted, flushed>>

\* finally: the next computation may start, the joining request may go on.
Leave(c) ==
    /\ At(c, "leaving")
    /\ pending' = Nobody
    /\ flights' = [flights EXCEPT ![caller[c].flight].event = TRUE]
    /\ Answer(c)
    /\ UNCHANGED <<clock, cache, tombstones, slot, evicted, flushed>>

\* The joining request gets what the owner got, or gives up after Wait.
Wake(c) ==
    /\ At(c, "waiting")
    /\ \/ MyFlight(c).event /\ Answer(c)
       \/ /\ ~MyFlight(c).event /\ clock >= caller[c].since + Wait
          /\ caller' = [caller EXCEPT ![c] = IdleCaller]
    /\ UNCHANGED <<clock, cache, pending, tombstones, slot, flights, evicted,
                   flushed>>

\* The response is sent; the thread serves its next request.
Respond(c) ==
    /\ At(c, "answered")
    /\ caller' = [caller EXCEPT ![c] = IdleCaller]
    /\ UNCHANGED <<clock, cache, pending, tombstones, slot, flights, evicted,
                   flushed>>

-----------------------------------------------------------------------------
(* Replays and deletions *)

Replay ==
    /\ slot = Nobody
    /\ slot' = Replayer
    /\ UNCHANGED <<clock, cache, pending, tombstones, flights, caller, evicted,
                   flushed>>

ReplayEnds ==
    /\ slot = Replayer
    /\ slot' = Nobody
    /\ UNCHANGED <<clock, cache, pending, tombstones, flights, caller, evicted,
                   flushed>>

\* A dict keeps the place of a key that is assigned again.
Entombed(dead, e) ==
    IF \E n \in DOMAIN dead : dead[n].flight = e.flight
    THEN [n \in DOMAIN dead |-> IF dead[n].flight = e.flight THEN e ELSE dead[n]]
    ELSE Append(dead, e)
\* After the stored snapshot: the cached result goes, and a tombstone stays
\* for one that is still on its way to the cache.
Delete(f) ==
    LET dead == Entombed(Unexpired(tombstones),
                         [flight |-> f, expires |-> clock + Wait + Ttl]) IN
    /\ f \in Known
    /\ tombstones' = IF Len(dead) > MaxTombstones THEN Tail(dead) ELSE dead
    /\ cache' = WithoutFlight(cache, f)
    /\ evicted' = evicted \cup {f}
    /\ UNCHANGED <<clock, pending, slot, flights, caller, flushed>>

\* From its snapshot to the end of run() an owner needs no source and no
\* long computation: far less than the life of a tombstone.
Tick ==
    /\ clock < MaxClock
    /\ \A c \in Callers : caller[c].pc \notin {"saved", "caching"}
    /\ clock' = clock + 1
    /\ UNCHANGED <<cache, pending, tombstones, slot, flights, caller, evicted, flushed>>

-----------------------------------------------------------------------------
Init ==
    /\ clock = 0
    /\ cache = <<>> /\ tombstones = <<>>
    /\ pending = Nobody /\ slot = Nobody
    /\ flights = [f \in Flights |-> NewFlight]
    /\ caller = [c \in Callers |-> IdleCaller]
    /\ evicted = {} /\ flushed = {}

Ask(c) ==
    \E k \in Keys :
        \/ Hit(c, k)
        \/ \E refresh \in BOOLEAN :
             \/ Refuse(c, k, refresh)
             \/ Join(c, k, refresh)
             \/ \E f \in Flights : Own(c, k, refresh, f)

\* What a thread does once it has taken on a request.
Work(c) ==
    \/ AcquireSlot(c) \/ CollectFails(c) \/ Save(c) \/ Return(c)
    \/ PutInCache(c) \/ Leave(c) \/ Wake(c)

Next ==
    \/ Tick \/ Replay \/ ReplayEnds
    \/ \E c \in Callers : Ask(c) \/ Work(c) \/ Respond(c)
    \/ \E f \in Flights : Delete(f)

RequestsSpec == Init /\ [][Next]_vars

\* Threads are scheduled, and collection and calculation have deadlines.
FairRequestsSpec == RequestsSpec /\ \A c \in Callers : WF_vars(Work(c))

-----------------------------------------------------------------------------
(* Properties *)

RequestsTypeOK ==
    /\ clock \in 0..MaxClock
    /\ cache \in Seq([key : Keys, flight : Flights, expires : Nat])
    /\ tombstones \in Seq([flight : Flights, expires : Nat])
    /\ pending \in Flights \cup {Nobody}
    /\ slot \in Callers \cup {Nobody, Replayer}
    /\ flights \in [Flights -> Flight]
    /\ caller \in [Callers -> Caller]
    /\ {evicted, flushed} \subseteq SUBSET Flights

Owning == {"owner", "collecting", "saved", "caching", "leaving"}

\* There is a computation under way exactly when one thread is carrying it,
\* the slot is held exactly by who collects or replays, and at most one
\* other thread waits for the computation.
OneComputation ==
    /\ \A c \in Callers : caller[c].pc \in Owning => caller[c].flight = pending
    /\ Cardinality({c \in Callers : caller[c].pc \in Owning}) =
           (IF pending = Nobody THEN 0 ELSE 1)
    /\ \A c \in Callers : slot = c <=>
           caller[c].pc \in {"collecting", "saved"}
    /\ Cardinality({c \in Callers : At(c, "waiting")
                        /\ caller[c].flight = pending}) <= 1

\* Reuse never crosses scope: every answer, cached, joined or computed, was
\* computed for the key that was asked.
ReuseWithinScope ==
    \A c \in Callers : At(c, "answered") => MyFlight(c).key = caller[c].key

\* Reuse never resurrects a deleted result: once its deletion has returned it
\* is not in the cache, also when it was still on its way there.
DeletedNotCached ==
    \A n \in DOMAIN cache : cache[n].flight \notin evicted

\* A refresh sets the earlier answer aside for good: if it fails, nobody gets
\* the earlier answer as a new one.
NoStaleFallback ==
    \A n \in DOMAIN cache : cache[n].flight \notin flushed

\* The place of the one computation is always given back.
PendingComesBack == pending # Nobody ~> pending = Nobody

\* A thread that waits for another is answered, without needing its timeout:
\* whichever way the computation ends, its event is set.
JoinersAnswered == \A c \in Callers : At(c, "waiting") ~> ~At(c, "waiting")

\* docs/product-architecture/ONBOARDING.md says that a forced refresh makes
\* a new snapshot, cmd/thesis_demo/api_contract.py that it creates a new
\* result: its answer was not under way before it was asked for.
RefreshIsNew ==
    \A c \in Callers : At(c, "answered") /\ caller[c].refresh =>
        caller[c].flight \notin caller[c].before
=============================================================================
