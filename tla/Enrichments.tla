------------------------------ MODULE Enrichments ------------------------------
(***************************************************************************)
(* The two sources that add to the catalogue of a live analysis when they  *)
(* are configured, each with variables of its own.                         *)
(*                                                                         *)
(* ContextSource: collect_context() of cmd/thesis_demo/context_source.py:  *)
(* a child process asks the log store for one service after the other; its *)
(* parent waits for the whole batch, with a deadline, and then gets rid of *)
(* the child.                                                              *)
(*                                                                         *)
(* HttpObservations: what cmd/thesis_demo/http_observations.py says of the *)
(* HTTP traffic of a service: from four matrices on one grid of times, of  *)
(* which points may be missing or not a number, one of five states, and    *)
(* bins to display.                                                        *)
(***************************************************************************)
EXTENDS Integers, Sequences, FiniteSets, FiniteSetsExt

CONSTANTS
    Services,     \* selected, in sorted order: a sequence
    Backends,     \* what may be stored: functions from services to entries
    Start, End,   \* the query's interval, the lookback included
    MaxRecords,   \* MAX_RECORDS
    Timeout,      \* of collect_context
    NONE,
    Stamps,       \* the grid, 1..n; its size is "expected"
    MaxBins,      \* max_bins
    MaxLosses     \* bound: points that get lost

Selected == {Services[n] : n \in DOMAIN Services}

\* A service is listed once; what is stored and the grid are finite.
EnrichmentsAssumption ==
    /\ Services \in Seq(Selected)
    /\ \A m, n \in DOMAIN Services : Services[m] = Services[n] => m = n
    /\ \A b \in Backends : \A s \in Selected : IsFiniteSet(b[s])
    /\ MaxRecords \in Nat \ {0} /\ MaxBins \in Nat \ {0}
    /\ IsFiniteSet(Stamps) /\ Stamps = 1..Cardinality(Stamps)

-----------------------------------------------------------------------------
(* ContextSource *)

VARIABLES
    stored,       \* entries [at, n, ok]: ok if _normalize can select a field
    child,        \* "runs", "ends", "terminated", "gone"
    next,         \* the service the child is at
    remaining,    \* of the records of the batch
    rows,         \* the child's rows
    queue,        \* the one slot between the two: a batch or NONE
    elapsed,      \* seconds the parent has waited
    result        \* what collect_context returns

contextVars == <<stored, child, next, remaining, rows, queue, elapsed, result>>

Unavailable(reason) == [status |-> reason, records |-> {}, seen |-> 0]
AtService == Services[next]

-----------------------------------------------------------------------------
(* The child *)

\* The interval is closed on the left and open on the right.
Hits(s) == {e \in stored[s] : Start <= e.at /\ e.at < End}

\* The store returns the oldest first and as many as it was asked for.
Found(s, limit) ==
    {f \in SUBSET Hits(s) :
        /\ Cardinality(f) = Min({Cardinality(Hits(s)), limit})
        /\ \A e \in f, o \in Hits(s) \ f : e.at <= o.at}

\* What _normalize can select a field of.
Structured(entries) == {e \in entries : e.ok}

Status(seen, limit) == IF seen >= limit THEN "truncated" ELSE "available"

\* collect and _normalize; a source that fails leaves its row unavailable.
Collect ==
    /\ child = "runs" /\ next <= Len(Services) /\ remaining > 0
    /\ \E row \in {Unavailable("unavailable")}
            \cup {[status |-> Status(Cardinality(f), remaining),
                   records |-> Structured(f), seen |-> Cardinality(f)]
                     : f \in Found(AtService, remaining)} :
          /\ rows' = [rows EXCEPT ![AtService] = row]
          /\ remaining' = remaining - row.seen
    /\ next' = next + 1
    /\ UNCHANGED <<stored, child, queue, elapsed, result>>

NothingRemains ==
    /\ child = "runs" /\ next <= Len(Services) /\ remaining = 0
    /\ rows' = [rows EXCEPT ![AtService] = Unavailable("limit")]
    /\ next' = next + 1
    /\ UNCHANGED <<stored, child, remaining, queue, elapsed, result>>

\* The batch, or one that failed altogether, is put into the queue.
PutBatch ==
    /\ child = "runs"
    /\ \/ next > Len(Services) /\ queue' = rows
       \/ queue' = [s \in Selected |-> Unavailable("failed")]
    /\ child' = "ends"
    /\ UNCHANGED <<stored, next, remaining, rows, elapsed, result>>

ChildExits ==
    /\ child = "ends" /\ child' = "gone"
    /\ UNCHANGED <<stored, next, remaining, rows, queue, elapsed, result>>

-----------------------------------------------------------------------------
(* The parent *)

Waits == result = NONE

Tick ==
    /\ Waits /\ elapsed < Timeout /\ elapsed' = elapsed + 1
    /\ UNCHANGED <<stored, child, next, remaining, rows, queue, result>>

TakeBatch ==
    /\ Waits /\ queue # NONE
    /\ result' = queue /\ queue' = NONE
    /\ UNCHANGED <<stored, child, next, remaining, rows, elapsed>>

\* Mutant: the parent waits for the batch.
DeadlineNever ==
    /\ Waits /\ queue # NONE /\ elapsed = Timeout
    /\ result' = queue /\ queue' = NONE
    /\ UNCHANGED <<stored, child, next, remaining, rows, elapsed>>
Deadline ==
    /\ Waits /\ queue = NONE /\ elapsed = Timeout
    /\ result' = [s \in Selected |-> Unavailable("deadline")]
    /\ UNCHANGED <<stored, child, next, remaining, rows, queue, elapsed>>

\* Of the finally clause: a child that is alive is told to end ...
Terminate ==
    /\ ~Waits /\ child \in {"runs", "ends"}
    /\ child' \in {"terminated", "gone"}
    /\ UNCHANGED <<stored, next, remaining, rows, queue, elapsed, result>>

\* ... and killed when it did not within two seconds.
Kill ==
    /\ ~Waits /\ child = "terminated" /\ child' = "gone"
    /\ UNCHANGED <<stored, next, remaining, rows, queue, elapsed, result>>

ContextInit ==
    /\ stored \in Backends /\ child = "runs" /\ next = 1 /\ remaining = MaxRecords
    /\ rows = [s \in Selected |-> NONE] /\ queue = NONE /\ elapsed = 0 /\ result = NONE

Parent == Tick \/ TakeBatch \/ Deadline \/ Terminate \/ Kill
ContextNext == Collect \/ NothingRemains \/ PutBatch \/ ChildExits \/ Parent

\* A query may hang for good, so nothing is assumed of the child.
ContextSpec == ContextInit /\ [][ContextNext]_contextVars /\ WF_contextVars(Parent)

-----------------------------------------------------------------------------
(* Properties of the context *)

\* A row that says "available" holds every structured entry of the interval: an
\* answer that was cut off, also by what earlier services used up, never does.
AvailableIsComplete ==
    ~Waits => \A s \in Selected :
        result[s].status = "available" => result[s].records = Structured(Hits(s))

\* A batch has no more entries than one service may have, however they spread.
WithinRecordLimit ==
    ~Waits => Cardinality(UNION {{<<s, e>> : e \in result[s].records} : s \in Selected})
                <= MaxRecords

\* After the deadline the whole batch is unavailable, never a part of it.
WholeBatch ==
    ~Waits => \/ \A s \in Selected : result[s].status = "deadline"
              \/ \A s \in Selected : result[s].status # "deadline"

\* The caller gets its answer and the child is gone, whatever the store does.
ProbeEnds == <>(~Waits) /\ <>[](child = "gone")

-----------------------------------------------------------------------------
(* HttpObservations *)

VARIABLES
    world,       \* what the service did at each time: "down", "idle", "busy"
    presence, rps, ratio, p95,  \* matrices: "absent", "nan", or a value
    losses,      \* bound
    state        \* the service's state, "none" before it is summarised

httpVars == <<world, presence, rps, ratio, p95, losses, state>>

Present(m) == {t \in Stamps : m[t] # "absent"}
Finite(m) == {t \in Stamps : m[t] \notin {"absent", "nan"}}
\* Times with traffic.
Active == {t \in Finite(rps) : rps[t] = "some"}

\* Mutant: every value there is, is zero.
QuietSoFar == \A t \in Present(rps) : rps[t] = "zero"
Quiet == Present(rps) = Stamps /\ \A t \in Stamps : rps[t] = "zero"

Complete ==
    /\ Present(rps) = Stamps /\ Finite(rps) = Stamps
    /\ \A t \in Active : t \in Finite(ratio) /\ t \in Finite(p95)

SourcePresent == Present(presence) = Stamps /\ \A t \in Stamps : presence[t] = "one"

State ==
    IF ~SourcePresent THEN "UNAVAILABLE"
    ELSE IF Finite(rps) = {} THEN "INCOMPLETE"
    ELSE IF Quiet THEN "NO_ACTIVITY"
    ELSE IF Complete THEN "OBSERVED" ELSE "PARTIAL"

\* Times in their order.
InOrder(times) ==
    [i \in 1..Cardinality(times) |->
        CHOOSE t \in times : Cardinality({u \in times : u <= t}) = i]

\* The points of a channel that are shown; those of a ratio or a quantile only
\* of times with traffic.
Points(m) ==
    IF state \in {"none", "UNAVAILABLE", "INCOMPLETE"} THEN <<>>
    ELSE IF m = rps THEN InOrder(Finite(m))
    ELSE IF state = "NO_ACTIVITY" THEN <<>>
    ELSE InOrder(Finite(m) \cap Active)

Width(n) == Max({1, (n + MaxBins - 1) \div MaxBins})

\* The bins: first and last index of each.
Bins(points) ==
    LET n == Len(points) w == Width(n)
    IN [i \in 1..((n + w - 1) \div w) |-> [first |-> (i - 1) * w + 1, last |-> Min({i * w, n})]]

-----------------------------------------------------------------------------
\* A scrape, a rule or a query loses a point, or divides by nothing.
Lose ==
    /\ state = "none" /\ losses < MaxLosses /\ losses' = losses + 1
    /\ \E t \in Stamps, v \in {"absent", "nan"} :
          \/ rps' = [rps EXCEPT ![t] = v] /\ UNCHANGED <<presence, ratio, p95>>
          \/ ratio' = [ratio EXCEPT ![t] = v] /\ UNCHANGED <<presence, rps, p95>>
          \/ p95' = [p95 EXCEPT ![t] = v] /\ UNCHANGED <<presence, rps, ratio>>
          \/ v = "absent" /\ presence' = [presence EXCEPT ![t] = v] /\ UNCHANGED <<rps, ratio, p95>>
    /\ UNCHANGED <<world, state>>

Summarize ==
    /\ state = "none" /\ state' = State
    /\ UNCHANGED <<world, presence, rps, ratio, p95, losses>>

\* The worker fails, its answers do not decode, or its deadline passes.
SourceFails ==
    /\ state = "none" /\ state' = "UNAVAILABLE"
    /\ UNCHANGED <<world, presence, rps, ratio, p95, losses>>

HttpInit ==
    /\ world \in [Stamps -> {"down", "idle", "busy"}]
    /\ presence = [t \in Stamps |-> IF world[t] = "down" THEN "zero" ELSE "one"]
    /\ rps = [t \in Stamps |-> CASE world[t] = "down" -> "absent" [] world[t] = "idle" -> "zero"
                                 [] OTHER -> "some"]
    /\ ratio = [t \in Stamps |-> IF world[t] = "busy" THEN "some" ELSE "nan"]
    /\ p95 = ratio /\ losses = 0 /\ state = "none"

HttpNext == Lose \/ Summarize \/ SourceFails
HttpSpec == HttpInit /\ [][HttpNext]_httpVars

-----------------------------------------------------------------------------
(* Properties of the observations *)

\* "No activity" and "observed" are said of what the service did, whatever was lost
\* on the way: never of a service that was down or, for the first, had traffic.
VerdictIsTrue ==
    /\ state = "NO_ACTIVITY" => \A t \in Stamps : world[t] = "idle"
    /\ state = "OBSERVED" => \A t \in Stamps : world[t] # "down"

\* The bins of a channel hold each of its points once, and are no more than fit.
BinsPartition ==
    \A m \in {rps, ratio, p95} :
        LET bins == Bins(Points(m)) IN
        /\ Len(bins) <= MaxBins
        /\ \A i \in 1..Len(Points(m)) :
              Cardinality({b \in DOMAIN bins : bins[b].first <= i /\ i <= bins[b].last}) = 1

\* Where it is "observed", error ratios and latencies cover all of the traffic.
ObservedCoversTraffic ==
    state = "OBSERVED" =>
        {Points(ratio)[i] : i \in DOMAIN Points(ratio)} = {t \in Stamps : world[t] = "busy"}
=============================================================================
