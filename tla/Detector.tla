------------------------------- MODULE Detector -------------------------------
(***************************************************************************)
(* The anomaly detector of internal/anomaly/detector.go: latencies and     *)
(* failures of operations, collected for a baseline and then compared with *)
(* a window of current ones.  Every method holds the detector's lock.      *)
(*                                                                         *)
(* Everything is decided in whole numbers: of a latency only its logarithm *)
(* matters, on which the statistics (statistics.go) are made.              *)
(***************************************************************************)
EXTENDS Integers, Sequences, FiniteSets, SequencesExt, FiniteSetsExt

CONSTANTS
    Keys,           \* operations of services
    Samples,        \* what is observed; Failed tells which failed
    Failed(_),
    Latency(_),     \* the logarithm of its latency
    MinBaseline, MaxBaseline, Window, MinCurrent,
    ErrorThreshold, \* ErrorZThreshold
    LatencyThreshold, ScaleEpsilon,
    MaxObserved     \* observations since the detector was made (bound)

DetectorAssumption ==
    /\ MinBaseline \in Nat \ {0} /\ MaxBaseline >= MinBaseline /\ Window \in Nat \ {0}
    /\ MinCurrent \in 1..Window /\ ErrorThreshold \in Nat \ {0}
    /\ LatencyThreshold \in Nat \ {0} /\ ScaleEpsilon \in Nat \ {0}

VARIABLES
    phase,          \* "empty", "collecting", "frozen"
    samples,        \* baselineSamples
    baseline,       \* for each operation its size and failures; size 0: absent
    current,        \* the window of each operation
    log             \* all observations of each operation since its last reset

vars == <<phase, samples, baseline, current, log>>

NoSamples == [k \in Keys |-> <<>>]
NoBaseline == [k \in Keys |-> [n |-> 0, errors |-> 0]]

\* Mutant: beyond the limit what is new is dropped.
AppendFirst(values, value, limit) ==
    IF Len(values) < limit THEN Append(values, value) ELSE values
\* appendBounded: beyond the limit the oldest makes room.
AppendBounded(values, value, limit) ==
    IF Len(values) < limit THEN Append(values, value) ELSE Append(Tail(values), value)

Errors(values) == Quantify(DOMAIN values, LAMBDA n : Failed(values[n]))

-----------------------------------------------------------------------------

\* StartBaseline: everything starts anew.
StartBaseline ==
    /\ phase' = "collecting"
    /\ samples' = NoSamples /\ baseline' = NoBaseline /\ current' = NoSamples
    /\ log' = NoSamples

\* FreezeBaseline: ErrBaselineNotCollecting unless it is collecting.
FreezeBaseline ==
    /\ phase = "collecting"
    /\ baseline' = [k \in Keys |->
          [n |-> Len(samples[k]), errors |-> Errors(samples[k])]]
    /\ current' = NoSamples /\ log' = NoSamples
    /\ phase' = "frozen" /\ UNCHANGED samples

ResetCurrent ==
    /\ current' = NoSamples
    /\ log' = IF phase = "frozen" THEN NoSamples ELSE log
    /\ UNCHANGED <<phase, samples, baseline>>

\* Observe: a valid observation goes where the phase says, or is refused.
Observe(k, sample) ==
    CASE phase = "collecting" ->
           /\ samples' = [samples EXCEPT ![k] = AppendBounded(@, sample, MaxBaseline)]
           /\ log' = [log EXCEPT ![k] = Append(@, sample)]
           /\ UNCHANGED <<phase, baseline, current>>
      [] phase = "frozen" ->
           /\ current' = [current EXCEPT ![k] = AppendBounded(@, sample, Window)]
           /\ log' = [log EXCEPT ![k] = Append(@, sample)]
           /\ UNCHANGED <<phase, samples, baseline>>
      [] phase = "empty" -> UNCHANGED vars

Init ==
    /\ phase = "empty" /\ samples = NoSamples /\ baseline = NoBaseline
    /\ current = NoSamples /\ log = NoSamples

Next ==
    \/ StartBaseline \/ FreezeBaseline \/ ResetCurrent
    \/ \E k \in Keys, sample \in Samples :
         Len(log[k]) < MaxObserved /\ Observe(k, sample)

Spec == Init /\ [][Next]_vars

-----------------------------------------------------------------------------
(* operationResultLocked *)

Sufficient(k) == baseline[k].n >= MinBaseline

ResultState(k) ==
    IF phase # "frozen" \/ ~Sufficient(k) THEN "insufficient_baseline"
    ELSE IF Len(current[k]) < MinCurrent THEN "insufficient_current_data"
    ELSE "ready"

\* errorRateZ >= ErrorThreshold, with the smoothed baseline rate a / A and the
\* current rate b / B; both sides squared and cleared of fractions.
Exceeds(a, A, b, B) ==
    /\ b * A > a * B
    /\ (b * A - a * B) * (b * A - a * B) * (A + B)
           >= 2 * ErrorThreshold * ErrorThreshold * (a + b) * (A + B - a - b) * A * B

ErrorAnomalous(k) ==
    /\ ResultState(k) = "ready"
    /\ Exceeds(2 * baseline[k].errors + 1, 2 * (baseline[k].n + 1),
               2 * Errors(current[k]), 2 * Len(current[k]))

-----------------------------------------------------------------------------
(* calculateLatencyStats *)

Latencies(values) == [n \in DOMAIN values |-> Latency(values[n])]
Sorted(values) == SortSeq(values, <)

\* Twice the median: the middle of an odd number counts double.
TwiceMedian(values) ==
    IF values = <<>> THEN 0
    ELSE LET s == Sorted(values) IN s[(Len(s) + 1) \div 2] + s[Len(s) \div 2 + 1]

\* percentileNearestRank, of a percentage.
NearestRank(values, percent) ==
    IF values = <<>> THEN 0
    ELSE LET rank == (percent * Len(values) + 99) \div 100
         IN  Sorted(values)[Max({1, Min({rank, Len(values)})})]

Distance(x, y) == IF x < y THEN y - x ELSE x - y
\* Four times the median of the deviations.
Deviation(values) ==
    TwiceMedian([n \in DOMAIN values |-> Distance(2 * values[n], TwiceMedian(values))])
\* The scale, times 40000: 1.4826 deviations, and at least epsilon.
Scale(values) == Max({14826 * Deviation(values), 40000 * ScaleEpsilon})

\* The baseline has the statistics of its samples, which stay as they were frozen.
LatencyAnomalous(k) ==
    LET base == Latencies(samples[k]) IN
    /\ ResultState(k) = "ready"
    /\ 20000 * (TwiceMedian(Latencies(current[k])) - TwiceMedian(base))
          >= LatencyThreshold * Scale(base)

-----------------------------------------------------------------------------
(* Properties *)

DetectorTypeOK ==
    /\ phase \in {"empty", "collecting", "frozen"}
    /\ \A k \in Keys : /\ samples[k] \in Seq(Samples) /\ Len(samples[k]) <= MaxBaseline
                       /\ current[k] \in Seq(Samples) /\ Len(current[k]) <= Window
                       /\ baseline[k].errors <= baseline[k].n

\* The window is the last observations since the baseline was frozen or the
\* incident was cleared, and the baseline's samples the last since its start.
WindowIsRecent ==
    \A k \in Keys :
        LET last(limit) == SubSeq(log[k], Max({1, Len(log[k]) - limit + 1}), Len(log[k]))
        IN /\ phase = "frozen" => current[k] = last(Window)
           /\ phase = "collecting" => samples[k] = last(MaxBaseline)

\* An operation is anomalous by its errors only against a frozen baseline, with
\* enough observations on both sides, and when more of its requests fail than
\* the baseline's rate says.
AnomalyHasEvidence ==
    \A k \in Keys : ErrorAnomalous(k) =>
        /\ phase = "frozen" /\ baseline[k].n >= MinBaseline
        /\ Errors(current[k]) * (baseline[k].n + 1) > baseline[k].errors * Len(current[k])

\* An operation is anomalous by its latency only when at least half of its window
\* is slower than half of its baseline: a minority of slow requests never makes it so.
\* The 95th percentile shown is the least value which 95 of 100 do not exceed.
LatencyIsRobust ==
    \A k \in Keys :
        LET now == Latencies(current[k])
            base == Latencies(samples[k])
            upTo(x) == Quantify(DOMAIN now, LAMBDA n : now[n] <= x)
            p95 == NearestRank(now, 95)
        IN /\ LatencyAnomalous(k) =>
                \E x \in ToSet(base) :
                    /\ 2 * Quantify(DOMAIN base, LAMBDA n : base[n] <= x) >= Len(base)
                    /\ 2 * upTo(x) <= Len(now)
           /\ now # <<>> => p95 \in ToSet(now) /\ 100 * upTo(p95) >= 95 * Len(now)
           /\ \A x \in ToSet(now) : x < p95 => 100 * upTo(x) < 95 * Len(now)

\* More failures in the same window never make an anomaly disappear.
MoreErrorsStayAnomalous ==
    [][\A k \in Keys :
         /\ ErrorAnomalous(k) /\ phase' = phase /\ baseline' = baseline
         /\ Len(current'[k]) = Len(current[k]) /\ Errors(current'[k]) >= Errors(current[k])
         => ErrorAnomalous(k)']_vars
=============================================================================
