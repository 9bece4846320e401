----------------------------- MODULE ReplayRanking -----------------------------
(***************************************************************************)
(* The ranking of a prepared prediction: predict_prepared() orders the     *)
(* services by the model's scores and validates the result                 *)
(* (ml/rca_ml/demo_predict.py); the demo server validates the JSON again   *)
(* before it serves it (validatePredictionJSON in internal/demo/server.go).*)
(* Two programs in two languages must agree on what a ranking is.          *)
(*                                                                         *)
(* The rerankers of the experiments (m10d_reranker.py, m11_protocol.py,    *)
(* m13_experiment.py) reorder the first of a ranking by new predictions,   *)
(* one after the other; what they could not mend is classified.  The       *)
(* predictions rest on the evidence for each candidate of the head, which  *)
(* m10d_reranker.py weighs without knowing the truth.                      *)
(***************************************************************************)
EXTENDS Integers, Sequences, FiniteSets, SequencesExt

CONSTANTS
    Services,   \* names, as numbers in their order
    Scores,
    MaxEntries, \* bound on the length of a file's ranking
    Within      \* the three first ranks error stages are about

VARIABLES
    scores,     \* the model's score of each service of the case
    file,       \* a ranking as a prediction file may hold it
    base, final,  \* the candidates as they were ranked at first, and reranked
    top         \* how many of the first are reranked

vars == <<scores, file, base, final, top>>

Entries == [service : Services, score : Scores, rank : 1..MaxEntries]

\* The key (-score, service) of both sorts.
Before(x, y) == x.score > y.score \/ (x.score = y.score /\ x.service < y.service)

\* predict_prepared: sorted, then numbered.
Ranked ==
    LET order == SetToSortSeq({[service |-> s, score |-> scores[s]] : s \in DOMAIN scores},
                              Before)
    IN [n \in DOMAIN order |->
          [service |-> order[n].service, score |-> order[n].score, rank |-> n]]

\* validate_prediction: numbered from one, and equal to its own sorted copy.  The
\* sort is stable.
PythonAccepts(ranking) ==
    /\ ranking # <<>>
    /\ \A n \in DOMAIN ranking : ranking[n].rank = n
    /\ \A m, n \in DOMAIN ranking : m < n => ~Before(ranking[n], ranking[m])

\* validatePredictionJSON looks at neighbours only.
GoAccepts(ranking) ==
    /\ ranking # <<>>
    /\ \A n \in DOMAIN ranking :
          /\ ranking[n].rank = n
          /\ n > 1 => ~Before(ranking[n], ranking[n - 1])

-----------------------------------------------------------------------------
(* Reranking *)

\* truth_rank: the rank of the root, 0 when it is not among the candidates.
Rank(r, root) == IF root \in ToSet(r) THEN CHOOSE n \in DOMAIN r : r[n] = root ELSE 0
First(r, k) == SubSeq(r, 1, Min({k, Len(r)}))
Rest(r, k) == SubSeq(r, Min({k, Len(r)}) + 1, Len(r))

\* rerank_top3, rerank_top_k: equal predictions keep their order.
ByPrediction(S, r, p) ==
    SetToSortSeq(S, LAMBDA x, y : p[x] > p[y] \/ (p[x] = p[y] /\ Rank(r, x) < Rank(r, y)))
RerankTopK(r, p, k) == ByPrediction(ToSet(First(r, k)), r, p) \o Rest(r, k)

\* _rerank_top_k of M13: the complete ranking by the predictions, of which the
\* members of the head are taken; equal predictions by name.
Learned(r, p) ==
    SetToSortSeq(ToSet(r), LAMBDA x, y : p[x] > p[y] \/ (p[x] = p[y] /\ x < y))
Members(r, p, k) == ToSet(First(r, k))
LearnedTopK(r, p, k) ==
    SelectSeq(Learned(r, p), LAMBDA s : s \in Members(r, p, k))
    \o SelectSeq(r, LAMBDA s : s \notin Members(r, p, k))

Rerank ==
    /\ \E p \in [ToSet(final) -> Scores] :
         \/ final' = RerankTopK(final, p, top)
         \/ final' = LearnedTopK(final, p, top)
    /\ UNCHANGED <<scores, file, base, top>>

\* error_decomposition and failure_taxonomy, of one incident.
Decomposed(r, root) ==
    CASE Rank(r, root) = 0 -> "unobservable"
      [] Rank(r, root) = 1 -> "success"
      [] Rank(r, root) \in 2..Within -> "ordering"
      [] OTHER -> "below"
Taxonomy(root) ==
    CASE Rank(final, root) = 1 -> "success"
      [] Rank(base, root) = 0 /\ Rank(final, root) # 1 -> "unobservable"
      [] Rank(base, root) > Within /\ Rank(final, root) # 1 -> "below"
      [] Rank(base, root) \in 1..Within /\ Rank(final, root) > 1 -> "ordering"
      [] OTHER -> "other"

-----------------------------------------------------------------------------
(* Evidence of a candidate (m10d_reranker.py), in percent *)

FAMILIES == {"cpu", "traffic_rate"}
Percent == {0, 50, 100}
Metric == [percentile : Percent, persistence : Percent, shift : Percent]
Strength(v) == [percentile |-> v, persistence |-> v, shift |-> v]

\* A row of evidence: the families that have metrics, the traces, the topology.
Row(families, residual, traces, own, wait, topology, fit) ==
    [families |-> families, residual |-> residual,
     traces |-> traces, own |-> own, wait |-> wait,
     topology |-> topology, fit |-> fit]

Percents(x) == x \div 100
Clip(x) == IF x < 0 THEN 0 ELSE IF x > 100 THEN 100 ELSE x
AbsOf(x) == IF x < 0 THEN -x ELSE x

MetricValue(row, f) ==
    LET m == row.families[f]
        value == 45 * m.percentile + 35 * m.persistence + 20 * m.shift
    IN  Percents(IF f = "traffic_rate" THEN (7 * value + 300 * row.residual) \div 10 ELSE value)
\* The mean of the two strongest of the families that have metrics.
MetricSupport(row) ==
    LET D == DOMAIN row.families
        order == SetToSortSeq(D, LAMBDA f, g : MetricValue(row, f) > MetricValue(row, g))
    IN  CASE D = {} -> 0
          [] Cardinality(D) = 1 -> MetricValue(row, order[1])
          [] OTHER -> (MetricValue(row, order[1]) + MetricValue(row, order[2])) \div 2

\* Anomaly, percentile, exclusive time and duration.
TraceLocalSupport(row) ==
    IF ~row.traces THEN 0
    ELSE Percents(35 * row.own.anomaly + 20 * row.own.percentile
                  + 30 * row.own.exclusive + 15 * row.own.duration)
DependencyWaitSupport(row) ==
    IF ~row.traces THEN 0
    ELSE Percents(45 * (100 - row.wait) + 35 * row.own.exclusive + 20 * TraceLocalSupport(row))

Unexpected(row) == Max({0, row.fit.observed - row.fit.expected})
PropagationSupport(row) ==
    IF ~row.topology THEN 0
    ELSE Percents(25 * row.fit.precision + 25 * row.fit.recall + 35 * row.fit.f1
                  + 15 * (100 - Unexpected(row)))
TopologySupport(row) ==
    IF ~row.topology THEN 0
    ELSE Percents(50 * row.fit.f1 + 30 * row.fit.active
                  + 20 * (100 - AbsOf(row.fit.expected - row.fit.observed)))

\* All of the families and traces that there are, or none.
CoverageSupport(row) ==
    Percents((IF row.families # <<>> \/ row.traces \/ row.topology THEN 5500 ELSE 0)
             + 20 * ((100 * Cardinality(DOMAIN row.families)) \div Cardinality(FAMILIES))
             + (IF row.traces THEN 1500 ELSE 0) + (IF row.topology THEN 10 * row.fit.active ELSE 0))

\* What speaks against a candidate, other being the strongest traces of another:
\* only a source that is there can.
Contradictions(row, other) ==
    LET local == TraceLocalSupport(row) IN
    {n \in {55} : row.families # <<>> /\ MetricSupport(row) < 30}
    \cup {n \in {row.wait} : row.traces /\ row.wait > 70 /\ local < other}
    \cup {n \in {other - local} : row.traces /\ other - local > 35}
    \cup {n \in {100 - PropagationSupport(row)} : row.topology /\ PropagationSupport(row) < 30}
Contradiction(row, other) == Max({0} \cup Contradictions(row, other))

StrongestOther(rows, s) == Max({0} \cup {TraceLocalSupport(rows[t]) : t \in DOMAIN rows \ {s}})

\* The rank of a service from above, the first of n 100 and the last 0.
RankPercentile(r, s) == IF Len(r) = 1 THEN 100 ELSE 100 - (100 * (Rank(r, s) - 1)) \div (Len(r) - 1)
ExpertAgreement(row, byMetrics, byTraces, s) ==
    IF row.families # <<>> /\ row.traces
    THEN 100 - AbsOf(RankPercentile(byMetrics, s) - RankPercentile(byTraces, s)) ELSE 50

SupportScore(row, contradiction, agreement, penalty) ==
    Clip(Percents(30 * MetricSupport(row) + 20 * TraceLocalSupport(row) + 15 * PropagationSupport(row)
                  + 10 * TopologySupport(row) + 10 * DependencyWaitSupport(row)
                  + 10 * CoverageSupport(row) + 5 * agreement - 35 * contradiction - 10 * penalty))

\* build_evidence_features, of one candidate.
Support(rows, s, agreement, penalty) ==
    SupportScore(rows[s], Contradiction(rows[s], StrongestOther(rows, s)), agreement, penalty)

-----------------------------------------------------------------------------
Init ==
    /\ \E S \in SUBSET Services \ {{}} : scores \in [S -> Scores]
    /\ file = <<>>
    /\ \E S \in SUBSET Services \ {{}} : base \in SetToSeqs(S)
    /\ final = base /\ top \in 1..Cardinality(Services)
Add == /\ Len(file) < MaxEntries
       /\ \E e \in Entries : file' = Append(file, e)
       /\ UNCHANGED <<scores, base, final, top>>
Next == Add \/ Rerank
Spec == Init /\ [][Next]_vars

-----------------------------------------------------------------------------
(* Properties *)

\* What the preparation writes is served, whatever the scores, ties included.
PreparedIsServed == PythonAccepts(Ranked) /\ GoAccepts(Ranked)

\* The two validations accept the same rankings: comparing neighbours finds every
\* disorder the comparison with the sorted copy finds, repeated services included.
ValidatorsAgree == GoAccepts(file) <=> PythonAccepts(file)

\* However often and by whichever reranker the head is reranked, a root below it
\* keeps its rank and one in it stays there: only the order within the head, and no
\* hit rate at or beyond it, can change.
DeepRootsStay ==
    /\ Len(final) = Len(base)
    /\ \A s \in ToSet(base) :
         IF Rank(base, s) > top THEN Rank(final, s) = Rank(base, s)
         ELSE Rank(final, s) \in 1..top

\* The two classifications of a failure agree as long as no more than the first
\* ranks are reranked, and no failure is left without a stage.
TaxonomyAgrees ==
    \A root \in Services :
        /\ Taxonomy(root) # "other"
        /\ top <= Within => Taxonomy(root) = Decomposed(final, root)

\* The rerankers of the three experiments differ in ties only.
RerankersAgree ==
    \A p \in [ToSet(final) -> Scores] :
        Cardinality({p[s] : s \in ToSet(First(final, top))}) = Len(First(final, top)) =>
            RerankTopK(final, p, top) = LearnedTopK(final, p, top)

\* Rows to compare: what each source may say; and rivals.
Own(a, e) == [anomaly |-> a, percentile |-> a, exclusive |-> e, duration |-> e]
Fit(v, o) == [precision |-> v, recall |-> v, f1 |-> v, active |-> v, expected |-> v, observed |-> o]
Families == {<<>>} \cup {[f \in F |-> Strength(v)] : F \in SUBSET FAMILIES \ {{}}, v \in Percent}
Silent(f) == Row(f, 50, FALSE, Own(0, 0), 0, FALSE, Fit(0, 0))
Rivals == {Silent(<<>>)} \cup {Row(<<>>, 0, TRUE, Own(a, a), 100, FALSE, Fit(0, 0)) : a \in Percent}
Rows ==
    {Silent(f) : f \in Families}
    \cup {Row(f, 0, TRUE, Own(a, e), w, t, Fit(v, 50)) :
            f \in {<<>>, [g \in FAMILIES |-> Strength(50)]}, a \in Percent, e \in {0, 100},
            w \in Percent, t \in BOOLEAN, v \in {0, 100}}

SameSources(x, y) ==
    DOMAIN x.families = DOMAIN y.families /\ x.traces = y.traces /\ x.topology = y.topology
Grows(x, y, field) == x.own[field] <= y.own[field]
\* y shows what x shows, and its own traces or metrics more of it.
ShowsMore(x, y) ==
    /\ SameSources(x, y) /\ x.fit = y.fit /\ x.residual <= y.residual /\ x.wait >= y.wait
    /\ \A f \in DOMAIN x.families : x.families[f].shift <= y.families[f].shift
    /\ \A field \in DOMAIN x.own : Grows(x, y, field)

\* From the same sources, more evidence of its own never makes a candidate less
\* supported, nor another one more; a source that is missing is no evidence against
\* it, and traces never are against the candidate whose own are the strongest.
EvidenceFair ==
    \A x, y \in Rows, z \in Rivals :
        LET before == <<x, z>>  after == <<y, z>>
            agreement == ExpertAgreement(x, <<1, 2>>, <<2, 1>>, 1)
        IN
        /\ ShowsMore(x, y) =>
             /\ Support(before, 1, agreement, 0) <= Support(after, 1, agreement, 0)
             /\ Support(before, 2, 50, 0) >= Support(after, 2, 50, 0)
        /\ x.families = <<>> /\ ~x.traces /\ ~x.topology =>
             Contradiction(x, StrongestOther(before, 1)) = 0
        /\ TraceLocalSupport(x) >= TraceLocalSupport(z) =>
             Contradiction(x, StrongestOther(before, 1))
                = Contradiction([x EXCEPT !.traces = FALSE], 0)
=============================================================================
