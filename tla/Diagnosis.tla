------------------------------- MODULE Diagnosis -------------------------------
(***************************************************************************)
(* The analysis of internal/diagnosis: from the evidence of operations and *)
(* the calls between services to features of services (BuildFeatures), and *)
(* from these to the rankings of the candidates (BuildRCA).                *)
(*                                                                         *)
(* Scores and strengths are small numbers that only keep their order; F1   *)
(* is the fraction it is.  The names of services and operations are their  *)
(* ranks.  What a trace says of a sample is in DiagnosisLoops.             *)
(***************************************************************************)
EXTENDS Integers, Sequences, FiniteSets, SequencesExt, FiniteSetsExt

CONSTANTS
    Services,          \* numbers, as their names are ordered
    Inputs,            \* what may be analysed
    NONE

VARIABLES input, pc, features, ranking
vars == <<input, pc, features, ranking>>

\* Evidence of an operation: whether its result is ready, its scores, whether
\* they are anomalous, M5Severity, samples, how many have their server span in
\* the traces, and the share of its own time.
Evidence == [op : Nat, ready : BOOLEAN, latency : Nat, error : Nat, slow : BOOLEAN,
             failing : BOOLEAN, severity : Nat, samples : Nat, traced : Nat, own : Nat]

Signals == {"none", "latency", "error"}

-----------------------------------------------------------------------------
(* selectTopology *)

\* Of all operations: their current samples, and those of them with a trace.
Total(field) ==
    FoldSet(LAMBDA s, n : n + FoldSeq(LAMBDA e, m : m + e[field], 0, input.evidence[s]),
            0, Services)

Own(edges) == {e \in edges : e[1] # e[2]}
\* The calls of the incident's traces when these show at least 70% of the samples.
Topology ==
    IF Total("samples") > 0 /\ 10 * Total("traced") >= 7 * Total("samples")
    THEN Own(input.active) ELSE Own(input.global)

\* AffectedServices: the service and its direct and indirect callers.
Affected(s) ==
    FoldSet(LAMBDA n, set : set \cup {e[1] : e \in {c \in Topology : c[2] \in set}},
            {s}, 1..Cardinality(Services))

-----------------------------------------------------------------------------
(* BuildFeatures: the operations of a service, by name *)

\* A feature without an operation has the name NONE and scores of 0.
NoFeature == [ready |-> FALSE, latency |-> 0, latencyOf |-> NONE, error |-> 0, errorOf |-> NONE,
              slow |-> FALSE, failing |-> FALSE, severity |-> 0, trace |-> <<0, 1>>, traceOf |-> NONE]

Better(of, op, score, best) ==
    of = NONE \/ score > best \/ (score = best /\ op < of)

\* The latency strength, by the own share, by the share of samples with a trace.
Local(e) == <<e.latency * e.own * e.traced, IF e.samples = 0 THEN 1 ELSE e.samples>>
Times(a, b) == a[1] * b[2]

Include(f, e) ==
    LET local == Local(e)
        latency == Better(f.latencyOf, e.op, e.latency, f.latency)
        error == Better(f.errorOf, e.op, e.error, f.error)
        trace == Better(f.traceOf, e.op, Times(local, f.trace), Times(f.trace, local))
    IN IF ~e.ready THEN f
       ELSE [ready |-> TRUE,
             latency |-> IF latency THEN e.latency ELSE f.latency,
             latencyOf |-> IF latency THEN e.op ELSE f.latencyOf,
             error |-> IF error THEN e.error ELSE f.error,
             errorOf |-> IF error THEN e.op ELSE f.errorOf,
             slow |-> f.slow \/ e.slow, failing |-> f.failing \/ e.failing,
             severity |-> Max({f.severity, e.severity}),
             trace |-> IF trace THEN local ELSE f.trace,
             traceOf |-> IF trace THEN e.op ELSE f.traceOf]

Feature(s) == FoldLeft(Include, NoFeature, input.evidence[s])

BuildFeatures ==
    /\ pc = "given"
    /\ features' = [s \in Services |-> Feature(s)]
    /\ pc' = "features"
    /\ UNCHANGED <<input, ranking>>

Ready == {s \in Services : features[s].ready}
Primary ==
    IF \E s \in Ready : features[s].failing THEN "error"
    ELSE IF \E s \in Ready : features[s].slow THEN "latency" ELSE "none"

Observed ==
    {s \in Ready : \/ Primary = "error" /\ features[s].failing
                   \/ Primary = "latency" /\ features[s].slow}

State ==
    IF input.baseline # "frozen" THEN "baseline_not_frozen"
    ELSE IF Ready = {} THEN "insufficient_current_data"
    ELSE IF Primary = "none" THEN "no_anomaly" ELSE "ready"

Predicted(s) == Affected(s) \cap Ready
\* 2 P R / (P + R) with P = hits / predicted and R = hits / observed.
F1(s) ==
    LET hits == Cardinality(Predicted(s) \cap Observed)
    IN IF hits = 0 THEN <<0, 1>>
       ELSE <<2 * hits, Cardinality(Predicted(s)) + Cardinality(Observed)>>

LocalEvidence(s) ==
    CASE Primary = "error" -> <<features[s].error, 1>>
      [] Primary = "latency" -> features[s].trace
      [] Primary = "none" -> <<0, 1>>
Strength(s) ==
    IF Primary = "error" THEN features[s].error
    ELSE IF Primary = "latency" THEN features[s].latency ELSE 0

-----------------------------------------------------------------------------
(* DefaultRankers *)

Above(a, b) == Times(a, b) > Times(b, a)
Equal(a, b) == Times(a, b) = Times(b, a)
By(score(_), s, t) == Above(score(s), score(t)) \/ (Equal(score(s), score(t)) /\ s < t)

Severity(s) == <<features[s].severity, 1>>
Hybrid(s) == <<F1(s)[1] * LocalEvidence(s)[1], F1(s)[2] * LocalEvidence(s)[2]>>
\* Mutant: the strength decides, the topology breaks ties.
ByStrengthFirst(s, t) ==
    \/ Strength(s) > Strength(t)
    \/ Strength(s) = Strength(t) /\ By(F1, s, t)
ByTopology(s, t) ==
    \/ Above(F1(s), F1(t))
    \/ Equal(F1(s), F1(t)) /\ (Strength(s) > Strength(t) \/ (Strength(s) = Strength(t) /\ s < t))

\* candidateScores: the ready services observed to be anomalous.
Candidates == IF State = "ready" THEN Observed ELSE {}

BuildRCA ==
    /\ pc = "features"
    /\ ranking' = [max_severity |-> SetToSortSeq(Candidates, LAMBDA s, t : By(Severity, s, t)),
                   topology_consistency |-> SetToSortSeq(Candidates, ByTopology),
                   local_evidence |-> SetToSortSeq(Candidates, LAMBDA s, t : By(LocalEvidence, s, t)),
                   hybrid_v1 |-> SetToSortSeq(Candidates, LAMBDA s, t : By(Hybrid, s, t))]
    /\ pc' = "ranked"
    /\ UNCHANGED <<input, features>>

Init == input \in Inputs /\ pc = "given" /\ features = NONE /\ ranking = NONE
Next == BuildFeatures \/ BuildRCA
Spec == Init /\ [][Next]_vars

-----------------------------------------------------------------------------
(* Properties *)

Place(ranker, s) == CHOOSE n \in DOMAIN ranking[ranker] : ranking[ranker][n] = s

\* A diagnosis that is ready ranks, in each ranking, every service with the
\* primary signal once, and no other; one that is not ready ranks none.
RanksTheAnomalous ==
    pc = "ranked" => \A r \in DOMAIN ranking :
        /\ IsInjective(ranking[r])
        /\ ToSet(ranking[r]) =
             IF input.baseline # "frozen" THEN {}
             ELSE LET flag(e) == IF \E s \in Services : \E n \in DOMAIN input.evidence[s] :
                                       input.evidence[s][n].ready /\ input.evidence[s][n].failing
                                 THEN e.failing ELSE e.slow
                  IN {s \in Services : \E n \in DOMAIN input.evidence[s] :
                          input.evidence[s][n].ready /\ flag(input.evidence[s][n])}

Explains(s) == \A t \in Ready : t \in Observed <=> t \in Affected(s)

\* Where the ready services that a candidate affects are exactly the anomalous
\* ones, none that explains them less well stands above it in the topology
\* ranking: services that are not ready count neither for nor against it.
CulpritOnTop ==
    pc = "ranked" => \A s, t \in Candidates :
        Explains(s) /\ ~Explains(t)
            => Place("topology_consistency", s) < Place("topology_consistency", t)

\* A candidate explains at least itself: its topology score is positive, so the
\* hybrid score is 0 only where the local evidence is.
CandidatesExplainThemselves ==
    pc = "ranked" => \A s \in Candidates :
        F1(s)[1] > 0 /\ (Hybrid(s)[1] = 0 <=> LocalEvidence(s)[1] = 0)

\* A feature's score comes from the operation it names, which no ready operation
\* of the service exceeds, and which is the first by name among the equals.
SourceIsStrongest ==
    pc # "given" => \A s \in Ready :
        \E n \in DOMAIN input.evidence[s] :
            LET e == input.evidence[s][n]
            IN /\ e.ready /\ features[s].latencyOf = e.op /\ features[s].latency = e.latency
               /\ \A m \in DOMAIN input.evidence[s] :
                    LET o == input.evidence[s][m]
                    IN o.ready => o.latency < e.latency \/ (o.latency = e.latency /\ e.op <= o.op)

\* Calls that only traces show are believed when most samples have a trace: a
\* few traces never hide a caller that the whole graph knows.
FewTracesHideNothing ==
    \A s \in Services :
        10 * Total("traced") < 7 * Total("samples")
            => \A e \in Own(input.global) : e[2] = s => e[1] \in Affected(s)
=============================================================================
