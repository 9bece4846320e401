---------------------------- MODULE NestedValidation ----------------------------
(***************************************************************************)
(* The validation inside one development system: m13_experiment.py ranks   *)
(* every incident out of fold and selects an architecture on those         *)
(* rankings; m13_1_nested.py repeats the whole selection inside each outer *)
(* training part.  An incident is repeated: its repetitions form a cluster *)
(* and must stay together.  What is learned carries the incidents it was   *)
(* fitted to, directly or through scores, and those a choice looked at.    *)
(***************************************************************************)
EXTENDS Naturals, FiniteSets, SequencesExt

CONSTANTS
    Incidents,
    Cluster, Root,              \* functions on incidents: cluster_key, root_service
    Folds, OuterFolds, InnerFolds, ExpertFolds, FusionFolds,  \* numbers of folds
    MaxRuns, MaxKills,          \* bounds
    NONE

STEPS13 == {"m13", "ablations", "fusion", "models", "evaluation", "corpus", "freeze",
            "docs", "integrity"}
STEPS131 == {"m13.1", "select", "fit", "evaluation131", "docs131", "integrity131"}

NestedAssumption ==
    /\ DOMAIN Cluster = Incidents /\ DOMAIN Root = Incidents
    /\ IsFiniteSet(Incidents)
    /\ \A i, j \in Incidents : Cluster[i] = Cluster[j] => Root[i] = Root[j]
    /\ {Folds, OuterFolds, InnerFolds, ExpertFolds, FusionFolds} \subseteq Nat \ {0}
    /\ NONE \notin STEPS13 \cup STEPS131

VARIABLES
    study, pc,      \* the process that runs, where it is
    todo,           \* outer folds to do
    outer,          \* incident -> outer fold
    selection,      \* what the inner search selected, and what it looked at
    prediction,     \* incident -> what its ranking depends on, or NONE
    times,          \* incident -> how often it was ranked in an outer test
    experts,        \* incident -> the score a fusion model was last trained on
    frozen,         \* frozen-inputs.json: the files it names
    file,           \* files by name: NONE, the run that wrote it, or hashes
    runs, kills     \* bounds

memory == <<todo, outer, selection, prediction, times, experts>>
vars == <<study, pc, memory, frozen, file, runs, kills>>

FILES13 == {"baseline", "models", "evaluation", "corpus", "freeze", "docs", "integrity"}
FILES131 == {"evaluation131", "docs131", "integrity131"}
ARCHITECTURES == {"extended_full_top5", "two_expert_fusion_top5", "full_candidate_challenger"}

Goto(step) == pc' = step /\ UNCHANGED study
Bounds == UNCHANGED <<frozen, runs, kills>>

-----------------------------------------------------------------------------
(* Folds *)

InFold(assignment, f) == {i \in DOMAIN assignment : assignment[i] = f}
FoldsOf(assignment) == {assignment[i] : i \in DOMAIN assignment}
Lightest(loads) == CHOOSE f \in DOMAIN loads : \A g \in DOMAIN loads :
                       loads[f] < loads[g] \/ (loads[f] = loads[g] /\ f <= g)

\* What is kept together.
Group(i) == Cluster[i]

\* grouped_folds: the groups in the order of a hash, each to the fold that is the
\* lightest at its turn, by the members of the groups before it.
Before(order, m) == {order[l] : l \in 1..(m - 1)}
Load(ids, to, groups, f) == Cardinality({i \in ids : Group(i) \in groups /\ to[Group(i)] = f})
InTurn(ids, n, to, order) ==
    \A m \in DOMAIN order :
        to[order[m]] = Lightest([f \in 1..n |-> Load(ids, to, Before(order, m), f)])
Assigned(ids, n, order) ==
    {[i \in ids |-> to[Group(i)]] :
        to \in {t \in [{Group(i) : i \in ids} -> 1..n] : InTurn(ids, n, t, order)}}
GroupedFolds(ids, n) ==
    UNION {Assigned(ids, n, order) : order \in SetToSeqs({Group(i) : i \in ids})}

-----------------------------------------------------------------------------
(* Learning *)

Union(learned) == [fit |-> UNION {m.fit : m \in learned}, choice |-> UNION {m.choice : m \in learned}]
\* _fit, on features that may be scores; _predict adds the scores the test rows carry.
Fitted(ids, scores, seen) ==
    [fit |-> ids \cup UNION {scores[i].fit : i \in DOMAIN scores},
     choice |-> seen \cup UNION {scores[i].choice : i \in DOMAIN scores}]

\* fixed_oof, _fixed_oof: each fold by a model of the other folds.
Oof(assignment, seen) ==
    [i \in DOMAIN assignment |->
        Fitted(DOMAIN assignment \ InFold(assignment, assignment[i]), <<>>, seen)]

\* Mutant: a fusion model learns from the scores of experts of all training incidents.
ExpertScoresInSample(train, assignment, seen) == [i \in train |-> Fitted(train, <<>>, seen)]

\* _fit_predict_fusion, the body of _fusion_oof: the fusion model learns from the
\* experts' scores out of fold, and ranks what experts of all training incidents score.
ExpertScores(train, assignment, seen) == Oof(assignment, seen)
Fusion(train, assignment, seen) ==
    Union({Fitted(train, ExpertScores(train, assignment, seen), seen), Fitted(train, <<>>, seen)})

-----------------------------------------------------------------------------
(* A study starts, is killed *)

\* The next outer fold, in order, and the rankings once its incidents are ranked.
Fold == CHOOSE f \in todo : \A g \in todo : f <= g
Ranked(test, m) == [i \in Incidents |-> IF i \in test THEN m ELSE prediction[i]]

Forgotten ==
    /\ todo' = {} /\ outer' = <<>> /\ selection' = NONE
    /\ prediction' = [i \in Incidents |-> NONE] /\ times' = [i \in Incidents |-> 0]
    /\ experts' = <<>>
Ended == study' = NONE /\ pc' = NONE /\ Forgotten

\* The seals of the telemetry and the whole denominator are checked in both; M13.1
\* starts from the very files frozen-inputs.json names.
Start(name) ==
    /\ study = NONE /\ runs < MaxRuns /\ runs' = runs + 1
    /\ name = "m13.1" => frozen # NONE /\ \A f \in DOMAIN frozen : file[f] = frozen[f]
    /\ study' = name /\ pc' = name
    /\ UNCHANGED <<memory, frozen, file, kills>>
Kill ==
    /\ study # NONE /\ kills < MaxKills /\ kills' = kills + 1
    /\ Ended /\ UNCHANGED <<frozen, file, runs>>

\* frozen-inputs.json is written by hand once M13 is done.
FreezeInputs ==
    /\ study = NONE /\ frozen = NONE /\ \A f \in FILES13 : file[f] # NONE
    /\ frozen' = [f \in FILES13 |-> file[f]]
    /\ UNCHANGED <<study, pc, memory, file, runs, kills>>

-----------------------------------------------------------------------------
(* M13 *)

\* The healthy baselines are fitted and written, the features built, the truth joined,
\* select_config ranks every configuration out of fold over all incidents.
SelectConfig ==
    /\ pc = "m13"
    /\ outer' \in GroupedFolds(Incidents, Folds)
    /\ file' = [file EXCEPT !["baseline"] = runs]
    /\ selection' = [architecture |-> NONE, seen |-> Incidents]
    /\ Goto("ablations") /\ UNCHANGED <<todo, prediction, times, experts>> /\ Bounds

\* The ablations out of fold; then the fusion, fold by fold, whose inner folds split
\* each training part.
Ablate ==
    /\ pc = "ablations" /\ prediction' = Oof(outer, selection.seen)
    /\ todo' = FoldsOf(outer) /\ Goto("fusion")
    /\ UNCHANGED <<outer, selection, times, experts, file>> /\ Bounds
FuseFold ==
    /\ pc = "fusion" /\ todo # {}
    /\ LET train == Incidents \ InFold(outer, Fold) IN
       \E assignment \in GroupedFolds(train, FusionFolds) :
         /\ experts' = ExpertScores(train, assignment, {})
         /\ prediction' = Ranked(InFold(outer, Fold), Fusion(train, assignment, selection.seen))
    /\ todo' = todo \ {Fold}
    /\ UNCHANGED <<study, pc, outer, selection, times, file>> /\ Bounds

\* The full candidate list competes only where its gates let it.
Choose ==
    /\ pc = "fusion" /\ todo = {}
    /\ \E a \in ARCHITECTURES : selection' = [selection EXCEPT !.architecture = a]
    /\ Goto("models") /\ UNCHANGED <<todo, outer, prediction, times, experts, file>> /\ Bounds

\* The final models are of every incident; the holdouts leave out a root each.
HoldOut ==
    /\ pc = "models" /\ file' = [file EXCEPT !["models"] = runs]
    /\ outer' = [i \in Incidents |-> Root[i]]
    /\ prediction' = Oof(outer', selection.seen)
    /\ Goto("evaluation") /\ UNCHANGED <<todo, selection, times, experts>> /\ Bounds

\* evaluation.json, the corpus and freeze manifests, the documents, and the hashes of all.
NextOf(step) == CASE step = "evaluation" -> "corpus" [] step = "corpus" -> "freeze"
                  [] step = "freeze" -> "docs" [] step = "docs" -> "integrity"
                  [] step = "evaluation131" -> "docs131" [] step = "docs131" -> "integrity131"
Hashed(step) == IF step = "integrity" THEN FILES13 \ {"integrity"}
                ELSE (FILES131 \ {"integrity131"}) \cup FILES13
Save ==
    /\ pc \in {"evaluation", "corpus", "freeze", "docs", "integrity"}
              \cup {"evaluation131", "docs131", "integrity131"}
    /\ IF pc \in {"integrity", "integrity131"}
       THEN file' = [file EXCEPT ![pc] = [f \in Hashed(pc) |-> file[f]]] /\ Ended
       ELSE file' = [file EXCEPT ![pc] = runs] /\ Goto(NextOf(pc)) /\ UNCHANGED memory
    /\ Bounds

-----------------------------------------------------------------------------
(* M13.1 *)

Outer ==
    /\ pc = "m13.1"
    /\ outer' \in GroupedFolds(Incidents, OuterFolds) /\ todo' = FoldsOf(outer')
    /\ Goto("select") /\ UNCHANGED <<selection, prediction, times, experts, file>> /\ Bounds

Searched == Incidents \ InFold(outer, Fold)

\* _select_inside_outer_train: configuration, then architecture, by rankings out of
\* the inner folds; the fusion has folds of its own in each.
SelectInside ==
    /\ pc = "select" /\ todo # {}
    /\ \E a \in ARCHITECTURES, inner \in GroupedFolds(Searched, InnerFolds) :
         /\ selection' = [architecture |-> a, seen |-> Searched]
         /\ \E f \in FoldsOf(inner) :
              \E assignment \in GroupedFolds(Searched \ InFold(inner, f), ExpertFolds) :
                experts' = ExpertScores(DOMAIN assignment, assignment, {})
    /\ Goto("fit") /\ UNCHANGED <<todo, outer, prediction, times, file>> /\ Bounds

\* _fit_selected_outer
FitOuter ==
    /\ pc = "fit"
    /\ LET train == Incidents \ InFold(outer, Fold) test == InFold(outer, Fold) IN
       \E assignment \in GroupedFolds(train, InnerFolds) :
         LET m == IF selection.architecture = "two_expert_fusion_top5"
                  THEN Fusion(train, assignment, selection.seen)
                  ELSE Fitted(train, <<>>, selection.seen)
         IN /\ prediction' = Ranked(test, m)
            /\ times' = [i \in Incidents |-> IF i \in test THEN times[i] + 1 ELSE times[i]]
            /\ experts' = IF selection.architecture = "two_expert_fusion_top5"
                          THEN ExpertScores(train, assignment, {}) ELSE <<>>
    /\ todo' = todo \ {Fold} /\ selection' = NONE
    /\ Goto("select") /\ UNCHANGED <<outer, file>> /\ Bounds

Aggregate ==
    /\ pc = "select" /\ todo = {} /\ \A i \in Incidents : times[i] = 1
    /\ Goto("evaluation131") /\ UNCHANGED <<memory, file>> /\ Bounds

-----------------------------------------------------------------------------

Init ==
    /\ study = NONE /\ pc = NONE /\ todo = {} /\ outer = <<>> /\ selection = NONE
    /\ prediction = [i \in Incidents |-> NONE] /\ times = [i \in Incidents |-> 0]
    /\ experts = <<>> /\ frozen = NONE
    /\ file = [f \in FILES13 \cup FILES131 |-> NONE] /\ runs = 0 /\ kills = 0

Next ==
    \/ Start("m13") \/ Start("m13.1") \/ Kill \/ FreezeInputs
    \/ SelectConfig \/ Ablate \/ FuseFold \/ Choose \/ HoldOut \/ Save
    \/ Outer \/ SelectInside \/ FitOuter \/ Aggregate
Spec == Init /\ [][Next]_vars

-----------------------------------------------------------------------------
(* Properties *)

SameCluster(i) == {j \in Incidents : Cluster[j] = Cluster[i]}

\* M13.1's ranking of an incident depends on no label of its repetitions, neither
\* through a model, nor an expert's score, nor any choice made on the way.
NestedUnseen ==
    study = "m13.1" => \A i \in Incidents : prediction[i] # NONE =>
        (prediction[i].fit \cup prediction[i].choice) \cap SameCluster(i) = {}

\* M13's rankings are not fitted to the incident's repetitions, and in the root
\* holdout to no incident of its root; its choices have seen every incident.
OutOfFold ==
    study = "m13" => \A i \in Incidents : prediction[i] # NONE =>
        /\ prediction[i].fit \cap SameCluster(i) = {}
        /\ pc = "evaluation" => \A j \in prediction[i].fit : Root[j] # Root[i]

\* A fusion model never learns from a score whose expert saw the incident or one of
\* its repetitions: it is trained on what experts say of incidents new to them.
FusionOutOfSample ==
    \A i \in DOMAIN experts : experts[i].fit \cap SameCluster(i) = {}

\* The outer folds rank every incident once, whatever order the clusters come in.
RankedOnce ==
    study = "m13.1" /\ pc = "select" /\ todo = {} => \A i \in Incidents : times[i] = 1

\* No two folds differ by more than the largest cluster.
FoldsBalanced ==
    pc \in {"ablations", "select"} =>
        \A f, g \in FoldsOf(outer) : \E i \in Incidents :
            Cardinality(InFold(outer, f)) <= Cardinality(InFold(outer, g)) + Cardinality(SameCluster(i))

\* When every hash of a study's manifest agrees, its evaluation and documents are of
\* one run, however often it was killed and run again.
IntegrityTells ==
    /\ file["integrity"] # NONE /\ (\A f \in Hashed("integrity") : file["integrity"][f] = file[f])
         => file["evaluation"] = file["docs"]
    /\ file["integrity131"] # NONE
         /\ (\A f \in Hashed("integrity131") : file["integrity131"][f] = file[f])
         => file["evaluation131"] = file["docs131"]
=============================================================================
