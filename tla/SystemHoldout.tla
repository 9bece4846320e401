---------------------------- MODULE SystemHoldout ----------------------------
(***************************************************************************)
(* The ranking studies on the public corpus (m10c_experiment.py,           *)
(* m10d_integration_experiment.py, m11_experiment.py): which labels a      *)
(* model, a choice or a ranking depends on, directly or through scores     *)
(* another model gave, and which files a study leaves when it fails, is    *)
(* killed or is run again.                                                 *)
(*                                                                         *)
(* Labels come in groups: each development system (RE1) has its fit and    *)
(* its calibration incidents, the other datasets are the external test.    *)
(* What is learned carries the groups it was fitted to and the groups a    *)
(* choice of columns, method or K has looked at.  Features without labels  *)
(* (profiles, out-of-distribution bounds) carry nothing.                   *)
(***************************************************************************)
EXTENDS Naturals, FiniteSets

CONSTANTS
    Systems,            \* the development systems
    EXTERNAL,           \* the six other datasets
    Ks,                 \* TOP_K_VALUES
    MaxRuns, MaxKills,  \* bounds
    NONE

\* Where a study is: a first step has the study's name.
Steps10C == {"m10c", "experts", "select", "external", "save", "core", "evaluation",
             "schema", "manifest"}
Steps10D == {"m10d", "evaluation10d", "protocol10d", "manifest10d"}
Steps11 == {"m11", "models11", "freeze", "historical", "evaluation11", "docs11", "manifest11"}

HoldoutAssumption ==
    /\ 3 \in Ks /\ Cardinality(Systems) > 1 /\ EXTERNAL \notin Systems
    /\ NONE \notin Steps10C \cup Steps10D \cup Steps11

VARIABLES
    study, pc,      \* the process that runs, where it is
    columns,        \* the column choice: groups it has looked at
    experts,        \* the fitted models of M10C by name
    method,         \* selected fusion method
    oof,            \* system -> ranking of its incidents, and its experts' scores
    k,              \* chosen head
    ranked,         \* the external ranking: what it depends on, and its configuration
    calibrated,     \* the rankings of the calibration incidents
    failed,         \* why the last study ended early
    file,           \* files by name: NONE or contents
    reference,      \* the files M11's preflight.json names: their contents
    runs, kills     \* bounds

memory == <<columns, experts, method, oof, k, ranked, calibrated>>
vars == <<study, pc, memory, failed, file, reference, runs, kills>>

Fit == Systems \X {"fit"}
Calibration == Systems \X {"calibration"}
Test == {<<EXTERNAL, "test">>}
Development == Fit \cup Calibration  \* train_ids, development_ids
Of(s, labels) == {g \in labels : g[1] = s}
Others(s, labels) == {g \in labels : g[1] # s}

METHODS == {"compact_stability", "early_fusion", "rank_average", "rrf", "stacked_lambdamart"}
MODELS10C == {"experts", "core", "schema"}
FILES10C == MODELS10C \cup {"evaluation", "manifest"}
FILES10D == {"evaluation10d", "protocol10d", "manifest10d"}
FILES11 == {"models11", "freeze", "evaluation11", "docs11", "manifest11"}

Goto(step) == pc' = step /\ UNCHANGED study
Write(name, contents) == file' = [file EXCEPT ![name] = contents]
Idle == UNCHANGED <<failed, reference, runs, kills>>

-----------------------------------------------------------------------------
(* Learning *)

\* fit_seed, fit_fixed
Fitted(labels, seen) == [fit |-> labels, choice |-> seen]
Union(learned) == [fit |-> UNION {m.fit : m \in learned},
                   choice |-> UNION {m.choice : m \in learned}]
\* A model of a model's scores, or a ranking made of several.
Stacked(labels, learned) == LET below == Union(learned)
                            IN [below EXCEPT !.fit = @ \cup labels]
Chosen(m, seen) == [m EXCEPT !.choice = @ \cup seen]

\* oof_for_columns, oof_experts: a system is scored by a model of the others.
SystemOof(labels, seen) == [s \in Systems |-> Fitted(Others(s, labels), seen)]
Scores(rankings) == {rankings[s] : s \in DOMAIN rankings}

-----------------------------------------------------------------------------
(* A study starts, fails, is killed *)

\* verify_frozen's files are the repository's and do not change here.
Start(name) ==
    /\ study = NONE /\ runs < MaxRuns /\ runs' = runs + 1
    /\ study' = name /\ pc' = name /\ failed' = NONE
    /\ UNCHANGED <<memory, file, reference, kills>>

Forgotten ==
    /\ columns' = NONE /\ experts' = NONE /\ method' = NONE /\ oof' = NONE /\ k' = NONE
    /\ ranked' = NONE /\ calibrated' = NONE
Ended == study' = NONE /\ pc' = NONE /\ Forgotten
Fail(reason) == failed' = reason /\ Ended /\ UNCHANGED <<file, reference, runs, kills>>

Kill ==
    /\ study # NONE /\ kills < MaxKills /\ kills' = kills + 1
    /\ Ended /\ UNCHANGED <<failed, file, reference, runs>>

-----------------------------------------------------------------------------
(* M10C *)

\* feature_stability and compact_gate look at the fit incidents of every system.
StabilityData == Fit
ChooseColumns ==
    /\ pc = "m10c" /\ columns' = StabilityData /\ Goto("experts")
    /\ UNCHANGED <<experts, method, oof, k, ranked, calibrated, file>> /\ Idle

\* The meta-ranker learns from the experts' scores of systems they did not see.
ExpertScores == SystemOof(Fit, {})
FitExperts ==
    /\ pc = "experts"
    /\ oof' = [metric |-> ExpertScores, trace |-> ExpertScores]
    /\ LET expert == Fitted(Fit, {})
           meta == Stacked(Fit, Scores(oof'.metric) \cup Scores(oof'.trace))
       IN experts' = [compact_stability |-> Fitted(Fit, columns), early_fusion |-> expert,
                      rank_average |-> expert, rrf |-> expert,
                      stacked_lambdamart |-> Stacked({}, {meta, expert})]
    /\ Goto("select") /\ UNCHANGED <<columns, method, k, ranked, calibrated, file>> /\ Idle

\* fusion_study: the calibration incidents choose the method.
SelectionData == Calibration
Select ==
    /\ pc = "select" /\ calibrated' = Union({experts[m] : m \in METHODS})
    /\ method' \in METHODS
    /\ Goto("external") /\ UNCHANGED <<columns, experts, oof, k, ranked, file>> /\ Idle

\* The stress study of a selected meta-ranker names a variable that does not exist.
External ==
    /\ pc = "external"
    /\ IF method = "stacked_lambdamart" THEN Fail("NameError")
       ELSE /\ ranked' = [by |-> Chosen(experts[method], SelectionData), k |-> 0, models |-> 0]
            /\ Goto("save") /\ UNCHANGED <<columns, experts, method, oof, k, calibrated, file>>
            /\ Idle

\* The five models; the core of a method that is one model; then the results.
\* The manifest hashes the files it finds, whichever run wrote them.
SaveExperts ==
    /\ pc = "save" /\ Goto("core") /\ UNCHANGED memory /\ Idle
    /\ Write("experts", [run |-> runs, learned |-> experts["rrf"], method |-> method])
SaveCore ==
    /\ pc = "core" /\ Goto("evaluation") /\ UNCHANGED memory /\ Idle
    /\ IF method \in {"compact_stability", "early_fusion"}
       THEN Write("core", [run |-> runs, learned |-> ranked.by, method |-> method])
       ELSE UNCHANGED file
SaveEvaluation ==
    /\ pc = "evaluation" /\ Goto("schema") /\ UNCHANGED memory /\ Idle
    /\ Write("evaluation", [run |-> runs, learned |-> ranked.by, method |-> method])
SaveSchema ==
    /\ pc = "schema" /\ Goto("manifest") /\ UNCHANGED memory /\ Idle
    /\ Write("schema", [run |-> runs, learned |-> Fitted({}, columns), method |-> method])
SaveManifest ==
    /\ pc = "manifest"
    /\ IF file["core"] = NONE THEN Fail("FileNotFoundError")
       ELSE Write("manifest", [f \in MODELS10C |-> file[f]]) /\ Ended /\ Idle

-----------------------------------------------------------------------------
(* M10D and M11: a reranker of the head, system by system *)

\* _verify_m10c_artifacts
Hashed(f) == IF file["manifest"] = NONE THEN FALSE ELSE file["manifest"][f] = file[f]
Verified == \A f \in MODELS10C : Hashed(f)

\* Mutant: the experts M10C saved score the development systems.
HeldOutScoresSaved ==
    [base   |-> SystemOof(Development, file["schema"].learned.choice),
     metric |-> [s \in Systems |-> file["experts"].learned],
     trace  |-> [s \in Systems |-> file["experts"].learned]]
\* The base rankings and the experts' scores of the development systems.
HeldOutScores ==
    [base   |-> SystemOof(Development, file["schema"].learned.choice),
     metric |-> SystemOof(Development, {}),
     trace  |-> SystemOof(Development, {})]
Records(s, scores) == {scores.base[s], scores.metric[s], scores.trace[s]}
\* _oof_ablation, _oof_rerank: the reranker of a held-out system, and its ranking.
Reranker(systems, scores) ==
    Stacked(UNION {Of(t, Development) : t \in systems}, UNION {Records(t, scores) : t \in systems})
Reranked(scores) ==
    [s \in Systems |-> Union({Reranker(Systems \ {s}, scores)} \cup Records(s, scores))]

\* The rerankers M10D's research left, of all development incidents.
Frozen == Fitted(Development, Development)
\* The head is reranked by `by`; the external incidents' records are the core's and experts'.
Historical(by) == Union({by, file["core"].learned, file["experts"].learned})

\* M10D stops where a metric is not the one it reproduces.
Reproduce ==
    /\ pc = "m10d"
    /\ \/ ~Verified /\ Fail("RefusedInputs")
       \/ Verified /\ Fail("MetricChanged")
       \/ /\ Verified /\ oof' = HeldOutScores /\ k' = 3
          /\ ranked' = [by |-> Historical(Frozen), k |-> 3, models |-> 0]
          /\ Goto("evaluation10d") /\ UNCHANGED <<columns, experts, method, calibrated, file>>
          /\ Idle
Save10D ==
    /\ \/ /\ pc = "evaluation10d" /\ Goto("protocol10d") /\ UNCHANGED memory
          /\ Write("evaluation10d", [run |-> runs, of |-> file["manifest"]])
       \/ /\ pc = "protocol10d" /\ Goto("manifest10d") /\ UNCHANGED memory
          /\ Write("protocol10d", [run |-> runs, of |-> file["manifest"]])
       \/ /\ pc = "manifest10d" /\ Ended
          /\ Write("manifest10d", [f \in {"evaluation10d", "protocol10d"} |-> file[f]])
    /\ Idle

\* preflight.json is written by hand, between studies.
INPUTS == FILES10C \cup FILES10D
Preflight ==
    /\ study = NONE /\ reference = NONE /\ \A f \in INPUTS : file[f] # NONE
    /\ reference' = [f \in INPUTS |-> file[f]]
    /\ UNCHANGED <<study, pc, memory, failed, file, runs, kills>>

\* _verify_preflight, the rankings for every K, the control and the gates.
\* A K that passes no gate leaves 3.
AsReferred == IF reference = NONE THEN FALSE ELSE \A f \in INPUTS : file[f] = reference[f]
Develop ==
    /\ pc = "m11"
    /\ \/ ~AsReferred /\ Fail("RefusedInputs")
       \/ AsReferred /\ Fail("MetricChanged")
       \/ /\ AsReferred /\ oof' = HeldOutScores /\ k' \in Ks /\ Goto("models11")
          /\ UNCHANGED <<columns, experts, method, ranked, calibrated, file>> /\ Idle

\* The selected models are fitted to every development system and saved; the
\* promoted reranker of M10D is used where K stays 3.
Learned11 == Chosen(Reranker(Systems, oof), Development)
Selected == IF k = 3 THEN [k |-> 3, models |-> 0] ELSE [k |-> k, models |-> file["models11"][k]]
FitSelected ==
    /\ pc = "models11"
    /\ IF k = 3 THEN UNCHANGED file ELSE Write("models11", [file["models11"] EXCEPT ![k] = runs])
    /\ Goto("freeze") /\ UNCHANGED memory /\ Idle

\* The freeze is written before an external incident is ranked.
FreezeArchitecture ==
    /\ pc = "freeze" /\ Write("freeze", Selected)
    /\ Goto("historical") /\ UNCHANGED memory /\ Idle
RankHistorical ==
    /\ pc = "historical"
    /\ \/ Fail("MetricChanged")
       \/ /\ ranked' = [by |-> Historical(IF k = 3 THEN Frozen ELSE Learned11),
                        k |-> k, models |-> Selected.models]
          /\ Goto("evaluation11")
          /\ UNCHANGED <<columns, experts, method, oof, k, calibrated, file>> /\ Idle

Sealed11 == {"freeze", "evaluation11", "docs11"}
Save11 ==
    /\ \/ /\ pc = "evaluation11" /\ Goto("docs11") /\ UNCHANGED memory
          /\ Write("evaluation11", [run |-> runs, freeze |-> Selected])
       \/ /\ pc = "docs11" /\ Goto("manifest11") /\ UNCHANGED memory
          /\ Write("docs11", [run |-> runs, freeze |-> Selected])
       \/ /\ pc = "manifest11" /\ Ended
          /\ Write("manifest11", [f \in Sealed11 |-> file[f]])
    /\ Idle

-----------------------------------------------------------------------------

Init ==
    /\ study = NONE /\ pc = NONE /\ failed = NONE
    /\ columns = NONE /\ experts = NONE /\ method = NONE /\ oof = NONE /\ k = NONE
    /\ ranked = NONE /\ calibrated = NONE
    /\ file = [f \in FILES10C \cup FILES10D \cup FILES11 |->
                 IF f = "models11" THEN [n \in Ks |-> 0] ELSE NONE]
    /\ reference = NONE /\ runs = 0 /\ kills = 0

Next ==
    \/ \E name \in {"m10c", "m10d", "m11"} : Start(name)
    \/ Kill \/ Preflight
    \/ ChooseColumns \/ FitExperts \/ Select \/ External
    \/ SaveExperts \/ SaveCore \/ SaveEvaluation \/ SaveSchema \/ SaveManifest
    \/ Reproduce \/ Save10D
    \/ Develop \/ FitSelected \/ FreezeArchitecture \/ RankHistorical \/ Save11
Spec == Init /\ [][Next]_vars

-----------------------------------------------------------------------------
(* Properties *)

\* No external ranking depends on an external label, neither through a model nor a
\* choice, whatever files of earlier runs a study was given.
ExternalUnseen == ranked # NONE => (ranked.by.fit \cup ranked.by.choice) \cap Test = {}

\* The calibration incidents, which choose the method and calibrate it, are ranked
\* by models and columns that have seen none of their labels.
CalibrationUnseen ==
    calibrated # NONE => (calibrated.fit \cup calibrated.choice) \cap Calibration = {}

\* A system's own base ranking and expert scores never depend on a label of that
\* system: the meta-ranker and the rerankers see what they will see of a new system.
ScoresHeldOut ==
    oof # NONE => \A source \in DOMAIN oof : \A s \in Systems : Of(s, oof[source][s].fit) = {}

\* External incidents are ranked by M11 as the freeze on disk says: same K, same models.
FrozenBeforeHistorical ==
    study = "m11" /\ ranked # NONE =>
        file["freeze"] = [k |-> ranked.k, models |-> ranked.models]

\* When the hashes of M11's manifest agree with the files, the evaluation and its
\* documents are of one run and report the architecture that is frozen.
IntegrityTells ==
    file["manifest11"] # NONE /\ (\A f \in Sealed11 : file["manifest11"][f] = file[f]) =>
        /\ file["evaluation11"] = file["docs11"]
        /\ file["evaluation11"].freeze = file["freeze"]

\* What M10D accepts of M10C is of one run of it, however M10C was killed and run
\* again, unless that run selected a static fusion: then an earlier run's core is
\* hashed as the selected model.
OneRunAccepted ==
    study = "m10d" /\ oof # NONE =>
        /\ file["schema"].run = file["experts"].run
        /\ file["experts"].method \in {"compact_stability", "early_fusion"} =>
               file["core"].run = file["experts"].run

\* docs/m10c-fusion.md:8 "Selection uses MRR, AC@1 and finally simplicity.": any of
\* the candidates of its table may be selected, and its run gets to its evaluation.
SelectedIsEvaluated == failed # "NameError"
=============================================================================
