--------------------------- MODULE Research_proofs ---------------------------
(* Proofs about the experiments: no ranking of the studies that hold out a     *)
(* system depends on a label it must not, what is collected for the locked     *)
(* experiment and its predecessors is kept, frozen and opened as it was, and   *)
(* the validation inside one system ranks an incident by its repetitions never.*)
EXTENDS MCResearch, FiniteSetTheorems, TLAPS

-----------------------------------------------------------------------------
(* The studies that hold out a system *)

HoldoutSystems == {s1, s2, s3}
Fit == Holdout!Fit
Development == Holdout!Development
\* What depends on no label outside L.
Learned(L) == [fit : SUBSET L, choice : SUBSET L]
Saved == [run : Nat, learned : Learned(Development), method : Holdout!METHODS]
Files == Holdout!FILES10C \cup Holdout!FILES10D \cup Holdout!FILES11
Single == {"compact_stability", "early_fusion"}

\* Scores of the systems by models that have not seen them.
HeldOut(scores) ==
    \A source \in DOMAIN scores : \A s \in HoldoutSystems :
        /\ scores[source][s] \in Learned(Development)
        /\ Holdout!Of(s, scores[source][s].fit) = {}
\* A manifest of files of one run of M10C.
OneRun(files) ==
    /\ \A f \in Holdout!MODELS10C : files[f] \in Saved
    /\ files["schema"].run = files["experts"].run
    /\ files["experts"].method \in Single => files["core"].run = files["experts"].run
\* A manifest of M11 of one run.
Agreed(files) ==
    /\ files["evaluation11"] = files["docs11"]
    /\ files["evaluation11"].freeze = files["freeze"]

StudyTypes ==
    /\ \/ study = NONE /\ holdoutPc = NONE
       \/ study = "m10c" /\ holdoutPc \in Holdout!Steps10C
       \/ study = "m10d" /\ holdoutPc \in Holdout!Steps10D
       \/ study = "m11" /\ holdoutPc \in Holdout!Steps11
    /\ holdoutRuns \in Nat
    /\ file = [f \in Files |-> file[f]]
    /\ \A f \in Holdout!MODELS10C : file[f] = NONE \/ file[f] \in Saved
    /\ reference # NONE => \A f \in Holdout!INPUTS : reference[f] # NONE
\* A process begins with nothing in memory; what it learns is of development labels.
MemoryFollowed ==
    /\ holdoutPc \in {NONE, "m10c", "m10d", "m11"} =>
         /\ columns = NONE /\ experts = NONE /\ method = NONE /\ oof = NONE /\ k = NONE
         /\ ranked = NONE /\ calibrated = NONE
    /\ ranked # NONE => ranked.by \in Learned(Development)
    /\ calibrated # NONE => calibrated \in Learned(Fit)
    /\ oof # NONE => HeldOut(oof)
FusionFollowed ==
    LET at(steps) == holdoutPc \in steps IN
    /\ at(Holdout!Steps10C \ {"m10c"}) => columns = Fit
    /\ at(Holdout!Steps10C \ {"m10c", "experts"}) => experts \in [Holdout!METHODS -> Learned(Fit)]
    /\ at({"external", "save", "core", "evaluation", "schema", "manifest"}) =>
         method \in Holdout!METHODS
    /\ at({"save", "core", "evaluation", "schema", "manifest"}) =>
         ranked.by \in Learned(Development)
    /\ at({"core", "evaluation", "schema", "manifest"}) =>
         file["experts"] \in Saved /\ file["experts"].run = holdoutRuns
         /\ file["experts"].method = method
    /\ at({"evaluation", "schema", "manifest"}) /\ method \in Single =>
         file["core"] \in Saved /\ file["core"].run = holdoutRuns
    /\ at({"manifest"}) => file["schema"] \in Saved /\ file["schema"].run = holdoutRuns
    /\ file["manifest"] # NONE => OneRun(file["manifest"])
    /\ at(Holdout!Steps10D \ {"m10d"}) => Holdout!Verified
ArchitectureFollowed ==
    LET at(steps) == holdoutPc \in steps IN
    /\ at(Holdout!Steps11 \ {"m11"}) =>
         /\ HeldOut(oof) /\ DOMAIN oof = {"base", "metric", "trace"}
         /\ file["core"] \in Saved /\ file["experts"] \in Saved
    /\ at({"models11", "freeze", "historical"}) => ranked = NONE
    /\ at({"historical", "evaluation11", "docs11", "manifest11"}) =>
         file["freeze"] = Holdout!Selected
    /\ at({"evaluation11", "docs11", "manifest11"}) =>
         ranked.k = k /\ ranked.models = Holdout!Selected.models
    /\ at({"docs11", "manifest11"}) =>
         file["evaluation11"] = [run |-> holdoutRuns, freeze |-> Holdout!Selected]
    /\ at({"manifest11"}) =>
         file["docs11"] = [run |-> holdoutRuns, freeze |-> Holdout!Selected]
    /\ file["manifest11"] # NONE => Agreed(file["manifest11"])
HoldoutInv == StudyTypes /\ MemoryFollowed /\ FusionFollowed /\ ArchitectureFollowed

\* What a model, a union, a choice depends on.
LEMMA LearnedUnion ==
    ASSUME NEW L, NEW M, M \subseteq Learned(L)
    PROVE  Holdout!Union(M) \in Learned(L)
<1>1. \A m \in M : m.fit \subseteq L /\ m.choice \subseteq L
  BY DEF Learned
<1>2. (UNION {m.fit : m \in M}) \subseteq L /\ (UNION {m.choice : m \in M}) \subseteq L
  BY <1>1
<1> QED
  BY <1>2 DEF Holdout!Union, Learned

\* A model fitted to labels, and one of the scores of others.
LEMMA LearnedGrows ==
    ASSUME NEW L, NEW labels, labels \subseteq L
    PROVE  /\ \A seen : seen \subseteq L => Holdout!Fitted(labels, seen) \in Learned(L)
           /\ \A M : M \subseteq Learned(L) => Holdout!Stacked(labels, M) \in Learned(L)
           /\ \A m \in Learned(L) : Holdout!Chosen(m, labels) \in Learned(L)
<1>1. \A seen : seen \subseteq L => Holdout!Fitted(labels, seen) \in Learned(L)
  BY DEF Holdout!Fitted, Learned
<1>2. ASSUME NEW M, M \subseteq Learned(L) PROVE Holdout!Stacked(labels, M) \in Learned(L)
  <2>1. Holdout!Union(M) \in Learned(L)
    BY <1>2, LearnedUnion
  <2> QED
    BY <2>1 DEF Holdout!Stacked, Learned
<1>3. \A m \in Learned(L) : Holdout!Chosen(m, labels) \in Learned(L)
  BY DEF Holdout!Chosen, Learned
<1> QED
  BY <1>1, <1>2, <1>3

\* The groups of the systems, and what is left of them without one.
LEMMA GroupsApart ==
    /\ Fit \subseteq Development /\ Holdout!Calibration \subseteq Development
    /\ Development \cap Holdout!Test = {} /\ Fit \cap Holdout!Calibration = {}
    /\ \A s, L : /\ Holdout!Of(s, L) \subseteq L /\ Holdout!Others(s, L) \subseteq L
                 /\ Holdout!Of(s, Holdout!Others(s, L)) = {}
BY DEF Fit, Development, Holdout!Fit, Holdout!Calibration, Holdout!Development, Holdout!Test,
       Holdout!Of, Holdout!Others

\* Scores of the systems by models of the others.
LEMMA SystemOofHeldOut ==
    ASSUME NEW L, NEW labels, labels \subseteq L, NEW seen, seen \subseteq L,
           NEW s \in HoldoutSystems
    PROVE  LET score == Holdout!SystemOof(labels, seen)[s]
           IN score \in Learned(L) /\ Holdout!Of(s, score.fit) = {}
<1> DEFINE others == Holdout!Others(s, labels)
<1>1. Holdout!SystemOof(labels, seen)[s] = Holdout!Fitted(others, seen)
  BY DEF Holdout!SystemOof, HoldoutSystems
<1>2. others \subseteq L /\ Holdout!Of(s, others) = {}
  BY GroupsApart
<1> HIDE DEF others
<1>3. Holdout!Fitted(others, seen) \in Learned(L)
  BY <1>2, LearnedGrows
<1>4. Holdout!Fitted(others, seen).fit = others
  BY DEF Holdout!Fitted
<1> QED
  BY <1>1, <1>2, <1>3, <1>4

\* The scores the rerankers learn from, whatever the columns were chosen by.
LEMMA HeldOutScoresHold ==
    ASSUME file["schema"].learned \in Learned(Development)
    PROVE  HeldOut(Holdout!HeldOutScores) /\ DOMAIN Holdout!HeldOutScores = {"base", "metric", "trace"}
<1> DEFINE scores == Holdout!HeldOutScores
           seen == file["schema"].learned.choice
<1>1. /\ DOMAIN scores = {"base", "metric", "trace"}
      /\ scores["base"] = Holdout!SystemOof(Development, seen)
      /\ scores["metric"] = Holdout!SystemOof(Development, {})
      /\ scores["trace"] = Holdout!SystemOof(Development, {})
  BY DEF Holdout!HeldOutScores, Development
<1>2. seen \subseteq Development
  BY DEF Learned
<1> HIDE DEF scores, seen
<1>3. \A source \in DOMAIN scores : \A s \in HoldoutSystems :
          /\ scores[source][s] \in Learned(Development)
          /\ Holdout!Of(s, scores[source][s].fit) = {}
  <2>1. ASSUME NEW s \in HoldoutSystems
        PROVE  /\ scores["base"][s] \in Learned(Development)
               /\ Holdout!Of(s, scores["base"][s].fit) = {}
    <3>1. /\ Holdout!SystemOof(Development, seen)[s] \in Learned(Development)
          /\ Holdout!Of(s, Holdout!SystemOof(Development, seen)[s].fit) = {}
      BY <1>2, SystemOofHeldOut
    <3> QED
      BY <1>1, <3>1
  <2>2. \A s \in HoldoutSystems :
          /\ Holdout!SystemOof(Development, {})[s] \in Learned(Development)
          /\ Holdout!Of(s, Holdout!SystemOof(Development, {})[s].fit) = {}
    BY SystemOofHeldOut
  <2> QED
    BY <1>1, <2>1, <2>2
<1> QED
  BY <1>1, <1>3 DEF HeldOut, scores

\* Where a study is, NONE is not.
LEMMA NoneIsNoStep ==
    NONE \notin Holdout!Steps10C \cup Holdout!Steps10D \cup Holdout!Steps11
BY InstancesAssumption DEF Holdout!HoldoutAssumption

\* The studies begin as the invariant says.
LEMMA StudiesStart == Holdout!Init => HoldoutInv
<1> SUFFICES ASSUME Holdout!Init PROVE HoldoutInv
  OBVIOUS
<1>1. /\ study = NONE /\ holdoutPc = NONE /\ columns = NONE /\ experts = NONE
      /\ method = NONE /\ oof = NONE /\ k = NONE /\ ranked = NONE /\ calibrated = NONE
      /\ file = [f \in Files |-> IF f = "models11" THEN [n \in {3, 5} |-> 0] ELSE NONE]
      /\ reference = NONE /\ holdoutRuns = 0
  BY DEF Holdout!Init, Files
<1>2. \A f \in Files : f # "models11" => file[f] = NONE
  BY <1>1
<1>3. /\ \A f \in Holdout!MODELS10C : file[f] = NONE
      /\ file["manifest"] = NONE /\ file["manifest11"] = NONE
  BY <1>2 DEF Files, Holdout!FILES10C, Holdout!MODELS10C, Holdout!FILES10D, Holdout!FILES11
<1>4. StudyTypes
  BY <1>1, <1>3 DEF StudyTypes
<1> QED
  BY <1>1, <1>3, <1>4, NoneIsNoStep DEF HoldoutInv, MemoryFollowed, FusionFollowed, ArchitectureFollowed,
     Holdout!Steps10C, Holdout!Steps10D, Holdout!Steps11

\* A study starts.
LEMMA StartStep ==
    ASSUME HoldoutInv, NEW name \in {"m10c", "m10d", "m11"}, Holdout!Start(name)
    PROVE  HoldoutInv'
<1>1. /\ study = NONE /\ holdoutRuns' = holdoutRuns + 1 /\ study' = name /\ holdoutPc' = name
      /\ UNCHANGED <<columns, experts, method, oof, k, ranked, calibrated, file, reference>>
  BY DEF Holdout!Start, Holdout!memory
<1>2. holdoutPc = NONE
  BY <1>1, NoneIsNoStep DEF HoldoutInv, StudyTypes, Holdout!Steps10C, Holdout!Steps10D, Holdout!Steps11
<1>3. StudyTypes'
  BY <1>1 DEF HoldoutInv, StudyTypes, Holdout!Steps10C, Holdout!Steps10D, Holdout!Steps11
<1>4. MemoryFollowed'
  BY <1>1, <1>2 DEF HoldoutInv, MemoryFollowed, HeldOut
<1>5. FusionFollowed' /\ ArchitectureFollowed'
  BY <1>1 DEF HoldoutInv, FusionFollowed, ArchitectureFollowed, Holdout!Steps10C, Holdout!Steps10D, Holdout!Steps11
<1> QED
  BY <1>3, <1>4, <1>5 DEF HoldoutInv

\* A study ends: nothing it had in memory is left, the files are.
LEMMA EndedStep ==
    ASSUME HoldoutInv, Holdout!Ended, UNCHANGED <<reference, holdoutRuns>>,
           file' = [f \in Files |-> file'[f]],
           \A f \in Holdout!MODELS10C : file'[f] = file[f],
           file'["manifest"] # NONE => OneRun(file'["manifest"]),
           file'["manifest11"] # NONE => Agreed(file'["manifest11"])
    PROVE  HoldoutInv'
<1>1. /\ study' = NONE /\ holdoutPc' = NONE /\ columns' = NONE /\ experts' = NONE
      /\ method' = NONE /\ oof' = NONE /\ k' = NONE /\ ranked' = NONE /\ calibrated' = NONE
  BY DEF Holdout!Ended, Holdout!Forgotten
<1>2. StudyTypes'
  BY <1>1 DEF HoldoutInv, StudyTypes
<1>3. MemoryFollowed'
  BY <1>1 DEF MemoryFollowed
<1>4. FusionFollowed' /\ ArchitectureFollowed'
  BY <1>1, NoneIsNoStep DEF FusionFollowed, ArchitectureFollowed, OneRun, Agreed,
     Holdout!Steps10C, Holdout!Steps10D, Holdout!Steps11
<1> QED
  BY <1>2, <1>3, <1>4 DEF HoldoutInv

\* It fails or is killed.
LEMMA FailStep ==
    ASSUME HoldoutInv, (\E reason : Holdout!Fail(reason)) \/ Holdout!Kill
    PROVE  HoldoutInv'
<1>1. Holdout!Ended /\ UNCHANGED <<file, reference, holdoutRuns>>
  BY DEF Holdout!Fail, Holdout!Kill
<1> QED
  BY <1>1, EndedStep DEF HoldoutInv, StudyTypes, FusionFollowed, ArchitectureFollowed, OneRun, Agreed

\* M10C chooses its columns by the fit incidents.
LEMMA ChooseStep == ASSUME HoldoutInv, Holdout!ChooseColumns PROVE HoldoutInv'
<1>1. /\ holdoutPc = "m10c" /\ holdoutPc' = "experts" /\ columns' = Fit
      /\ UNCHANGED <<study, experts, method, oof, k, ranked, calibrated, file, reference, holdoutRuns>>
  BY DEF Holdout!ChooseColumns, Holdout!StabilityData, Holdout!Goto, Holdout!Idle, Fit
<1>2. StudyTypes'
  BY <1>1, NoneIsNoStep DEF HoldoutInv, StudyTypes, Holdout!Steps10C, Holdout!Steps10D, Holdout!Steps11
<1>3. MemoryFollowed'
  BY <1>1, NoneIsNoStep DEF HoldoutInv, MemoryFollowed, HeldOut, Holdout!Steps10C, Holdout!Steps10D, Holdout!Steps11
<1>4. FusionFollowed' /\ ArchitectureFollowed'
  BY <1>1 DEF HoldoutInv, FusionFollowed, ArchitectureFollowed, OneRun, Agreed, Holdout!Steps10C, Holdout!Steps10D, Holdout!Steps11
<1> QED
  BY <1>2, <1>3, <1>4 DEF HoldoutInv

\* It fits its experts to the fit incidents, and the meta-ranker to their scores.
LEMMA FitStep == ASSUME HoldoutInv, Holdout!FitExperts PROVE HoldoutInv'
<1> DEFINE scores == Holdout!ExpertScores
           expert == Holdout!Fitted(Fit, {})
           below == Holdout!Scores(scores) \cup Holdout!Scores(scores)
           meta == Holdout!Stacked(Fit, below)
<1>1. /\ holdoutPc = "experts" /\ holdoutPc' = "select"
      /\ oof' = [metric |-> scores, trace |-> scores]
      /\ experts' = [compact_stability |-> Holdout!Fitted(Fit, columns), early_fusion |-> expert,
                      rank_average |-> expert, rrf |-> expert,
                      stacked_lambdamart |-> Holdout!Stacked({}, {meta, expert})]
      /\ UNCHANGED <<study, columns, method, k, ranked, calibrated, file, reference, holdoutRuns>>
  BY DEF Holdout!FitExperts, Holdout!Goto, Holdout!Idle, Fit
<1>2. columns = Fit
  BY <1>1 DEF HoldoutInv, FusionFollowed, Holdout!Steps10C
<1>3. /\ DOMAIN scores = HoldoutSystems
      /\ \A s \in HoldoutSystems :
             scores[s] \in Learned(Fit) /\ Holdout!Of(s, scores[s].fit) = {}
  <2>1. scores = Holdout!SystemOof(Fit, {})
    BY DEF Holdout!ExpertScores, Fit
  <2>2. DOMAIN scores = HoldoutSystems
    BY DEF Holdout!ExpertScores, Holdout!SystemOof, HoldoutSystems
  <2> HIDE DEF scores
  <2>3. ASSUME NEW s \in HoldoutSystems
        PROVE  scores[s] \in Learned(Fit) /\ Holdout!Of(s, scores[s].fit) = {}
    <3>1. /\ Holdout!SystemOof(Fit, {})[s] \in Learned(Fit)
          /\ Holdout!Of(s, Holdout!SystemOof(Fit, {})[s].fit) = {}
      BY SystemOofHeldOut
    <3> QED
      BY <2>1, <3>1
  <2> QED
    BY <2>2, <2>3
<1> HIDE DEF scores
<1>4. below \subseteq Learned(Fit)
  BY <1>3 DEF Holdout!Scores
<1> HIDE DEF below
<1>5. expert \in Learned(Fit) /\ Holdout!Fitted(Fit, columns) \in Learned(Fit) /\ meta \in Learned(Fit)
  BY <1>2, <1>4, LearnedGrows
<1> HIDE DEF expert, meta
<1>6. Holdout!Stacked({}, {meta, expert}) \in Learned(Fit)
  BY <1>5, LearnedGrows
<1>7. experts' \in [Holdout!METHODS -> Learned(Fit)]
  BY <1>1, <1>5, <1>6 DEF Holdout!METHODS
<1>8. HeldOut(oof')
  <2>1. Learned(Fit) \subseteq Learned(Development)
    BY GroupsApart DEF Learned
  <2>2. DOMAIN oof' = {"metric", "trace"} /\ oof'["metric"] = scores /\ oof'["trace"] = scores
    BY <1>1
  <2> QED
    BY <1>3, <2>1, <2>2 DEF HeldOut
<1>9. StudyTypes'
  BY <1>1, NoneIsNoStep DEF HoldoutInv, StudyTypes, Holdout!Steps10C, Holdout!Steps10D, Holdout!Steps11
<1>10. MemoryFollowed'
  BY <1>1, <1>8, NoneIsNoStep DEF HoldoutInv, MemoryFollowed, HeldOut, Holdout!Steps10C, Holdout!Steps10D, Holdout!Steps11
<1>11. FusionFollowed' /\ ArchitectureFollowed'
  BY <1>1, <1>7 DEF HoldoutInv, FusionFollowed, ArchitectureFollowed, OneRun, Agreed, Holdout!Steps10C, Holdout!Steps10D, Holdout!Steps11
<1> QED
  BY <1>9, <1>10, <1>11 DEF HoldoutInv

\* The calibration incidents, which no model has seen, choose the method.
LEMMA SelectStep == ASSUME HoldoutInv, Holdout!Select PROVE HoldoutInv'
<1>1. /\ holdoutPc = "select" /\ holdoutPc' = "external" /\ method' \in Holdout!METHODS
      /\ calibrated' = Holdout!Union({experts[m] : m \in Holdout!METHODS})
      /\ UNCHANGED <<study, columns, experts, oof, k, ranked, file, reference, holdoutRuns>>
  BY DEF Holdout!Select, Holdout!Goto, Holdout!Idle
<1>2. calibrated' \in Learned(Fit)
  <2>1. experts \in [Holdout!METHODS -> Learned(Fit)]
    BY <1>1 DEF HoldoutInv, FusionFollowed, Holdout!Steps10C
  <2>2. {experts[m] : m \in Holdout!METHODS} \subseteq Learned(Fit)
    BY <2>1
  <2> QED
    BY <1>1, <2>2, LearnedUnion
<1>3. StudyTypes'
  BY <1>1, NoneIsNoStep DEF HoldoutInv, StudyTypes, Holdout!Steps10C, Holdout!Steps10D, Holdout!Steps11
<1>4. MemoryFollowed'
  BY <1>1, <1>2, NoneIsNoStep DEF HoldoutInv, MemoryFollowed, HeldOut, Holdout!Steps10C, Holdout!Steps10D, Holdout!Steps11
<1>5. FusionFollowed' /\ ArchitectureFollowed'
  BY <1>1 DEF HoldoutInv, FusionFollowed, ArchitectureFollowed, OneRun, Agreed, Holdout!Steps10C, Holdout!Steps10D, Holdout!Steps11
<1> QED
  BY <1>3, <1>4, <1>5 DEF HoldoutInv

\* The selected method ranks the external incidents, or the stress study fails.
LEMMA ExternalStep == ASSUME HoldoutInv, Holdout!External PROVE HoldoutInv'
<1>1. CASE method = "stacked_lambdamart"
  BY <1>1, FailStep DEF Holdout!External
<1>2. CASE method # "stacked_lambdamart"
  <2>1. /\ holdoutPc = "external" /\ holdoutPc' = "save"
        /\ ranked' = [by |-> Holdout!Chosen(experts[method], Holdout!Calibration), k |-> 0, models |-> 0]
        /\ UNCHANGED <<study, columns, experts, method, oof, k, calibrated, file, reference, holdoutRuns>>
    BY <1>2 DEF Holdout!External, Holdout!SelectionData, Holdout!Goto, Holdout!Idle
  <2>2. ranked'.by \in Learned(Development)
    <3>1. experts[method] \in Learned(Fit)
      BY <2>1 DEF HoldoutInv, FusionFollowed, Holdout!Steps10C
    <3>2. experts[method] \in Learned(Development)
      BY <3>1, GroupsApart DEF Learned
    <3>3. Holdout!Chosen(experts[method], Holdout!Calibration) \in Learned(Development)
      BY <3>2, GroupsApart, LearnedGrows
    <3> QED
      BY <2>1, <3>3
  <2>3. StudyTypes'
    BY <2>1, NoneIsNoStep DEF HoldoutInv, StudyTypes, Holdout!Steps10C, Holdout!Steps10D, Holdout!Steps11
  <2>4. MemoryFollowed'
    BY <2>1, <2>2, NoneIsNoStep DEF HoldoutInv, MemoryFollowed, HeldOut, Holdout!Steps10C, Holdout!Steps10D, Holdout!Steps11
  <2>5. FusionFollowed' /\ ArchitectureFollowed'
    BY <2>1, <2>2 DEF HoldoutInv, FusionFollowed, ArchitectureFollowed, OneRun, Agreed, Holdout!Steps10C, Holdout!Steps10D, Holdout!Steps11
  <2> QED
    BY <2>3, <2>4, <2>5 DEF HoldoutInv
<1> QED
  BY <1>1, <1>2

\* Writing a file leaves the others.
LEMMA WriteFile ==
    ASSUME StudyTypes, NEW name \in Files, NEW contents, Holdout!Write(name, contents)
    PROVE  /\ file' = [f \in Files |-> file'[f]] /\ file'[name] = contents
           /\ \A f \in Files : f # name => file'[f] = file[f]
BY DEF StudyTypes, Holdout!Write

\* The names of the files.
LEMMA FileNames ==
    /\ Files = {"experts", "core", "schema", "evaluation", "manifest", "evaluation10d", "protocol10d",
                "manifest10d", "models11", "freeze", "evaluation11", "docs11", "manifest11"}
    /\ Holdout!MODELS10C = {"experts", "core", "schema"}
    /\ \A f \in Holdout!MODELS10C : f \in Files /\ f \in Holdout!INPUTS
BY DEF Files, Holdout!INPUTS, Holdout!FILES10C, Holdout!MODELS10C, Holdout!FILES10D, Holdout!FILES11

\* The experts are saved.
LEMMA SaveExpertsStep == ASSUME HoldoutInv, Holdout!SaveExperts PROVE HoldoutInv'
<1> DEFINE c == [run |-> holdoutRuns, learned |-> experts["rrf"], method |-> method]
<1>1. /\ holdoutPc = "save" /\ holdoutPc' = "core" /\ Holdout!Write("experts", c)
      /\ UNCHANGED <<study, columns, experts, method, oof, k, ranked, calibrated, reference, holdoutRuns>>
  BY DEF Holdout!SaveExperts, Holdout!memory, Holdout!Goto, Holdout!Idle
<1>2. c \in Saved
  <2>1. experts["rrf"] \in Learned(Fit) /\ method \in Holdout!METHODS
    BY <1>1 DEF HoldoutInv, FusionFollowed, Holdout!Steps10C, Holdout!METHODS
  <2>2. experts["rrf"] \in Learned(Development)
    BY <2>1, GroupsApart DEF Learned
  <2> QED
    BY <2>1, <2>2 DEF Saved, HoldoutInv, StudyTypes
<1>3. /\ file' = [f \in Files |-> file'[f]] /\ file'["experts"] = c
      /\ \A f \in Files : f # "experts" => file'[f] = file[f]
  BY <1>1, WriteFile, FileNames DEF HoldoutInv
<1>4. c.run = holdoutRuns /\ c.method = method
  OBVIOUS
<1> HIDE DEF c
<1>5. StudyTypes'
  BY <1>1, <1>2, <1>3, FileNames, NoneIsNoStep DEF HoldoutInv, StudyTypes, Holdout!Steps10C, Holdout!Steps10D, Holdout!Steps11
<1>6. MemoryFollowed'
  BY <1>1, NoneIsNoStep DEF HoldoutInv, MemoryFollowed, HeldOut, Holdout!Steps10C, Holdout!Steps10D, Holdout!Steps11
<1>7. FusionFollowed' /\ ArchitectureFollowed'
  BY <1>1, <1>2, <1>3, <1>4, FileNames DEF HoldoutInv, FusionFollowed, ArchitectureFollowed,
     OneRun, Agreed, Holdout!Steps10C, Holdout!Steps10D, Holdout!Steps11
<1> QED
  BY <1>5, <1>6, <1>7 DEF HoldoutInv

\* The core of a method that is one model is saved.
LEMMA SaveCoreStep == ASSUME HoldoutInv, Holdout!SaveCore PROVE HoldoutInv'
<1> DEFINE c == [run |-> holdoutRuns, learned |-> ranked.by, method |-> method]
<1>1. /\ holdoutPc = "core" /\ holdoutPc' = "evaluation"
      /\ UNCHANGED <<study, columns, experts, method, oof, k, ranked, calibrated, reference, holdoutRuns>>
  BY DEF Holdout!SaveCore, Holdout!memory, Holdout!Goto, Holdout!Idle
<1>2. c \in Saved
  BY <1>1 DEF HoldoutInv, StudyTypes, FusionFollowed, Saved
<1>3. /\ file' = [f \in Files |-> file'[f]]
      /\ method \in Single => file'["core"] = c
      /\ file'["core"] = file["core"] \/ file'["core"] = c
      /\ \A f \in Files : f # "core" => file'[f] = file[f]
  <2>1. CASE method \in Single
    <3>1. Holdout!Write("core", c)
      BY <2>1 DEF Holdout!SaveCore, Single
    <3> QED
      BY <2>1, <3>1, WriteFile, FileNames DEF HoldoutInv
  <2>2. CASE method \notin Single
    <3>1. file' = file
      BY <2>2 DEF Holdout!SaveCore, Single
    <3> QED
      BY <2>2, <3>1 DEF HoldoutInv, StudyTypes
  <2> QED
    BY <2>1, <2>2
<1>4. c.run = holdoutRuns
  OBVIOUS
<1> HIDE DEF c
<1>5. /\ file'["experts"] = file["experts"] /\ file'["schema"] = file["schema"]
      /\ file'["manifest"] = file["manifest"] /\ file'["manifest11"] = file["manifest11"]
  BY <1>3, FileNames
<1>6. StudyTypes'
  <2>1. \A f \in Holdout!MODELS10C : file'[f] = file[f] \/ file'[f] = c
    BY <1>3, <1>5, FileNames
  <2> QED
    BY <1>1, <1>2, <1>3, <2>1, NoneIsNoStep DEF HoldoutInv, StudyTypes, Holdout!Steps10C, Holdout!Steps10D, Holdout!Steps11
<1>7. MemoryFollowed'
  BY <1>1, NoneIsNoStep DEF HoldoutInv, MemoryFollowed, HeldOut, Holdout!Steps10C, Holdout!Steps10D, Holdout!Steps11
<1>8. FusionFollowed' /\ ArchitectureFollowed'
  BY <1>1, <1>2, <1>3, <1>4, <1>5 DEF HoldoutInv, FusionFollowed, ArchitectureFollowed,
     OneRun, Agreed, Holdout!Steps10C, Holdout!Steps10D, Holdout!Steps11
<1> QED
  BY <1>6, <1>7, <1>8 DEF HoldoutInv

\* The evaluation is saved.
LEMMA SaveEvaluationStep == ASSUME HoldoutInv, Holdout!SaveEvaluation PROVE HoldoutInv'
<1>1. /\ holdoutPc = "evaluation" /\ holdoutPc' = "schema"
      /\ \E c : Holdout!Write("evaluation", c)
      /\ UNCHANGED <<study, columns, experts, method, oof, k, ranked, calibrated, reference, holdoutRuns>>
  BY DEF Holdout!SaveEvaluation, Holdout!memory, Holdout!Goto, Holdout!Idle
<1>2. /\ file' = [f \in Files |-> file'[f]]
      /\ \A f \in Files : f # "evaluation" => file'[f] = file[f]
  BY <1>1, WriteFile, FileNames DEF HoldoutInv
<1>3. StudyTypes'
  BY <1>1, <1>2, FileNames, NoneIsNoStep DEF HoldoutInv, StudyTypes, Holdout!Steps10C, Holdout!Steps10D, Holdout!Steps11
<1>4. MemoryFollowed'
  BY <1>1, NoneIsNoStep DEF HoldoutInv, MemoryFollowed, HeldOut, Holdout!Steps10C, Holdout!Steps10D, Holdout!Steps11
<1>5. FusionFollowed' /\ ArchitectureFollowed'
  BY <1>1, <1>2, FileNames DEF HoldoutInv, FusionFollowed, ArchitectureFollowed, OneRun, Agreed, Holdout!Steps10C, Holdout!Steps10D, Holdout!Steps11
<1> QED
  BY <1>3, <1>4, <1>5 DEF HoldoutInv

\* The columns are saved.
LEMMA SaveSchemaStep == ASSUME HoldoutInv, Holdout!SaveSchema PROVE HoldoutInv'
<1> DEFINE c == [run |-> holdoutRuns, learned |-> Holdout!Fitted({}, columns), method |-> method]
<1>1. /\ holdoutPc = "schema" /\ holdoutPc' = "manifest" /\ Holdout!Write("schema", c)
      /\ UNCHANGED <<study, columns, experts, method, oof, k, ranked, calibrated, reference, holdoutRuns>>
  BY DEF Holdout!SaveSchema, Holdout!memory, Holdout!Goto, Holdout!Idle
<1>2. c \in Saved
  <2>1. columns = Fit /\ method \in Holdout!METHODS
    BY <1>1 DEF HoldoutInv, FusionFollowed, Holdout!Steps10C
  <2>2. Holdout!Fitted({}, columns) \in Learned(Development)
    BY <2>1, GroupsApart, LearnedGrows
  <2> QED
    BY <2>1, <2>2 DEF Saved, HoldoutInv, StudyTypes
<1>3. /\ file' = [f \in Files |-> file'[f]] /\ file'["schema"] = c
      /\ \A f \in Files : f # "schema" => file'[f] = file[f]
  BY <1>1, WriteFile, FileNames DEF HoldoutInv
<1>4. c.run = holdoutRuns
  OBVIOUS
<1> HIDE DEF c
<1>5. StudyTypes'
  BY <1>1, <1>2, <1>3, FileNames, NoneIsNoStep DEF HoldoutInv, StudyTypes, Holdout!Steps10C, Holdout!Steps10D, Holdout!Steps11
<1>6. MemoryFollowed'
  BY <1>1, NoneIsNoStep DEF HoldoutInv, MemoryFollowed, HeldOut, Holdout!Steps10C, Holdout!Steps10D, Holdout!Steps11
<1>7. FusionFollowed' /\ ArchitectureFollowed'
  BY <1>1, <1>2, <1>3, <1>4, FileNames DEF HoldoutInv, FusionFollowed, ArchitectureFollowed,
     OneRun, Agreed, Holdout!Steps10C, Holdout!Steps10D, Holdout!Steps11
<1> QED
  BY <1>5, <1>6, <1>7 DEF HoldoutInv

\* The manifest hashes what it finds: files of this run, but for the core of a
\* method that has none.
LEMMA SaveManifestStep == ASSUME HoldoutInv, Holdout!SaveManifest PROVE HoldoutInv'
<1>1. CASE file["core"] = NONE
  BY <1>1, FailStep DEF Holdout!SaveManifest
<1>2. CASE file["core"] # NONE
  <2> DEFINE c == [f \in Holdout!MODELS10C |-> file[f]]
  <2>1. /\ holdoutPc = "manifest" /\ Holdout!Write("manifest", c) /\ Holdout!Ended
        /\ UNCHANGED <<reference, holdoutRuns>>
    BY <1>2 DEF Holdout!SaveManifest, Holdout!Idle
  <2>2. /\ file' = [f \in Files |-> file'[f]] /\ file'["manifest"] = c
        /\ \A f \in Files : f # "manifest" => file'[f] = file[f]
    BY <2>1, WriteFile, FileNames DEF HoldoutInv
  <2>3. OneRun(c)
    <3>1. /\ file["experts"] \in Saved /\ file["experts"].run = holdoutRuns
          /\ file["experts"].method = method
          /\ method \in Single => file["core"].run = holdoutRuns
          /\ file["schema"] \in Saved /\ file["schema"].run = holdoutRuns
      BY <2>1 DEF HoldoutInv, FusionFollowed
    <3>2. file["core"] \in Saved
      BY <1>2, FileNames DEF HoldoutInv, StudyTypes
    <3>3. /\ c["experts"] = file["experts"] /\ c["core"] = file["core"]
          /\ c["schema"] = file["schema"]
      BY FileNames
    <3> QED
      BY <3>1, <3>2, <3>3, FileNames DEF OneRun
  <2> HIDE DEF c
  <2> QED
    BY <2>1, <2>2, <2>3, FileNames, EndedStep DEF HoldoutInv, ArchitectureFollowed
<1> QED
  BY <1>1, <1>2

\* What M10D verified is of one run of M10C.
LEMMA VerifiedFiles ==
    ASSUME HoldoutInv, Holdout!Verified
    PROVE  OneRun(file)
<1>1. /\ file["manifest"] # NONE
      /\ \A f \in Holdout!MODELS10C : file["manifest"][f] = file[f]
  BY FileNames DEF Holdout!Verified, Holdout!Hashed
<1>2. OneRun(file["manifest"])
  BY <1>1 DEF HoldoutInv, FusionFollowed
<1> QED
  BY <1>1, <1>2, FileNames DEF OneRun

\* And stays so as long as none of it is written.
LEMMA VerifiedStays ==
    ASSUME Holdout!Verified, file'["manifest"] = file["manifest"],
           \A f \in Holdout!MODELS10C : file'[f] = file[f]
    PROVE  Holdout!Verified'
BY DEF Holdout!Verified, Holdout!Hashed

\* A ranking by the core and the experts on disk.
LEMMA HistoricalUnseen ==
    ASSUME NEW by \in Learned(Development), file["core"] \in Saved, file["experts"] \in Saved
    PROVE  Holdout!Historical(by) \in Learned(Development)
<1>1. file["core"].learned \in Learned(Development) /\ file["experts"].learned \in Learned(Development)
  BY DEF Saved
<1>2. {by, file["core"].learned, file["experts"].learned} \subseteq Learned(Development)
  BY <1>1
<1> QED
  BY <1>2, LearnedUnion DEF Holdout!Historical

\* M10D reproduces the rankings with what it verified.
LEMMA ReproduceStep == ASSUME HoldoutInv, Holdout!Reproduce PROVE HoldoutInv'
<1>1. CASE \E reason : Holdout!Fail(reason)
  BY <1>1, FailStep
<1>2. CASE ~ \E reason : Holdout!Fail(reason)
  <2>1. /\ holdoutPc = "m10d" /\ Holdout!Verified /\ holdoutPc' = "evaluation10d"
        /\ oof' = Holdout!HeldOutScores
        /\ ranked' = [by |-> Holdout!Historical(Holdout!Frozen), k |-> 3, models |-> 0]
        /\ UNCHANGED <<study, columns, experts, method, calibrated, file, reference, holdoutRuns>>
    BY <1>2 DEF Holdout!Reproduce, Holdout!Goto, Holdout!Idle
  <2>2. OneRun(file)
    BY <2>1, VerifiedFiles
  <2>3. /\ \A f \in Holdout!MODELS10C : file[f] \in Saved
        /\ file["schema"].learned \in Learned(Development)
    BY <2>2, FileNames DEF OneRun, Saved
  <2>4. HeldOut(oof')
    BY <2>1, <2>3, HeldOutScoresHold
  <2>5. ranked'.by \in Learned(Development)
    <3>1. Holdout!Frozen \in Learned(Development)
      BY LearnedGrows DEF Holdout!Frozen, Development
    <3>2. Holdout!Historical(Holdout!Frozen) \in Learned(Development)
      BY <2>3, <3>1, FileNames, HistoricalUnseen
    <3> QED
      BY <2>1, <3>2
  <2>6. Holdout!Verified'
    BY <2>1, VerifiedStays
  <2>7. StudyTypes'
    BY <2>1, NoneIsNoStep DEF HoldoutInv, StudyTypes, Holdout!Steps10C, Holdout!Steps10D, Holdout!Steps11
  <2>8. MemoryFollowed'
    BY <2>1, <2>4, <2>5, NoneIsNoStep DEF HoldoutInv, MemoryFollowed, Holdout!Steps10C, Holdout!Steps10D, Holdout!Steps11
  <2>9. FusionFollowed' /\ ArchitectureFollowed'
    BY <2>1, <2>6 DEF HoldoutInv, FusionFollowed, ArchitectureFollowed, OneRun, Agreed, Holdout!Steps10C, Holdout!Steps10D, Holdout!Steps11
  <2> QED
    BY <2>7, <2>8, <2>9 DEF HoldoutInv
<1> QED
  BY <1>1, <1>2

\* And saves its results.
LEMMA Save10DStep == ASSUME HoldoutInv, Holdout!Save10D PROVE HoldoutInv'
<1>1. CASE holdoutPc \in {"evaluation10d", "protocol10d"}
  <2>1. /\ holdoutPc' \in {"protocol10d", "manifest10d"}
        /\ \E name \in {"evaluation10d", "protocol10d"} : \E c : Holdout!Write(name, c)
        /\ UNCHANGED <<study, columns, experts, method, oof, k, ranked, calibrated, reference, holdoutRuns>>
    BY <1>1 DEF Holdout!Save10D, Holdout!memory, Holdout!Goto, Holdout!Idle
  <2>2. PICK name \in {"evaluation10d", "protocol10d"} : \E c : Holdout!Write(name, c)
    BY <2>1
  <2>3. /\ file' = [f \in Files |-> file'[f]]
        /\ \A f \in Files : f # name => file'[f] = file[f]
    BY <2>2, WriteFile, FileNames DEF HoldoutInv
  <2>4. /\ \A f \in Holdout!MODELS10C : file'[f] = file[f]
        /\ file'["manifest"] = file["manifest"] /\ file'["manifest11"] = file["manifest11"]
    BY <2>3, FileNames
  <2>5. Holdout!Verified'
    BY <1>1, <2>4, VerifiedStays DEF HoldoutInv, FusionFollowed, Holdout!Steps10D
  <2>6. StudyTypes'
    BY <1>1, <2>1, <2>3, <2>4, NoneIsNoStep DEF HoldoutInv, StudyTypes, Holdout!Steps10C, Holdout!Steps10D, Holdout!Steps11
  <2>7. MemoryFollowed'
    BY <2>1, NoneIsNoStep DEF HoldoutInv, MemoryFollowed, HeldOut, Holdout!Steps10C, Holdout!Steps10D, Holdout!Steps11
  <2>8. FusionFollowed' /\ ArchitectureFollowed'
    BY <2>1, <2>4, <2>5 DEF HoldoutInv, FusionFollowed, ArchitectureFollowed, OneRun, Agreed, Holdout!Steps10C, Holdout!Steps10D, Holdout!Steps11
  <2> QED
    BY <2>6, <2>7, <2>8 DEF HoldoutInv
<1>2. CASE holdoutPc \notin {"evaluation10d", "protocol10d"}
  <2>1. /\ Holdout!Ended /\ UNCHANGED <<reference, holdoutRuns>>
        /\ \E c : Holdout!Write("manifest10d", c)
    BY <1>2 DEF Holdout!Save10D, Holdout!Idle
  <2>2. /\ file' = [f \in Files |-> file'[f]]
        /\ \A f \in Files : f # "manifest10d" => file'[f] = file[f]
    BY <2>1, WriteFile, FileNames DEF HoldoutInv
  <2>3. /\ \A f \in Holdout!MODELS10C : file'[f] = file[f]
        /\ file'["manifest"] = file["manifest"] /\ file'["manifest11"] = file["manifest11"]
    BY <2>2, FileNames
  <2> QED
    BY <2>1, <2>2, <2>3, EndedStep DEF HoldoutInv, FusionFollowed, ArchitectureFollowed
<1> QED
  BY <1>1, <1>2

\* The files for M11 are named between two studies.
LEMMA PreflightStep == ASSUME HoldoutInv, Holdout!Preflight PROVE HoldoutInv'
<1>1. /\ \A f \in Holdout!INPUTS : file[f] # NONE
      /\ reference' = [f \in Holdout!INPUTS |-> file[f]]
      /\ UNCHANGED <<study, holdoutPc, columns, experts, method, oof, k, ranked, calibrated, file, holdoutRuns>>
  BY DEF Holdout!Preflight, Holdout!memory
<1>2. StudyTypes'
  BY <1>1 DEF HoldoutInv, StudyTypes
<1>3. MemoryFollowed'
  BY <1>1 DEF HoldoutInv, MemoryFollowed, HeldOut
<1>4. Holdout!Verified => Holdout!Verified'
  BY <1>1, VerifiedStays
<1>5. Holdout!Selected' = Holdout!Selected
  BY <1>1 DEF Holdout!Selected
<1>6. FusionFollowed'
  BY <1>1, <1>4 DEF HoldoutInv, FusionFollowed, OneRun
<1>7. ArchitectureFollowed'
  BY <1>1, <1>5 DEF HoldoutInv, ArchitectureFollowed, HeldOut, Agreed
<1> QED
  BY <1>2, <1>3, <1>6, <1>7 DEF HoldoutInv

\* M11 ranks the development incidents, each system by models of the others.
LEMMA DevelopStep == ASSUME HoldoutInv, Holdout!Develop PROVE HoldoutInv'
<1>1. CASE \E reason : Holdout!Fail(reason)
  BY <1>1, FailStep
<1>2. CASE ~ \E reason : Holdout!Fail(reason)
  <2>1. /\ holdoutPc = "m11" /\ Holdout!AsReferred /\ holdoutPc' = "models11"
        /\ oof' = Holdout!HeldOutScores
        /\ UNCHANGED <<study, columns, experts, method, ranked, calibrated, file, reference, holdoutRuns>>
    BY <1>2 DEF Holdout!Develop, Holdout!Goto, Holdout!Idle
  <2>2. \A f \in Holdout!MODELS10C : file[f] \in Saved
    BY <2>1, FileNames DEF Holdout!AsReferred, HoldoutInv, StudyTypes
  <2>3. file["schema"].learned \in Learned(Development)
    BY <2>2, FileNames DEF Saved
  <2>4. HeldOut(oof') /\ DOMAIN oof' = {"base", "metric", "trace"}
    BY <2>1, <2>3, HeldOutScoresHold
  <2>5. ranked = NONE
    BY <2>1 DEF HoldoutInv, MemoryFollowed
  <2>6. StudyTypes'
    BY <2>1, NoneIsNoStep DEF HoldoutInv, StudyTypes, Holdout!Steps10C, Holdout!Steps10D, Holdout!Steps11
  <2>7. MemoryFollowed'
    BY <2>1, <2>4, NoneIsNoStep DEF HoldoutInv, MemoryFollowed, Holdout!Steps10C, Holdout!Steps10D, Holdout!Steps11
  <2>8. FusionFollowed' /\ ArchitectureFollowed'
    BY <2>1, <2>2, <2>4, <2>5, FileNames DEF HoldoutInv, FusionFollowed, ArchitectureFollowed,
       OneRun, Agreed, Holdout!Steps10C, Holdout!Steps10D, Holdout!Steps11
  <2> QED
    BY <2>6, <2>7, <2>8 DEF HoldoutInv
<1> QED
  BY <1>1, <1>2

\* A reranker of the development systems depends on their labels only.
LEMMA RerankerUnseen ==
    ASSUME NEW scores, HeldOut(scores), DOMAIN scores = {"base", "metric", "trace"}
    PROVE  Holdout!Reranker(HoldoutSystems, scores) \in Learned(Development)
<1>1. \A s \in HoldoutSystems : Holdout!Records(s, scores) \subseteq Learned(Development)
  <2> SUFFICES ASSUME NEW s \in HoldoutSystems
               PROVE  /\ scores["base"][s] \in Learned(Development)
                      /\ scores["metric"][s] \in Learned(Development)
                      /\ scores["trace"][s] \in Learned(Development)
    BY DEF Holdout!Records
  <2> QED
    BY DEF HeldOut
<1> DEFINE labels == UNION {Holdout!Of(t, Development) : t \in HoldoutSystems}
           records == UNION {Holdout!Records(t, scores) : t \in HoldoutSystems}
<1>2. labels \subseteq Development
  BY GroupsApart
<1>3. records \subseteq Learned(Development)
  BY <1>1
<1>4. Holdout!Reranker(HoldoutSystems, scores) = Holdout!Stacked(labels, records)
  BY DEF Holdout!Reranker, Development
<1> HIDE DEF labels, records
<1> QED
  BY <1>2, <1>3, <1>4, LearnedGrows

\* The frozen architecture changes with K and the models only.
LEMMA SelectedStays ==
    ASSUME k' = k, file'["models11"] = file["models11"]
    PROVE  Holdout!Selected' = Holdout!Selected
BY DEF Holdout!Selected

\* A step of M11 that writes a file of its own.
Writing11(name, c, from, to) ==
    /\ holdoutPc = from /\ holdoutPc' = to /\ Holdout!Write(name, c)
    /\ UNCHANGED <<study, columns, experts, method, oof, k, ranked, calibrated, reference, holdoutRuns>>

\* It leaves the other files, the types and the memory.
LEMMA Written11 ==
    ASSUME HoldoutInv, NEW name \in Holdout!FILES11, NEW c,
           NEW from \in Holdout!Steps11 \ {"m11"}, NEW to \in Holdout!Steps11 \ {"m11"},
           Writing11(name, c, from, to), name # "manifest11"
    PROVE  /\ StudyTypes' /\ MemoryFollowed' /\ FusionFollowed'
           /\ file'[name] = c
           /\ \A f \in Files : f # name => file'[f] = file[f]
           /\ \A f \in Holdout!MODELS10C : file'[f] = file[f]
           /\ file'["manifest11"] = file["manifest11"]
<1>1. /\ holdoutPc = from /\ holdoutPc' = to /\ Holdout!Write(name, c)
      /\ UNCHANGED <<study, columns, experts, method, oof, k, ranked, calibrated, reference, holdoutRuns>>
  BY DEF Writing11
<1>2. name \in Files
  BY DEF Files
<1>3. /\ file' = [f \in Files |-> file'[f]] /\ file'[name] = c
      /\ \A f \in Files : f # name => file'[f] = file[f]
  BY <1>1, <1>2, WriteFile DEF HoldoutInv
<1>4. /\ \A f \in Holdout!MODELS10C : file'[f] = file[f]
      /\ file'["manifest"] = file["manifest"] /\ file'["manifest11"] = file["manifest11"]
  BY <1>3, FileNames DEF Holdout!FILES11
<1>5. StudyTypes'
  BY <1>1, <1>3, <1>4, NoneIsNoStep DEF HoldoutInv, StudyTypes, Holdout!Steps10C, Holdout!Steps10D, Holdout!Steps11
<1>6. MemoryFollowed'
  BY <1>1, NoneIsNoStep DEF HoldoutInv, MemoryFollowed, HeldOut, Holdout!Steps10C, Holdout!Steps10D, Holdout!Steps11
<1>7. FusionFollowed'
  BY <1>1, <1>4 DEF HoldoutInv, FusionFollowed, OneRun, Holdout!Steps10C, Holdout!Steps10D, Holdout!Steps11
<1> QED
  BY <1>3, <1>4, <1>5, <1>6, <1>7

\* The selected models are fitted and saved.
LEMMA FitSelectedStep == ASSUME HoldoutInv, Holdout!FitSelected PROVE HoldoutInv'
<1>1. CASE k = 3
  <2>1. /\ holdoutPc = "models11" /\ holdoutPc' = "freeze"
        /\ UNCHANGED <<study, columns, experts, method, oof, k, ranked, calibrated, file, reference, holdoutRuns>>
    BY <1>1 DEF Holdout!FitSelected, Holdout!memory, Holdout!Goto, Holdout!Idle
  <2>2. StudyTypes'
    BY <2>1, NoneIsNoStep DEF HoldoutInv, StudyTypes, Holdout!Steps10C, Holdout!Steps10D, Holdout!Steps11
  <2>3. MemoryFollowed'
    BY <2>1, NoneIsNoStep DEF HoldoutInv, MemoryFollowed, HeldOut, Holdout!Steps10C, Holdout!Steps10D, Holdout!Steps11
  <2>4. FusionFollowed' /\ ArchitectureFollowed'
    BY <2>1 DEF HoldoutInv, FusionFollowed, ArchitectureFollowed, HeldOut, OneRun, Agreed, Holdout!Steps10C, Holdout!Steps10D, Holdout!Steps11
  <2> QED
    BY <2>2, <2>3, <2>4 DEF HoldoutInv
<1>2. CASE k # 3
  <2>1. /\ holdoutPc = "models11"
        /\ \E c : Writing11("models11", c, "models11", "freeze")
    BY <1>2 DEF Holdout!FitSelected, Holdout!memory, Holdout!Goto, Holdout!Idle, Writing11
  <2>2. PICK c : Writing11("models11", c, "models11", "freeze")
    BY <2>1
  <2>3. holdoutPc' = "freeze" /\ UNCHANGED <<columns, experts, method, oof, k, ranked, calibrated, holdoutRuns>>
    BY <2>2 DEF Writing11
  <2>4. /\ StudyTypes' /\ MemoryFollowed' /\ FusionFollowed'
        /\ \A f \in Holdout!MODELS10C : file'[f] = file[f]
        /\ file'["manifest11"] = file["manifest11"]
    BY <2>2, Written11 DEF Holdout!FILES11, Holdout!Steps11
  <2>5. ArchitectureFollowed'
    BY <2>1, <2>3, <2>4, FileNames DEF HoldoutInv, ArchitectureFollowed, HeldOut, Agreed, Holdout!Steps11
  <2> QED
    BY <2>4, <2>5 DEF HoldoutInv
<1> QED
  BY <1>1, <1>2

\* The architecture is frozen.
LEMMA FreezeStep == ASSUME HoldoutInv, Holdout!FreezeArchitecture PROVE HoldoutInv'
<1>1. /\ holdoutPc = "freeze" /\ Writing11("freeze", Holdout!Selected, "freeze", "historical")
  BY DEF Holdout!FreezeArchitecture, Holdout!memory, Holdout!Goto, Holdout!Idle, Writing11
<1>2. holdoutPc' = "historical" /\ UNCHANGED <<columns, experts, method, oof, k, ranked, calibrated, holdoutRuns>>
  BY <1>1 DEF Writing11
<1>3. /\ StudyTypes' /\ MemoryFollowed' /\ FusionFollowed' /\ file'["freeze"] = Holdout!Selected
      /\ \A f \in Holdout!MODELS10C : file'[f] = file[f]
      /\ \A f \in Files : f # "freeze" => file'[f] = file[f]
      /\ file'["manifest11"] = file["manifest11"]
  BY <1>1, Written11 DEF Holdout!FILES11, Holdout!Steps11
<1>4. Holdout!Selected' = Holdout!Selected
  BY <1>2, <1>3, SelectedStays, FileNames
<1>5. ArchitectureFollowed'
  BY <1>1, <1>2, <1>3, <1>4, FileNames DEF HoldoutInv, ArchitectureFollowed, HeldOut, Agreed, Holdout!Steps11
<1> QED
  BY <1>3, <1>5 DEF HoldoutInv

\* The external incidents are ranked by what was frozen.
LEMMA HistoricalStep == ASSUME HoldoutInv, Holdout!RankHistorical PROVE HoldoutInv'
<1>1. CASE \E reason : Holdout!Fail(reason)
  BY <1>1, FailStep
<1>2. CASE ~ \E reason : Holdout!Fail(reason)
  <2> DEFINE by == IF k = 3 THEN Holdout!Frozen ELSE Holdout!Learned11
  <2>1. /\ holdoutPc = "historical" /\ holdoutPc' = "evaluation11"
        /\ ranked' = [by |-> Holdout!Historical(by), k |-> k, models |-> Holdout!Selected.models]
        /\ UNCHANGED <<study, columns, experts, method, oof, k, calibrated, file, reference, holdoutRuns>>
    BY <1>2 DEF Holdout!RankHistorical, Holdout!Goto, Holdout!Idle
  <2>2. /\ HeldOut(oof) /\ DOMAIN oof = {"base", "metric", "trace"}
        /\ file["core"] \in Saved /\ file["experts"] \in Saved
        /\ file["freeze"] = Holdout!Selected
    BY <2>1 DEF HoldoutInv, ArchitectureFollowed, Holdout!Steps11
  <2>3. by \in Learned(Development)
    <3>1. Holdout!Frozen \in Learned(Development)
      BY LearnedGrows DEF Holdout!Frozen, Development
    <3>2. Holdout!Reranker(HoldoutSystems, oof) \in Learned(Development)
      BY <2>2, RerankerUnseen
    <3>3. Holdout!Chosen(Holdout!Reranker(HoldoutSystems, oof), Development) \in Learned(Development)
      BY <3>2, LearnedGrows
    <3>4. Holdout!Learned11 = Holdout!Chosen(Holdout!Reranker(HoldoutSystems, oof), Development)
      BY DEF Holdout!Learned11, HoldoutSystems, Development
    <3> QED
      BY <3>1, <3>3, <3>4
  <2> HIDE DEF by
  <2>4. /\ ranked'.by \in Learned(Development)
        /\ ranked'.k = k /\ ranked'.models = Holdout!Selected.models
    <3>1. Holdout!Historical(by) \in Learned(Development)
      BY <2>2, <2>3, HistoricalUnseen
    <3> QED
      BY <2>1, <3>1
  <2>5. Holdout!Selected' = Holdout!Selected
    BY <2>1, SelectedStays
  <2>6. StudyTypes'
    BY <2>1, NoneIsNoStep DEF HoldoutInv, StudyTypes, Holdout!Steps10C, Holdout!Steps10D, Holdout!Steps11
  <2>7. MemoryFollowed'
    BY <2>1, <2>4, NoneIsNoStep DEF HoldoutInv, MemoryFollowed, HeldOut, Holdout!Steps10C, Holdout!Steps10D, Holdout!Steps11
  <2>8. FusionFollowed'
    BY <2>1 DEF HoldoutInv, FusionFollowed, OneRun, Holdout!Steps10C, Holdout!Steps10D, Holdout!Steps11
  <2>9. ArchitectureFollowed'
    BY <2>1, <2>2, <2>4, <2>5 DEF HoldoutInv, ArchitectureFollowed, HeldOut, Agreed, Holdout!Steps11
  <2> QED
    BY <2>6, <2>7, <2>8, <2>9 DEF HoldoutInv
<1> QED
  BY <1>1, <1>2

\* The results of M11 are saved, and then the hashes of three of them.
LEMMA Save11Step == ASSUME HoldoutInv, Holdout!Save11 PROVE HoldoutInv'
<1> DEFINE c == [run |-> holdoutRuns, freeze |-> Holdout!Selected]
<1>1. ASSUME NEW name \in {"evaluation11", "docs11"}, NEW to \in {"docs11", "manifest11"},
             to = "docs11" <=> name = "evaluation11", Writing11(name, c, name, to)
      PROVE  HoldoutInv'
  <2>1. holdoutPc = name /\ holdoutPc' = to /\ UNCHANGED <<columns, experts, method, oof, k, ranked, calibrated, holdoutRuns>>
    BY <1>1 DEF Writing11
  <2>2. /\ StudyTypes' /\ MemoryFollowed' /\ FusionFollowed' /\ file'[name] = c
        /\ \A f \in Holdout!MODELS10C : file'[f] = file[f]
        /\ \A f \in Files : f # name => file'[f] = file[f]
        /\ file'["manifest11"] = file["manifest11"]
    <3>1. /\ name \in Holdout!FILES11 /\ name # "manifest11"
          /\ name \in Holdout!Steps11 \ {"m11"} /\ to \in Holdout!Steps11 \ {"m11"}
      BY DEF Holdout!FILES11, Holdout!Steps11
    <3> HIDE DEF c
    <3> QED
      BY <1>1, <3>1, Written11
  <2>3. Holdout!Selected' = Holdout!Selected
    BY <2>1, <2>2, SelectedStays, FileNames
  <2>4. ArchitectureFollowed'
    BY <1>1, <2>1, <2>2, <2>3, FileNames DEF HoldoutInv, ArchitectureFollowed, HeldOut, Agreed, Holdout!Steps11
  <2> QED
    BY <2>2, <2>4 DEF HoldoutInv
<1>2. CASE holdoutPc = "evaluation11"
  <2>1. Writing11("evaluation11", c, "evaluation11", "docs11")
    BY <1>2 DEF Holdout!Save11, Holdout!memory, Holdout!Goto, Holdout!Idle, Writing11
  <2> QED
    BY <1>1, <2>1
<1>3. CASE holdoutPc = "docs11"
  <2>1. Writing11("docs11", c, "docs11", "manifest11")
    BY <1>3 DEF Holdout!Save11, Holdout!memory, Holdout!Goto, Holdout!Idle, Writing11
  <2> QED
    BY <1>1, <2>1
<1>4. CASE holdoutPc = "manifest11"
  <2> DEFINE m == [f \in Holdout!Sealed11 |-> file[f]]
  <2>1. /\ Holdout!Ended /\ UNCHANGED <<reference, holdoutRuns>> /\ Holdout!Write("manifest11", m)
    BY <1>4 DEF Holdout!Save11, Holdout!Idle
  <2>2. Agreed(m)
    <3>1. /\ file["freeze"] = Holdout!Selected
          /\ file["evaluation11"] = c /\ file["docs11"] = c
      BY <1>4 DEF HoldoutInv, ArchitectureFollowed
    <3>2. /\ m["freeze"] = file["freeze"] /\ m["evaluation11"] = file["evaluation11"]
          /\ m["docs11"] = file["docs11"]
      BY DEF Holdout!Sealed11
    <3>3. c.freeze = Holdout!Selected
      OBVIOUS
    <3> HIDE DEF m, c
    <3> QED
      BY <3>1, <3>2, <3>3 DEF Agreed
  <2> HIDE DEF m
  <2>3. /\ file' = [f \in Files |-> file'[f]] /\ file'["manifest11"] = m
        /\ \A f \in Files : f # "manifest11" => file'[f] = file[f]
    BY <2>1, WriteFile, FileNames DEF HoldoutInv
  <2>4. /\ \A f \in Holdout!MODELS10C : file'[f] = file[f] /\ file'["manifest"] = file["manifest"]
    BY <2>3, FileNames
  <2> QED
    BY <2>1, <2>2, <2>3, <2>4, EndedStep, FileNames DEF HoldoutInv, FusionFollowed
<1>5. holdoutPc \in {"evaluation11", "docs11", "manifest11"}
  BY DEF Holdout!Save11
<1> QED
  BY <1>2, <1>3, <1>4, <1>5

\* Every step of the studies keeps their invariant.
LEMMA HoldoutStep == ASSUME HoldoutInv, Holdout!Next \/ UNCHANGED holdoutVars PROVE HoldoutInv'
<1>1. CASE UNCHANGED holdoutVars
  <2>1. UNCHANGED <<study, holdoutPc, columns, experts, method, oof, k, ranked, calibrated, file, reference, holdoutRuns>>
    BY <1>1 DEF holdoutVars
  <2>2. Holdout!Selected' = Holdout!Selected
    BY <2>1, SelectedStays
  <2>3. Holdout!Verified => Holdout!Verified'
    BY <2>1, VerifiedStays
  <2>4. StudyTypes' /\ MemoryFollowed'
    BY <2>1 DEF HoldoutInv, StudyTypes, MemoryFollowed, HeldOut
  <2>5. FusionFollowed' /\ ArchitectureFollowed'
    BY <2>1, <2>2, <2>3 DEF HoldoutInv, FusionFollowed, ArchitectureFollowed, HeldOut, OneRun, Agreed
  <2> QED
    BY <2>4, <2>5 DEF HoldoutInv
<1>2. CASE Holdout!Next
  BY <1>2, StartStep, FailStep, PreflightStep, ChooseStep, FitStep, SelectStep, ExternalStep,
     SaveExpertsStep, SaveCoreStep, SaveEvaluationStep, SaveSchemaStep, SaveManifestStep,
     ReproduceStep, Save10DStep, DevelopStep, FitSelectedStep, FreezeStep, HistoricalStep,
     Save11Step DEF Holdout!Next
<1> QED
  BY <1>1, <1>2

\* What the invariant says of labels, the freeze and the hashes.
LEMMA HoldoutSound ==
    ASSUME HoldoutInv
    PROVE  /\ Holdout!ExternalUnseen /\ Holdout!CalibrationUnseen /\ Holdout!ScoresHeldOut
           /\ Holdout!FrozenBeforeHistorical /\ Holdout!IntegrityTells /\ Holdout!OneRunAccepted
<1>1. Holdout!ExternalUnseen
  <2> SUFFICES ASSUME ranked # NONE PROVE (ranked.by.fit \cup ranked.by.choice) \cap Holdout!Test = {}
    BY DEF Holdout!ExternalUnseen
  <2>1. ranked.by \in Learned(Development)
    BY DEF HoldoutInv, MemoryFollowed
  <2>2. ranked.by.fit \subseteq Development /\ ranked.by.choice \subseteq Development
    BY <2>1 DEF Learned
  <2> QED
    BY <2>2, GroupsApart
<1>2. Holdout!CalibrationUnseen
  <2> SUFFICES ASSUME calibrated # NONE
               PROVE  (calibrated.fit \cup calibrated.choice) \cap Holdout!Calibration = {}
    BY DEF Holdout!CalibrationUnseen
  <2>1. calibrated \in Learned(Fit)
    BY DEF HoldoutInv, MemoryFollowed
  <2>2. calibrated.fit \subseteq Fit /\ calibrated.choice \subseteq Fit
    BY <2>1 DEF Learned
  <2> QED
    BY <2>2, GroupsApart
<1>3. Holdout!ScoresHeldOut
  BY DEF HoldoutInv, MemoryFollowed, HeldOut, Holdout!ScoresHeldOut, HoldoutSystems
<1>4. Holdout!FrozenBeforeHistorical
  <2> SUFFICES ASSUME study = "m11", ranked # NONE
               PROVE  file["freeze"] = [k |-> ranked.k, models |-> ranked.models]
    BY DEF Holdout!FrozenBeforeHistorical
  <2>1. holdoutPc \in Holdout!Steps11
    BY NoneIsNoStep DEF HoldoutInv, StudyTypes, Holdout!Steps10C, Holdout!Steps10D, Holdout!Steps11
  <2>2. holdoutPc \in {"evaluation11", "docs11", "manifest11"}
    BY <2>1 DEF HoldoutInv, MemoryFollowed, ArchitectureFollowed, Holdout!Steps11
  <2>3. /\ file["freeze"] = Holdout!Selected
        /\ ranked.k = k /\ ranked.models = Holdout!Selected.models
    BY <2>2 DEF HoldoutInv, ArchitectureFollowed
  <2>4. Holdout!Selected = [k |-> k, models |-> Holdout!Selected.models]
    BY DEF Holdout!Selected
  <2> QED
    BY <2>3, <2>4
<1>5. Holdout!IntegrityTells
  <2> SUFFICES ASSUME file["manifest11"] # NONE,
                      \A f \in Holdout!Sealed11 : file["manifest11"][f] = file[f]
               PROVE  /\ file["evaluation11"] = file["docs11"]
                      /\ file["evaluation11"].freeze = file["freeze"]
    BY DEF Holdout!IntegrityTells
  <2>1. Agreed(file["manifest11"])
    BY DEF HoldoutInv, ArchitectureFollowed
  <2> QED
    BY <2>1 DEF Agreed, Holdout!Sealed11
<1>6. Holdout!OneRunAccepted
  <2> SUFFICES ASSUME study = "m10d", oof # NONE
               PROVE  /\ file["schema"].run = file["experts"].run
                      /\ file["experts"].method \in Single => file["core"].run = file["experts"].run
    BY DEF Holdout!OneRunAccepted, Single
  <2>1. holdoutPc \in Holdout!Steps10D \ {"m10d"}
    BY NoneIsNoStep DEF HoldoutInv, StudyTypes, MemoryFollowed, Holdout!Steps10C, Holdout!Steps10D, Holdout!Steps11
  <2>2. OneRun(file)
    BY <2>1, VerifiedFiles DEF HoldoutInv, FusionFollowed
  <2> QED
    BY <2>2 DEF OneRun
<1> QED
  BY <1>1, <1>2, <1>3, <1>4, <1>5, <1>6

\* No ranking depends on a label it must not, whatever files of earlier runs a
\* study was given; the external incidents are ranked by what is frozen; and
\* files whose hashes agree are of one run.
THEOREM HoldoutUnseenHolds == SuiteSpec => []HoldoutUnseen
<1> DEFINE Inv == part = "holdout" => HoldoutInv
<1>1. SuiteInit => Inv
  BY StudiesStart DEF SuiteInit
<1>2. Inv /\ [SuiteNext]_suiteVars => Inv'
  <2> SUFFICES ASSUME Inv, [SuiteNext]_suiteVars, part' = "holdout" PROVE HoldoutInv'
    OBVIOUS
  <2>1. part = "holdout" /\ (Holdout!Next \/ UNCHANGED holdoutVars)
    BY DEF SuiteNext, suiteVars
  <2> QED
    BY <2>1, HoldoutStep
<1>3. Inv => HoldoutUnseen
  BY HoldoutSound DEF HoldoutUnseen
<1> QED
  BY <1>1, <1>2, <1>3, PTL DEF SuiteSpec

-----------------------------------------------------------------------------
(* The collection, scoring and opening of the locked incidents *)

\* The invariant of the collection that runs.
LockedFollowed ==
    /\ part = "collecting" => Collecting!LockedInv
    /\ part = "scoring" => Scoring!LockedInv
    /\ part = "collecting13" => Collecting13!LockedInv
    /\ part = "collecting12" => Collecting12!LockedInv

\* It holds of the first states.
LEMMA CollectionsStart == SuiteInit => LockedFollowed
<1> SUFFICES ASSUME SuiteInit PROVE LockedFollowed
  OBVIOUS
<1>1. part = "collecting" => Collecting!LockedInv
  BY InstancesAssumption, Collecting!LockedInit DEF SuiteInit
<1>2. part = "scoring" => Scoring!LockedInv
  BY InstancesAssumption, Scoring!LockedInit DEF SuiteInit
<1>3. part = "collecting13" => Collecting13!LockedInv
  BY InstancesAssumption, Collecting13!LockedInit DEF SuiteInit
<1>4. part = "collecting12" => Collecting12!LockedInv
  BY InstancesAssumption, Collecting12!LockedInit DEF SuiteInit
<1> QED
  BY <1>1, <1>2, <1>3, <1>4 DEF LockedFollowed

\* A step of the suite is one of the part that runs, or leaves it as it is.
LEMMA CollectionsStep == LockedFollowed /\ [SuiteNext]_suiteVars => LockedFollowed'
<1> SUFFICES ASSUME LockedFollowed, [SuiteNext]_suiteVars PROVE LockedFollowed'
  OBVIOUS
<1>1. part' = part
  BY DEF SuiteNext, suiteVars
<1>2. ASSUME part = "collecting" PROVE Collecting!LockedInv'
  <2>1. Collecting!LockedInv /\ Collecting!LockedAssumption
    BY <1>2, InstancesAssumption DEF LockedFollowed
  <2>2. Collecting!Next \/ UNCHANGED collectingVars
    BY <1>2 DEF SuiteNext, suiteVars
  <2>3. UNCHANGED collectingVars => UNCHANGED Collecting!vars
    BY DEF collectingVars, Collecting!vars, Collecting!measured, Collecting!collected,
           Collecting!results, Collecting!process, Collecting!bounds
  <2> QED
    BY <2>1, <2>2, <2>3, Collecting!LockedStep
<1>3. ASSUME part = "scoring" PROVE Scoring!LockedInv'
  <2>1. Scoring!LockedInv /\ Scoring!LockedAssumption
    BY <1>3, InstancesAssumption DEF LockedFollowed
  <2>2. Scoring!Next \/ UNCHANGED collectingVars
    BY <1>3 DEF SuiteNext, suiteVars
  <2>3. UNCHANGED collectingVars => UNCHANGED Scoring!vars
    BY DEF collectingVars, Scoring!vars, Scoring!measured, Scoring!collected,
           Scoring!results, Scoring!process, Scoring!bounds
  <2> QED
    BY <2>1, <2>2, <2>3, Scoring!LockedStep
<1>4. ASSUME part = "collecting13" PROVE Collecting13!LockedInv'
  <2>1. Collecting13!LockedInv /\ Collecting13!LockedAssumption
    BY <1>4, InstancesAssumption DEF LockedFollowed
  <2>2. Collecting13!Next \/ UNCHANGED collectingVars
    BY <1>4 DEF SuiteNext, suiteVars
  <2>3. UNCHANGED collectingVars => UNCHANGED Collecting13!vars
    BY DEF collectingVars, Collecting13!vars, Collecting13!measured, Collecting13!collected,
           Collecting13!results, Collecting13!process, Collecting13!bounds
  <2> QED
    BY <2>1, <2>2, <2>3, Collecting13!LockedStep
<1>5. ASSUME part = "collecting12" PROVE Collecting12!LockedInv'
  <2>1. Collecting12!LockedInv /\ Collecting12!LockedAssumption
    BY <1>5, InstancesAssumption DEF LockedFollowed
  <2>2. Collecting12!Next \/ UNCHANGED collectingVars
    BY <1>5 DEF SuiteNext, suiteVars
  <2>3. UNCHANGED collectingVars => UNCHANGED Collecting12!vars
    BY DEF collectingVars, Collecting12!vars, Collecting12!measured, Collecting12!collected,
           Collecting12!results, Collecting12!process, Collecting12!bounds
  <2> QED
    BY <2>1, <2>2, <2>3, Collecting12!LockedStep
<1> QED
  BY <1>1, <1>2, <1>3, <1>4, <1>5 DEF LockedFollowed

\* However the commands are killed, interrupted and resumed and whatever is edited
\* between them, an incident that counts is not replaced, what is frozen is the
\* whole plan, it is opened once, and no incident is judged by the truth of
\* another capture of it.
THEOREM LockedOnceHolds == SuiteSpec => []LockedOnce
<1>1. LockedFollowed => LockedOnce
  BY Collecting!LockedSound, Scoring!LockedSound, Collecting13!LockedSound,
     Collecting12!LockedSound DEF LockedFollowed, LockedOnce
<1> QED
  BY <1>1, CollectionsStart, CollectionsStep, PTL DEF SuiteSpec

-----------------------------------------------------------------------------
(* The folds of the nested validation *)

\* An assignment that keeps the repetitions of an incident together, to n folds.
Together(a, ids) ==
    /\ DOMAIN a = ids
    /\ \A i, j \in ids : Cluster[i] = Cluster[j] => a[i] = a[j]
Grouped(a, ids, n) == a \in [ids -> 1..n] /\ Together(a, ids)
\* No two of its folds differ by more than a cluster.
Balanced(a) ==
    \A f, g \in Nested!FoldsOf(a) : \E i \in Incidents :
        Cardinality(Nested!InFold(a, f))
          <= Cardinality(Nested!InFold(a, g)) + Cardinality(Nested!SameCluster(i))

\* The instance's cardinality is the one of the library's theorems.
LEMMA NestedCardinality == ASSUME NEW S PROVE Nested!Cardinality(S) = Cardinality(S)
  BY Zenon DEF Nested!Cardinality, Cardinality

\* A set of numbers that is not empty has a least one.
LEMMA LeastNumber ==
  ASSUME NEW P \in SUBSET Nat, P # {}
  PROVE  \E m \in P : \A l \in P : m <= l
  <1> DEFINE R == OpToRel(<, Nat)
  <1>1. IsWellFoundedOn(R, Nat)
    BY NatLessThanWellFounded
  <1> HIDE DEF R
  <1>2. PICK m \in P : \A l \in P : <<l, m>> \notin R
    BY <1>1, WFMin
  <1>3. \A l \in P : ~(l < m)
    BY <1>2 DEF R, OpToRel
  <1>4. QED BY <1>3

\* If it is bounded it has a last one.
LEMMA LastNumber ==
  ASSUME NEW c \in Nat, NEW P \in SUBSET (0..c), P # {}
  PROVE  \E m \in P : \A l \in P : l <= m
  <1> DEFINE Q == {x \in Nat : x <= c /\ c - x \in P}
  <1>1. \A l \in P : l \in Nat /\ c - l \in Nat /\ c - l <= c /\ c - (c - l) = l
    OBVIOUS
  <1>2. PICK p \in P : TRUE
    OBVIOUS
  <1>3. c - p \in Q
    BY <1>1
  <1>4. PICK x \in Q : \A y \in Q : x <= y
    <2>1. Q \in SUBSET Nat /\ Q # {}
      BY <1>3
    <2> HIDE DEF Q
    <2>2. QED BY <2>1, LeastNumber
  <1>5. ASSUME NEW l \in P PROVE l <= c - x
    <2>1. c - l \in Q
      BY <1>1
    <2>2. x <= c - l /\ x \in Nat
      BY <1>4, <2>1
    <2>3. QED BY <1>1, <2>2
  <1>6. QED BY <1>5

\* The lightest fold is none heavier than another.
LEMMA LightestIs ==
  ASSUME NEW n \in Nat \ {0}, NEW loads \in [1..n -> Nat]
  PROVE  \A g \in 1..n : loads[Nested!Lightest(loads)] <= loads[g]
  <1> DEFINE P == {loads[f] : f \in 1..n}
  <1>1. P \in SUBSET Nat /\ P # {}
    <2>1. 1 \in 1..n
      OBVIOUS
    <2>2. QED BY <2>1
  <1> HIDE DEF P
  <1>2. PICK least \in P : \A l \in P : least <= l
    BY <1>1, LeastNumber
  <1> DEFINE Q == {f \in 1..n : loads[f] = least}
  <1>3. Q \in SUBSET Nat /\ Q # {}
    BY <1>2 DEF P
  <1> HIDE DEF Q
  <1>4. PICK first \in Q : \A l \in Q : first <= l
    BY <1>3, LeastNumber
  <1>5. first \in 1..n /\ loads[first] = least
    BY DEF Q
  <1>6. \A g \in 1..n : \/ loads[first] < loads[g]
                        \/ loads[first] = loads[g] /\ first <= g
    <2> TAKE g \in 1..n
    <2>1. loads[g] \in P /\ loads[g] \in Nat /\ least \in Nat
      BY <1>1, <1>2 DEF P
    <2>2. least <= loads[g]
      BY <1>2, <2>1
    <2>3. loads[g] = least => first <= g
      BY <1>4 DEF Q
    <2>4. QED BY <1>5, <2>1, <2>2, <2>3
  <1> DEFINE light == Nested!Lightest(loads)
  <1>7. light \in 1..n /\ \A g \in 1..n : \/ loads[light] < loads[g]
                                          \/ loads[light] = loads[g] /\ light <= g
    BY <1>5, <1>6 DEF Nested!Lightest
  <1> HIDE DEF light
  <1>8. \A g \in 1..n : loads[light] <= loads[g]
    <2> TAKE g \in 1..n
    <2>1. loads[light] \in Nat /\ loads[g] \in Nat
      BY <1>7
    <2>2. QED BY <1>7, <2>1
  <1>9. QED BY <1>8 DEF light

\* The groups of incidents in an order: each of them is in it, at one place.
LEMMA OrderReaches ==
  ASSUME NEW ids, IsFiniteSet(ids),
         NEW order \in Nested!SetToSeqs({Nested!Group(i) : i \in ids})
  PROVE  LET c == Cardinality({Nested!Group(i) : i \in ids}) IN
         /\ c \in Nat /\ DOMAIN order = 1..c
         /\ \A i \in ids : \E m \in 1..c : order[m] = Nested!Group(i)
         /\ \A m \in 1..c : \E i \in ids : order[m] = Nested!Group(i)
  <1> DEFINE G == {Nested!Group(i) : i \in ids}
             c == Cardinality(G)
             h == [i \in ids |-> Nested!Group(i)]
  <1>1. IsFiniteSet(G)
    <2>1. h \in Surjection(ids, G)
      BY DEF Surjection
    <2> HIDE DEF h, G
    <2>2. QED BY <2>1, FS_Surjection
  <1>2. order \in Nested!SetToSeqs(G)
    OBVIOUS
  <1>3. \A i \in ids : Nested!Group(i) \in G
    OBVIOUS
  <1>4. \A g \in G : \E i \in ids : g = Nested!Group(i)
    OBVIOUS
  <1> HIDE DEF G
  <1>5. c \in Nat
    BY <1>1, FS_CardinalityType
  <1>6. Nested!Cardinality(G) = c
    BY NestedCardinality
  <1> HIDE DEF c
  <1>7. order \in [1..c -> G] /\ \A l, m \in 1..c : l # m => order[l] # order[m]
    BY <1>2, <1>6 DEF Nested!SetToSeqs
  <1>8. order \in Surjection(1..c, G)
    <2>1. IsFiniteSet(1..c) /\ Cardinality(1..c) = c
      BY <1>5, FS_Interval
    <2>2. order \in Injection(1..c, G)
      BY <1>7 DEF Injection, IsInjective
    <2>3. Cardinality(1..c) = Cardinality(G)
      BY <2>1 DEF c
    <2>4. QED BY <1>1, <2>2, <2>3, FS_Injection
  <1>9. \A g \in G : \E m \in 1..c : order[m] = g
    BY <1>8 DEF Surjection
  <1>10. QED BY <1>3, <1>4, <1>5, <1>7, <1>9 DEF c, G

\* What an assignment of groups in turn to the lightest fold gives.
LEMMA FoldsAre ==
  ASSUME Nested!NestedAssumption, NEW ids \in SUBSET Incidents, NEW n \in Nat \ {0},
         NEW a \in Nested!GroupedFolds(ids, n)
  PROVE  Grouped(a, ids, n) /\ Balanced(a)
  <1> DEFINE G == {Nested!Group(i) : i \in ids}
             c == Cardinality(G)
  <1>1. PICK order \in Nested!SetToSeqs(G) : a \in Nested!Assigned(ids, n, order)
    BY DEF Nested!GroupedFolds
  <1>2. PICK to \in [G -> 1..n] :
          Nested!InTurn(ids, n, to, order) /\ a = [i \in ids |-> to[Nested!Group(i)]]
    BY <1>1 DEF Nested!Assigned
  <1>3. IsFiniteSet(Incidents) /\ IsFiniteSet(ids)
    <2>1. IsFiniteSet(Incidents)
      BY Zenon DEF Nested!NestedAssumption, Nested!IsFiniteSet, IsFiniteSet
    <2>2. QED BY <2>1, FS_Subset
  <1>4. /\ c \in Nat /\ DOMAIN order = 1..c
        /\ \A i \in ids : \E m \in 1..c : order[m] = Nested!Group(i)
        /\ \A m \in 1..c : \E i \in ids : order[m] = Nested!Group(i)
    BY <1>1, <1>3, OrderReaches
  <1>5. \A i \in ids : Nested!Group(i) = Cluster[i] /\ Cluster[i] \in G
    BY DEF Nested!Group
  <1>6. \A m \in 1..c : order[m] \in G
    BY <1>4
  <1> HIDE DEF G, c
  <1>7. Grouped(a, ids, n)
    BY <1>2, <1>5 DEF Grouped, Together
  <1>8. ASSUME NEW f \in Nested!FoldsOf(a), NEW g \in Nested!FoldsOf(a)
        PROVE  \E i \in Incidents :
                 Cardinality(Nested!InFold(a, f))
                   <= Cardinality(Nested!InFold(a, g)) + Cardinality(Nested!SameCluster(i))
    <2>1. f \in 1..n /\ g \in 1..n /\ \E i \in ids : a[i] = f
      BY <1>7 DEF Nested!FoldsOf, Grouped, Together
    <2> DEFINE P == {m \in 1..c : to[order[m]] = f}
    <2>2. P \in SUBSET (0..c) /\ P # {}
      <3>1. PICK i \in ids : a[i] = f
        BY <2>1
      <3>2. to[Cluster[i]] = f
        BY <1>2, <1>5, <3>1
      <3>3. PICK l \in 1..c : order[l] = Cluster[i]
        BY <1>4, <1>5
      <3>4. l \in P
        BY <3>2, <3>3
      <3>5. P \in SUBSET (0..c)
        BY <1>4
      <3>6. QED BY <3>4, <3>5
    <2>3. PICK m \in P : \A l \in P : l <= m
      <3> HIDE DEF P
      <3>1. QED BY <1>4, <2>2, LastNumber
    <2>4. m \in 1..c /\ to[order[m]] = f /\ \A l \in 1..c : to[order[l]] = f => l <= m
      BY <2>3
    <2> HIDE DEF P
    <2> DEFINE earlier == Nested!Before(order, m)
               D(x) == {i \in ids : Nested!Group(i) \in earlier /\ to[Nested!Group(i)] = x}
               M == {i \in ids : Cluster[i] = order[m]}
               loads == [x \in 1..n |-> Nested!Load(ids, to, earlier, x)]
    <2>5. \A x : D(x) \in SUBSET ids /\ IsFiniteSet(D(x)) /\ Cardinality(D(x)) \in Nat
      <3> TAKE x
      <3>1. D(x) \in SUBSET ids
        OBVIOUS
      <3> HIDE DEF D
      <3>2. QED BY <1>3, <3>1, FS_Subset, FS_CardinalityType
    <2>6. loads = [x \in 1..n |-> Cardinality(D(x))]
      <3>1. \A x : Nested!Load(ids, to, earlier, x) = Cardinality(D(x))
        BY NestedCardinality DEF Nested!Load
      <3> HIDE DEF D, earlier
      <3>2. QED BY <3>1
    <2>7. loads[f] <= loads[g]
      <3>1. f = Nested!Lightest(loads)
        BY <1>2, <1>4, <2>4 DEF Nested!InTurn
      <3>2. loads \in [1..n -> Nat]
        <4> HIDE DEF D, loads
        <4>1. QED BY <2>5, <2>6
      <3> HIDE DEF loads
      <3>3. QED BY <2>1, <3>1, <3>2, LightestIs
    <2>8. Cardinality(D(f)) <= Cardinality(D(g))
      <3> HIDE DEF D, loads
      <3>1. QED BY <2>1, <2>6, <2>7
    <2>9. D(g) \in SUBSET Nested!InFold(a, g)
      BY <1>2 DEF Nested!InFold
    <2>10. Nested!InFold(a, f) \in SUBSET (D(f) \cup M)
      <3> SUFFICES ASSUME NEW i \in ids, to[Cluster[i]] = f, Cluster[i] # order[m]
                   PROVE  i \in D(f)
        BY <1>2, <1>5 DEF Nested!InFold
      <3>1. PICK l \in 1..c : order[l] = Cluster[i]
        BY <1>4, <1>5
      <3>2. l <= m /\ l # m
        BY <2>4, <3>1
      <3>3. l \in 1..(m - 1)
        BY <1>4, <2>4, <3>2
      <3>4. Cluster[i] \in earlier
        BY <3>1, <3>3 DEF Nested!Before
      <3>5. QED BY <1>5, <3>4
    <2>11. PICK j \in ids : Cluster[j] = order[m]
      BY <1>4, <1>5, <2>4
    <2>12. M \in SUBSET Nested!SameCluster(j) /\ Nested!SameCluster(j) \in SUBSET Incidents
      BY <2>11 DEF Nested!SameCluster
    <2>13. IsFiniteSet(M)
      <3>1. M \in SUBSET ids
        OBVIOUS
      <3> HIDE DEF M
      <3>2. QED BY <1>3, <3>1, FS_Subset
    <2> HIDE DEF D, M
    <2>14. Cardinality(M) <= Cardinality(Nested!SameCluster(j))
           /\ Cardinality(Nested!SameCluster(j)) \in Nat
      <3>1. IsFiniteSet(Nested!SameCluster(j))
        BY <1>3, <2>12, FS_Subset
      <3>2. QED BY <2>12, <3>1, FS_Subset, FS_CardinalityType
    <2>15. /\ Cardinality(D(g)) <= Cardinality(Nested!InFold(a, g))
           /\ Cardinality(Nested!InFold(a, g)) \in Nat
      <3>1. Nested!InFold(a, g) \in SUBSET ids
        BY <1>7 DEF Nested!InFold, Grouped, Together
      <3>2. IsFiniteSet(Nested!InFold(a, g))
        BY <1>3, <3>1, FS_Subset
      <3>3. QED BY <2>9, <3>2, FS_Subset, FS_CardinalityType
    <2>16. /\ Cardinality(Nested!InFold(a, f)) <= Cardinality(D(f)) + Cardinality(M)
           /\ Cardinality(Nested!InFold(a, f)) \in Nat
      <3>1. IsFiniteSet(D(f) \cup M)
            /\ Cardinality(D(f) \cup M)
                 = Cardinality(D(f)) + Cardinality(M) - Cardinality(D(f) \cap M)
        BY <2>5, <2>13, FS_Union
      <3>2. IsFiniteSet(D(f) \cap M)
        BY <2>13, FS_Intersection
      <3>3. Cardinality(D(f) \cap M) \in Nat /\ Cardinality(D(f) \cup M) \in Nat
            /\ Cardinality(M) \in Nat
        BY <2>13, <3>1, <3>2, FS_CardinalityType
      <3>4. IsFiniteSet(Nested!InFold(a, f))
            /\ Cardinality(Nested!InFold(a, f)) <= Cardinality(D(f) \cup M)
        BY <2>10, <3>1, FS_Subset
      <3>5. Cardinality(Nested!InFold(a, f)) \in Nat
        BY <3>4, FS_CardinalityType
      <3>6. QED BY <2>5, <3>1, <3>3, <3>4, <3>5
    <2>17. Cardinality(M) \in Nat
      BY <2>13, FS_CardinalityType
    <2>18. Cardinality(Nested!InFold(a, f))
             <= Cardinality(Nested!InFold(a, g)) + Cardinality(Nested!SameCluster(j))
      BY <2>5, <2>8, <2>14, <2>15, <2>16, <2>17
    <2>19. QED BY <2>11, <2>18
  <1>9. Balanced(a)
    BY <1>8 DEF Balanced
  <1>10. QED BY <1>7, <1>9

-----------------------------------------------------------------------------
(* The nested validation *)

\* No label of the repetitions of an incident is in a set of incidents.
Apart(labels, i) == labels \cap Nested!SameCluster(i) = {}

NestedPlace ==
    \/ nestedStudy = NONE /\ nestedPc = NONE
    \/ nestedStudy = "m13" /\ nestedPc \in Nested!STEPS13
    \/ nestedStudy = "m13.1" /\ nestedPc \in Nested!STEPS131
\* A study begins with nothing ranked; what it ranks is ranked out of fold.
RankingsFollowed ==
    /\ nestedPc \in {NONE, "m13", "m13.1"} =>
         \A i \in Incidents : prediction[i] = NONE /\ times[i] = 0
    /\ nestedStudy = "m13" => \A i \in Incidents : prediction[i] # NONE =>
         /\ Apart(prediction[i].fit, i)
         /\ nestedPc = "evaluation" => \A j \in prediction[i].fit : Root[j] # Root[i]
    /\ nestedStudy = "m13.1" => \A i \in Incidents : prediction[i] # NONE =>
         Apart(prediction[i].fit \cup prediction[i].choice, i)
    /\ \A i \in DOMAIN nestedExperts : Apart(nestedExperts[i].fit, i)
\* The folds in use keep repetitions together; the folds done are those ranked.
FoldsFollowed ==
    /\ nestedPc \in {"ablations", "fusion"} =>
         Grouped(outer, Incidents, Folds) /\ Balanced(outer)
    /\ nestedPc \in {"select", "fit"} =>
         /\ Grouped(outer, Incidents, OuterFolds) /\ Balanced(outer)
         /\ todo \subseteq Nested!FoldsOf(outer)
         /\ \A i \in Incidents : times[i] = IF outer[i] \in todo THEN 0 ELSE 1
    /\ nestedPc = "fit" => todo # {} /\ selection.seen = Nested!Searched
\* The files of the run that writes; a manifest is of one run.
NestedFiles ==
    /\ nestedFile = [f \in Nested!FILES13 \cup Nested!FILES131 |-> nestedFile[f]]
    /\ nestedPc \in {"corpus", "freeze", "docs", "integrity"} =>
         nestedFile["evaluation"] = nestedRuns
    /\ nestedPc = "integrity" => nestedFile["docs"] = nestedRuns
    /\ nestedPc \in {"docs131", "integrity131"} => nestedFile["evaluation131"] = nestedRuns
    /\ nestedPc = "integrity131" => nestedFile["docs131"] = nestedRuns
    /\ nestedFile["integrity"] # NONE =>
         nestedFile["integrity"]["evaluation"] = nestedFile["integrity"]["docs"]
    /\ nestedFile["integrity131"] # NONE =>
         nestedFile["integrity131"]["evaluation131"] = nestedFile["integrity131"]["docs131"]
NestedInv == NestedPlace /\ RankingsFollowed /\ FoldsFollowed /\ NestedFiles

\* A fit on features that are no scores has seen the incidents it is given.
LEMMA FittedPlain ==
  ASSUME NEW ids, NEW seen
  PROVE  Nested!Fitted(ids, <<>>, seen) = [fit |-> ids, choice |-> seen]
  <1>1. DOMAIN <<>> = {}
    OBVIOUS
  <1>2. QED BY <1>1 DEF Nested!Fitted

\* Each incident scored by what was learned of the others, none of its own fold.
OutOfFoldBy(scores, a, ids, seen) ==
    /\ DOMAIN scores = ids
    /\ \A i \in ids : /\ scores[i].fit \in SUBSET ids /\ scores[i].choice = seen
                      /\ Apart(scores[i].fit, i)
                      /\ \A j \in scores[i].fit : a[j] # a[i]

\* Out of fold an incident is scored by what has not seen its fold.
LEMMA OofApart ==
  ASSUME NEW ids \in SUBSET Incidents, NEW a, Together(a, ids), NEW seen
  PROVE  OutOfFoldBy(Nested!Oof(a, seen), a, ids, seen)
  <1>1. Nested!Oof(a, seen)
          = [i \in ids |-> [fit |-> ids \ Nested!InFold(a, a[i]), choice |-> seen]]
    BY FittedPlain DEF Nested!Oof, Together
  <1>2. ASSUME NEW i \in ids, NEW j \in ids \ Nested!InFold(a, a[i])
        PROVE  a[j] # a[i] /\ j \notin Nested!SameCluster(i)
    BY <1>2 DEF Together, Nested!InFold, Nested!SameCluster
  <1>3. \A i \in ids : Apart(ids \ Nested!InFold(a, a[i]), i)
    BY <1>2 DEF Apart
  <1>4. QED BY <1>1, <1>2, <1>3 DEF OutOfFoldBy

\* Learned of some incidents alone, by choices that looked at some alone.
Within(m, ids, seen) == m.fit \in SUBSET ids /\ m.choice \in SUBSET seen

\* A fusion sees, directly and through its experts' scores, the incidents it is
\* trained on, and no choice but the one it is given.
LEMMA FusionSees ==
  ASSUME NEW train \in SUBSET Incidents, NEW n, NEW a, Grouped(a, train, n), NEW seen
  PROVE  Within(Nested!Fusion(train, a, seen), train, seen)
  <1> DEFINE scores == Nested!ExpertScores(train, a, seen)
             m == Nested!Fitted(train, scores, seen)
             p == Nested!Fitted(train, <<>>, seen)
  <1>1. /\ DOMAIN scores = train
        /\ \A i \in train : scores[i].fit \in SUBSET train /\ scores[i].choice = seen
    <2>1. Together(a, train)
      BY DEF Grouped
    <2>2. scores = Nested!Oof(a, seen)
      BY DEF Nested!ExpertScores
    <2>3. OutOfFoldBy(Nested!Oof(a, seen), a, train, seen)
      BY <2>1, OofApart
    <2> HIDE DEF scores
    <2>4. QED BY <2>2, <2>3 DEF OutOfFoldBy
  <1> HIDE DEF scores
  <1>2. m.fit \in SUBSET train /\ m.choice \in SUBSET seen
    BY <1>1 DEF Nested!Fitted
  <1>3. p.fit \in SUBSET train /\ p.choice \in SUBSET seen
    BY FittedPlain
  <1> HIDE DEF m, p
  <1>4. Nested!Fusion(train, a, seen)
          = [fit |-> UNION {x.fit : x \in {m, p}}, choice |-> UNION {x.choice : x \in {m, p}}]
    BY DEF Nested!Fusion, Nested!Union, m, p, scores
  <1>5. QED BY <1>2, <1>3, <1>4 DEF Within

\* The repetitions of an incident of a fold are in the fold.
LEMMA TestApart ==
  ASSUME NEW n, Grouped(outer, Incidents, n), NEW f, NEW i \in Nested!InFold(outer, f),
         NEW labels \in SUBSET (Incidents \ Nested!InFold(outer, f))
  PROVE  i \in Incidents /\ Apart(labels, i)
  BY DEF Grouped, Together, Nested!InFold, Nested!SameCluster, Apart

\* Before any study all is as a study finds it.
LEMMA NestedStarts == Nested!Init => NestedInv
  <1> SUFFICES ASSUME Nested!Init PROVE NestedInv
    OBVIOUS
  <1>1. NONE \notin Nested!STEPS13 \cup Nested!STEPS131
    BY InstancesAssumption DEF Nested!NestedAssumption
  <1>2. NestedPlace
    BY DEF Nested!Init, NestedPlace
  <1>3. RankingsFollowed
    BY DEF Nested!Init, RankingsFollowed
  <1>4. FoldsFollowed
    BY <1>1 DEF Nested!Init, FoldsFollowed, Nested!STEPS13, Nested!STEPS131
  <1>5. NestedFiles
    BY <1>1 DEF Nested!Init, NestedFiles, Nested!STEPS13, Nested!STEPS131, Nested!FILES13,
                Nested!FILES131
  <1> QED
    BY <1>2, <1>3, <1>4, <1>5 DEF NestedInv

\* Where a study is tells which it is.
LEMMA NestedAt ==
  ASSUME NestedInv
  PROVE  /\ nestedPc \in Nested!STEPS13 => nestedStudy = "m13"
         /\ nestedPc \in Nested!STEPS131 => nestedStudy = "m13.1"
         /\ nestedStudy = NONE => nestedPc = NONE
         /\ NONE \notin Nested!STEPS13 \cup Nested!STEPS131
  <1>1. NONE \notin Nested!STEPS13 \cup Nested!STEPS131
    BY InstancesAssumption DEF Nested!NestedAssumption
  <1> QED
    BY <1>1 DEF NestedInv, NestedPlace, Nested!STEPS13, Nested!STEPS131

\* A step that writes no file leaves them as they were, of the same run.
LEMMA NestedFilesKept ==
  ASSUME NestedFiles, UNCHANGED nestedFile,
         nestedPc' \notin {"corpus", "freeze", "docs", "integrity", "docs131", "integrity131"}
  PROVE  NestedFiles'
  BY DEF NestedFiles

\* Only the steps that use the folds depend on them.
LEMMA FoldsIdle ==
  ASSUME nestedPc' \notin {"ablations", "fusion", "select", "fit"}
  PROVE  FoldsFollowed'
  BY DEF FoldsFollowed

\* The folds M13 is validated with stay as they are while it is.
LEMMA FoldsUsed ==
  ASSUME Grouped(outer, Incidents, Folds), Balanced(outer), UNCHANGED outer, nestedPc' = "fusion"
  PROVE  FoldsFollowed'
  <1>1. Balanced(outer)' = Balanced(outer)
    BY DEF Balanced, Nested!FoldsOf, Nested!InFold, Nested!SameCluster
  <1>2. Grouped(outer, Incidents, Folds)'
    BY DEF Grouped, Together
  <1> QED
    BY <1>1, <1>2 DEF FoldsFollowed

\* Writing a file changes no other.
LEMMA NestedWrite ==
  ASSUME NestedFiles, NEW f \in Nested!FILES13 \cup Nested!FILES131, NEW x,
         nestedFile' = [nestedFile EXCEPT ![f] = x]
  PROVE  /\ nestedFile' = [g \in Nested!FILES13 \cup Nested!FILES131 |-> nestedFile'[g]]
         /\ nestedFile'[f] = x
         /\ \A g \in Nested!FILES13 \cup Nested!FILES131 :
              g # f => nestedFile'[g] = nestedFile[g]
  <1> DEFINE names == Nested!FILES13 \cup Nested!FILES131
  <1>1. nestedFile = [g \in names |-> nestedFile[g]]
    BY DEF NestedFiles
  <1> HIDE DEF names
  <1>2. /\ nestedFile' = [g \in names |-> nestedFile'[g]]
        /\ f \in names => nestedFile'[f] = x
        /\ \A g \in names : g # f => nestedFile'[g] = nestedFile[g]
    BY <1>1
  <1>3. QED BY <1>2 DEF names

\* A process that ends, by itself or killed, leaves nothing in memory.
LEMMA NestedEnds ==
  ASSUME NestedInv, Nested!Ended
  PROVE  NestedPlace' /\ RankingsFollowed' /\ FoldsFollowed' /\ nestedPc' = NONE
  <1>1. /\ nestedStudy' = NONE /\ nestedPc' = NONE /\ nestedExperts' = <<>>
        /\ \A i \in Incidents : prediction'[i] = NONE /\ times'[i] = 0
    BY DEF Nested!Ended, Nested!Forgotten
  <1>2. NONE \notin Nested!STEPS13 \cup Nested!STEPS131
    BY NestedAt
  <1>3. NestedPlace'
    BY <1>1 DEF NestedPlace
  <1>4. RankingsFollowed'
    BY <1>1 DEF RankingsFollowed
  <1>5. FoldsFollowed'
    BY <1>1, <1>2, FoldsIdle DEF Nested!STEPS13, Nested!STEPS131
  <1> QED
    BY <1>1, <1>3, <1>4, <1>5

\* A study starts with nothing ranked.
LEMMA NestedStartStep ==
  ASSUME NestedInv, NEW name \in {"m13", "m13.1"}, Nested!Start(name)
  PROVE  NestedInv'
  <1>1. /\ nestedStudy' = name /\ nestedPc' = name /\ nestedPc = NONE
        /\ UNCHANGED <<prediction, times, nestedExperts, nestedFile>>
    BY NestedAt DEF Nested!Start, Nested!memory
  <1>2. NestedPlace'
    BY <1>1 DEF NestedPlace, Nested!STEPS13, Nested!STEPS131
  <1>3. RankingsFollowed'
    BY <1>1 DEF NestedInv, RankingsFollowed, Apart, Nested!SameCluster
  <1>4. FoldsFollowed' /\ NestedFiles'
    BY <1>1, FoldsIdle, NestedFilesKept DEF NestedInv
  <1> QED
    BY <1>2, <1>3, <1>4 DEF NestedInv

\* A kill forgets what was learned and leaves the files.
LEMMA NestedKillStep == ASSUME NestedInv, Nested!Kill PROVE NestedInv'
  <1>1. Nested!Ended /\ UNCHANGED nestedFile
    BY DEF Nested!Kill
  <1>2. nestedPc' = NONE /\ NestedPlace' /\ RankingsFollowed' /\ FoldsFollowed'
    BY <1>1, NestedEnds
  <1>3. NestedFiles'
    BY <1>1, <1>2, NestedAt, NestedFilesKept DEF NestedInv, Nested!STEPS13, Nested!STEPS131
  <1> QED
    BY <1>2, <1>3 DEF NestedInv

\* A step that changes neither memory nor files disturbs nothing.
LEMMA NestedStays ==
  ASSUME NestedInv,
         UNCHANGED <<nestedStudy, nestedPc, todo, outer, selection, prediction, times,
                     nestedExperts, nestedFile, nestedRuns>>
  PROVE  NestedInv'
  <1>1. NestedPlace' /\ RankingsFollowed' /\ NestedFiles'
    BY DEF NestedInv, NestedPlace, RankingsFollowed, NestedFiles, Apart,
                Nested!SameCluster
  <1>2. FoldsFollowed'
    <2>1. Nested!Searched' = Nested!Searched
      BY DEF Nested!Searched, Nested!Fold, Nested!InFold
    <2>2. /\ Nested!FoldsOf(outer)' = Nested!FoldsOf(outer)
          /\ Balanced(outer)' = Balanced(outer)
      BY DEF Balanced, Nested!FoldsOf, Nested!InFold, Nested!SameCluster
    <2>3. /\ Grouped(outer, Incidents, Folds)' = Grouped(outer, Incidents, Folds)
          /\ Grouped(outer, Incidents, OuterFolds)' = Grouped(outer, Incidents, OuterFolds)
      BY DEF Grouped, Together
    <2>4. QED BY <2>1, <2>2, <2>3 DEF NestedInv, FoldsFollowed
  <1> QED
    BY <1>1, <1>2 DEF NestedInv

\* Hashing the inputs by hand disturbs nothing.
LEMMA NestedHashStep == ASSUME NestedInv, Nested!FreezeInputs PROVE NestedInv'
  <1>1. UNCHANGED <<nestedStudy, nestedPc, todo, outer, selection, prediction, times,
                    nestedExperts, nestedFile, nestedRuns>>
    BY DEF Nested!FreezeInputs, Nested!memory
  <1> QED
    BY <1>1, NestedStays

\* The folds a configuration is selected with keep repetitions together.
LEMMA SelectConfigStep == ASSUME NestedInv, Nested!SelectConfig PROVE NestedInv'
  <1>1. /\ nestedPc = "m13" /\ nestedPc' = "ablations" /\ UNCHANGED nestedStudy
        /\ UNCHANGED <<prediction, times, nestedExperts, nestedRuns>>
        /\ nestedFile' = [nestedFile EXCEPT !["baseline"] = nestedRuns]
        /\ outer' \in Nested!GroupedFolds(Incidents, Folds)
    BY DEF Nested!SelectConfig, Nested!Goto, Nested!Bounds
  <1>2. nestedStudy = "m13"
    BY <1>1, NestedAt DEF Nested!STEPS13
  <1>3. NestedPlace'
    BY <1>1, <1>2 DEF NestedPlace, Nested!STEPS13
  <1>4. RankingsFollowed'
    BY <1>1, <1>2 DEF NestedInv, RankingsFollowed, Apart, Nested!SameCluster
  <1>5. Grouped(outer', Incidents, Folds) /\ Balanced(outer')
    <2>1. Nested!NestedAssumption /\ Folds \in Nat \ {0}
      BY InstancesAssumption DEF Nested!NestedAssumption
    <2>2. QED BY <1>1, <2>1, FoldsAre
  <1>6. FoldsFollowed'
    BY <1>1, <1>5 DEF FoldsFollowed, Grouped, Together, Balanced, Nested!FoldsOf, Nested!InFold,
                      Nested!SameCluster
  <1>7. NestedFiles'
    <2>1. NestedFiles /\ "baseline" \in Nested!FILES13 \cup Nested!FILES131
      BY DEF NestedInv, Nested!FILES13
    <2>2. /\ nestedFile' = [g \in Nested!FILES13 \cup Nested!FILES131 |-> nestedFile'[g]]
          /\ \A g \in Nested!FILES13 \cup Nested!FILES131 :
               g # "baseline" => nestedFile'[g] = nestedFile[g]
      BY <1>1, <2>1, NestedWrite
    <2>3. QED BY <1>1, <2>1, <2>2 DEF NestedFiles, Nested!FILES13, Nested!FILES131
  <1> QED
    BY <1>3, <1>4, <1>6, <1>7 DEF NestedInv

\* The ablations rank every incident by what has not seen its fold.
LEMMA AblateStep == ASSUME NestedInv, Nested!Ablate PROVE NestedInv'
  <1>1. /\ nestedPc = "ablations" /\ nestedPc' = "fusion" /\ UNCHANGED nestedStudy
        /\ UNCHANGED <<outer, times, nestedExperts, nestedFile>>
        /\ prediction' = Nested!Oof(outer, selection.seen)
    BY DEF Nested!Ablate, Nested!Goto
  <1>2. nestedStudy = "m13"
    BY <1>1, NestedAt DEF Nested!STEPS13
  <1>3. Grouped(outer, Incidents, Folds) /\ Balanced(outer)
    BY <1>1 DEF NestedInv, FoldsFollowed
  <1>4. \A i \in Incidents : Apart(prediction'[i].fit, i)
    <2>1. Together(outer, Incidents)
      BY <1>3 DEF Grouped
    <2>2. OutOfFoldBy(Nested!Oof(outer, selection.seen), outer, Incidents, selection.seen)
      BY <2>1, OofApart
    <2>3. QED BY <1>1, <2>2 DEF OutOfFoldBy
  <1>5. NestedPlace'
    BY <1>1, <1>2 DEF NestedPlace, Nested!STEPS13
  <1>6. RankingsFollowed'
    <2>1. nestedPc' \notin {"m13", "m13.1", NONE, "evaluation"}
      BY <1>1, NestedAt DEF Nested!STEPS13
    <2>2. QED
      BY <1>1, <1>2, <1>4, <2>1 DEF NestedInv, RankingsFollowed, Apart, Nested!SameCluster
  <1>7. FoldsFollowed'
    BY <1>1, <1>3, FoldsUsed
  <1>8. NestedFiles'
    BY <1>1, NestedFilesKept DEF NestedInv
  <1> QED
    BY <1>5, <1>6, <1>7, <1>8 DEF NestedInv

\* The fusion of a fold is trained on the others, and its expert scores out of fold.
LEMMA FuseFoldStep == ASSUME NestedInv, Nested!FuseFold PROVE NestedInv'
  <1> DEFINE test == Nested!InFold(outer, Nested!Fold)
             train == Incidents \ test
  <1>1. /\ nestedPc = "fusion" /\ UNCHANGED <<nestedStudy, nestedPc>>
        /\ UNCHANGED <<outer, times, nestedFile>>
    BY DEF Nested!FuseFold
  <1>2. PICK assignment \in Nested!GroupedFolds(train, FusionFolds) :
          /\ nestedExperts' = Nested!ExpertScores(train, assignment, {})
          /\ prediction' = Nested!Ranked(test, Nested!Fusion(train, assignment, selection.seen))
    BY DEF Nested!FuseFold
  <1>3. nestedStudy = "m13"
    BY <1>1, NestedAt DEF Nested!STEPS13
  <1>4. Grouped(outer, Incidents, Folds) /\ Balanced(outer)
    BY <1>1 DEF NestedInv, FoldsFollowed
  <1>5. Grouped(assignment, train, FusionFolds)
    <2>1. Nested!NestedAssumption /\ FusionFolds \in Nat \ {0} /\ train \in SUBSET Incidents
      BY InstancesAssumption DEF Nested!NestedAssumption
    <2> HIDE DEF train
    <2>2. QED BY <2>1, FoldsAre
  <1>6. \A i \in DOMAIN nestedExperts' : Apart(nestedExperts'[i].fit, i)
    <2>1. Together(assignment, train) /\ train \in SUBSET Incidents
      BY <1>5 DEF Grouped
    <2> HIDE DEF train
    <2>2. OutOfFoldBy(Nested!Oof(assignment, {}), assignment, train, {})
      BY <2>1, OofApart
    <2>3. nestedExperts' = Nested!Oof(assignment, {})
      BY <1>2 DEF Nested!ExpertScores
    <2>4. QED BY <2>2, <2>3 DEF OutOfFoldBy
  <1> DEFINE m == Nested!Fusion(train, assignment, selection.seen)
  <1>7. m.fit \in SUBSET train
    <2>1. train \in SUBSET Incidents
      OBVIOUS
    <2> HIDE DEF train
    <2>2. Within(m, train, selection.seen)
      BY <1>5, <2>1, FusionSees
    <2>3. QED BY <2>2 DEF Within
  <1> HIDE DEF m
  <1>8. \A i \in test : Apart(m.fit, i)
    BY <1>4, <1>7, TestApart
  <1>9. prediction' = [i \in Incidents |-> IF i \in test THEN m ELSE prediction[i]]
    BY <1>2 DEF Nested!Ranked, m
  <1> HIDE DEF test, train
  <1>10. \A i \in Incidents : prediction'[i] # NONE => Apart(prediction'[i].fit, i)
    <2>1. \A i \in Incidents : prediction[i] # NONE => Apart(prediction[i].fit, i)
      BY <1>3 DEF NestedInv, RankingsFollowed
    <2>2. QED BY <1>8, <1>9, <2>1
  <1>11. NestedPlace'
    BY <1>1 DEF NestedInv, NestedPlace
  <1>12. RankingsFollowed'
    <2>1. nestedPc' \notin {"m13", "m13.1", NONE, "evaluation"} /\ nestedStudy' # "m13.1"
      BY <1>1, <1>3, NestedAt DEF Nested!STEPS13
    <2>2. QED BY <1>6, <1>10, <2>1 DEF RankingsFollowed, Apart, Nested!SameCluster
  <1>13. FoldsFollowed'
    BY <1>1, <1>4, FoldsUsed
  <1>14. NestedFiles'
    BY <1>1, NestedFilesKept DEF NestedInv
  <1> QED
    BY <1>11, <1>12, <1>13, <1>14 DEF NestedInv

\* The choice of an architecture ranks nothing.
LEMMA ChooseStep13 == ASSUME NestedInv, Nested!Choose PROVE NestedInv'
  <1>1. /\ nestedPc = "fusion" /\ nestedPc' = "models" /\ UNCHANGED nestedStudy
        /\ UNCHANGED <<prediction, times, nestedExperts, nestedFile>>
    BY DEF Nested!Choose, Nested!Goto
  <1>2. nestedStudy = "m13"
    BY <1>1, NestedAt DEF Nested!STEPS13
  <1>3. NestedPlace'
    BY <1>1, <1>2 DEF NestedPlace, Nested!STEPS13
  <1>4. RankingsFollowed'
    <2>1. nestedPc' \notin {"m13", "m13.1", NONE, "evaluation"}
      BY <1>1, NestedAt DEF Nested!STEPS13
    <2>2. QED BY <1>1, <1>2, <2>1 DEF NestedInv, RankingsFollowed, Apart, Nested!SameCluster
  <1>5. FoldsFollowed' /\ NestedFiles'
    BY <1>1, FoldsIdle, NestedFilesKept DEF NestedInv
  <1> QED
    BY <1>3, <1>4, <1>5 DEF NestedInv

\* The holdout of a root leaves out every repetition: they have one root.
LEMMA HoldOutStep == ASSUME NestedInv, Nested!HoldOut PROVE NestedInv'
  <1>1. /\ nestedPc = "models" /\ nestedPc' = "evaluation" /\ UNCHANGED nestedStudy
        /\ UNCHANGED <<times, nestedExperts, nestedRuns>>
        /\ nestedFile' = [nestedFile EXCEPT !["models"] = nestedRuns]
        /\ outer' = [i \in Incidents |-> Root[i]]
        /\ prediction' = Nested!Oof(outer', selection.seen)
    BY DEF Nested!HoldOut, Nested!Goto, Nested!Bounds
  <1>2. nestedStudy = "m13"
    BY <1>1, NestedAt DEF Nested!STEPS13
  <1>3. \A i \in Incidents : /\ Apart(prediction'[i].fit, i)
                             /\ \A j \in prediction'[i].fit : Root[j] # Root[i]
    <2>1. Together(outer', Incidents)
      BY <1>1, InstancesAssumption DEF Nested!NestedAssumption, Together
    <2>2. OutOfFoldBy(Nested!Oof(outer', selection.seen), outer', Incidents, selection.seen)
      BY <2>1, OofApart
    <2>3. \A i \in Incidents : /\ prediction'[i].fit \in SUBSET Incidents
                               /\ Apart(prediction'[i].fit, i)
                               /\ \A j \in prediction'[i].fit : outer'[j] # outer'[i]
      BY <1>1, <2>2 DEF OutOfFoldBy
    <2>4. QED BY <1>1, <2>3
  <1>4. NestedPlace'
    BY <1>1, <1>2 DEF NestedPlace, Nested!STEPS13
  <1>5. RankingsFollowed'
    <2>1. nestedPc' \notin {"m13", "m13.1", NONE}
      BY <1>1, NestedAt DEF Nested!STEPS13
    <2>2. QED BY <1>1, <1>2, <1>3, <2>1 DEF NestedInv, RankingsFollowed, Apart, Nested!SameCluster
  <1>6. FoldsFollowed'
    BY <1>1, FoldsIdle
  <1>7. NestedFiles'
    <2>1. NestedFiles /\ "models" \in Nested!FILES13 \cup Nested!FILES131
      BY DEF NestedInv, Nested!FILES13
    <2>2. /\ nestedFile' = [g \in Nested!FILES13 \cup Nested!FILES131 |-> nestedFile'[g]]
          /\ \A g \in Nested!FILES13 \cup Nested!FILES131 :
               g # "models" => nestedFile'[g] = nestedFile[g]
      BY <1>1, <2>1, NestedWrite
    <2>3. QED BY <1>1, <2>1, <2>2 DEF NestedFiles, Nested!FILES13, Nested!FILES131
  <1> QED
    BY <1>4, <1>5, <1>6, <1>7 DEF NestedInv

\* The hashes of a study are of the evaluation and documents its run wrote.
LEMMA NestedHashesWritten ==
  ASSUME NestedInv, nestedPc \in {"integrity", "integrity131"}, nestedPc' = NONE,
         nestedFile' = [nestedFile EXCEPT ![nestedPc] =
                          [f \in Nested!Hashed(nestedPc) |-> nestedFile[f]]]
  PROVE  NestedFiles'
  <1> DEFINE h == [f \in Nested!Hashed(nestedPc) |-> nestedFile[f]]
  <1>1. NestedFiles /\ nestedPc \in Nested!FILES13 \cup Nested!FILES131
    BY DEF NestedInv, Nested!FILES13, Nested!FILES131
  <1>2. /\ nestedPc = "integrity" => h["evaluation"] = h["docs"]
        /\ nestedPc = "integrity131" => h["evaluation131"] = h["docs131"]
    BY <1>1 DEF NestedFiles, Nested!Hashed, Nested!FILES13, Nested!FILES131
  <1> HIDE DEF h
  <1>3. /\ nestedFile' = [g \in Nested!FILES13 \cup Nested!FILES131 |-> nestedFile'[g]]
        /\ nestedFile'[nestedPc] = h
        /\ \A g \in Nested!FILES13 \cup Nested!FILES131 :
             g # nestedPc => nestedFile'[g] = nestedFile[g]
    <2>1. nestedFile' = [nestedFile EXCEPT ![nestedPc] = h]
      BY DEF h
    <2>2. QED BY <1>1, <2>1, NestedWrite
  <1>4. NONE \notin Nested!STEPS13 \cup Nested!STEPS131
    BY NestedAt
  <1>5. nestedPc' \notin {"corpus", "freeze", "docs", "integrity", "docs131", "integrity131"}
    BY <1>4 DEF Nested!STEPS13, Nested!STEPS131
  <1> QED
    BY <1>1, <1>2, <1>3, <1>5 DEF NestedFiles, Nested!FILES13, Nested!FILES131

\* The other files are of the run; the documents come after the evaluation.
LEMMA NestedFileWritten ==
  ASSUME NestedInv, UNCHANGED nestedRuns,
         nestedPc \in {"evaluation", "corpus", "freeze", "docs", "evaluation131", "docs131"},
         nestedPc' = Nested!NextOf(nestedPc),
         nestedFile' = [nestedFile EXCEPT ![nestedPc] = nestedRuns]
  PROVE  NestedFiles'
  <1>1. NestedFiles /\ nestedPc \in Nested!FILES13 \cup Nested!FILES131
    BY DEF NestedInv, Nested!FILES13, Nested!FILES131
  <1>2. /\ nestedFile' = [g \in Nested!FILES13 \cup Nested!FILES131 |-> nestedFile'[g]]
        /\ nestedFile'[nestedPc] = nestedRuns
        /\ \A g \in Nested!FILES13 \cup Nested!FILES131 :
             g # nestedPc => nestedFile'[g] = nestedFile[g]
    BY <1>1, NestedWrite
  <1>3. CASE nestedPc = "evaluation"
    BY <1>1, <1>2, <1>3 DEF NestedFiles, Nested!NextOf, Nested!FILES13, Nested!FILES131
  <1>4. CASE nestedPc = "corpus"
    BY <1>1, <1>2, <1>4 DEF NestedFiles, Nested!NextOf, Nested!FILES13, Nested!FILES131
  <1>5. CASE nestedPc = "freeze"
    BY <1>1, <1>2, <1>5 DEF NestedFiles, Nested!NextOf, Nested!FILES13, Nested!FILES131
  <1>6. CASE nestedPc = "docs"
    BY <1>1, <1>2, <1>6 DEF NestedFiles, Nested!NextOf, Nested!FILES13, Nested!FILES131
  <1>7. CASE nestedPc = "evaluation131"
    BY <1>1, <1>2, <1>7 DEF NestedFiles, Nested!NextOf, Nested!FILES13, Nested!FILES131
  <1>8. CASE nestedPc = "docs131"
    BY <1>1, <1>2, <1>8 DEF NestedFiles, Nested!NextOf, Nested!FILES13, Nested!FILES131
  <1> QED
    BY <1>3, <1>4, <1>5, <1>6, <1>7, <1>8

\* What a study writes at its end follows the order of its files.
LEMMA NestedSaveStep == ASSUME NestedInv, Nested!Save PROVE NestedInv'
  <1>1. CASE nestedPc \in {"integrity", "integrity131"}
    <2>1. /\ nestedFile' = [nestedFile EXCEPT ![nestedPc] =
                              [f \in Nested!Hashed(nestedPc) |-> nestedFile[f]]]
          /\ Nested!Ended
      BY <1>1 DEF Nested!Save
    <2>2. NestedPlace' /\ RankingsFollowed' /\ FoldsFollowed' /\ nestedPc' = NONE
      BY <2>1, NestedEnds
    <2>3. NestedFiles'
      BY <1>1, <2>1, <2>2, NestedHashesWritten
    <2> QED
      BY <2>2, <2>3 DEF NestedInv
  <1>2. CASE nestedPc \notin {"integrity", "integrity131"}
    <2>1. /\ nestedPc \in {"evaluation", "corpus", "freeze", "docs", "evaluation131", "docs131"}
          /\ nestedFile' = [nestedFile EXCEPT ![nestedPc] = nestedRuns]
          /\ nestedPc' = Nested!NextOf(nestedPc) /\ UNCHANGED <<nestedStudy, nestedRuns>>
          /\ UNCHANGED <<prediction, times, nestedExperts>>
      BY <1>2 DEF Nested!Save, Nested!Goto, Nested!Bounds, Nested!memory
    <2>2. /\ nestedPc' \in {"corpus", "freeze", "docs", "integrity", "docs131", "integrity131"}
          /\ nestedPc' \in {"docs131", "integrity131"} <=> nestedPc \in Nested!STEPS131
      BY <2>1 DEF Nested!NextOf, Nested!STEPS131
    <2>3. NestedPlace'
      BY <2>1, <2>2, NestedAt DEF NestedPlace, Nested!STEPS13, Nested!STEPS131
    <2>4. RankingsFollowed'
      <3>1. nestedPc' \notin {"m13", "m13.1", NONE, "evaluation"}
        BY <2>2, NestedAt DEF Nested!STEPS13, Nested!STEPS131
      <3>2. QED
        BY <2>1, <3>1 DEF NestedInv, RankingsFollowed, Apart, Nested!SameCluster
    <2>5. FoldsFollowed'
      BY <2>2, FoldsIdle
    <2>6. NestedFiles'
      BY <2>1, NestedFileWritten
    <2> QED
      BY <2>3, <2>4, <2>5, <2>6 DEF NestedInv
  <1> QED
    BY <1>1, <1>2

\* The outer folds keep repetitions together; none is done.
LEMMA OuterStep == ASSUME NestedInv, Nested!Outer PROVE NestedInv'
  <1>1. /\ nestedPc = "m13.1" /\ nestedPc' = "select" /\ UNCHANGED nestedStudy
        /\ UNCHANGED <<prediction, times, nestedExperts, nestedFile>>
        /\ outer' \in Nested!GroupedFolds(Incidents, OuterFolds)
        /\ todo' = Nested!FoldsOf(outer')
    BY DEF Nested!Outer, Nested!Goto
  <1>2. nestedStudy = "m13.1"
    BY <1>1, NestedAt DEF Nested!STEPS131
  <1>3. Grouped(outer', Incidents, OuterFolds) /\ Balanced(outer')
    <2>1. Nested!NestedAssumption /\ OuterFolds \in Nat \ {0}
      BY InstancesAssumption DEF Nested!NestedAssumption
    <2>2. QED BY <1>1, <2>1, FoldsAre
  <1>4. \A i \in Incidents : times'[i] = 0 /\ outer'[i] \in todo'
    <2>1. \A i \in Incidents : times[i] = 0
      BY <1>1 DEF NestedInv, RankingsFollowed
    <2>2. DOMAIN outer' = Incidents
      BY <1>3 DEF Grouped, Together
    <2>3. QED BY <1>1, <2>1, <2>2 DEF Nested!FoldsOf
  <1>5. NestedPlace'
    BY <1>1, <1>2 DEF NestedPlace, Nested!STEPS131
  <1>6. RankingsFollowed'
    <2>1. nestedPc' \notin {"m13", "m13.1", NONE, "evaluation"} /\ nestedStudy' # "m13"
      BY <1>1, <1>2, NestedAt DEF Nested!STEPS131
    <2>2. QED BY <1>1, <2>1, <1>2 DEF NestedInv, RankingsFollowed, Apart, Nested!SameCluster
  <1>7. FoldsFollowed'
    <2>1. (Grouped(outer, Incidents, OuterFolds) /\ Balanced(outer))'
      BY <1>3 DEF Grouped, Together, Balanced, Nested!FoldsOf, Nested!InFold, Nested!SameCluster
    <2>2. (todo \subseteq Nested!FoldsOf(outer))'
      BY <1>1 DEF Nested!FoldsOf
    <2>3. QED BY <1>1, <1>4, <2>1, <2>2 DEF FoldsFollowed
  <1>8. NestedFiles'
    BY <1>1, NestedFilesKept DEF NestedInv
  <1> QED
    BY <1>5, <1>6, <1>7, <1>8 DEF NestedInv

\* The expert scores of a search are out of fold, and it looks at its part alone.
LEMMA SelectInsideStep == ASSUME NestedInv, Nested!SelectInside PROVE NestedInv'
  <1>1. /\ nestedPc = "select" /\ todo # {} /\ nestedPc' = "fit" /\ UNCHANGED nestedStudy
        /\ UNCHANGED <<todo, outer, prediction, times, nestedFile>>
        /\ selection'.seen = Nested!Searched
    BY DEF Nested!SelectInside, Nested!Goto
  <1>2. nestedStudy = "m13.1"
    BY <1>1, NestedAt DEF Nested!STEPS131
  <1>3. PICK inner, f : \E assignment \in
            Nested!GroupedFolds(Nested!Searched \ Nested!InFold(inner, f), ExpertFolds) :
          nestedExperts' = Nested!ExpertScores(DOMAIN assignment, assignment, {})
    BY DEF Nested!SelectInside
  <1> DEFINE ids == Nested!Searched \ Nested!InFold(inner, f)
  <1>4. PICK assignment \in Nested!GroupedFolds(ids, ExpertFolds) :
          nestedExperts' = Nested!ExpertScores(DOMAIN assignment, assignment, {})
    BY <1>3
  <1>5. ids \in SUBSET Incidents
    BY DEF Nested!Searched
  <1> HIDE DEF ids
  <1>6. Together(assignment, ids)
    <2>1. Nested!NestedAssumption /\ ExpertFolds \in Nat \ {0}
      BY InstancesAssumption DEF Nested!NestedAssumption
    <2>2. Grouped(assignment, ids, ExpertFolds)
      BY <1>5, <2>1, FoldsAre
    <2>3. QED BY <2>2 DEF Grouped
  <1>7. \A i \in DOMAIN nestedExperts' : Apart(nestedExperts'[i].fit, i)
    <2>1. OutOfFoldBy(Nested!Oof(assignment, {}), assignment, ids, {})
      BY <1>5, <1>6, OofApart
    <2>2. nestedExperts' = Nested!Oof(assignment, {})
      BY <1>4 DEF Nested!ExpertScores
    <2>3. QED BY <2>1, <2>2 DEF OutOfFoldBy
  <1>8. NestedPlace'
    BY <1>1, <1>2 DEF NestedPlace, Nested!STEPS131
  <1>9. RankingsFollowed'
    <2>1. nestedPc' \notin {"m13", "m13.1", NONE, "evaluation"} /\ nestedStudy' # "m13"
      BY <1>1, <1>2, NestedAt DEF Nested!STEPS131
    <2>2. QED
      BY <1>1, <1>2, <1>7, <2>1 DEF NestedInv, RankingsFollowed, Apart, Nested!SameCluster
  <1>10. FoldsFollowed'
    <2>1. Nested!Searched' = Nested!Searched
      BY <1>1 DEF Nested!Searched, Nested!Fold, Nested!InFold
    <2>2. /\ Nested!FoldsOf(outer)' = Nested!FoldsOf(outer)
          /\ Balanced(outer)' = Balanced(outer)
      BY <1>1 DEF Balanced, Nested!FoldsOf, Nested!InFold, Nested!SameCluster
    <2>3. Grouped(outer, Incidents, OuterFolds)' = Grouped(outer, Incidents, OuterFolds)
      BY <1>1 DEF Grouped, Together
    <2>4. QED BY <1>1, <2>1, <2>2, <2>3 DEF NestedInv, FoldsFollowed
  <1>11. NestedFiles'
    BY <1>1, NestedFilesKept DEF NestedInv
  <1> QED
    BY <1>8, <1>9, <1>10, <1>11 DEF NestedInv

\* The next fold is one to do.
LEMMA FoldToDo ==
  ASSUME NestedInv, nestedPc \in {"select", "fit"}, todo # {}
  PROVE  Nested!Fold \in todo
  <1>1. todo \subseteq Nested!FoldsOf(outer) /\ Grouped(outer, Incidents, OuterFolds)
    BY DEF NestedInv, FoldsFollowed
  <1>2. todo \in SUBSET Nat
    <2>1. Nested!FoldsOf(outer) \in SUBSET (1..OuterFolds)
      BY <1>1 DEF Nested!FoldsOf, Grouped
    <2>2. QED BY <1>1, <2>1
  <1>3. \E f \in todo : \A g \in todo : f <= g
    BY <1>2, LeastNumber
  <1> QED
    BY <1>3 DEF Nested!Fold

\* The model of an outer fold has seen the other folds alone, and so has the choice
\* of what it is; its incidents are ranked once.
LEMMA FitOuterStep == ASSUME NestedInv, Nested!FitOuter PROVE NestedInv'
  <1> DEFINE test == Nested!InFold(outer, Nested!Fold)
             train == Incidents \ test
             fused == selection.architecture = "two_expert_fusion_top5"
  <1>1. /\ nestedPc = "fit" /\ nestedPc' = "select" /\ UNCHANGED nestedStudy
        /\ UNCHANGED <<outer, nestedFile>> /\ todo' = todo \ {Nested!Fold}
    BY DEF Nested!FitOuter, Nested!Goto
  <1>2. PICK assignment \in Nested!GroupedFolds(train, InnerFolds) :
          /\ prediction' = Nested!Ranked(test,
                             IF fused THEN Nested!Fusion(train, assignment, selection.seen)
                             ELSE Nested!Fitted(train, <<>>, selection.seen))
          /\ times' = [i \in Incidents |-> IF i \in test THEN times[i] + 1 ELSE times[i]]
          /\ nestedExperts' = IF fused THEN Nested!ExpertScores(train, assignment, {}) ELSE <<>>
    BY DEF Nested!FitOuter
  <1>3. nestedStudy = "m13.1"
    BY <1>1, NestedAt DEF Nested!STEPS131
  <1>4. /\ Grouped(outer, Incidents, OuterFolds) /\ Balanced(outer) /\ todo # {}
        /\ todo \subseteq Nested!FoldsOf(outer) /\ selection.seen = train
        /\ \A i \in Incidents : times[i] = IF outer[i] \in todo THEN 0 ELSE 1
    BY <1>1 DEF NestedInv, FoldsFollowed, Nested!Searched
  <1>5. Nested!Fold \in todo
    BY <1>1, <1>4, FoldToDo
  <1>6. \A i \in Incidents : i \in test <=> outer[i] = Nested!Fold
    BY <1>4 DEF Grouped, Together, Nested!InFold
  <1>7. \A i \in Incidents : times'[i] = IF outer[i] \in todo' THEN 0 ELSE 1
    BY <1>1, <1>2, <1>4, <1>5, <1>6
  <1>8. train \in SUBSET Incidents
    OBVIOUS
  <1>9. Grouped(assignment, train, InnerFolds)
    <2>1. Nested!NestedAssumption /\ InnerFolds \in Nat \ {0}
      BY InstancesAssumption DEF Nested!NestedAssumption
    <2> HIDE DEF train
    <2>2. QED BY <1>8, <2>1, FoldsAre
  <1> DEFINE m == IF fused THEN Nested!Fusion(train, assignment, selection.seen)
                  ELSE Nested!Fitted(train, <<>>, selection.seen)
  <1>10. prediction' = [i \in Incidents |-> IF i \in test THEN m ELSE prediction[i]]
    BY <1>2 DEF Nested!Ranked
  <1>11. m.fit \cup m.choice \in SUBSET train
    <2> HIDE DEF train, fused
    <2>1. Within(Nested!Fusion(train, assignment, selection.seen), train, selection.seen)
      BY <1>8, <1>9, FusionSees
    <2>2. Nested!Fitted(train, <<>>, selection.seen) = [fit |-> train, choice |-> selection.seen]
      BY FittedPlain
    <2>3. QED BY <1>4, <2>1, <2>2 DEF Within
  <1> HIDE DEF m
  <1>12. \A i \in test : Apart(m.fit \cup m.choice, i)
    BY <1>4, <1>11, TestApart
  <1>13. \A i \in DOMAIN nestedExperts' : Apart(nestedExperts'[i].fit, i)
    <2> HIDE DEF train, fused
    <2>1. CASE fused
      <3>1. Together(assignment, train)
        BY <1>9 DEF Grouped
      <3>2. OutOfFoldBy(Nested!Oof(assignment, {}), assignment, train, {})
        BY <1>8, <3>1, OofApart
      <3>3. nestedExperts' = Nested!Oof(assignment, {})
        BY <1>2, <2>1 DEF Nested!ExpertScores
      <3>4. QED BY <3>2, <3>3 DEF OutOfFoldBy
    <2>2. CASE ~fused
      <3>1. nestedExperts' = <<>>
        BY <1>2, <2>2
      <3>2. QED BY <3>1
    <2> QED
      BY <2>1, <2>2
  <1> HIDE DEF test, train, fused
  <1>14. \A i \in Incidents : prediction'[i] # NONE =>
           Apart(prediction'[i].fit \cup prediction'[i].choice, i)
    <2>1. \A i \in Incidents : prediction[i] # NONE =>
            Apart(prediction[i].fit \cup prediction[i].choice, i)
      BY <1>3 DEF NestedInv, RankingsFollowed
    <2>2. QED BY <1>10, <1>12, <2>1
  <1>15. NestedPlace'
    BY <1>1, <1>3 DEF NestedPlace, Nested!STEPS131
  <1>16. RankingsFollowed'
    <2>1. nestedPc' \notin {"m13", "m13.1", NONE, "evaluation"} /\ nestedStudy' # "m13"
      BY <1>1, <1>3, NestedAt DEF Nested!STEPS131
    <2>2. QED BY <1>13, <1>14, <2>1 DEF RankingsFollowed, Apart, Nested!SameCluster
  <1>17. FoldsFollowed'
    <2>1. /\ Nested!FoldsOf(outer)' = Nested!FoldsOf(outer)
          /\ Balanced(outer)' = Balanced(outer)
      BY <1>1 DEF Balanced, Nested!FoldsOf, Nested!InFold, Nested!SameCluster
    <2>2. Grouped(outer, Incidents, OuterFolds)' = Grouped(outer, Incidents, OuterFolds)
      BY <1>1 DEF Grouped, Together
    <2>3. QED BY <1>1, <1>4, <1>7, <2>1, <2>2 DEF FoldsFollowed
  <1>18. NestedFiles'
    BY <1>1, NestedFilesKept DEF NestedInv
  <1> QED
    BY <1>15, <1>16, <1>17, <1>18 DEF NestedInv

\* When every incident is ranked the study writes what it found.
LEMMA AggregateStep == ASSUME NestedInv, Nested!Aggregate PROVE NestedInv'
  <1>1. /\ nestedPc = "select" /\ nestedPc' = "evaluation131" /\ UNCHANGED nestedStudy
        /\ UNCHANGED <<prediction, times, nestedExperts, nestedFile>>
    BY DEF Nested!Aggregate, Nested!Goto, Nested!memory
  <1>2. nestedStudy = "m13.1"
    BY <1>1, NestedAt DEF Nested!STEPS131
  <1>3. NestedPlace'
    BY <1>1, <1>2 DEF NestedPlace, Nested!STEPS131
  <1>4. RankingsFollowed'
    <2>1. nestedPc' \notin {"m13", "m13.1", NONE, "evaluation"} /\ nestedStudy' # "m13"
      BY <1>1, <1>2, NestedAt DEF Nested!STEPS131
    <2>2. QED BY <1>1, <1>2, <2>1 DEF NestedInv, RankingsFollowed, Apart, Nested!SameCluster
  <1>5. FoldsFollowed' /\ NestedFiles'
    BY <1>1, FoldsIdle, NestedFilesKept DEF NestedInv
  <1> QED
    BY <1>3, <1>4, <1>5 DEF NestedInv

\* Every step keeps it, and so does a step of another part.
LEMMA NestedStep == ASSUME NestedInv, Nested!Next \/ UNCHANGED nestedVars PROVE NestedInv'
  <1>1. CASE Nested!Next
    <2>1. CASE \E name \in {"m13", "m13.1"} : Nested!Start(name)
      BY <2>1, NestedStartStep
    <2>2. CASE Nested!Kill
      BY <2>2, NestedKillStep
    <2>3. CASE Nested!FreezeInputs
      BY <2>3, NestedHashStep
    <2>4. CASE Nested!SelectConfig
      BY <2>4, SelectConfigStep
    <2>5. CASE Nested!Ablate
      BY <2>5, AblateStep
    <2>6. CASE Nested!FuseFold
      BY <2>6, FuseFoldStep
    <2>7. CASE Nested!Choose
      BY <2>7, ChooseStep13
    <2>8. CASE Nested!HoldOut
      BY <2>8, HoldOutStep
    <2>9. CASE Nested!Save
      BY <2>9, NestedSaveStep
    <2>10. CASE Nested!Outer
      BY <2>10, OuterStep
    <2>11. CASE Nested!SelectInside
      BY <2>11, SelectInsideStep
    <2>12. CASE Nested!FitOuter
      BY <2>12, FitOuterStep
    <2>13. CASE Nested!Aggregate
      BY <2>13, AggregateStep
    <2> QED
      BY <1>1, <2>1, <2>2, <2>3, <2>4, <2>5, <2>6, <2>7, <2>8, <2>9, <2>10, <2>11, <2>12,
         <2>13 DEF Nested!Next
  <1>2. CASE UNCHANGED nestedVars
    <2>1. UNCHANGED <<nestedStudy, nestedPc, todo, outer, selection, prediction, times,
                      nestedExperts, nestedFile, nestedRuns>>
      BY <1>2 DEF nestedVars
    <2>2. QED BY <2>1, NestedStays
  <1> QED
    BY <1>1, <1>2

\* What it says of rankings, folds and files is what the property says.
LEMMA NestedSound ==
  ASSUME NestedInv
  PROVE  /\ Nested!NestedUnseen /\ Nested!OutOfFold /\ Nested!FusionOutOfSample
         /\ Nested!RankedOnce /\ Nested!FoldsBalanced /\ Nested!IntegrityTells
  <1>1. Nested!NestedUnseen
    BY DEF NestedInv, RankingsFollowed, Apart, Nested!NestedUnseen
  <1>2. Nested!OutOfFold
    BY DEF NestedInv, RankingsFollowed, Apart, Nested!OutOfFold
  <1>3. Nested!FusionOutOfSample
    BY DEF NestedInv, RankingsFollowed, Apart, Nested!FusionOutOfSample
  <1>4. Nested!RankedOnce
    BY DEF NestedInv, FoldsFollowed, Nested!RankedOnce
  <1>5. Nested!FoldsBalanced
    <2>1. ASSUME nestedPc \in {"ablations", "select"}
          PROVE  \A f, g \in Nested!FoldsOf(outer) : \E i \in Incidents :
                   Nested!Cardinality(Nested!InFold(outer, f))
                     <= Nested!Cardinality(Nested!InFold(outer, g))
                          + Nested!Cardinality(Nested!SameCluster(i))
      <3>1. Balanced(outer)
        BY <2>1 DEF NestedInv, FoldsFollowed
      <3>2. QED BY <3>1, NestedCardinality DEF Balanced
    <2>2. QED BY <2>1 DEF Nested!FoldsBalanced
  <1>6. Nested!IntegrityTells
    BY DEF NestedInv, NestedFiles, Nested!IntegrityTells, Nested!Hashed, Nested!FILES13,
           Nested!FILES131
  <1> QED
    BY <1>1, <1>2, <1>3, <1>4, <1>5, <1>6

\* Whatever the incidents, their repetitions and roots, and the numbers of folds, in
\* whatever order the clusters are assigned and however often a study is killed and
\* run again: a nested ranking depends on no label of the incident's repetitions,
\* the other rankings and the scores a fusion learns from are out of fold, each
\* incident is ranked once in folds that differ by no more than a cluster, and a
\* manifest whose hashes agree tells of one run.
THEOREM RepetitionsUnseenHolds == SuiteSpec => []RepetitionsUnseen
<1>1. SuiteInit => NestedInv
  BY NestedStarts DEF SuiteInit
<1>2. NestedInv /\ [SuiteNext]_suiteVars => NestedInv'
  <2> SUFFICES ASSUME NestedInv, [SuiteNext]_suiteVars PROVE NestedInv'
    OBVIOUS
  <2>1. Nested!Next \/ UNCHANGED nestedVars
    BY Zenon DEF SuiteNext, suiteVars
  <2>2. QED BY <2>1, NestedStep
<1>3. NestedInv => RepetitionsUnseen
  BY NestedSound DEF RepetitionsUnseen
<1> QED
  BY <1>1, <1>2, <1>3, PTL DEF SuiteSpec
=============================================================================
