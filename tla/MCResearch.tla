-------------------------- MODULE MCResearch ---------------------------------
(****************************************************************************)
(* The experiments: the collection, scoring and opening of the locked       *)
(* incidents and their two predecessors, the studies that hold out a        *)
(* system, and the nested validation inside one. A behaviour is one of a    *)
(* part; the variables of the others keep initial values.                   *)
(****************************************************************************)
EXTENDS Naturals, FiniteSets

CONSTANTS NONE, s1, s2, s3, ext

\* What the nested validation is checked with, and may be anything that its module
\* assumes: incidents repeated twice, the last one once, of three roots.
CONSTANTS Incidents, Cluster, Root, Folds, OuterFolds, InnerFolds, ExpertFolds,
     FusionFolds, MaxRuns, MaxKills
RepeatedCluster == <<1, 1, 2, 2, 3, 3, 4>>
RepeatedRoot == <<1, 1, 1, 1, 2, 2, 3>>

VARIABLES part, prepared, healthy, fitted, canary, telemetry, truth, index,
     sealed, frozen, predictions, scored, evaluation, opened, ledger, cmd, pc,
     case, attempt, taken, shop, attempts, runs, kills, silent, edits,
     changed, study, holdoutPc, columns, experts, method, oof, k, ranked,
     calibrated, failed, file, reference, holdoutRuns, holdoutKills,
     nestedStudy, nestedPc, todo, outer, selection, prediction, times,
     nestedExperts, nestedFrozen, nestedFile, nestedRuns, nestedKills

-----------------------------------------------------------------------------
Collecting == INSTANCE LockedCollection WITH Study <- "m14",
     Incidents <- {1, 2}, Canaries <- {3}, Lasting <- {1, 3},
     MaxAttempts <- 2, MaxHealthy <- 1, MaxRuns <- 5, MaxKills <- 1,
     MaxSilent <- 1, MaxEdits <- 0, MaxTries <- 3
Scoring == INSTANCE LockedCollection WITH Study <- "m14", Incidents <- {1},
     Canaries <- {3}, Lasting <- {1}, MaxAttempts <- 2, MaxHealthy <- 2,
     MaxRuns <- 8, MaxKills <- 1, MaxSilent <- 0, MaxEdits <- 1, MaxTries <- 2
Collecting13 == INSTANCE LockedCollection WITH Study <- "m13",
     Incidents <- {1, 2}, Canaries <- {3}, Lasting <- {1, 3},
     MaxAttempts <- 2, MaxHealthy <- 1, MaxRuns <- 5, MaxKills <- 1,
     MaxSilent <- 1, MaxEdits <- 0, MaxTries <- 3
Collecting12 == INSTANCE LockedCollection WITH Study <- "m12",
     Incidents <- {1, 2}, Canaries <- {3}, Lasting <- {1, 3},
     MaxAttempts <- 1, MaxHealthy <- 1, MaxRuns <- 6, MaxKills <- 1,
     MaxSilent <- 1, MaxEdits <- 0, MaxTries <- 1
Holdout == INSTANCE SystemHoldout WITH pc <- holdoutPc, runs <- holdoutRuns,
     kills <- holdoutKills, Systems <- {s1, s2, s3}, EXTERNAL <- ext,
     Ks <- {3, 5}, MaxRuns <- 5, MaxKills <- 1
Nested == INSTANCE NestedValidation WITH study <- nestedStudy, pc <- nestedPc,
     experts <- nestedExperts, frozen <- nestedFrozen, file <- nestedFile,
     runs <- nestedRuns, kills <- nestedKills
ASSUME InstancesAssumption ==
    /\ Collecting!LockedAssumption /\ Scoring!LockedAssumption
    /\ Collecting13!LockedAssumption /\ Collecting12!LockedAssumption
    /\ Holdout!HoldoutAssumption /\ Nested!NestedAssumption

-----------------------------------------------------------------------------
collectingVars == <<prepared, healthy, fitted, canary, telemetry, truth,
     index, sealed, frozen, predictions, scored, evaluation, opened, ledger,
     cmd, pc, case, attempt, taken, shop, attempts, runs, kills, silent,
     edits, changed>>
holdoutVars == <<study, holdoutPc, columns, experts, method, oof, k, ranked,
     calibrated, failed, file, reference, holdoutRuns, holdoutKills>>
nestedVars == <<nestedStudy, nestedPc, todo, outer, selection, prediction,
     times, nestedExperts, nestedFrozen, nestedFile, nestedRuns, nestedKills>>

Parts == {"collecting", "scoring", "collecting13", "collecting12", "holdout",
     "nested"}
SuiteInit ==
    /\ part \in Parts
    /\ IF part = "scoring" THEN Scoring!Init
       ELSE IF part = "collecting13" THEN Collecting13!Init
       ELSE IF part = "collecting12" THEN Collecting12!Init
       ELSE Collecting!Init
    /\ Holdout!Init
    /\ Nested!Init

SuiteNext ==
    /\ UNCHANGED part
    /\ \/ part = "collecting" /\ Collecting!Next
       \/ part = "scoring" /\ Scoring!Next
       \/ part = "collecting13" /\ Collecting13!Next
       \/ part = "collecting12" /\ Collecting12!Next
       \/ part = "holdout" /\ Holdout!Next
       \/ part = "nested" /\ Nested!Next
    /\ IF part \in {"collecting", "scoring", "collecting13", "collecting12"} THEN TRUE ELSE UNCHANGED collectingVars
    /\ IF part = "holdout" THEN TRUE ELSE UNCHANGED holdoutVars
    /\ IF part = "nested" THEN TRUE ELSE UNCHANGED nestedVars

suiteVars == <<part, collectingVars, holdoutVars, nestedVars>>
SuiteSpec ==
    /\ SuiteInit /\ [][SuiteNext]_suiteVars

-----------------------------------------------------------------------------
(* Properties *)

\* However the commands of the locked experiment are killed, interrupted and
\* resumed, and whatever file is edited between them: an incident that counts is
\* not replaced, and was collected under its own fault alone unless the
\* collector was killed or a reset failed unheard; what M14 freezes is the whole
\* plan, and its one result is of the frozen incidents and their frozen truth;
\* and where a collection starts again or its files may be written again after
\* the freeze, no incident is judged by the truth of another capture of it.
LockedOnce ==
    /\ part = "collecting" =>
         /\ Collecting!IndexedOnce
         /\ Collecting!OneFaultAtATime
         /\ Collecting!FrozenWhole
         /\ Collecting!EvaluatedAsFrozen
         /\ Collecting!OpenedOnce
    /\ part = "scoring" =>
         /\ Scoring!IndexedOnce
         /\ Scoring!OneFaultAtATime
         /\ Scoring!FrozenWhole
         /\ Scoring!EvaluatedAsFrozen
         /\ Scoring!OpenedOnce
    /\ part = "collecting13" =>
         /\ Collecting13!IndexedOnce
         /\ Collecting13!OneFaultAtATime
         /\ Collecting13!FrozenWhole
         /\ Collecting13!EvaluatedAsFrozen
         /\ Collecting13!OpenedOnce
    /\ part = "collecting12" =>
         /\ Collecting12!IndexedOnce
         /\ Collecting12!OneFaultAtATime
         /\ Collecting12!FrozenWhole
         /\ Collecting12!EvaluatedAsFrozen
         /\ Collecting12!OpenedOnce

\* No external ranking depends on an external label, no calibration incident is
\* ranked by what has seen one, and no score of a system comes from a model
\* fitted to it, whatever files of earlier runs a study was given; external
\* incidents are ranked by what the freeze on disk says; and files whose hashes
\* agree are of one run.
HoldoutUnseen ==
    part = "holdout" =>
        /\ Holdout!ExternalUnseen
        /\ Holdout!CalibrationUnseen
        /\ Holdout!ScoresHeldOut
        /\ Holdout!FrozenBeforeHistorical
        /\ Holdout!IntegrityTells
        /\ Holdout!OneRunAccepted

\* The nested ranking of an incident depends on no label of its repetitions,
\* through no model, score or choice; the other rankings and the scores a fusion
\* learns from are not fitted to them; each incident is ranked once, in folds
\* that differ by no more than a cluster, whatever order the clusters come in;
\* and a manifest whose hashes agree tells of one run.
RepetitionsUnseen ==
    part = "nested" =>
        /\ Nested!NestedUnseen
        /\ Nested!OutOfFold
        /\ Nested!FusionOutOfSample
        /\ Nested!RankedOnce
        /\ Nested!FoldsBalanced
        /\ Nested!IntegrityTells
=============================================================================
