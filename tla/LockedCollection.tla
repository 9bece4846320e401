---------------------------- MODULE LockedCollection ----------------------------
(***************************************************************************)
(* The experiments on running shops.  scripts/m14/run.py collects          *)
(* incidents by injecting faults, resumes where it was stopped and freezes *)
(* what it collected; m14_evaluate.py ranks the frozen incidents once and  *)
(* opens their truth once.  Its predecessors collect the same way: M13's   *)
(* corpus resumes too and is the development data of m13_experiment.py,    *)
(* M12's starts from its first incident again, is frozen by                *)
(* scripts/m12/freeze.py and ranked and opened by m12_evaluate.py.  Every  *)
(* command is a process that may fail, be interrupted or be killed between *)
(* any two of its steps; files stay.  Somebody may edit a file while no    *)
(* command runs.                                                           *)
(***************************************************************************)
EXTENDS Naturals, FiniteSets, WellFoundedInduction, TLAPS

CONSTANTS
    Study,          \* "m12", "m13" or "m14"
    Incidents,      \* positions 1..n of the plan, in its order
    Canaries,       \* positions of the rehearsal, numbers after those of the plan
    Lasting,        \* those whose fault stays until it is taken back
    MaxAttempts,    \* captures of an incident until one is valid
    MaxHealthy, MaxRuns, MaxKills, MaxSilent, MaxEdits, MaxTries,  \* bounds
    NONE


VARIABLES
    prepared,       \* those of readiness.json and incident-plan.json that exist
    healthy,        \* healthy/baseline.json: number of the measurement, 0 for none
    fitted,         \* the two fitted files: measurements they are of
    canary,         \* validity.json: NONE, or whether every fault took
    telemetry,      \* incident -> NONE or [run, attempt, alone, valid]: its file
    truth, index,   \* the progress files (lists of the process in M12): incident ->
                    \* NONE or what the line says
    sealed,         \* the final truth and index, each NONE or as the progress files
    frozen,         \* freeze-manifest.json: NONE or what its hashes are of
    predictions, scored, evaluation, opened,  \* scoring and opening, with their markers
    ledger,         \* M12's data-ledger.json: whether the role is USED_TEST
    cmd, pc, case, attempt,                   \* the process that runs
    taken,          \* incident captured by it
    shop,           \* faults active in the shop
    attempts,       \* attempts/: number of files of each incident
    runs, kills, silent, edits,               \* bounds
    changed         \* history: files edited since they were hashed

measured == <<prepared, healthy, fitted, canary>>
collected == <<telemetry, truth, index, sealed, attempts>>
results == <<frozen, predictions, scored, evaluation, opened, ledger>>
process == <<cmd, pc, case, attempt, taken>>
bounds == <<runs, kills, silent, edits>>
vars == <<measured, collected, results, process, shop, bounds, changed>>

\* An incident that was collected, a file of them, and a result.
Capture == [run : Nat, attempt : Nat, alone : BOOLEAN, valid : BOOLEAN]
Lines == [Incidents -> Capture \cup {NONE}]
FILES == {"code", "healthy", "telemetry", "index", "truth", "predictions"}
Result == [of : Lines, truth : Lines, changed : SUBSET FILES, number : Nat]
STEPS == {"healthy", "fit", "fit legacy", "inject", "observe", "reset", "judge", "rehearsed",
          "keep", "truth", "index", "seal", "seal index", "freeze", "score", "scored", "open",
          "truth read", "ledger", "opened"}

\* Only what M14 hashes is edited.
LockedAssumption ==
    /\ Incidents # {} /\ Incidents \cap Canaries = {}
    /\ Incidents \cup Canaries \subseteq Nat /\ MaxAttempts > 0
    /\ Study \in {"m12", "m13", "m14"} /\ (Study = "m12" => MaxAttempts = 1)
    /\ Study # "m14" => MaxEdits = 0
    /\ NONE \notin STEPS \cup {"canary", "corpus"} /\ NONE \notin Capture
    /\ NONE \notin Result
    /\ MaxEdits \in Nat

\* "corpus" is M12's run-locked; "open" its evaluate and, of M13, the study.
COMMANDS == {"healthy", "canary", "corpus", "open"}
            \cup (IF Study = "m13" THEN {} ELSE {"freeze"})
            \cup (IF Study = "m14" THEN {"score"} ELSE {})
Resumes == Study # "m12"
Nothing == [i \in Incidents |-> NONE]
Done(progress) == {i \in Incidents : progress[i] # NONE}
First(S) == CHOOSE i \in S : \A j \in S : i <= j
Part(lines, n) == [i \in Incidents |-> IF i <= n THEN lines[i] ELSE NONE]

Goto(step) == pc' = step /\ UNCHANGED <<cmd, case, attempt, taken>>
\* The process ends, in whatever way: what it had in memory is gone.
Ended == cmd' = NONE /\ pc' = NONE /\ case' = NONE /\ attempt' = 0 /\ taken' = NONE

-----------------------------------------------------------------------------
(* Commands start *)

\* guard_sealed_collection; M12 only refuses to freeze twice and to open again.
Guarded(c) ==
    CASE Study = "m14" -> c \notin {"score", "open"} => frozen = NONE /\ ~scored /\ ~opened
      [] Study = "m12" -> /\ c = "freeze" => frozen = NONE
                          /\ c = "open" => frozen # NONE /\ ~opened
      [] OTHER         -> TRUE

\* ready and plan: what they write does not depend on when they run.
Prepare ==
    /\ cmd = NONE /\ Guarded("plan")
    /\ \E f \in {"ready", "plan"} \ prepared : prepared' = prepared \cup {f}
    /\ UNCHANGED <<healthy, fitted, canary, collected, results, process, shop, bounds, changed>>

\* Mutant: the two progress files are not compared.
ResumableAnyway == TRUE

\* What a command requires of the files before its first step.
Resumable == Done(truth) = Done(index)
Ready(c) ==
    \/ c = "healthy" /\ healthy < MaxHealthy
    \/ c = "canary" /\ healthy > 0
    \/ /\ c = "corpus" /\ healthy > 0
       /\ Resumes => canary = TRUE /\ Resumable
       /\ Study = "m14" => "plan" \in prepared
    \/ c \in {"freeze", "score", "open"}

\* The first position of S after i, or where the command goes when there is none.
Turn(S, end) ==
    IF S = {} THEN case' = NONE /\ pc' = end ELSE case' = First(S) /\ pc' = "inject"
Start(c) ==
    /\ cmd = NONE /\ Guarded(c) /\ Ready(c)
    /\ runs < MaxRuns /\ runs' = runs + 1
    /\ cmd' = c /\ attempt' = 1 /\ taken' = NONE
    /\ CASE c = "canary" -> Turn(Canaries, "rehearsed")
         [] c = "corpus" -> Turn(IF Resumes THEN Incidents \ Done(truth) ELSE Incidents, "seal")
         [] OTHER        -> case' = NONE /\ pc' = c
    /\ IF c = "corpus" /\ ~Resumes THEN truth' = Nothing /\ index' = Nothing
       ELSE UNCHANGED <<truth, index>>
    /\ prepared' = IF c = "corpus" THEN prepared \cup {"plan"} ELSE prepared
    /\ UNCHANGED <<healthy, fitted, canary, telemetry, sealed, attempts, results, shop, kills,
                   silent, edits, changed>>

-----------------------------------------------------------------------------
(* healthy: the measurement is written, then (M14) what is fitted to it *)

Healthy ==
    /\ \/ /\ pc = "healthy" /\ healthy' = healthy + 1 /\ UNCHANGED fitted
          /\ IF Study = "m14" THEN Goto("fit") ELSE Ended
       \/ /\ pc = "fit" /\ fitted' = [fitted EXCEPT !.target = healthy]
          /\ UNCHANGED healthy /\ Goto("fit legacy")
       \/ /\ pc = "fit legacy" /\ fitted' = [fitted EXCEPT !.legacy = healthy]
          /\ UNCHANGED healthy /\ Ended
    /\ changed' = changed \ {"healthy"}
    /\ UNCHANGED <<prepared, canary, collected, results, shop, bounds>>

-----------------------------------------------------------------------------
(* capture_case *)

Capturing == cmd \in {"canary", "corpus"}
Quiet == UNCHANGED <<measured, collected, results, changed>>

Inject ==
    /\ Capturing /\ pc = "inject"
    /\ shop' = shop \cup {case} /\ Goto("observe")
    /\ Quiet /\ UNCHANGED bounds

\* The mechanism is looked at and the incident lasts; the fault taken is the only one.
Observe ==
    /\ Capturing /\ pc = "observe"
    /\ taken' = [run |-> runs, attempt |-> attempt, alone |-> shop = {case}, valid |-> FALSE]
    /\ pc' = "reset" /\ UNCHANGED <<cmd, case, attempt>>
    /\ Quiet /\ UNCHANGED <<shop, bounds>>

\* finally: a fault that lasts is taken back (check=False: nobody hears of a
\* failure), the others end by themselves within the cooldown.
Taken(S) == \/ S' = S \ {case} /\ UNCHANGED silent
            \/ case \in Lasting /\ silent < MaxSilent /\ silent' = silent + 1 /\ UNCHANGED S
Reset ==
    /\ Capturing /\ pc = "reset"
    /\ Taken(shop) /\ Goto("judge")
    /\ Quiet /\ UNCHANGED <<runs, kills, edits>>

\* An exception or an interrupt: the finally clause runs once the fault was
\* injected, the command ends.  M12 has no such clause: the fault stays.
Left == silent < MaxSilent /\ silent' = silent + 1 /\ UNCHANGED shop
FaultTakenBack == IF Study = "m12" THEN Left ELSE Taken(shop)
Raise ==
    /\ cmd # NONE /\ Ended
    /\ IF Capturing /\ pc \in {"observe", "reset"} THEN FaultTakenBack ELSE UNCHANGED <<shop, silent>>
    /\ Quiet /\ UNCHANGED <<runs, kills, edits>>

-----------------------------------------------------------------------------
(* canary and corpus *)

\* valid_injection decides without any ranking; M14 keeps every measured attempt.
\* A second attempt follows an invalid one, and then the command fails; M12 writes
\* an invalid incident's file before it fails.
Judge ==
    /\ Capturing /\ pc = "judge"
    /\ \E valid \in BOOLEAN :
         IF cmd = "canary"
         THEN /\ Turn({j \in Canaries : j > case}, "rehearsed")
              /\ taken' = [taken EXCEPT !.valid = valid]
              /\ canary' = IF valid THEN canary ELSE FALSE
              /\ UNCHANGED <<cmd, attempt, attempts>>
         ELSE /\ UNCHANGED canary
              /\ IF Study # "m14" THEN UNCHANGED attempts
                 ELSE attempts[case] < MaxTries /\ attempts' = [attempts EXCEPT ![case] = @ + 1]
              /\ \/ /\ (valid \/ ~Resumes) /\ taken' = [taken EXCEPT !.valid = valid] /\ pc' = "keep"
                    /\ UNCHANGED <<cmd, case, attempt>>
                 \/ /\ ~valid /\ attempt < MaxAttempts
                    /\ attempt' = attempt + 1 /\ taken' = NONE /\ pc' = "inject"
                    /\ UNCHANGED <<cmd, case>>
                 \/ ~valid /\ Resumes /\ attempt = MaxAttempts /\ Ended
    /\ UNCHANGED <<prepared, healthy, fitted, telemetry, truth, index, sealed, results, shop, bounds, changed>>

\* validity.json is written whatever it says; the gate is the corpus's, or M12's freeze.
Rehearsed ==
    /\ pc = "rehearsed" /\ canary' = (canary # FALSE) /\ Ended
    /\ UNCHANGED <<prepared, healthy, fitted, collected, results, shop, bounds, changed>>

\* The incident's file, then its line in each of the progress files, which are
\* written as a whole; then the next one.
Keep ==
    /\ pc = "keep" /\ telemetry' = [telemetry EXCEPT ![case] = taken] /\ Goto("truth")
    /\ UNCHANGED <<measured, truth, index, sealed, attempts, results, shop, bounds, changed>>
WriteTruth ==
    /\ pc = "truth" /\ truth' = [truth EXCEPT ![case] = taken] /\ Goto("index")
    /\ UNCHANGED <<measured, telemetry, index, sealed, attempts, results, shop, bounds, changed>>
WriteIndex ==
    /\ pc = "index" /\ index' = [index EXCEPT ![case] = telemetry[case]]
    /\ IF taken.valid
       THEN /\ Turn({j \in Incidents : j > case} \ Done(truth), "seal")
            /\ attempt' = 1 /\ taken' = NONE /\ UNCHANGED cmd
       ELSE Ended
    /\ UNCHANGED <<measured, telemetry, truth, sealed, attempts, results, shop, bounds, changed>>
Seal ==
    /\ \/ /\ pc = "seal" /\ sealed' = [sealed EXCEPT !.truth = truth] /\ Goto("seal index")
          /\ changed' = changed \ {"truth"}
       \/ /\ pc = "seal index" /\ sealed' = [sealed EXCEPT !.index = index] /\ Ended
          /\ changed' = changed \ {"index"}
    /\ UNCHANGED <<measured, telemetry, truth, index, attempts, results, shop, bounds>>

\* The process is killed: no finally clause; a file of lines that was being
\* written holds a part of them, or is of no use.
Kill ==
    /\ cmd # NONE /\ kills < MaxKills /\ kills' = kills + 1 /\ Ended
    /\ \/ UNCHANGED <<truth, index, sealed>>
       \/ \E n \in 0..Cardinality(Incidents) :
            \/ /\ pc = "truth" /\ Resumes /\ UNCHANGED <<index, sealed>>
               /\ truth' = Part(truth, n)
            \/ /\ pc = "index" /\ Resumes /\ UNCHANGED <<truth, sealed>>
               /\ index' = Part(index, n)
            \/ /\ pc = "seal" /\ UNCHANGED <<truth, index>>
               /\ sealed' = [sealed EXCEPT !.truth = Part(truth, n)]
            \/ /\ pc = "seal index" /\ UNCHANGED <<truth, index>>
               /\ sealed' = [sealed EXCEPT !.index = Part(index, n)]
    /\ UNCHANGED <<measured, telemetry, attempts, results, shop, runs, silent, edits, changed>>

\* What was left behind and does not last is over.
Passes ==
    /\ cmd = NONE /\ ~(shop \subseteq Lasting) /\ shop' = shop \cap Lasting
    /\ Quiet /\ UNCHANGED <<process, bounds>>

-----------------------------------------------------------------------------
(* freeze, score, open *)

\* The hashes the index holds are those of the files, and what was fitted is
\* what the measurement gives.
Exist == sealed.truth # NONE /\ sealed.index # NONE
Complete ==
    /\ prepared = {"ready", "plan"}
    /\ Done(sealed.truth) = Incidents /\ Done(sealed.index) = Incidents
    /\ \A i \in Incidents : sealed.truth[i].valid
    /\ sealed.index = telemetry /\ "telemetry" \notin changed
    /\ fitted.target = healthy /\ fitted.legacy = healthy /\ "healthy" \notin changed
\* scripts/m12/freeze.py: every file exists, the rehearsal took, the index has
\* its number of lines.
Complete12 == "plan" \in prepared /\ canary = TRUE /\ Done(sealed.index) = Incidents
Freeze ==
    /\ pc = "freeze" /\ Exist /\ (IF Study = "m12" THEN Complete12 ELSE Complete) /\ Ended
    /\ frozen' = [truth |-> sealed.truth, telemetry |-> sealed.index, healthy |-> healthy,
                  fitted |-> fitted]
    /\ changed' = {}  \* edits before the freeze are frozen with the rest
    /\ UNCHANGED <<measured, collected, predictions, scored, evaluation, opened, ledger, shop, bounds>>

\* _verify_freeze
Verified == frozen # NONE /\ changed \cap {"code", "healthy", "telemetry", "index"} = {}

\* The predictions are written, then the marker; an earlier scoring forbids both.
Score ==
    /\ \/ /\ pc = "score" /\ Verified /\ predictions = NONE /\ ~scored
          /\ predictions' = telemetry /\ UNCHANGED scored /\ Goto("scored")
          /\ changed' = changed \ {"predictions"}
       \/ /\ pc = "scored" /\ scored' = TRUE /\ UNCHANGED <<predictions, changed>> /\ Ended
    /\ UNCHANGED <<measured, collected, frozen, evaluation, opened, ledger, shop, bounds>>

\* The truth is read: the predictions and the truth must be those hashed.
TruthAsSealed == "truth" \notin changed
Unopened == ~opened /\ evaluation = NONE
Evaluated(of) == [of |-> of, truth |-> sealed.truth, changed |-> changed,
                  number |-> IF evaluation = NONE THEN 1 ELSE evaluation.number + 1]
Open ==
    /\ Study = "m14"
    /\ \/ /\ pc = "open" /\ Verified /\ Unopened
          /\ scored /\ "predictions" \notin changed /\ TruthAsSealed
          /\ evaluation' = Evaluated(predictions)
          /\ UNCHANGED opened /\ Goto("opened")
       \/ pc = "opened" /\ opened' = TRUE /\ UNCHANGED evaluation /\ Ended
    /\ UNCHANGED <<measured, collected, frozen, predictions, scored, ledger, shop, bounds, changed>>

\* The telemetry is what the index, which is not hashed itself, holds the hashes of;
\* truth and index name the same incidents.
AsIndexed == \A i \in Done(sealed.index) : sealed.index[i] = telemetry[i]
SameIncidents == Done(sealed.truth) = Done(sealed.index)

\* What M12's truth says: its lines hold the plan and what the injection looked
\* like, neither a time nor a hash, so those of two collections may be the same.
Reads(lines) == [i \in Incidents |-> IF lines[i] = NONE THEN NONE ELSE lines[i].valid]

\* evaluate: the predictions are written before the truth is read; the result is
\* written before the ledger, which refuses a second time, and the marker.
Evaluate12 ==
    /\ Study = "m12"
    /\ \/ /\ pc = "open" /\ Exist /\ AsIndexed /\ predictions' = sealed.index
          /\ UNCHANGED <<evaluation, ledger, opened>> /\ Goto("truth read")
       \/ /\ pc = "truth read" /\ Reads(sealed.truth) = Reads(frozen.truth)
          /\ SameIncidents /\ Done(sealed.truth) # {}
          /\ evaluation' = Evaluated(predictions)
          /\ UNCHANGED <<predictions, ledger, opened>> /\ Goto("ledger")
       \/ /\ pc = "ledger" /\ ~ledger /\ ledger' = TRUE
          /\ UNCHANGED <<predictions, evaluation, opened>> /\ Goto("opened")
       \/ /\ pc = "opened" /\ opened' = TRUE
          /\ UNCHANGED <<predictions, evaluation, ledger>> /\ Ended
    /\ UNCHANGED <<measured, collected, frozen, scored, shop, bounds, changed>>

\* m13_experiment.py may read its corpus as often as it likes.
Study13 ==
    /\ Study = "m13" /\ pc = "open" /\ healthy > 0 /\ Exist /\ AsIndexed /\ SameIncidents
    /\ evaluation' = [Evaluated(sealed.index) EXCEPT !.number = 1] /\ Ended
    /\ UNCHANGED <<measured, collected, frozen, predictions, scored, opened, ledger, shop, bounds,
                   changed>>

\* Somebody edits a file between two commands.
Edit ==
    /\ cmd = NONE /\ edits < MaxEdits /\ edits' = edits + 1
    /\ \E f \in FILES : changed' = changed \cup {f}
    /\ UNCHANGED <<measured, collected, results, process, shop, runs, kills, silent>>

-----------------------------------------------------------------------------

Init ==
    /\ prepared = {} /\ healthy = 0 /\ fitted = [target |-> 0, legacy |-> 0] /\ canary = NONE
    /\ telemetry = Nothing /\ truth = Nothing /\ index = Nothing
    /\ sealed = [truth |-> NONE, index |-> NONE] /\ frozen = NONE /\ predictions = NONE /\ scored = FALSE
    /\ evaluation = NONE /\ opened = FALSE /\ ledger = FALSE
    /\ cmd = NONE /\ pc = NONE /\ case = NONE /\ attempt = 0 /\ taken = NONE
    /\ shop = {} /\ attempts = [i \in Incidents |-> 0]
    /\ runs = 0 /\ kills = 0 /\ silent = 0 /\ edits = 0 /\ changed = {}

Next ==
    \/ Prepare \/ \E c \in COMMANDS : Start(c)
    \/ Healthy \/ Inject \/ Observe \/ Reset \/ Raise \/ Judge \/ Rehearsed
    \/ Keep \/ WriteTruth \/ WriteIndex \/ Seal \/ Kill \/ Passes
    \/ Freeze \/ Score \/ Open \/ Evaluate12 \/ Study13 \/ Edit
Spec == Init /\ [][Next]_vars

-----------------------------------------------------------------------------
(* Properties *)

\* Whatever was killed, while the collection can go on the two progress files and
\* the incident's file tell of the same attempt: one that counts is not replaced.
IndexedOnce ==
    Done(truth) = Done(index) =>
        \A i \in Done(index) : index[i] = telemetry[i] /\ truth[i] = telemetry[i]

\* An incident that counts was collected under its own fault alone, unless the
\* collector was killed with a fault active, taking one back failed unheard, or
\* (M12) an exception left it.
OneFaultAtATime ==
    kills = 0 /\ silent = 0 => \A i \in Incidents : truth[i] # NONE => truth[i].alone

\* What M14 freezes is the whole plan, each incident injected validly, and the
\* expectations are those of the measurement that is frozen with them.
FrozenWhole ==
    Study = "m14" /\ frozen # NONE =>
        /\ \A i \in Incidents : frozen.truth[i] # NONE /\ frozen.truth[i].valid
        /\ frozen.telemetry = [i \in Incidents |-> frozen.truth[i]]
        /\ frozen.fitted = [target |-> frozen.healthy, legacy |-> frozen.healthy]

\* M14's result is of the frozen incidents and their frozen truth, however the
\* files were edited between the commands; and in every study, also where the
\* incidents were collected again after the freeze (M12), an incident's ranking
\* is judged by the truth written for the same capture of it.
EvaluatedAsFrozen ==
    evaluation # NONE =>
        /\ Study = "m14" => evaluation.of = frozen.telemetry /\ evaluation.truth = frozen.truth
        /\ evaluation.of = evaluation.truth
        /\ evaluation.changed = {}

\* M14's truth is opened once: also after a process was killed between the result
\* and its marker there is no second result.  M12's may be opened again until its
\* marker is written: every time what the truth says is as frozen.
OpenedOnce ==
    /\ Study = "m14" /\ evaluation # NONE => evaluation.number = 1
    /\ opened => evaluation # NONE

-----------------------------------------------------------------------------
(* Proofs *)

COLLECTING == {"inject", "observe", "reset", "judge", "keep", "truth", "index"}
ProcessFollowed ==
    /\ \/ cmd = NONE /\ pc = NONE
       \/ cmd = "healthy" /\ pc \in {"healthy", "fit", "fit legacy"}
       \/ cmd = "canary" /\ pc \in {"inject", "observe", "reset", "judge", "rehearsed"}
       \/ cmd = "corpus" /\ pc \in COLLECTING \cup {"seal", "seal index"}
       \/ cmd = "freeze" /\ pc = "freeze"
       \/ cmd = "score" /\ pc \in {"score", "scored"}
       \/ cmd = "open" /\ pc \in {"open", "opened"}
       \/ Study = "m12" /\ cmd = "open" /\ pc \in {"truth read", "ledger"}
    /\ attempt \in Nat
FileTypes ==
    /\ telemetry \in Lines /\ truth \in Lines /\ index \in Lines
    /\ sealed = [truth |-> sealed.truth, index |-> sealed.index]
    /\ fitted = [target |-> fitted.target, legacy |-> fitted.legacy]
    /\ sealed.truth \in Lines \cup {NONE} /\ sealed.index \in Lines \cup {NONE}
    /\ evaluation \in Result \cup {NONE}
    /\ changed \subseteq FILES /\ (MaxEdits = 0 => changed = {})
    /\ runs \in Nat /\ kills \in Nat /\ silent \in Nat /\ edits \in Nat

\* A line of the process's run: of the incident's file.
AsKept(lines) == \A i \in Incidents : lines[i] \in {NONE, telemetry[i]}
\* A sealed line: of the incident's file, or of one that a later run replaced.
AsKeptOnce(lines) ==
    \A i \in Incidents : lines[i] # NONE =>
        telemetry[i] # NONE /\ (lines[i] = telemetry[i] \/ lines[i].run < telemetry[i].run)
FilesFollowed ==
    /\ \A i \in Incidents : telemetry[i] # NONE => telemetry[i].run <= runs
    /\ AsKept(truth) /\ AsKept(index)
    /\ sealed.truth # NONE => AsKeptOnce(sealed.truth)
    /\ sealed.index # NONE => AsKeptOnce(sealed.index)
    /\ Exist => \A i \in Done(sealed.truth) \cap Done(sealed.index) :
                    sealed.index[i].run <= sealed.truth[i].run
CollectionFollowed ==
    cmd = "corpus" =>
        /\ pc \in COLLECTING =>
             /\ case \in Incidents /\ index[case] = NONE
             /\ \A j \in Incidents : truth[j] = NONE /\ telemetry[j] # NONE =>
                    telemetry[j].run < runs \/ (pc = "truth" /\ j = case)
        /\ pc \in COLLECTING \ {"index"} => truth[case] = NONE
        /\ pc \in {"reset", "judge", "keep", "truth", "index"} =>
             taken \in Capture /\ taken.run = runs
        /\ pc = "truth" => telemetry[case] = taken
        /\ pc = "index" => telemetry[case] = taken /\ truth[case] = taken
        /\ \A i \in Incidents : (truth[i] = NONE <=> index[i] = NONE) \/ (pc = "index" /\ i = case)
        /\ pc = "seal index" => sealed.truth = truth
\* As long as nothing was killed and no fault left unheard.
FaultsFollowed ==
    kills = 0 /\ silent = 0 =>
        /\ \A i \in Incidents : truth[i] # NONE => truth[i].alone
        /\ shop = IF Capturing /\ pc \in {"observe", "reset"} THEN {case} ELSE {}
        /\ cmd = "corpus" /\ pc \in {"reset", "judge", "keep", "truth"} => taken.alone
FreezeFollowed ==
    Study = "m14" =>
        /\ frozen # NONE =>
             /\ cmd \notin {"healthy", "canary", "corpus", "freeze"}
             /\ frozen.telemetry \in Lines /\ frozen.truth \in Lines
             /\ sealed.truth = frozen.truth /\ sealed.index = frozen.telemetry
             /\ telemetry = frozen.telemetry
        /\ scored \/ pc = "scored" => frozen # NONE /\ predictions = frozen.telemetry
        /\ evaluation # NONE =>
             /\ frozen # NONE /\ evaluation.number = 1
             /\ evaluation.of = frozen.telemetry /\ evaluation.truth = frozen.truth
OpeningFollowed ==
    /\ Study = "m12" /\ pc = "truth read" =>
         predictions = sealed.index /\ Exist /\ AsIndexed
    /\ evaluation # NONE => evaluation.of = evaluation.truth /\ evaluation.changed = {}
    /\ opened \/ pc \in {"ledger", "opened"} => evaluation # NONE

LockedInv ==
    /\ ProcessFollowed /\ FileTypes
    /\ FilesFollowed /\ CollectionFollowed
    /\ FaultsFollowed
    /\ FreezeFollowed /\ FrozenWhole /\ OpeningFollowed

\* A set of numbers has a least.
LEMMA LeastNumber ==
    ASSUME NEW T \in SUBSET Nat, T # {}
    PROVE  \E i \in T : \A j \in T : i <= j
<1>1. IsWellFoundedOn(OpToRel(<, Nat), Nat)
  BY NatLessThanWellFounded
<1>2. PICK i \in T : \A j \in T : <<j, i>> \notin OpToRel(<, Nat)
  BY <1>1, WFMin
<1>3. \A j \in T : ~(j < i)
  BY <1>2 DEF OpToRel
<1>4. \A j \in T : i \in Nat /\ j \in Nat
  OBVIOUS
<1> QED
  BY <1>3, <1>4

\* The first of some positions is one of them.
LEMMA FirstIn ==
    ASSUME LockedAssumption, NEW S \in SUBSET (Incidents \cup Canaries), S # {}
    PROVE  First(S) \in S
<1>1. S \in SUBSET Nat
  BY DEF LockedAssumption
<1> QED
  BY <1>1, LeastNumber DEF First

\* No name of a step is NONE.
LEMMA NoneIsNoStep ==
    ASSUME LockedAssumption
    PROVE  NONE \notin STEPS \cup COMMANDS \cup {"canary", "corpus", "freeze", "score", "open"}
BY DEF LockedAssumption, STEPS, COMMANDS

\* The invariant holds of the first state.
LEMMA LockedInit == LockedAssumption /\ Init => LockedInv
<1> SUFFICES ASSUME LockedAssumption, Init PROVE LockedInv
  OBVIOUS
<1> USE DEF Init
<1>1. Nothing \in Lines /\ \A i \in Incidents : Nothing[i] = NONE
  BY DEF Nothing, Lines
<1>2. ProcessFollowed
  BY DEF ProcessFollowed
<1>3. FileTypes
  BY <1>1 DEF FileTypes
<1>4. FilesFollowed
  BY <1>1 DEF FilesFollowed, AsKept, AsKeptOnce, Exist
<1>5. CollectionFollowed /\ FaultsFollowed
  BY <1>1, NoneIsNoStep DEF CollectionFollowed, FaultsFollowed, Capturing
<1>6. FreezeFollowed /\ FrozenWhole
  BY NoneIsNoStep DEF FreezeFollowed, FrozenWhole, STEPS
<1>7. OpeningFollowed
  BY NoneIsNoStep DEF OpeningFollowed, STEPS
<1> QED
  BY <1>2, <1>3, <1>4, <1>5, <1>6, <1>7 DEF LockedInv

\* What a step that writes no file of the collection keeps of them.
LEMMA FilesKept ==
    ASSUME FilesFollowed, UNCHANGED <<telemetry, truth, index, sealed, runs>>
    PROVE  FilesFollowed'
BY DEF FilesFollowed, AsKept, AsKeptOnce, Exist, Done

\* What a step keeps that freezes, scores and opens nothing.
LEMMA FreezeKept ==
    ASSUME FreezeFollowed, FrozenWhole,
           UNCHANGED <<frozen, predictions, scored, evaluation, telemetry, sealed>>,
           cmd' \in {NONE, cmd}, LockedAssumption,
           pc' # "scored"
    PROVE  FreezeFollowed' /\ FrozenWhole'
BY NoneIsNoStep DEF FreezeFollowed, FrozenWhole, STEPS

\* What a step keeps that opens nothing.
LEMMA OpeningKept ==
    ASSUME OpeningFollowed, UNCHANGED <<evaluation, opened>>,
           pc' \notin {"truth read", "ledger", "opened"}
    PROVE  OpeningFollowed'
BY DEF OpeningFollowed

\* The counters are numbers.
LEMMA Counters ==
    ASSUME LockedInv
    PROVE  runs \in Nat /\ kills \in Nat /\ silent \in Nat /\ edits \in Nat /\ attempt \in Nat
BY DEF LockedInv, FileTypes, ProcessFollowed

\* A step that changes nothing the invariant speaks of.
LEMMA SameState ==
    ASSUME LockedInv, UNCHANGED <<fitted, telemetry, truth, index, sealed, results, process, shop,
                                  bounds, changed>>
    PROVE  LockedInv'
<1> USE DEF LockedInv, results, process, bounds
<1>1. ProcessFollowed'
  BY DEF ProcessFollowed
<1>2. FileTypes'
  BY DEF FileTypes
<1>3. FilesFollowed'
  BY DEF FilesFollowed, AsKept, AsKeptOnce, Exist, Done
<1>4. CollectionFollowed'
  BY DEF CollectionFollowed
<1>5. FaultsFollowed'
  BY DEF FaultsFollowed, Capturing
<1>6. FreezeFollowed' /\ FrozenWhole'
  BY DEF FreezeFollowed, FrozenWhole
<1>7. OpeningFollowed'
  BY DEF OpeningFollowed, Exist, AsIndexed, Done
<1> QED
  BY <1>1, <1>2, <1>3, <1>4, <1>5, <1>6, <1>7

\* Between two commands: a fault that does not last is over, or a file is edited.
LEMMA StepIdle ==
    ASSUME LockedAssumption, LockedInv, Passes \/ Edit
    PROVE  LockedInv'
<1> USE DEF LockedInv
<1>1. /\ cmd = NONE /\ UNCHANGED <<fitted, collected, results, process, runs, kills, silent>>
      /\ changed' \subseteq FILES /\ edits' \in Nat /\ (MaxEdits = 0 => changed' = {})
      /\ \/ UNCHANGED shop
         \/ shop' = shop \cap Lasting
  BY DEF Passes, Edit, Quiet, measured, bounds, FileTypes, LockedAssumption
<1> USE DEF results, process, collected
<1>2. ProcessFollowed'
  BY <1>1 DEF ProcessFollowed
<1>3. FileTypes'
  BY <1>1 DEF FileTypes
<1>4. FilesFollowed'
  BY <1>1, FilesKept
<1>5. CollectionFollowed'
  BY <1>1 DEF CollectionFollowed
<1>6. FaultsFollowed'
  BY <1>1, NoneIsNoStep DEF FaultsFollowed, Capturing, COMMANDS
<1>7. FreezeFollowed' /\ FrozenWhole'
  BY <1>1 DEF FreezeFollowed, FrozenWhole
<1>8. OpeningFollowed'
  BY <1>1, NoneIsNoStep DEF OpeningFollowed, Exist, AsIndexed, Done
<1> QED
  BY <1>2, <1>3, <1>4, <1>5, <1>6, <1>7, <1>8

\* A command starts.
LEMMA StepStart ==
    ASSUME LockedAssumption, LockedInv, NEW c \in COMMANDS, Start(c)
    PROVE  LockedInv'
<1> USE DEF LockedInv
<1>1. /\ cmd = NONE /\ pc = NONE /\ Guarded(c) /\ Ready(c) /\ cmd' = c /\ attempt' = 1
      /\ runs' = runs + 1 /\ UNCHANGED <<fitted, telemetry, sealed, results, shop, kills, silent,
                                         edits, changed>>
      /\ runs \in Nat /\ runs' \in Nat /\ runs <= runs'
  <2>1. cmd = NONE /\ pc = NONE
    BY NoneIsNoStep DEF Start, ProcessFollowed, COMMANDS
  <2>2. /\ Guarded(c) /\ Ready(c) /\ cmd' = c /\ attempt' = 1 /\ runs' = runs + 1
        /\ UNCHANGED <<fitted, telemetry, sealed, results, shop, kills, silent, edits, changed>>
    <3>1. UNCHANGED fitted
      BY DEF Start
    <3> QED
      BY <3>1 DEF Start
  <2>3. runs \in Nat
    BY DEF FileTypes
  <2> QED
    BY <2>1, <2>2, <2>3
<1>2. /\ c \notin {"canary", "corpus"} => pc' = c
      /\ c = "canary" => pc' \in {"inject", "rehearsed"}
      /\ c = "corpus" => \/ pc' = "seal"
                         \/ pc' = "inject" /\ case' \in Incidents /\ truth'[case'] = NONE
  <2>1. CASE c = "canary"
    BY <2>1 DEF Start, Turn
  <2>2. CASE c = "corpus" /\ Resumes
    <3>1. Turn(Incidents \ Done(truth), "seal") /\ truth' = truth
      BY <2>2 DEF Start
    <3>2. Incidents \ Done(truth) # {} => First(Incidents \ Done(truth)) \in Incidents \ Done(truth)
      BY FirstIn
    <3>3. \A i \in Incidents \ Done(truth) : truth[i] = NONE
      BY DEF Done
    <3> QED
      BY <2>2, <3>1, <3>2, <3>3 DEF Turn
  <2>3. CASE c = "corpus" /\ ~Resumes
    <3>1. Turn(Incidents, "seal") /\ truth' = Nothing
      BY <2>3 DEF Start
    <3>2. Incidents # {} => First(Incidents) \in Incidents
      BY FirstIn
    <3> QED
      BY <2>3, <3>1, <3>2 DEF Turn, Nothing
  <2> QED
    BY <2>1, <2>2, <2>3 DEF Start
<1>3. \/ truth' = truth /\ index' = index
      \/ truth' = Nothing /\ index' = Nothing
  BY DEF Start
<1>4. Nothing \in Lines /\ \A i \in Incidents : Nothing[i] = NONE
  BY DEF Nothing, Lines
<1>5. c = "corpus" => \A i \in Incidents : truth'[i] = NONE <=> index'[i] = NONE
  <2>1. c = "corpus" /\ Resumes => Done(truth) = Done(index) /\ truth' = truth /\ index' = index
    BY <1>1 DEF Start, Ready, Resumable
  <2>2. c = "corpus" /\ ~Resumes => truth' = Nothing /\ index' = Nothing
    BY DEF Start
  <2> QED
    BY <2>1, <2>2, <1>4 DEF Done
<1> USE DEF results
<1>6. ProcessFollowed'
  BY <1>1, <1>2 DEF ProcessFollowed, COMMANDS, COLLECTING
<1>7. FileTypes'
  BY <1>1, <1>3, <1>4 DEF FileTypes
<1>8. \A j \in Incidents : telemetry[j] # NONE => telemetry[j].run < runs'
  BY <1>1 DEF FilesFollowed, FileTypes, Lines, Capture
<1>9. FilesFollowed'
  <2>1. (\A i \in Incidents : telemetry[i] # NONE => telemetry[i].run <= runs)'
    BY <1>1, <1>8 DEF FileTypes, Lines, Capture
  <2>2. AsKept(truth)' /\ AsKept(index)'
    BY <1>1, <1>3, <1>4 DEF FilesFollowed, AsKept
  <2> QED
    BY <1>1, <2>1, <2>2 DEF FilesFollowed, AsKeptOnce, Exist, Done
<1>10. CollectionFollowed'
  <2> SUFFICES ASSUME c = "corpus" PROVE CollectionFollowed'
    BY <1>1 DEF CollectionFollowed
  <2>1. pc' \in {"inject", "seal"}
    BY <1>2
  <2>2. pc' = "inject" => case' \in Incidents /\ index'[case'] = NONE /\ truth'[case'] = NONE
    BY <1>2, <1>5
  <2> QED
    BY <1>1, <1>5, <1>8, <2>1, <2>2 DEF CollectionFollowed, COLLECTING
<1>11. FaultsFollowed'
  <2>1. pc' \notin {"observe", "reset", "judge", "keep", "truth"}
    BY <1>2 DEF COMMANDS
  <2>2. ~Capturing
    BY <1>1, NoneIsNoStep DEF Capturing
  <2> QED
    BY <1>1, <1>3, <1>4, <2>1, <2>2 DEF FaultsFollowed
<1>12. FreezeFollowed' /\ FrozenWhole'
  <2>1. Study = "m14" /\ frozen # NONE => c \in {"score", "open"}
    BY <1>1 DEF Guarded
  <2>2. pc' # "scored"
    BY <1>2 DEF COMMANDS
  <2> QED
    BY <1>1, <2>1, <2>2 DEF FreezeFollowed, FrozenWhole
<1>13. OpeningFollowed'
  <2>1. pc' \notin {"truth read", "ledger", "opened"}
    BY <1>2 DEF COMMANDS
  <2> QED
    BY <1>1, <2>1, OpeningKept
<1> QED
  BY <1>6, <1>7, <1>9, <1>10, <1>11, <1>12, <1>13

\* A process that leaves the files of the collection as they are goes on.
LEMMA GoesOn ==
    ASSUME LockedAssumption, LockedInv, ProcessFollowed', CollectionFollowed', FaultsFollowed',
           UNCHANGED <<telemetry, truth, index, sealed, results, runs, kills, edits>>,
           fitted' = [target |-> fitted'.target, legacy |-> fitted'.legacy],
           changed' \subseteq changed, silent' \in Nat,
           cmd' \in {NONE, cmd}, pc' \notin {"scored", "truth read", "ledger", "opened"}
    PROVE  LockedInv'
<1> USE DEF LockedInv, results
<1>1. FileTypes'
  BY DEF FileTypes
<1>2. FilesFollowed'
  BY FilesKept
<1>3. FreezeFollowed' /\ FrozenWhole'
  BY FreezeKept
<1>4. OpeningFollowed'
  BY OpeningKept
<1> QED
  BY <1>1, <1>2, <1>3, <1>4

\* A process that leaves the files of the collection as they are ends.
LEMMA Ends ==
    ASSUME LockedAssumption, LockedInv, Ended,
           UNCHANGED <<telemetry, truth, index, sealed, results, runs, kills, edits>>,
           fitted' = [target |-> fitted'.target, legacy |-> fitted'.legacy],
           changed' \subseteq changed, silent' \in Nat,
           silent' = 0 /\ kills = 0 => silent = 0 /\ shop' = {}
    PROVE  LockedInv'
<1>1. cmd' = NONE /\ pc' = NONE /\ attempt' = 0
  BY DEF Ended
<1>2. ProcessFollowed'
  BY <1>1 DEF ProcessFollowed
<1>3. CollectionFollowed'
  BY <1>1, NoneIsNoStep DEF CollectionFollowed
<1>4. FaultsFollowed'
  BY <1>1, NoneIsNoStep DEF LockedInv, FaultsFollowed, Capturing
<1>5. pc' \notin {"scored", "truth read", "ledger", "opened"}
  BY <1>1, NoneIsNoStep DEF STEPS
<1> QED
  BY <1>1, <1>2, <1>3, <1>4, <1>5, GoesOn

\* The healthy traffic is measured, and what is fitted to it.
LEMMA StepHealthy ==
    ASSUME LockedAssumption, LockedInv, Healthy
    PROVE  LockedInv'
<1>1. /\ cmd = "healthy" /\ pc \in {"healthy", "fit", "fit legacy"}
      /\ UNCHANGED <<telemetry, truth, index, sealed, results, runs, kills, silent, edits, shop>>
      /\ fitted' = [target |-> fitted'.target, legacy |-> fitted'.legacy]
      /\ changed' \subseteq changed /\ silent' \in Nat
  <2>1. pc \in {"healthy", "fit", "fit legacy"}
    BY DEF Healthy
  <2>2. cmd = "healthy"
    BY <2>1, NoneIsNoStep DEF LockedInv, ProcessFollowed, COLLECTING, STEPS
  <2>3. fitted' = [target |-> fitted'.target, legacy |-> fitted'.legacy]
    BY DEF Healthy, LockedInv, FileTypes
  <2> QED
    BY <2>1, <2>2, <2>3 DEF Healthy, collected, bounds, LockedInv, FileTypes
<1>2. ~Capturing /\ ~Capturing' /\ cmd' # "corpus"
  BY <1>1, NoneIsNoStep DEF Healthy, Goto, Ended, Capturing
<1>3. kills = 0 /\ silent = 0 => shop = {}
  BY <1>2 DEF LockedInv, FaultsFollowed
<1>4. CASE Ended
  BY <1>1, <1>3, <1>4, Ends
<1>5. CASE Goto("fit") \/ Goto("fit legacy")
  <2>1. cmd' = cmd /\ pc' \in {"fit", "fit legacy"} /\ attempt' = attempt
    BY <1>5 DEF Goto
  <2>2. ProcessFollowed'
    BY <1>1, <2>1 DEF LockedInv, ProcessFollowed
  <2>3. CollectionFollowed'
    BY <1>2 DEF CollectionFollowed
  <2>4. FaultsFollowed'
    BY <1>1, <1>2, <1>3 DEF LockedInv, FaultsFollowed
  <2> QED
    BY <1>1, <2>1, <2>2, <2>3, <2>4, GoesOn
<1> QED
  BY <1>4, <1>5 DEF Healthy

\* What a step of a capture and one that ends it find, and do not change.
LEMMA CaptureStep ==
    ASSUME LockedAssumption, LockedInv,
           \/ Inject \/ Observe \/ Reset \/ Raise \/ Judge
    PROVE  /\ UNCHANGED <<telemetry, truth, index, sealed, results, runs, kills, edits, fitted, changed>>
           /\ fitted' = [target |-> fitted'.target, legacy |-> fitted'.legacy]
           /\ silent \in Nat /\ silent' \in Nat
<1>1. silent \in Nat
  BY DEF LockedInv, FileTypes
<1>2. UNCHANGED <<telemetry, truth, index, sealed, results, runs, kills, edits, fitted, changed>>
  <2>1. CASE Inject \/ Observe
    BY <2>1 DEF Inject, Observe, Quiet, measured, collected, bounds
  <2>2. CASE Reset \/ Raise
    BY <2>2 DEF Reset, Raise, Quiet, measured, collected
  <2>3. CASE Judge
    BY <2>3 DEF Judge, bounds
  <2> QED
    BY <2>1, <2>2, <2>3
<1>3. silent' \in Nat
  <2>1. CASE Inject \/ Observe \/ Judge
    BY <1>1, <2>1 DEF Inject, Observe, Judge, bounds
  <2>2. CASE Reset \/ Raise
    BY <1>1, <2>2 DEF Reset, Raise, FaultTakenBack, Taken, Left
  <2> QED
    BY <2>1, <2>2
<1> QED
  BY <1>1, <1>2, <1>3 DEF LockedInv, FileTypes

\* A fault is injected, looked at, and taken back.
LEMMA StepCapture ==
    ASSUME LockedAssumption, LockedInv, Inject \/ Observe \/ Reset
    PROVE  LockedInv'
<1>1. /\ Capturing /\ cmd' = cmd /\ attempt' = attempt /\ case' = case
      /\ \/ /\ pc = "inject" /\ pc' = "observe" /\ shop' = shop \cup {case}
            /\ UNCHANGED <<taken, silent>>
         \/ /\ pc = "observe" /\ pc' = "reset" /\ UNCHANGED <<shop, silent>>
            /\ taken' = [run |-> runs, attempt |-> attempt, alone |-> shop = {case}, valid |-> FALSE]
         \/ pc = "reset" /\ pc' = "judge" /\ Taken(shop) /\ taken' = taken
  BY DEF Inject, Observe, Reset, Goto, bounds
<1>2. /\ UNCHANGED <<telemetry, truth, index, sealed, results, runs, kills, edits, fitted, changed>>
      /\ fitted' = [target |-> fitted'.target, legacy |-> fitted'.legacy]
      /\ silent \in Nat /\ silent' \in Nat
  BY CaptureStep
<1>3. pc \in {"inject", "observe", "reset"} /\ pc' \in {"observe", "reset", "judge"}
  BY <1>1
<1>4. ProcessFollowed'
  BY <1>1, <1>3 DEF Capturing, LockedInv, ProcessFollowed, COLLECTING
<1>5. CollectionFollowed'
  <2> SUFFICES ASSUME cmd = "corpus" PROVE CollectionFollowed'
    BY <1>1 DEF CollectionFollowed
  <2>1. runs \in Nat /\ attempt \in Nat
    BY Counters
  <2>2. pc = "observe" => taken' \in Capture /\ taken'.run = runs
    <3> DEFINE taking(a) == [run |-> runs, attempt |-> attempt, alone |-> a, valid |-> FALSE]
    <3>1. \A a \in BOOLEAN : taking(a) \in Capture /\ taking(a).run = runs
      BY <2>1 DEF Capture
    <3>2. pc = "observe" => taken' = taking(shop = {case})
      BY <1>1
    <3>3. (shop = {case}) \in BOOLEAN
      OBVIOUS
    <3> HIDE DEF taking
    <3> QED
      BY <3>1, <3>2, <3>3
  <2>3. pc = "reset" => taken' = taken /\ taken \in Capture /\ taken.run = runs
    BY <1>1 DEF LockedInv, CollectionFollowed
  <2>4. pc' \in {"reset", "judge"} => taken' \in Capture /\ taken'.run = runs
    BY <1>1, <2>2, <2>3
  <2>5. /\ case \in Incidents /\ index[case] = NONE /\ truth[case] = NONE
        /\ \A j \in Incidents : truth[j] = NONE /\ telemetry[j] # NONE => telemetry[j].run < runs
        /\ \A i \in Incidents : truth[i] = NONE <=> index[i] = NONE
    BY <1>3 DEF LockedInv, CollectionFollowed, COLLECTING
  <2> QED
    BY <1>1, <1>2, <1>3, <2>4, <2>5 DEF CollectionFollowed
<1>6. FaultsFollowed'
  <2> SUFFICES ASSUME kills = 0, silent' = 0
               PROVE  /\ \A i \in Incidents : truth[i] # NONE => truth[i].alone
                      /\ shop' = IF pc' \in {"observe", "reset"} THEN {case} ELSE {}
                      /\ cmd = "corpus" /\ pc' \in {"reset", "judge"} => taken'.alone
    BY <1>1, <1>2, <1>3 DEF FaultsFollowed, Capturing
  <2>1. silent = 0 /\ (pc = "reset" => shop' = shop \ {case})
    BY <1>1, <1>2 DEF Taken
  <2>2. /\ \A i \in Incidents : truth[i] # NONE => truth[i].alone
        /\ shop = IF pc \in {"observe", "reset"} THEN {case} ELSE {}
        /\ cmd = "corpus" /\ pc = "reset" => taken.alone
    BY <1>1, <2>1 DEF LockedInv, FaultsFollowed
  <2>3. shop' = IF pc' \in {"observe", "reset"} THEN {case} ELSE {}
    <3>1. CASE pc = "inject"
      BY <1>1, <2>2, <3>1
    <3>2. CASE pc = "observe"
      BY <1>1, <2>2, <3>2
    <3>3. CASE pc = "reset"
      BY <1>1, <2>1, <2>2, <3>3
    <3> QED
      BY <1>3, <3>1, <3>2, <3>3
  <2>4. cmd = "corpus" /\ pc' \in {"reset", "judge"} => taken'.alone
    <3>1. pc = "observe" => taken'.alone = (shop = {case}) /\ shop = {case}
      BY <1>1, <2>2
    <3>2. pc = "reset" /\ cmd = "corpus" => taken' = taken /\ taken.alone
      BY <1>1, <2>2
    <3> QED
      BY <1>1, <3>1, <3>2
  <2> QED
    BY <2>2, <2>3, <2>4
<1> QED
  BY <1>1, <1>2, <1>3, <1>4, <1>5, <1>6, GoesOn

\* A command fails or is interrupted.
LEMMA StepRaise ==
    ASSUME LockedAssumption, LockedInv, Raise
    PROVE  LockedInv'
<1>1. /\ UNCHANGED <<telemetry, truth, index, sealed, results, runs, kills, edits, fitted, changed>>
      /\ fitted' = [target |-> fitted'.target, legacy |-> fitted'.legacy]
      /\ silent \in Nat /\ silent' \in Nat
  BY CaptureStep
<1>2. silent' = 0 /\ kills = 0 => silent = 0 /\ shop' = {}
  <2> SUFFICES ASSUME silent' = 0, kills = 0 PROVE silent = 0 /\ shop' = {}
    OBVIOUS
  <2>1. IF Capturing /\ pc \in {"observe", "reset"} THEN FaultTakenBack ELSE UNCHANGED <<shop, silent>>
    BY DEF Raise
  <2>2. silent = 0
    BY <1>1, <2>1 DEF FaultTakenBack, Taken, Left
  <2>3. shop = IF Capturing /\ pc \in {"observe", "reset"} THEN {case} ELSE {}
    BY <2>2 DEF LockedInv, FaultsFollowed
  <2> QED
    BY <1>1, <2>1, <2>2, <2>3 DEF FaultTakenBack, Taken, Left
<1> QED
  BY <1>1, <1>2, Ends DEF Raise

\* The rehearsal is over.
LEMMA StepRehearsed ==
    ASSUME LockedAssumption, LockedInv, Rehearsed
    PROVE  LockedInv'
<1>1. /\ UNCHANGED <<telemetry, truth, index, sealed, results, runs, kills, silent, edits, fitted,
                     changed, shop>>
      /\ fitted' = [target |-> fitted'.target, legacy |-> fitted'.legacy]
      /\ silent \in Nat /\ Ended /\ pc = "rehearsed"
  BY DEF Rehearsed, collected, bounds, LockedInv, FileTypes
<1>2. kills = 0 /\ silent = 0 => shop = {}
  BY <1>1 DEF LockedInv, FaultsFollowed
<1> QED
  BY <1>1, <1>2, Ends

\* A capture is judged: the next one of the rehearsal follows, the incident is
\* kept, captured again, or the command fails.
LEMMA StepJudge ==
    ASSUME LockedAssumption, LockedInv, Judge
    PROVE  LockedInv'
<1>1. /\ UNCHANGED <<telemetry, truth, index, sealed, results, runs, kills, edits, fitted, changed>>
      /\ fitted' = [target |-> fitted'.target, legacy |-> fitted'.legacy]
      /\ silent \in Nat /\ silent' \in Nat
  BY CaptureStep
<1>2. Capturing /\ pc = "judge" /\ UNCHANGED <<shop, silent>>
  BY DEF Judge, bounds
<1>3. kills = 0 /\ silent = 0 => shop = {}
  BY <1>2 DEF LockedInv, FaultsFollowed
<1>4. \/ cmd = "canary" /\ cmd' = cmd /\ pc' \in {"inject", "rehearsed"} /\ attempt' = attempt
      \/ /\ cmd = "corpus" /\ cmd' = cmd /\ case' = case
         /\ \/ pc' = "keep" /\ attempt' = attempt /\ \E valid \in BOOLEAN : taken' = [taken EXCEPT !.valid = valid]
            \/ pc' = "inject" /\ attempt' = attempt + 1
      \/ Ended
  BY <1>2 DEF Judge, Turn, Capturing
<1>5. CASE Ended
  BY <1>1, <1>2, <1>3, <1>5, Ends
<1>6. CASE cmd = "canary" /\ cmd' = cmd /\ pc' \in {"inject", "rehearsed"} /\ attempt' = attempt
  <2>1. ProcessFollowed'
    BY <1>6 DEF LockedInv, ProcessFollowed
  <2>2. CollectionFollowed'
    BY <1>6 DEF CollectionFollowed
  <2>3. FaultsFollowed'
    BY <1>1, <1>2, <1>3, <1>6 DEF LockedInv, FaultsFollowed
  <2> QED
    BY <1>1, <1>6, <2>1, <2>2, <2>3, GoesOn
<1>7. CASE /\ cmd = "corpus" /\ cmd' = cmd /\ case' = case
           /\ \/ pc' = "keep" /\ attempt' = attempt /\ \E valid \in BOOLEAN : taken' = [taken EXCEPT !.valid = valid]
              \/ pc' = "inject" /\ attempt' = attempt + 1
  <2>1. ProcessFollowed'
    <3>1. attempt' \in Nat
      BY <1>7, Counters
    <3> QED
      BY <1>7, <3>1 DEF ProcessFollowed, COLLECTING
  <2>2. taken \in Capture /\ taken.run = runs /\ (kills = 0 /\ silent = 0 => taken.alone)
    BY <1>2, <1>7 DEF LockedInv, CollectionFollowed, FaultsFollowed
  <2>3. pc' = "keep" => taken' \in Capture /\ taken'.run = runs /\ taken'.alone = taken.alone
    BY <1>7, <2>2 DEF Capture
  <2>4. CollectionFollowed'
    <3>1. /\ case \in Incidents /\ index[case] = NONE /\ truth[case] = NONE
          /\ \A j \in Incidents : truth[j] = NONE /\ telemetry[j] # NONE => telemetry[j].run < runs
          /\ \A i \in Incidents : truth[i] = NONE <=> index[i] = NONE
      BY <1>2, <1>7 DEF LockedInv, CollectionFollowed, COLLECTING
    <3> QED
      BY <1>1, <1>7, <2>3, <3>1 DEF CollectionFollowed
  <2>5. FaultsFollowed'
    BY <1>1, <1>2, <1>3, <1>7, <2>2, <2>3 DEF LockedInv, FaultsFollowed, Capturing
  <2> QED
    BY <1>1, <1>7, <2>1, <2>4, <2>5, GoesOn
<1> QED
  BY <1>4, <1>5, <1>6, <1>7

\* While M14 collects, nothing is frozen and nothing scored or opened; so a step of
\* the collection is one that keeps what was written of it.
LEMMA CorpusStep ==
    ASSUME LockedAssumption, LockedInv, cmd = "corpus", UNCHANGED results,
           cmd' \in {NONE, cmd}, pc' \in COLLECTING \cup {"seal", "seal index", NONE},
           ProcessFollowed', FileTypes', FilesFollowed', CollectionFollowed', FaultsFollowed'
    PROVE  LockedInv'
<1>1. pc' \notin {"scored", "truth read", "ledger", "opened"}
  BY NoneIsNoStep DEF STEPS, COLLECTING
<1>2. Study = "m14" => frozen = NONE /\ ~scored /\ evaluation = NONE
  BY DEF LockedInv, FreezeFollowed
<1>3. FreezeFollowed' /\ FrozenWhole'
  BY <1>1, <1>2 DEF FreezeFollowed, FrozenWhole, results
<1>4. OpeningFollowed'
  BY <1>1, OpeningKept DEF LockedInv, results
<1> QED
  BY <1>3, <1>4 DEF LockedInv

\* The lines of the files.
LEMMA LinesAre ==
    ASSUME LockedInv, NEW i \in Incidents
    PROVE  /\ telemetry[i] # NONE => telemetry[i] \in Capture /\ telemetry[i].run \in Nat
           /\ truth[i] # NONE => truth[i] \in Capture
           /\ sealed.truth # NONE /\ sealed.truth[i] # NONE =>
                sealed.truth[i] \in Capture /\ sealed.truth[i].run \in Nat
           /\ sealed.index # NONE /\ sealed.index[i] # NONE =>
                sealed.index[i] \in Capture /\ sealed.index[i].run \in Nat
<1>1. \A lines \in Lines : lines[i] # NONE => lines[i] \in Capture /\ lines[i].run \in Nat
  BY DEF Lines, Capture
<1>2. /\ telemetry \in Lines /\ truth \in Lines
      /\ sealed.truth # NONE => sealed.truth \in Lines
      /\ sealed.index # NONE => sealed.index \in Lines
  BY DEF LockedInv, FileTypes
<1> QED
  BY <1>1, <1>2

\* An incident's file is written.
LEMMA StepKeep ==
    ASSUME LockedAssumption, LockedInv, Keep
    PROVE  LockedInv'
<1>1. /\ cmd = "corpus" /\ pc = "keep" /\ telemetry' = [telemetry EXCEPT ![case] = taken]
      /\ pc' = "truth" /\ UNCHANGED <<cmd, case, attempt, taken>>
      /\ UNCHANGED <<fitted, truth, index, sealed, results, shop, runs, kills, silent, edits, changed>>
  <2>1. pc = "keep"
    BY DEF Keep
  <2>2. cmd = "corpus"
    BY <2>1, NoneIsNoStep DEF LockedInv, ProcessFollowed, STEPS
  <2> QED
    BY <2>1, <2>2 DEF Keep, Goto, measured, bounds
<1>2. /\ case \in Incidents /\ truth[case] = NONE /\ index[case] = NONE
      /\ taken \in Capture /\ taken.run = runs
      /\ \A j \in Incidents : truth[j] = NONE /\ telemetry[j] # NONE => telemetry[j].run < runs
      /\ \A i \in Incidents : truth[i] = NONE <=> index[i] = NONE
  BY <1>1 DEF LockedInv, CollectionFollowed, COLLECTING
<1>3. /\ telemetry \in Lines /\ telemetry' \in Lines /\ telemetry'[case] = taken
      /\ \A j \in Incidents \ {case} : telemetry'[j] = telemetry[j]
  <2>1. telemetry \in Lines
    BY DEF LockedInv, FileTypes
  <2> QED
    BY <1>1, <1>2, <2>1 DEF Lines
<1>4. ProcessFollowed'
  BY <1>1 DEF LockedInv, ProcessFollowed, COLLECTING
<1>5. FileTypes'
  BY <1>1, <1>3 DEF LockedInv, FileTypes, results
<1>6. FilesFollowed'
  <2>1. runs \in Nat /\ taken # NONE
    BY <1>2, Counters DEF LockedAssumption
  <2>2. \A i \in Incidents : telemetry'[i] # NONE => telemetry'[i].run <= runs'
    BY <1>1, <1>2, <1>3, <2>1 DEF LockedInv, FilesFollowed
  <2>3. AsKept(truth)' /\ AsKept(index)'
    BY <1>1, <1>2, <1>3 DEF LockedInv, FilesFollowed, AsKept
  <2>4. ASSUME NEW lines, AsKeptOnce(lines), lines[case] # NONE => lines[case].run \in Nat
        PROVE  \A i \in Incidents : lines[i] # NONE =>
                 telemetry'[i] # NONE /\ (lines[i] = telemetry'[i] \/ lines[i].run < telemetry'[i].run)
    <3>1. lines[case] # NONE => lines[case].run < taken.run
      <4> SUFFICES ASSUME lines[case] # NONE PROVE lines[case].run < taken.run
        OBVIOUS
      <4>1. telemetry[case] # NONE /\ telemetry[case].run < runs /\ telemetry[case].run \in Nat
        BY <1>2, <2>4, LinesAre DEF AsKeptOnce
      <4>2. lines[case] = telemetry[case] \/ lines[case].run < telemetry[case].run
        BY <1>2, <2>4 DEF AsKeptOnce
      <4> QED
        BY <1>2, <2>1, <2>4, <4>1, <4>2
    <3> QED
      BY <1>2, <1>3, <2>1, <2>4, <3>1 DEF AsKeptOnce
  <2>5. (sealed.truth # NONE => AsKeptOnce(sealed.truth))'
    <3>1. sealed.truth # NONE => AsKeptOnce(sealed.truth)
      BY DEF LockedInv, FilesFollowed
    <3> QED
      BY <1>1, <1>2, <2>4, <3>1, LinesAre DEF AsKeptOnce
  <2>6. (sealed.index # NONE => AsKeptOnce(sealed.index))'
    <3>1. sealed.index # NONE => AsKeptOnce(sealed.index)
      BY DEF LockedInv, FilesFollowed
    <3> QED
      BY <1>1, <1>2, <2>4, <3>1, LinesAre DEF AsKeptOnce
  <2>7. (Exist => \A i \in Done(sealed.truth) \cap Done(sealed.index) :
                    sealed.index[i].run <= sealed.truth[i].run)'
    BY <1>1 DEF LockedInv, FilesFollowed, Exist, Done
  <2> QED
    BY <2>2, <2>3, <2>5, <2>6, <2>7 DEF FilesFollowed
<1>7. CollectionFollowed'
  BY <1>1, <1>2, <1>3 DEF CollectionFollowed, COLLECTING
<1>8. FaultsFollowed'
  BY <1>1 DEF LockedInv, FaultsFollowed, Capturing
<1> QED
  BY <1>1, <1>4, <1>5, <1>6, <1>7, <1>8, CorpusStep DEF COLLECTING

\* A line of the truth is written.
LEMMA StepWriteTruth ==
    ASSUME LockedAssumption, LockedInv, WriteTruth
    PROVE  LockedInv'
<1>1. /\ cmd = "corpus" /\ pc = "truth" /\ truth' = [truth EXCEPT ![case] = taken]
      /\ pc' = "index" /\ UNCHANGED <<cmd, case, attempt, taken>>
      /\ UNCHANGED <<fitted, telemetry, index, sealed, results, shop, runs, kills, silent, edits, changed>>
  <2>1. pc = "truth"
    BY DEF WriteTruth
  <2>2. cmd = "corpus"
    BY <2>1, NoneIsNoStep DEF LockedInv, ProcessFollowed, STEPS
  <2> QED
    BY <2>1, <2>2 DEF WriteTruth, Goto, measured, bounds
<1>2. /\ case \in Incidents /\ truth[case] = NONE /\ index[case] = NONE
      /\ taken \in Capture /\ taken.run = runs /\ telemetry[case] = taken
      /\ \A j \in Incidents : truth[j] = NONE /\ telemetry[j] # NONE => telemetry[j].run < runs \/ j = case
      /\ \A i \in Incidents : truth[i] = NONE <=> index[i] = NONE
  BY <1>1 DEF LockedInv, CollectionFollowed, COLLECTING
<1>3. /\ truth' \in Lines /\ truth'[case] = taken /\ taken # NONE
      /\ \A j \in Incidents \ {case} : truth'[j] = truth[j]
  <2>1. truth \in Lines /\ taken # NONE
    BY <1>2 DEF LockedInv, FileTypes, LockedAssumption
  <2> QED
    BY <1>1, <1>2, <2>1 DEF Lines
<1>4. ProcessFollowed'
  BY <1>1 DEF LockedInv, ProcessFollowed, COLLECTING
<1>5. FileTypes'
  BY <1>1, <1>3 DEF LockedInv, FileTypes, results
<1>6. FilesFollowed'
  <2>1. AsKept(truth)'
    BY <1>1, <1>2, <1>3 DEF LockedInv, FilesFollowed, AsKept
  <2> QED
    BY <1>1, <2>1 DEF LockedInv, FilesFollowed, AsKept, AsKeptOnce, Exist, Done
<1>7. CollectionFollowed'
  BY <1>1, <1>2, <1>3 DEF CollectionFollowed, COLLECTING
<1>8. FaultsFollowed'
  BY <1>1, <1>2, <1>3 DEF LockedInv, FaultsFollowed, Capturing
<1> QED
  BY <1>1, <1>4, <1>5, <1>6, <1>7, <1>8, CorpusStep DEF COLLECTING

\* A line of the index is written.
LEMMA StepWriteIndex ==
    ASSUME LockedAssumption, LockedInv, WriteIndex
    PROVE  LockedInv'
<1>1. /\ cmd = "corpus" /\ pc = "index" /\ index' = [index EXCEPT ![case] = telemetry[case]]
      /\ UNCHANGED <<fitted, telemetry, truth, sealed, results, shop, runs, kills, silent, edits, changed>>
  <2>1. pc = "index"
    BY DEF WriteIndex
  <2>2. cmd = "corpus"
    BY <2>1, NoneIsNoStep DEF LockedInv, ProcessFollowed, STEPS
  <2> QED
    BY <2>1, <2>2 DEF WriteIndex, measured, bounds
<1>2. /\ case \in Incidents /\ index[case] = NONE
      /\ taken \in Capture /\ telemetry[case] = taken /\ truth[case] = taken
      /\ \A j \in Incidents : truth[j] = NONE /\ telemetry[j] # NONE => telemetry[j].run < runs
      /\ \A i \in Incidents : (truth[i] = NONE <=> index[i] = NONE) \/ i = case
  BY <1>1 DEF LockedInv, CollectionFollowed, COLLECTING
<1>3. /\ index' \in Lines /\ index'[case] = taken /\ taken # NONE
      /\ \A j \in Incidents \ {case} : index'[j] = index[j]
  <2>1. index \in Lines /\ taken # NONE
    BY <1>2 DEF LockedInv, FileTypes, LockedAssumption
  <2> QED
    BY <1>1, <1>2, <2>1 DEF Lines
<1>4. \A i \in Incidents : truth[i] = NONE <=> index'[i] = NONE
  BY <1>2, <1>3
<1>5. \/ cmd' = NONE /\ pc' = NONE
      \/ cmd' = cmd /\ pc' = "seal"
      \/ cmd' = cmd /\ pc' = "inject" /\ case' \in Incidents /\ truth[case'] = NONE
  <2>1. CASE taken.valid
    <3> DEFINE next == {j \in Incidents : j > case} \ Done(truth)
    <3>1. Turn(next, "seal") /\ cmd' = cmd
      BY <2>1 DEF WriteIndex
    <3>2. next # {} => First(next) \in next
      BY FirstIn
    <3>3. \A j \in next : j \in Incidents /\ truth[j] = NONE
      BY DEF Done
    <3> QED
      BY <3>1, <3>2, <3>3 DEF Turn
  <2>2. CASE ~taken.valid
    BY <2>2 DEF WriteIndex, Ended
  <2> QED
    BY <2>1, <2>2
<1>6. attempt' \in Nat
  BY DEF WriteIndex, Ended
<1>7. ProcessFollowed'
  BY <1>1, <1>5, <1>6 DEF ProcessFollowed, COLLECTING
<1>8. FileTypes'
  BY <1>1, <1>3 DEF LockedInv, FileTypes, results
<1>9. FilesFollowed'
  <2>1. AsKept(index)'
    BY <1>1, <1>2, <1>3 DEF LockedInv, FilesFollowed, AsKept
  <2> QED
    BY <1>1, <2>1 DEF LockedInv, FilesFollowed, AsKept, AsKeptOnce, Exist, Done
<1>10. CollectionFollowed'
  BY <1>1, <1>2, <1>4, <1>5, NoneIsNoStep DEF CollectionFollowed, COLLECTING
<1>11. FaultsFollowed'
  BY <1>1, <1>5, NoneIsNoStep DEF LockedInv, FaultsFollowed, Capturing, STEPS
<1> QED
  BY <1>1, <1>5, <1>7, <1>8, <1>9, <1>10, <1>11, CorpusStep DEF COLLECTING

\* What a sealed file is written from: a progress file or a part of it.
LEMMA SealedLines ==
    ASSUME LockedInv, NEW lines, \/ lines = truth \/ lines = index
                                 \/ \E n : lines = Part(truth, n) \/ lines = Part(index, n)
    PROVE  /\ lines \in Lines /\ AsKept(lines) /\ AsKeptOnce(lines)
<1>1. truth \in Lines /\ index \in Lines /\ AsKept(truth) /\ AsKept(index)
  BY DEF LockedInv, FileTypes, FilesFollowed
<1>2. lines \in Lines /\ AsKept(lines)
  BY <1>1 DEF Lines, Part, AsKept
<1>3. AsKeptOnce(lines)
  BY <1>2 DEF AsKept, AsKeptOnce
<1> QED
  BY <1>2, <1>3

\* The files stay as described when one of the two is sealed with what is written so far.
LEMMA SealedFollow ==
    ASSUME LockedInv, UNCHANGED <<telemetry, truth, index, runs>>,
           sealed' = [truth |-> sealed'.truth, index |-> sealed'.index],
           \/ sealed'.index = sealed.index /\ (sealed'.truth = truth \/ \E n : sealed'.truth = Part(truth, n))
           \/ /\ sealed'.truth = sealed.truth /\ sealed.truth = truth
              /\ sealed'.index = index \/ \E n : sealed'.index = Part(index, n)
    PROVE  /\ FilesFollowed'
           /\ sealed'.truth \in Lines \cup {NONE} /\ sealed'.index \in Lines \cup {NONE}
<1>1. /\ sealed'.truth # NONE => sealed'.truth \in Lines /\ AsKeptOnce(sealed'.truth)
      /\ sealed'.index # NONE => sealed'.index \in Lines /\ AsKeptOnce(sealed'.index)
  <2>1. /\ sealed.truth # NONE => sealed.truth \in Lines /\ AsKeptOnce(sealed.truth)
        /\ sealed.index # NONE => sealed.index \in Lines /\ AsKeptOnce(sealed.index)
    BY DEF LockedInv, FileTypes, FilesFollowed
  <2> QED
    BY <2>1, SealedLines
<1>2. (sealed.truth # NONE => AsKeptOnce(sealed.truth))' /\ (sealed.index # NONE => AsKeptOnce(sealed.index))'
  BY <1>1 DEF AsKeptOnce
<1>3. ASSUME NEW i \in Incidents, sealed'.truth # NONE, sealed'.index # NONE,
             sealed'.truth[i] # NONE, sealed'.index[i] # NONE
      PROVE  sealed'.index[i].run <= sealed'.truth[i].run
  <2>0. telemetry[i] # NONE /\ telemetry[i].run \in Nat
    BY <1>1, <1>3, LinesAre DEF AsKeptOnce
  <2>1. CASE sealed'.index = sealed.index
    <3>1. CASE sealed'.truth = truth \/ \E n : sealed'.truth = Part(truth, n)
      <4>1. sealed'.truth[i] = telemetry[i]
        BY <1>3, <3>1, SealedLines DEF AsKept
      <4>2. sealed.index[i] = telemetry[i] \/ sealed.index[i].run < telemetry[i].run
        BY <1>1, <1>3, <2>1 DEF AsKeptOnce
      <4>3. sealed.index[i].run \in Nat
        BY <1>3, <2>1, LinesAre
      <4> QED
        BY <2>0, <2>1, <4>1, <4>2, <4>3
    <3>2. CASE sealed'.truth = sealed.truth
      BY <1>3, <2>1, <3>2 DEF LockedInv, FilesFollowed, Exist, Done
    <3> QED
      BY <3>1, <3>2
  <2>2. CASE /\ sealed'.truth = sealed.truth /\ sealed.truth = truth
             /\ sealed'.index = index \/ \E n : sealed'.index = Part(index, n)
    <3>1. sealed'.truth[i] = telemetry[i]
      BY <1>3, <2>2, SealedLines DEF AsKept
    <3>2. sealed'.index[i] = telemetry[i]
      BY <1>3, <2>2, SealedLines DEF AsKept
    <3> QED
      BY <2>0, <3>1, <3>2
  <2> QED
    BY <2>1, <2>2
<1>4. (Exist => \A i \in Done(sealed.truth) \cap Done(sealed.index) :
                  sealed.index[i].run <= sealed.truth[i].run)'
  BY <1>3 DEF Exist, Done
<1>5. (\A i \in Incidents : telemetry[i] # NONE => telemetry[i].run <= runs)' /\ AsKept(truth)' /\ AsKept(index)'
  BY DEF LockedInv, FilesFollowed, AsKept
<1>6. sealed'.truth \in Lines \cup {NONE} /\ sealed'.index \in Lines \cup {NONE}
  BY <1>1
<1> QED
  BY <1>2, <1>4, <1>5, <1>6 DEF FilesFollowed

\* A progress file becomes the sealed one.
LEMMA StepSeal ==
    ASSUME LockedAssumption, LockedInv, Seal
    PROVE  LockedInv'
<1>1. /\ cmd = "corpus" /\ pc \in {"seal", "seal index"}
      /\ UNCHANGED <<fitted, telemetry, truth, index, results, shop, runs, kills, silent, edits>>
      /\ changed' \subseteq changed
  <2>1. pc \in {"seal", "seal index"}
    BY DEF Seal
  <2>2. cmd = "corpus"
    BY <2>1, NoneIsNoStep DEF LockedInv, ProcessFollowed, STEPS
  <2> QED
    BY <2>1, <2>2 DEF Seal, measured, bounds
<1>2. /\ sealed' = [truth |-> sealed'.truth, index |-> sealed'.index]
      /\ \/ /\ pc = "seal" /\ cmd' = cmd /\ pc' = "seal index" /\ attempt' = attempt
            /\ sealed'.truth = truth /\ sealed'.index = sealed.index
         \/ /\ pc = "seal index" /\ cmd' = NONE /\ pc' = NONE /\ attempt' = 0
            /\ sealed'.truth = sealed.truth /\ sealed'.index = index
  BY DEF Seal, Goto, Ended, LockedInv, FileTypes
<1>3. pc = "seal index" => sealed.truth = truth
  BY <1>1 DEF LockedInv, CollectionFollowed
<1>4. FilesFollowed' /\ sealed'.truth \in Lines \cup {NONE} /\ sealed'.index \in Lines \cup {NONE}
  BY <1>1, <1>2, <1>3, SealedFollow
<1>5. FileTypes'
  <2>1. changed' \subseteq FILES /\ (MaxEdits = 0 => changed' = {})
    BY <1>1 DEF LockedInv, FileTypes
  <2>2. evaluation' = evaluation
    BY <1>1 DEF results
  <2>3. sealed' = [truth |-> sealed'.truth, index |-> sealed'.index]
    BY <1>2
  <2>4. /\ telemetry' \in Lines /\ truth' \in Lines /\ index' \in Lines
        /\ evaluation' \in Result \cup {NONE}
    BY <1>1, <2>2 DEF LockedInv, FileTypes
  <2>5. fitted' = [target |-> fitted'.target, legacy |-> fitted'.legacy]
    BY <1>1 DEF LockedInv, FileTypes
  <2>6. runs' \in Nat /\ kills' \in Nat /\ silent' \in Nat /\ edits' \in Nat
    BY <1>1, Counters
  <2> QED
    BY <1>4, <2>1, <2>3, <2>4, <2>5, <2>6 DEF FileTypes
<1>6. ProcessFollowed'
  <2>1. \/ cmd' = "corpus" /\ pc' = "seal index"
        \/ cmd' = NONE /\ pc' = NONE
    BY <1>1, <1>2
  <2>2. attempt' \in Nat
    <3>1. attempt' = attempt \/ attempt' = 0
      BY <1>2
    <3> QED
      BY <3>1, Counters
  <2> QED
    BY <2>1, <2>2 DEF ProcessFollowed
<1>7. CollectionFollowed'
  <2>1. \A i \in Incidents : truth[i] = NONE <=> index[i] = NONE
    BY <1>1 DEF LockedInv, CollectionFollowed
  <2> QED
    BY <1>1, <1>2, <2>1, NoneIsNoStep DEF CollectionFollowed, COLLECTING
<1>8. FaultsFollowed'
  BY <1>1, <1>2, NoneIsNoStep DEF LockedInv, FaultsFollowed, Capturing, STEPS
<1> QED
  BY <1>1, <1>2, <1>4, <1>5, <1>6, <1>7, <1>8, CorpusStep DEF COLLECTING

\* A process is killed.
LEMMA StepKill ==
    ASSUME LockedAssumption, LockedInv, Kill
    PROVE  LockedInv'
<1>1. /\ cmd' = NONE /\ pc' = NONE /\ attempt' = 0 /\ kills' = kills + 1
      /\ UNCHANGED <<fitted, telemetry, results, shop, runs, silent, edits, changed>>
  BY DEF Kill, Ended, measured
<1>2. \/ UNCHANGED <<truth, index, sealed>>
      \/ /\ cmd = "corpus" /\ UNCHANGED <<index, sealed>> /\ \E n : truth' = Part(truth, n)
      \/ /\ cmd = "corpus" /\ UNCHANGED <<truth, sealed>> /\ \E n : index' = Part(index, n)
      \/ /\ cmd = "corpus" /\ UNCHANGED <<truth, index>>
         /\ sealed' = [truth |-> sealed'.truth, index |-> sealed'.index]
         /\ \/ sealed'.index = sealed.index /\ \E n : sealed'.truth = Part(truth, n)
            \/ /\ sealed'.truth = sealed.truth /\ sealed.truth = truth
               /\ \E n : sealed'.index = Part(index, n)
  <2>1. pc \in {"truth", "index", "seal", "seal index"} => cmd = "corpus"
    BY NoneIsNoStep DEF LockedInv, ProcessFollowed, STEPS
  <2>2. pc = "seal index" => sealed.truth = truth
    BY <2>1 DEF LockedInv, CollectionFollowed
  <2>3. sealed = [truth |-> sealed.truth, index |-> sealed.index]
    BY DEF LockedInv, FileTypes
  <2>4. CASE UNCHANGED <<truth, index, sealed>>
    BY <2>4
  <2>5. ASSUME NEW n \in 0..Cardinality(Incidents),
               \/ /\ pc = "truth" /\ Resumes /\ UNCHANGED <<index, sealed>>
                  /\ truth' = Part(truth, n)
               \/ /\ pc = "index" /\ Resumes /\ UNCHANGED <<truth, sealed>>
                  /\ index' = Part(index, n)
        PROVE  \/ cmd = "corpus" /\ UNCHANGED <<index, sealed>> /\ \E m : truth' = Part(truth, m)
               \/ cmd = "corpus" /\ UNCHANGED <<truth, sealed>> /\ \E m : index' = Part(index, m)
    BY <2>1, <2>5
  <2>6. ASSUME NEW n \in 0..Cardinality(Incidents), UNCHANGED <<truth, index>>,
               pc = "seal", sealed' = [sealed EXCEPT !.truth = Part(truth, n)]
        PROVE  /\ cmd = "corpus" /\ sealed' = [truth |-> sealed'.truth, index |-> sealed'.index]
               /\ sealed'.index = sealed.index /\ \E m : sealed'.truth = Part(truth, m)
    <3>1. sealed' = [truth |-> Part(truth, n), index |-> sealed.index]
      BY <2>3, <2>6
    <3> QED
      BY <2>1, <2>6, <3>1
  <2>7. ASSUME NEW n \in 0..Cardinality(Incidents), UNCHANGED <<truth, index>>,
               pc = "seal index", sealed' = [sealed EXCEPT !.index = Part(index, n)]
        PROVE  /\ cmd = "corpus" /\ sealed' = [truth |-> sealed'.truth, index |-> sealed'.index]
               /\ sealed'.truth = sealed.truth /\ sealed.truth = truth
               /\ \E m : sealed'.index = Part(index, m)
    <3>1. sealed' = [truth |-> sealed.truth, index |-> Part(index, n)]
      BY <2>3, <2>7
    <3> QED
      BY <2>1, <2>2, <2>7, <3>1
  <2> QED
    BY <2>4, <2>5, <2>6, <2>7 DEF Kill
<1>3. ProcessFollowed'
  BY <1>1 DEF ProcessFollowed
<1>4. CollectionFollowed'
  BY <1>1, NoneIsNoStep DEF CollectionFollowed
<1>5. kills' \in Nat /\ kills' # 0
  BY <1>1, Counters
<1>6. FaultsFollowed'
  BY <1>5 DEF FaultsFollowed
<1>7. CASE UNCHANGED <<truth, index, sealed>>
  <2>1. FileTypes'
    BY <1>1, <1>5, <1>7 DEF LockedInv, FileTypes, results
  <2>2. FilesFollowed'
    BY <1>1, <1>7, FilesKept DEF LockedInv
  <2>3. pc' \notin {"scored", "truth read", "ledger", "opened"}
    BY <1>1, NoneIsNoStep DEF STEPS
  <2>4. FreezeFollowed' /\ FrozenWhole'
    BY <1>1, <1>7, <2>3, FreezeKept DEF LockedInv, results
  <2>5. OpeningFollowed'
    BY <1>1, <2>3, OpeningKept DEF LockedInv, results
  <2> QED
    BY <1>3, <1>4, <1>6, <2>1, <2>2, <2>4, <2>5 DEF LockedInv
<1>8. CASE /\ cmd = "corpus" /\ sealed' = sealed
           /\ \/ index' = index /\ \E n : truth' = Part(truth, n)
              \/ truth' = truth /\ \E n : index' = Part(index, n)
  <2>1. truth' \in Lines /\ index' \in Lines /\ AsKept(truth') /\ AsKept(index')
    BY <1>8, SealedLines
  <2>2. FileTypes'
    BY <1>1, <1>5, <1>8, <2>1 DEF LockedInv, FileTypes, results
  <2>3. FilesFollowed'
    BY <1>1, <1>8, <2>1 DEF LockedInv, FilesFollowed, AsKept, AsKeptOnce, Exist, Done
  <2> QED
    BY <1>1, <1>3, <1>4, <1>6, <1>8, <2>2, <2>3, CorpusStep
<1>9. CASE /\ cmd = "corpus" /\ UNCHANGED <<truth, index>>
           /\ sealed' = [truth |-> sealed'.truth, index |-> sealed'.index]
           /\ \/ sealed'.index = sealed.index /\ \E n : sealed'.truth = Part(truth, n)
              \/ /\ sealed'.truth = sealed.truth /\ sealed.truth = truth
                 /\ \E n : sealed'.index = Part(index, n)
  <2>1. FilesFollowed' /\ sealed'.truth \in Lines \cup {NONE} /\ sealed'.index \in Lines \cup {NONE}
    BY <1>1, <1>9, SealedFollow
  <2>2. FileTypes'
    BY <1>1, <1>5, <1>9, <2>1 DEF LockedInv, FileTypes, results
  <2> QED
    BY <1>1, <1>3, <1>4, <1>6, <1>9, <2>1, <2>2, CorpusStep
<1> QED
  BY <1>2, <1>7, <1>8, <1>9

\* What was collected is frozen.
LEMMA StepFreeze ==
    ASSUME LockedAssumption, LockedInv, Freeze
    PROVE  LockedInv'
<1>1. /\ pc = "freeze" /\ cmd' = NONE /\ pc' = NONE /\ attempt' = 0 /\ Exist
      /\ Study = "m12" \/ Complete
      /\ frozen' = [truth |-> sealed.truth, telemetry |-> sealed.index, healthy |-> healthy,
                    fitted |-> fitted]
      /\ changed' = {}
      /\ UNCHANGED <<fitted, telemetry, truth, index, sealed, predictions, scored, evaluation, opened,
                     shop, runs, kills, silent, edits>>
  BY DEF Freeze, Ended, measured, collected, bounds
<1>2. cmd = "freeze"
  BY <1>1, NoneIsNoStep DEF LockedInv, ProcessFollowed, STEPS, COLLECTING
<1>3. ProcessFollowed'
  BY <1>1 DEF ProcessFollowed
<1>4. FileTypes'
  BY <1>1 DEF LockedInv, FileTypes
<1>5. FilesFollowed'
  BY <1>1, FilesKept DEF LockedInv
<1>6. CollectionFollowed'
  BY <1>1, NoneIsNoStep DEF CollectionFollowed
<1>7. FaultsFollowed'
  BY <1>1, <1>2, NoneIsNoStep DEF LockedInv, FaultsFollowed, Capturing
<1>8. Study = "m14" => frozen = NONE /\ ~scored /\ evaluation = NONE
  BY <1>2 DEF LockedInv, FreezeFollowed
<1>9. ASSUME Study = "m14"
      PROVE  /\ sealed.index = telemetry /\ telemetry \in Lines /\ sealed.truth \in Lines
             /\ \A i \in Incidents : sealed.truth[i] # NONE /\ sealed.truth[i].valid
             /\ sealed.index = [i \in Incidents |-> sealed.truth[i]]
             /\ fitted = [target |-> healthy, legacy |-> healthy]
  <2>1. Complete /\ sealed.truth # NONE /\ sealed.index # NONE
    BY <1>1, <1>9 DEF Exist
  <2>2. /\ sealed.index = telemetry /\ telemetry \in Lines /\ sealed.truth \in Lines
        /\ \A i \in Incidents : /\ sealed.truth[i] # NONE /\ sealed.truth[i].valid
                                /\ sealed.index[i] # NONE
    BY <2>1 DEF Complete, Done, LockedInv, FileTypes
  <2>3. ASSUME NEW i \in Incidents PROVE telemetry[i] = sealed.truth[i]
    <3>1. sealed.truth[i] = telemetry[i] \/ sealed.truth[i].run < telemetry[i].run
      BY <2>1, <2>2 DEF LockedInv, FilesFollowed, AsKeptOnce
    <3>2. telemetry[i].run <= sealed.truth[i].run
      BY <1>1, <2>2 DEF LockedInv, FilesFollowed, Done
    <3>3. telemetry[i].run \in Nat /\ sealed.truth[i].run \in Nat
      BY <2>1, <2>2, LinesAre
    <3> QED
      BY <3>1, <3>2, <3>3
  <2>4. telemetry = [i \in Incidents |-> sealed.truth[i]]
    BY <2>2, <2>3 DEF Lines
  <2>5. fitted = [target |-> healthy, legacy |-> healthy]
    <3>1. fitted.target = healthy /\ fitted.legacy = healthy
      BY <2>1 DEF Complete
    <3>2. fitted = [target |-> fitted.target, legacy |-> fitted.legacy]
      BY DEF LockedInv, FileTypes
    <3> QED
      BY <3>1, <3>2
  <2> QED
    BY <2>2, <2>4, <2>5
<1>10. /\ frozen'.truth = sealed.truth /\ frozen'.telemetry = sealed.index
       /\ frozen'.healthy = healthy /\ frozen'.fitted = fitted
  BY <1>1
<1>11. FreezeFollowed'
  BY <1>1, <1>8, <1>9, <1>10, NoneIsNoStep DEF FreezeFollowed, STEPS, COMMANDS
<1>12. FrozenWhole'
  BY <1>9, <1>10 DEF FrozenWhole
<1>13. OpeningFollowed'
  BY <1>1, NoneIsNoStep, OpeningKept DEF LockedInv, STEPS
<1> QED
  BY <1>3, <1>4, <1>5, <1>6, <1>7, <1>11, <1>12, <1>13 DEF LockedInv

\* A step of a command that reads what is frozen leaves what was collected as it is.
LEMMA ReadingStep ==
    ASSUME LockedAssumption, LockedInv, cmd \in {"score", "open"},
           UNCHANGED <<telemetry, truth, index, sealed, frozen, shop, runs, kills, silent, edits, fitted>>,
           cmd' \in {NONE, cmd}, changed' \subseteq changed,
           ProcessFollowed', evaluation' \in Result \cup {NONE},
           FreezeFollowed', OpeningFollowed'
    PROVE  LockedInv'
<1>1. FileTypes'
  BY DEF LockedInv, FileTypes
<1>2. FilesFollowed'
  BY FilesKept DEF LockedInv
<1>3. cmd # "corpus" /\ ~Capturing /\ cmd' # "corpus" /\ ~Capturing'
  BY NoneIsNoStep DEF Capturing
<1>4. CollectionFollowed'
  BY <1>3 DEF CollectionFollowed
<1>5. FaultsFollowed'
  BY <1>3 DEF LockedInv, FaultsFollowed
<1>6. FrozenWhole'
  BY DEF LockedInv, FrozenWhole
<1> QED
  BY <1>1, <1>2, <1>4, <1>5, <1>6 DEF LockedInv

\* The frozen incidents are ranked.
LEMMA StepScore ==
    ASSUME LockedAssumption, LockedInv, Score
    PROVE  LockedInv'
<1>1. /\ cmd = "score" /\ cmd' \in {NONE, cmd} /\ changed' \subseteq changed
      /\ UNCHANGED <<telemetry, truth, index, sealed, frozen, evaluation, opened, shop, runs, kills,
                     silent, edits, fitted>>
      /\ \/ /\ pc = "score" /\ frozen # NONE /\ predictions' = telemetry /\ scored' = scored /\ ~scored
            /\ cmd' = cmd /\ pc' = "scored" /\ attempt' = attempt
         \/ /\ pc = "scored" /\ scored' = TRUE /\ predictions' = predictions
            /\ cmd' = NONE /\ pc' = NONE /\ attempt' = 0
  <2>1. pc \in {"score", "scored"}
    BY DEF Score
  <2>2. cmd = "score"
    BY <2>1, NoneIsNoStep DEF LockedInv, ProcessFollowed, STEPS, COLLECTING
  <2>3. UNCHANGED <<telemetry, truth, index, sealed, frozen, evaluation, opened, shop, runs, kills,
                    silent, edits, fitted>>
    BY DEF Score, measured, collected, bounds
  <2>4. pc = "score" =>
          /\ frozen # NONE /\ predictions' = telemetry /\ scored' = scored /\ ~scored
          /\ cmd' = cmd /\ pc' = "scored" /\ attempt' = attempt /\ changed' \subseteq changed
    BY DEF Score, Goto, Verified
  <2>5. pc = "scored" =>
          /\ scored' = TRUE /\ predictions' = predictions /\ changed' = changed
          /\ cmd' = NONE /\ pc' = NONE /\ attempt' = 0
    BY DEF Score, Ended
  <2>6. CASE pc = "score"
    BY <2>2, <2>3, <2>4, <2>6
  <2>7. CASE pc = "scored"
    BY <2>2, <2>3, <2>5, <2>7
  <2> QED
    BY <2>1, <2>6, <2>7
<1>2. ProcessFollowed'
  <2>1. \/ cmd' = "score" /\ pc' = "scored"
        \/ cmd' = NONE /\ pc' = NONE
    BY <1>1
  <2>2. attempt' \in Nat
    BY <1>1, Counters
  <2> QED
    BY <2>1, <2>2 DEF ProcessFollowed
<1>3. FreezeFollowed'
  BY <1>1, NoneIsNoStep DEF LockedInv, FreezeFollowed, STEPS
<1>4. OpeningFollowed'
  BY <1>1, NoneIsNoStep, OpeningKept DEF LockedInv, STEPS
<1>5. evaluation' \in Result \cup {NONE}
  BY <1>1 DEF LockedInv, FileTypes
<1> QED
  BY <1>1, <1>2, <1>3, <1>4, <1>5, ReadingStep

\* A result is one, whatever it is of.
LEMMA EvaluatedIs ==
    ASSUME LockedAssumption, LockedInv, NEW of \in Lines, sealed.truth \in Lines
    PROVE  /\ Evaluated(of) \in Result /\ Evaluated(of) # NONE
           /\ Evaluated(of).of = of /\ Evaluated(of).truth = sealed.truth
           /\ Evaluated(of).changed = changed
           /\ evaluation = NONE => Evaluated(of).number = 1
           /\ [Evaluated(of) EXCEPT !.number = 1] \in Result
           /\ [Evaluated(of) EXCEPT !.number = 1].of = of
           /\ [Evaluated(of) EXCEPT !.number = 1].truth = sealed.truth
           /\ [Evaluated(of) EXCEPT !.number = 1].changed = changed
<1> DEFINE number == IF evaluation = NONE THEN 1 ELSE evaluation.number + 1
<1>1. number \in Nat /\ (evaluation = NONE => number = 1)
  BY DEF LockedInv, FileTypes, Result
<1>2. changed \subseteq FILES
  BY DEF LockedInv, FileTypes
<1>3. Evaluated(of) = [of |-> of, truth |-> sealed.truth, changed |-> changed, number |-> number]
  BY DEF Evaluated
<1> HIDE DEF number
<1>4. Evaluated(of) \in Result
  BY <1>1, <1>2, <1>3 DEF Result
<1>5. [Evaluated(of) EXCEPT !.number = 1]
        = [of |-> of, truth |-> sealed.truth, changed |-> changed, number |-> 1]
  BY <1>3
<1>6. [Evaluated(of) EXCEPT !.number = 1] \in Result
  BY <1>2, <1>5 DEF Result
<1>7. Evaluated(of) # NONE
  BY <1>4 DEF LockedAssumption
<1> QED
  BY <1>1, <1>3, <1>4, <1>5, <1>6, <1>7

\* The truth of M14 is opened.
LEMMA StepOpen ==
    ASSUME LockedAssumption, LockedInv, Open
    PROVE  LockedInv'
<1>1. /\ Study = "m14" /\ cmd = "open" /\ cmd' \in {NONE, cmd} /\ changed' \subseteq changed
      /\ UNCHANGED <<telemetry, truth, index, sealed, frozen, predictions, scored, shop, runs, kills,
                     silent, edits, fitted>>
      /\ \/ /\ pc = "open" /\ evaluation = NONE /\ scored /\ changed = {}
            /\ evaluation' = Evaluated(predictions) /\ opened' = opened
            /\ cmd' = cmd /\ pc' = "opened" /\ attempt' = attempt
         \/ /\ pc = "opened" /\ opened' = TRUE /\ evaluation' = evaluation
            /\ cmd' = NONE /\ pc' = NONE /\ attempt' = 0
  <2>1. pc \in {"open", "opened"}
    BY DEF Open
  <2>2. cmd = "open"
    BY <2>1, NoneIsNoStep DEF LockedInv, ProcessFollowed, STEPS, COLLECTING
  <2>3. pc = "open" => changed = {}
    <3>1. pc = "open" => Verified /\ "predictions" \notin changed /\ TruthAsSealed
      BY DEF Open
    <3>2. changed \subseteq FILES
      BY DEF LockedInv, FileTypes
    <3> QED
      BY <3>1, <3>2 DEF Verified, TruthAsSealed, FILES
  <2>4. /\ Study = "m14" /\ changed' = changed
        /\ UNCHANGED <<telemetry, truth, index, sealed, frozen, predictions, scored, shop, runs, kills,
                       silent, edits, fitted>>
    BY DEF Open, measured, collected, bounds
  <2>5. pc = "open" =>
          /\ evaluation = NONE /\ scored /\ evaluation' = Evaluated(predictions) /\ opened' = opened
          /\ cmd' = cmd /\ pc' = "opened" /\ attempt' = attempt
    BY DEF Open, Goto, Unopened
  <2>6. pc = "opened" =>
          /\ opened' = TRUE /\ evaluation' = evaluation
          /\ cmd' = NONE /\ pc' = NONE /\ attempt' = 0
    BY DEF Open, Ended
  <2>7. CASE pc = "open"
    BY <2>2, <2>3, <2>4, <2>5, <2>7
  <2>8. CASE pc = "opened"
    BY <2>2, <2>3, <2>4, <2>6, <2>8
  <2> QED
    BY <2>1, <2>7, <2>8
<1>2. ProcessFollowed'
  <2>1. \/ cmd' = "open" /\ pc' = "opened"
        \/ cmd' = NONE /\ pc' = NONE
    BY <1>1
  <2>2. attempt' \in Nat
    BY <1>1, Counters
  <2> QED
    BY <2>1, <2>2 DEF ProcessFollowed
<1>3. CASE pc = "opened"
  <2>1. FreezeFollowed'
    BY <1>1, <1>3, NoneIsNoStep DEF LockedInv, FreezeFollowed, STEPS
  <2>2. OpeningFollowed'
    BY <1>1, <1>3, NoneIsNoStep DEF LockedInv, OpeningFollowed, STEPS
  <2>3. evaluation' \in Result \cup {NONE}
    BY <1>1, <1>3 DEF LockedInv, FileTypes
  <2> QED
    BY <1>1, <1>2, <2>1, <2>2, <2>3, ReadingStep
<1>4. CASE pc = "open"
  <2>1. /\ frozen # NONE /\ predictions = frozen.telemetry /\ frozen.telemetry \in Lines
        /\ sealed.truth = frozen.truth /\ telemetry = frozen.telemetry
    BY <1>1, <1>4 DEF LockedInv, FreezeFollowed
  <2>2. /\ \A i \in Incidents : frozen.truth[i] # NONE
        /\ frozen.telemetry = [i \in Incidents |-> frozen.truth[i]]
    BY <1>1, <2>1 DEF LockedInv, FrozenWhole
  <2>3. sealed.truth \in Lines /\ sealed.truth = frozen.telemetry
    <3>1. sealed.truth \in Lines
      BY <1>1, <2>1 DEF LockedInv, FreezeFollowed
    <3> QED
      BY <2>1, <2>2, <3>1 DEF Lines
  <2>4. /\ evaluation' \in Result /\ evaluation' # NONE /\ evaluation'.number = 1
        /\ evaluation'.of = frozen.telemetry /\ evaluation'.truth = frozen.truth
        /\ evaluation'.changed = {}
    BY <1>1, <1>4, <2>1, <2>3, EvaluatedIs
  <2>5. FreezeFollowed'
    BY <1>1, <1>4, <2>1, <2>4 DEF LockedInv, FreezeFollowed
  <2>6. OpeningFollowed'
    BY <1>1, <1>4, <2>1, <2>3, <2>4 DEF OpeningFollowed
  <2> QED
    BY <1>1, <1>2, <2>4, <2>5, <2>6, ReadingStep
<1> QED
  BY <1>1, <1>3, <1>4

\* Where the index agrees with the incidents' files and names those of the truth,
\* both are of the same captures: the index is never newer than the truth.
LEMMA SameCaptures ==
    ASSUME LockedInv, Exist, AsIndexed, SameIncidents
    PROVE  sealed.index = sealed.truth /\ sealed.index \in Lines /\ sealed.truth \in Lines
<1>1. /\ sealed.truth # NONE /\ sealed.index # NONE
      /\ sealed.index \in Lines /\ sealed.truth \in Lines
  BY DEF Exist, LockedInv, FileTypes
<1>2. ASSUME NEW i \in Incidents
      PROVE  sealed.index[i] = sealed.truth[i]
  <2>1. sealed.index[i] = NONE <=> sealed.truth[i] = NONE
    BY DEF SameIncidents, Done
  <2>2. CASE sealed.index[i] # NONE
    <3>1. sealed.index[i] = telemetry[i]
      BY <2>2 DEF AsIndexed, Done
    <3>2. sealed.truth[i] = telemetry[i] \/ sealed.truth[i].run < telemetry[i].run
      BY <1>1, <2>1, <2>2 DEF LockedInv, FilesFollowed, AsKeptOnce
    <3>3. sealed.index[i].run <= sealed.truth[i].run
      BY <2>1, <2>2 DEF LockedInv, FilesFollowed, Done
    <3>4. sealed.index[i].run \in Nat /\ sealed.truth[i].run \in Nat
      BY <1>1, <2>1, <2>2, LinesAre
    <3> QED
      BY <3>1, <3>2, <3>3, <3>4
  <2> QED
    BY <2>1, <2>2
<1> QED
  BY <1>1, <1>2 DEF Lines

\* Nothing is edited where only M14's hashes would tell.
LEMMA NothingEdited ==
    ASSUME LockedAssumption, LockedInv, Study # "m14"
    PROVE  changed = {}
BY DEF LockedAssumption, LockedInv, FileTypes

\* The truth of M12 is opened.
LEMMA StepEvaluate12 ==
    ASSUME LockedAssumption, LockedInv, Evaluate12
    PROVE  LockedInv'
<1>1. /\ Study = "m12" /\ pc \in {"open", "truth read", "ledger", "opened"}
      /\ UNCHANGED <<telemetry, truth, index, sealed, frozen, scored, shop, runs, kills,
                     silent, edits, fitted, changed>>
  BY DEF Evaluate12, measured, collected, bounds
<1>2. cmd = "open"
  BY <1>1, NoneIsNoStep DEF LockedInv, ProcessFollowed, STEPS, COLLECTING
<1>3. FreezeFollowed'
  BY <1>1 DEF FreezeFollowed
<1>4. evaluation \in Result \cup {NONE}
  BY DEF LockedInv, FileTypes
<1>5. OpeningFollowed
  BY DEF LockedInv
<1>6. CASE pc = "open"
  <2>1. /\ Exist /\ AsIndexed /\ predictions' = sealed.index /\ UNCHANGED <<evaluation, opened>>
        /\ cmd' = cmd /\ pc' = "truth read" /\ attempt' = attempt
    BY <1>6 DEF Evaluate12, Goto
  <2>2. ProcessFollowed'
    BY <1>1, <1>2, <2>1 DEF LockedInv, ProcessFollowed
  <2>3. OpeningFollowed'
    BY <1>1, <1>5, <2>1 DEF OpeningFollowed, Exist, AsIndexed, Done
  <2> QED
    BY <1>1, <1>2, <1>3, <1>4, <2>1, <2>2, <2>3, ReadingStep
<1>7. CASE pc = "truth read"
  <2>1. /\ SameIncidents /\ evaluation' = Evaluated(predictions) /\ opened' = opened
        /\ cmd' = cmd /\ pc' = "ledger" /\ attempt' = attempt
    BY <1>7 DEF Evaluate12, Goto
  <2>2. predictions = sealed.truth /\ sealed.truth \in Lines
    BY <1>1, <1>5, <1>7, <2>1, SameCaptures DEF OpeningFollowed
  <2>3. /\ evaluation' \in Result /\ evaluation' # NONE
        /\ evaluation'.of = evaluation'.truth /\ evaluation'.changed = {}
    BY <1>1, <2>1, <2>2, EvaluatedIs, NothingEdited
  <2>4. ProcessFollowed'
    BY <1>1, <1>2, <2>1 DEF LockedInv, ProcessFollowed
  <2>5. OpeningFollowed'
    BY <2>1, <2>3 DEF OpeningFollowed
  <2> QED
    BY <1>1, <1>2, <1>3, <2>1, <2>3, <2>4, <2>5, ReadingStep
<1>8. CASE pc = "ledger"
  <2>1. /\ UNCHANGED <<evaluation, opened>>
        /\ cmd' = cmd /\ pc' = "opened" /\ attempt' = attempt
    BY <1>8 DEF Evaluate12, Goto
  <2>2. ProcessFollowed'
    BY <1>1, <1>2, <2>1 DEF LockedInv, ProcessFollowed
  <2>3. OpeningFollowed'
    BY <1>5, <1>8, <2>1 DEF OpeningFollowed
  <2> QED
    BY <1>1, <1>2, <1>3, <1>4, <2>1, <2>2, <2>3, ReadingStep
<1>9. CASE pc = "opened"
  <2>1. /\ evaluation' = evaluation /\ cmd' = NONE /\ pc' = NONE /\ attempt' = 0
    BY <1>9 DEF Evaluate12, Ended
  <2>2. ProcessFollowed'
    BY <2>1 DEF ProcessFollowed
  <2>3. OpeningFollowed'
    BY <1>5, <1>9, <2>1, NoneIsNoStep DEF OpeningFollowed, STEPS
  <2> QED
    BY <1>1, <1>2, <1>3, <1>4, <2>1, <2>2, <2>3, ReadingStep
<1> QED
  BY <1>1, <1>6, <1>7, <1>8, <1>9

\* M13's study reads its corpus.
LEMMA StepStudy13 ==
    ASSUME LockedAssumption, LockedInv, Study13
    PROVE  LockedInv'
<1>1. /\ Study = "m13" /\ pc = "open" /\ Exist /\ AsIndexed /\ SameIncidents
      /\ evaluation' = [Evaluated(sealed.index) EXCEPT !.number = 1]
      /\ cmd' = NONE /\ pc' = NONE /\ attempt' = 0 /\ opened' = opened
      /\ UNCHANGED <<telemetry, truth, index, sealed, frozen, scored, shop, runs, kills,
                     silent, edits, fitted, changed>>
  BY DEF Study13, Ended, measured, collected, bounds
<1>2. cmd = "open"
  BY <1>1, NoneIsNoStep DEF LockedInv, ProcessFollowed, STEPS, COLLECTING
<1>3. FreezeFollowed'
  BY <1>1 DEF FreezeFollowed
<1>4. sealed.index = sealed.truth /\ sealed.truth \in Lines
  BY <1>1, SameCaptures
<1>5. /\ evaluation' \in Result /\ evaluation'.of = evaluation'.truth /\ evaluation'.changed = {}
  BY <1>1, <1>4, EvaluatedIs, NothingEdited
<1>6. evaluation' # NONE
  BY <1>5 DEF LockedAssumption
<1>7. ProcessFollowed'
  BY <1>1 DEF ProcessFollowed
<1>8. OpeningFollowed'
  BY <1>1, <1>5, <1>6, NoneIsNoStep DEF OpeningFollowed, STEPS
<1> QED
  BY <1>1, <1>2, <1>3, <1>5, <1>7, <1>8, ReadingStep

\* Every step keeps the invariant.
LEMMA LockedStep == LockedAssumption /\ LockedInv /\ [Next]_vars => LockedInv'
<1> SUFFICES ASSUME LockedAssumption, LockedInv, [Next]_vars PROVE LockedInv'
  OBVIOUS
<1>1. CASE UNCHANGED vars
  BY <1>1, SameState DEF vars, measured, collected
<1>2. CASE Prepare
  BY <1>2, SameState DEF Prepare, collected
<1>3. CASE \E c \in COMMANDS : Start(c)
  BY <1>3, StepStart
<1>4. CASE Healthy
  BY <1>4, StepHealthy
<1>5. CASE Inject \/ Observe \/ Reset
  BY <1>5, StepCapture
<1>6. CASE Raise
  BY <1>6, StepRaise
<1>7. CASE Judge
  BY <1>7, StepJudge
<1>8. CASE Rehearsed
  BY <1>8, StepRehearsed
<1>9. CASE Keep
  BY <1>9, StepKeep
<1>10. CASE WriteTruth
  BY <1>10, StepWriteTruth
<1>11. CASE WriteIndex
  BY <1>11, StepWriteIndex
<1>12. CASE Seal
  BY <1>12, StepSeal
<1>13. CASE Kill
  BY <1>13, StepKill
<1>14. CASE Passes \/ Edit
  BY <1>14, StepIdle
<1>15. CASE Freeze
  BY <1>15, StepFreeze
<1>16. CASE Score
  BY <1>16, StepScore
<1>17. CASE Open
  BY <1>17, StepOpen
<1>18. CASE Evaluate12
  BY <1>18, StepEvaluate12
<1>19. CASE Study13
  BY <1>19, StepStudy13
<1> QED
  BY <1>1, <1>2, <1>3, <1>4, <1>5, <1>6, <1>7, <1>8, <1>9, <1>10, <1>11, <1>12, <1>13, <1>14,
     <1>15, <1>16, <1>17, <1>18, <1>19 DEF Next

\* What the invariant says of the properties.
LEMMA LockedSound ==
    LockedInv => /\ IndexedOnce /\ OneFaultAtATime /\ FrozenWhole
                 /\ EvaluatedAsFrozen /\ OpenedOnce
<1> SUFFICES ASSUME LockedInv
             PROVE  IndexedOnce /\ OneFaultAtATime /\ FrozenWhole /\ EvaluatedAsFrozen /\ OpenedOnce
  OBVIOUS
<1>1. IndexedOnce
  BY DEF LockedInv, FilesFollowed, AsKept, IndexedOnce, Done
<1>2. OneFaultAtATime
  BY DEF LockedInv, FaultsFollowed, OneFaultAtATime
<1>3. EvaluatedAsFrozen
  BY DEF LockedInv, FreezeFollowed, OpeningFollowed, EvaluatedAsFrozen
<1>4. OpenedOnce
  BY DEF LockedInv, FreezeFollowed, OpeningFollowed, OpenedOnce
<1> QED
  BY <1>1, <1>2, <1>3, <1>4 DEF LockedInv
=============================================================================
