--------------------------- MODULE MCRecordEditing ---------------------------
(***************************************************************************)
(* Small instances of the workspace store and of the editors of its human  *)
(* records, checked together: a behaviour is one of an instance, and part  *)
(* says of which.  The instances share the variables and differ in the     *)
(* bounds their question needs; the constants of this module cover them    *)
(* all, so a limit that holds of every part is one of this module.         *)
(***************************************************************************)
EXTENDS RecordEditing, TLC

CONSTANTS a1, a2, p1, p2, rB, rD, blank, draft, final

VARIABLE part

MCPayloadSize == [p \in Payloads |-> IF p = p1 THEN 2 ELSE 9]
MCRequestSize == [r \in Requests |-> 1]
MCBodySize == [b \in Bodies |-> IF b = Blank THEN 1 ELSE 2]

\* Jobs and follow-ups on two snapshots, with every status.
Jobs == INSTANCE WorkspaceStore WITH
    Payloads <- {p1}, PayloadSize <- [p \in {p1} |-> 2],
    Requests <- {rB}, LLM <- {}, Bodies <- {blank}, Reviewable <- {},
    RunStatuses <- {"partial", "other"}, OutcomeSizes <- {1},
    RequestSize <- [r \in {rB} |-> 1], BodySize <- [b \in {blank} |-> 1],
    DailyJobs <- 1, Retention <- 1, Day <- 1, MaxClock <- 2, MaxRevision <- 0

\* A payload that leaves room for little more than one investigation, answers
\* of several lengths.
Quota == INSTANCE WorkspaceStore WITH
    Payloads <- {p2}, PayloadSize <- [p \in {p2} |-> 9],
    Requests <- {rB}, LLM <- {}, RunStatuses <- {},
    RequestSize <- [r \in {rB} |-> 1],
    MaxSnapshots <- 1, DailyJobs <- 1, Retention <- 1, Day <- 1, MaxClock <- 1, MaxRevision <- 3

\* Two assistant jobs a day, a day of two ticks.
Allowance == INSTANCE WorkspaceStore WITH
    Payloads <- {p1}, PayloadSize <- [p \in {p1} |-> 2],
    Bodies <- {blank}, Reviewable <- {}, BodySize <- [b \in {blank} |-> 1],
    RunStatuses <- {}, OutcomeSizes <- {1}, MaxSnapshots <- 1, MaxRevision <- 0

\* Two editors of one investigation and its jobs.
Editing == INSTANCE RecordEditing WITH
    Payloads <- {p1}, PayloadSize <- [p \in {p1} |-> 2],
    Requests <- {rB}, LLM <- {}, RunStatuses <- {}, OutcomeSizes <- {1},
    RequestSize <- [r \in {rB} |-> 1], MaxSnapshots <- 1, MaxInvestigations <- 1, DailyJobs <- 1,
    Retention <- 1, Day <- 1, MaxClock <- 1, MaxRevision <- 3

ASSUME InstancesAssumption ==
    /\ Jobs!StoreAssumption /\ Quota!StoreAssumption
    /\ Allowance!StoreAssumption /\ Editing!StoreAssumption

SuiteInit ==
    /\ part \in {"jobs", "quota", "allowance", "editing"}
    /\ EditingInit

SuiteNext ==
    /\ UNCHANGED part
    /\ \/ part = "jobs" /\ Jobs!Next /\ UNCHANGED screen
       \/ part = "quota" /\ Quota!Next /\ UNCHANGED screen
       \/ part = "allowance" /\ Allowance!Next /\ UNCHANGED screen
       \/ part = "editing" /\ Editing!EditingNext

SuiteSpec == SuiteInit /\ [][SuiteNext]_<<part, editingVars>>

Symmetry == Permutations(Ids) \cup Permutations(Keys) \cup
            Permutations(Editors) \cup Permutations(Analyses)

=============================================================================
