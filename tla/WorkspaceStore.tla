--------------------------- MODULE WorkspaceStore ---------------------------
(***************************************************************************)
(* The local SQLite store of cmd/thesis_demo/workspace_store.py: analysis  *)
(* snapshots, investigations with their turns, the human record of each    *)
(* investigation and the rolling allowance of assistant jobs.              *)
(*                                                                         *)
(* Every public method is one transaction taken under the store's lock     *)
(* (_db), so every method is one action.  A method that raises rolls back  *)
(* and changes nothing: it is simply not enabled.  A row that does not     *)
(* exist is a value of its own (NoSnapshot, NoRow), which keeps every      *)
(* table a total function.  Texts are values of which only the length      *)
(* matters; a digest is the text itself.                                   *)
(***************************************************************************)
EXTENDS Integers, Sequences, FiniteSets, FiniteSetsExt

CONSTANTS
    Analyses,          \* snapshot identifiers (result_id of an analysis)
    Ids,               \* investigation identifiers, uuid4: never used twice
    Keys,              \* idempotency keys chosen by clients
    Payloads,          \* packed snapshots
    Requests,          \* packed requests
    LLM,               \* the requests whose mode is not "B"
    Bodies,            \* human records without their approval
    Blank,             \* the record every investigation starts with
    Reviewable,        \* the records with an owner and a conclusion
    NONE,              \* SQL NULL, or no such row
    PayloadSize, RequestSize, BodySize,   \* lengths of the texts
    RunStatuses,       \* statuses the runner may report; "other" is unknown
    OutcomeSizes,      \* lengths a job's outcome may have
    ApprovalSize,      \* length an approval adds to a record
    MaxOutcome,        \* MAX_OUTCOME_BYTES
    RecordMargin,      \* the 32768 bytes create_investigation sets aside
    MaxTurns, MaxSnapshots, MaxInvestigations, MaxBytes, DailyJobs,
    Retention, Day,    \* retention_seconds and 86400, in ticks
    MaxClock,          \* bound on the clock, for model checking
    MaxRevision        \* bound on a record's revision, for model checking

ASSUME StoreAssumption ==
    /\ NONE \notin Analyses \cup Ids \cup Keys \cup Payloads \cup Requests
         \cup Bodies
    /\ LLM \subseteq Requests
    /\ Reviewable \subseteq Bodies
    /\ Blank \in Bodies \ Reviewable
    /\ PayloadSize \in [Payloads -> Nat]
    /\ RequestSize \in [Requests -> Nat]
    /\ BodySize \in [Bodies -> Nat]
    /\ RunStatuses \subseteq
         {"completed", "partial", "failed", "cancelled", "other"}
    /\ OutcomeSizes \subseteq Nat \ {0}
    /\ {ApprovalSize, RecordMargin, MaxSnapshots, MaxInvestigations,
        MaxBytes, DailyJobs, MaxClock, MaxRevision} \subseteq Nat
    /\ MaxOutcome \in Nat \ {0}
    /\ MaxTurns \in Nat \ {0}
    /\ Retention \in Nat \ {0}
    /\ Day \in Nat \ {0}
    /\ BodySize[Blank] <= RecordMargin

VARIABLES
    clock,             \* time.time(), assumed not to go back
    snapshots,         \* table snapshots
    investigations,    \* table investigations
    turns,             \* table investigation_turns, by investigation
    reservations,      \* table assistant_reservations
    started            \* history: every LLM job ever admitted

storeVars == <<snapshots, investigations, turns, reservations, started>>
allStoreVars == <<clock, storeVars>>

-----------------------------------------------------------------------------
(* Rows *)

ACTIVE == {"queued", "running", "cancelling"}
TERMINAL == {"completed", "partial", "failed", "cancelled", "interrupted"}

NoOutcome == [status |-> "none", bytes |-> 0]
CancelledOutcome == [status |-> "cancelled", bytes |-> 1]
FailedOutcome == [status |-> "failed", bytes |-> 1]
InterruptedOutcome == [status |-> "interrupted", bytes |-> 1]
\* What the runner may hand back, and what mode B is answered with.
RunOutcome == [status : RunStatuses \cup {"completed"}, bytes : OutcomeSizes]
JobOutcome == RunOutcome \cup {CancelledOutcome}
Outcome == JobOutcome \cup {NoOutcome, FailedOutcome, InterruptedOutcome}

NoSnapshot == [payload |-> NONE, expires |-> 0]
Snapshot == [payload : Payloads \cup {NONE}, expires : Nat]

Turn == [key : Keys, request : Requests,
         state : ACTIVE \cup TERMINAL, outcome : Outcome]
QueuedTurn(k, r) ==
    [key |-> k, request |-> r, state |-> "queued", outcome |-> NoOutcome]

NoRow(s) == [state |-> s, analysis |-> NONE, key |-> NONE, request |-> NONE,
             outcome |-> NoOutcome, body |-> Blank, approval |-> NONE,
             revision |-> 0]
QueuedRow(a, k, r) ==
    [NoRow("queued") EXCEPT !.analysis = a, !.key = k, !.request = r]
Row == [state : ACTIVE \cup TERMINAL \cup {"free", "deleted"},
        analysis : Analyses \cup {NONE}, key : Keys \cup {NONE},
        request : Requests \cup {NONE}, outcome : Outcome, body : Bodies,
        approval : Bodies \cup {NONE}, revision : Nat]

Reservation == [job : Ids \X Nat, created : Nat]

Held(a) == snapshots[a].payload # NONE
Exists(i) == investigations[i].state \in ACTIVE \cup TERMINAL
Active(i) == investigations[i].state \in ACTIVE
Last(i) == Len(turns[i])

\* get_snapshot and get_investigation: an expired row may still be stored,
\* but no reader is given it.
Unexpired(a) == Held(a) /\ snapshots[a].expires > clock
Visible(i) == Exists(i) /\ Unexpired(investigations[i].analysis)

-----------------------------------------------------------------------------
(* _purge and the foreign keys: removing snapshots removes what is theirs. *)

Expired == {a \in Analyses : Held(a) /\ snapshots[a].expires <= clock}

SnapshotsWithout(gone) ==
    [a \in Analyses |-> IF a \in gone THEN NoSnapshot ELSE snapshots[a]]
InvestigationsWithout(gone) ==
    [i \in Ids |-> IF investigations[i].analysis \in gone
                   THEN NoRow("deleted") ELSE investigations[i]]
\* Mutant: foreign keys are off and the turns stay behind.
TurnsKept(gone) == turns
TurnsWithout(gone) ==
    [i \in Ids |-> IF investigations[i].analysis \in gone
                   THEN <<>> ELSE turns[i]]
CurrentReservations == {r \in reservations : r.created > clock - Day}

(* _used: the bytes stored, and room for the outcome of each active job.   *)
RecordBytes(b, approval) ==
    BodySize[b] + (IF approval = NONE THEN 0 ELSE ApprovalSize)
TurnBytes(t) == RequestSize[t.request] + t.outcome.bytes
TurnsBytes(ts) == SumFunction([n \in DOMAIN ts |-> TurnBytes(ts[n])])
RowBytes(row, ts) ==
    RequestSize[row.request] + row.outcome.bytes
    + RecordBytes(row.body, row.approval) + TurnsBytes(ts)
    + (IF row.state \in ACTIVE THEN 2 * MaxOutcome ELSE 0)
\* What is left in use once the snapshots in gone and their rows are removed.
HeldWithout(gone) == {a \in Analyses \ gone : Held(a)}
StoredWithout(gone) == {i \in Ids : Exists(i) /\ investigations[i].analysis \notin gone}
Used(gone) ==
    SumFunction([a \in HeldWithout(gone) |-> PayloadSize[snapshots[a].payload]])
    + SumFunction([i \in StoredWithout(gone) |-> RowBytes(investigations[i], turns[i])])
HasRoom(extra, gone) == Used(gone) + extra <= MaxBytes

\* _reserve_assistant, after the purge of the same transaction.
Reserve(i, n, r) ==
    IF r \in LLM
    THEN LET new == [job |-> <<i, n>>, created |-> clock] IN
         /\ Cardinality(CurrentReservations) < DailyJobs
         /\ reservations' = CurrentReservations \cup {new}
         /\ started' = started \cup {new}
    ELSE /\ reservations' = CurrentReservations
         /\ UNCHANGED started

-----------------------------------------------------------------------------
(* The operations, one transaction each *)

Init ==
    /\ clock = 0
    /\ snapshots = [a \in Analyses |-> NoSnapshot]
    /\ investigations = [i \in Ids |-> NoRow("free")]
    /\ turns = [i \in Ids |-> <<>>]
    /\ reservations = {}
    /\ started = {}

\* The wall clock advances.
Tick ==
    /\ clock < MaxClock
    /\ clock' = clock + 1
    /\ UNCHANGED storeVars

PutSnapshot(a, p) ==
    /\ ~Unexpired(a)
    /\ Cardinality({b \in Analyses : Unexpired(b)}) < MaxSnapshots
    /\ HasRoom(PayloadSize[p], Expired)
    /\ snapshots' = [SnapshotsWithout(Expired) EXCEPT
                       ![a] = [payload |-> p, expires |-> clock + Retention]]
    /\ investigations' = InvestigationsWithout(Expired)
    /\ turns' = TurnsWithout(Expired)
    /\ reservations' = CurrentReservations
    /\ UNCHANGED <<clock, started>>

\* purge_expired; a repeated put_snapshot, create_investigation or add_turn
\* returns inside its transaction and so commits this purge, and only this.
PurgeExpired ==
    /\ snapshots' = SnapshotsWithout(Expired)
    /\ investigations' = InvestigationsWithout(Expired)
    /\ turns' = TurnsWithout(Expired)
    /\ reservations' = CurrentReservations
    /\ UNCHANGED <<clock, started>>

DeleteSnapshot(a) ==
    /\ Held(a)
    /\ snapshots' = SnapshotsWithout({a})
    /\ investigations' = InvestigationsWithout({a})
    /\ turns' = TurnsWithout({a})
    /\ UNCHANGED <<clock, reservations, started>>

\* The rows a transaction sees after its own purge.
Surviving == {i \in Ids : Exists(i) /\ investigations[i].analysis \notin Expired}

\* find_idempotent: the investigation of that key, with any request; and
\* find_turn_idempotent, which also finds what has expired.
FindIdempotent(a, k) ==
    {i \in Ids : /\ Exists(i) /\ Unexpired(a)
                 /\ investigations[i].analysis = a /\ investigations[i].key = k}
FindTurnIdempotent(i, k) == {n \in DOMAIN turns[i] : turns[i][n].key = k}

\* assistant_budget_status
RemainingJobs ==
    LET left == DailyJobs - Cardinality(CurrentReservations)
    IN  IF left < 0 THEN 0 ELSE left
NextExpiry(S) == CHOOSE t \in {r.created + Day : r \in S} : \A r \in S : t <= r.created + Day

\* create_investigation, when the key is new; i is the fresh uuid4.
CreateInvestigation(i, a, k, r) ==
    /\ investigations[i].state = "free"
    /\ Unexpired(a)
    /\ \A j \in Surviving : ~(/\ investigations[j].analysis = a
                              /\ investigations[j].key = k)
    /\ Cardinality(Surviving) < MaxInvestigations
    /\ HasRoom(2 * RequestSize[r] + 2 * MaxOutcome + RecordMargin, Expired)
    /\ Reserve(i, 1, r)
    /\ snapshots' = SnapshotsWithout(Expired)
    /\ investigations' =
         [InvestigationsWithout(Expired) EXCEPT ![i] = QueuedRow(a, k, r)]
    /\ turns' = [TurnsWithout(Expired) EXCEPT ![i] = <<QueuedTurn(k, r)>>]
    /\ UNCHANGED clock

Reopened(row) == [row EXCEPT !.state = "queued", !.outcome = NoOutcome]

\* Mutant: no room is set aside for the answer of a follow-up.
AddTurnWithoutRoom(i, k, r) ==
    /\ i \in Surviving
    /\ \A n \in DOMAIN turns[i] : turns[i][n].key # k
    /\ ~Active(i)
    /\ Last(i) + 1 <= MaxTurns
    /\ HasRoom(RequestSize[r], Expired)
    /\ Reserve(i, Last(i) + 1, r)
    /\ snapshots' = SnapshotsWithout(Expired)
    /\ investigations' =
         [InvestigationsWithout(Expired) EXCEPT
            ![i] = Reopened(investigations[i])]
    /\ turns' = [TurnsWithout(Expired) EXCEPT
                   ![i] = Append(turns[i], QueuedTurn(k, r))]
    /\ UNCHANGED clock
\* add_turn, when the key is new to the investigation.
AddTurn(i, k, r) ==
    /\ i \in Surviving
    /\ \A n \in DOMAIN turns[i] : turns[i][n].key # k
    /\ ~Active(i)
    /\ Last(i) + 1 <= MaxTurns
    /\ HasRoom(RequestSize[r] + 2 * MaxOutcome, Expired)
    /\ Reserve(i, Last(i) + 1, r)
    /\ snapshots' = SnapshotsWithout(Expired)
    /\ investigations' =
         [InvestigationsWithout(Expired) EXCEPT
            ![i] = Reopened(investigations[i])]
    /\ turns' = [TurnsWithout(Expired) EXCEPT
                   ![i] = Append(turns[i], QueuedTurn(k, r))]
    /\ UNCHANGED clock

\* COALESCE(new, old)
Coalesce(new, old) == IF new = NoOutcome THEN old ELSE new
\* What transition writes, in the investigation and again in its last turn.
Moved(entry, s, o) ==
    [entry EXCEPT !.state = s, !.outcome = Coalesce(o, entry.outcome)]
Interrupted(entry) == Moved(entry, "interrupted", InterruptedOutcome)

\* Mutant: the first turn is updated instead of the last.
TransitionOfFirstTurn(i, expected, s, o) ==
    /\ o.bytes <= MaxOutcome
    /\ IF investigations[i].state \in expected
       THEN /\ investigations' =
                 [investigations EXCEPT ![i] = Moved(investigations[i], s, o)]
            /\ turns' = [turns EXCEPT ![i] = [turns[i] EXCEPT
                            ![1] = Moved(turns[i][1], s, o)]]
       ELSE UNCHANGED <<investigations, turns>>
    /\ UNCHANGED <<clock, snapshots, reservations, started>>

\* transition: a no-op when the state is not one of those expected.
Transition(i, expected, s, o) ==
    /\ o.bytes <= MaxOutcome
    /\ IF investigations[i].state \in expected
       THEN /\ investigations' =
                 [investigations EXCEPT ![i] = Moved(investigations[i], s, o)]
            /\ turns' = [turns EXCEPT ![i] = [turns[i] EXCEPT
                            ![Last(i)] = Moved(turns[i][Last(i)], s, o)]]
       ELSE UNCHANGED <<investigations, turns>>
    /\ UNCHANGED <<clock, snapshots, reservations, started>>

\* Mutant: every turn of an interrupted investigation is swept with it.
RecoverAllTurns ==
    /\ turns' = [i \in Ids |-> [n \in DOMAIN turns[i] |->
                   IF Active(i) THEN Interrupted(turns[i][n]) ELSE turns[i][n]]]
    /\ investigations' = [i \in Ids |->
                   IF Active(i)
                   THEN Interrupted(investigations[i]) ELSE investigations[i]]
    /\ UNCHANGED <<clock, snapshots, reservations, started>>

\* recover_interrupted: rows and turns are swept by their own states.
RecoverInterrupted ==
    /\ turns' = [i \in Ids |-> [n \in DOMAIN turns[i] |->
                   IF turns[i][n].state \in ACTIVE
                   THEN Interrupted(turns[i][n]) ELSE turns[i][n]]]
    /\ investigations' = [i \in Ids |->
                   IF Active(i)
                   THEN Interrupted(investigations[i]) ELSE investigations[i]]
    /\ UNCHANGED <<clock, snapshots, reservations, started>>

\* The write itself, and the condition it is made on: the revision read.
WithRecord(row, body, approval) ==
    [row EXCEPT !.body = body, !.approval = approval,
                !.revision = row.revision + 1]
\* Mutant: the revision is not compared.
WriteRecordUnconditionally(i, rev, body, approval) ==
    /\ investigations[i].revision < MaxRevision
    /\ HasRoom(RecordBytes(body, approval), {})
    /\ investigations' = [investigations EXCEPT
                            ![i] = WithRecord(investigations[i], body, approval)]
    /\ UNCHANGED <<clock, snapshots, turns, reservations, started>>
WriteRecord(i, rev, body, approval) ==
    /\ rev = investigations[i].revision
    /\ rev < MaxRevision
    /\ HasRoom(RecordBytes(body, approval), {})
    /\ investigations' = [investigations EXCEPT
                            ![i] = WithRecord(investigations[i], body, approval)]
    /\ UNCHANGED <<clock, snapshots, turns, reservations, started>>

\* Mutant: an approval survives any edit.
SaveRecordStillApproved(i, rev, b) ==
    /\ Exists(i)
    /\ WriteRecord(i, rev, b, investigations[i].approval)
\* save_record: an approval survives only beside the record it was given to.
SaveRecord(i, rev, b) ==
    /\ Exists(i)
    /\ WriteRecord(i, rev, b, IF investigations[i].approval = b THEN b ELSE NONE)

\* review_record: the stored record, if it can be reviewed, is approved.
ReviewRecord(i, rev) ==
    LET body == investigations[i].body IN
    /\ Visible(i)
    /\ body \in Reviewable
    /\ WriteRecord(i, rev, body, body)

-----------------------------------------------------------------------------
(* The transitions the investigation worker and its clients ask for *)

\* Mutant: a job that is being cancelled can still be claimed.
ClaimJobCancelling(i) ==
    Transition(i, {"queued", "cancelling"}, "running", NoOutcome)
ClaimJob(i) == Transition(i, {"queued"}, "running", NoOutcome)
CancelJob(i) == Transition(i, {"queued", "running"}, "cancelling", NoOutcome)
FinishJob(i, o) ==
    Transition(i, {"running", "cancelling"},
               IF o.status = "other" THEN "failed" ELSE o.status, o)
FailJob(i) == Transition(i, ACTIVE, "failed", FailedOutcome)

Next ==
    \/ Tick
    \/ PurgeExpired
    \/ RecoverInterrupted
    \/ \E a \in Analyses :
         \/ DeleteSnapshot(a)
         \/ \E p \in Payloads : PutSnapshot(a, p)
         \/ \E i \in Ids, k \in Keys, r \in Requests :
              CreateInvestigation(i, a, k, r)
    \/ \E i \in Ids :
         \/ ClaimJob(i)
         \/ CancelJob(i)
         \/ FailJob(i)
         \/ \E o \in JobOutcome : FinishJob(i, o)
         \/ \E k \in Keys, r \in Requests : AddTurn(i, k, r)
         \/ \E b \in Bodies : SaveRecord(i, investigations[i].revision, b)
         \/ ReviewRecord(i, investigations[i].revision)

StoreSpec == Init /\ [][Next]_allStoreVars
-----------------------------------------------------------------------------
(* Properties *)

\* The type invariant: every table holds rows of its schema.
TypeOK ==
    /\ clock \in 0..MaxClock
    /\ snapshots \in [Analyses -> Snapshot]
    /\ investigations \in [Ids -> Row]
    /\ turns \in [Ids -> Seq(Turn)]
    /\ reservations \subseteq Reservation
    /\ started \subseteq Reservation

\* Cascades are complete: a stored investigation belongs to a stored snapshot
\* and has at least one and at most MaxTurns turns; a removed one has none.
NoOrphans ==
    \A i \in Ids :
        IF Exists(i)
        THEN /\ investigations[i].analysis \in {a \in Analyses : Held(a)}
             /\ Last(i) \in 1..MaxTurns
        ELSE turns[i] = <<>> /\ investigations[i].analysis = NONE

\* The state and the outcome are kept twice, in the investigation and in its
\* last turn, written by different statements: they never drift apart.
MirrorsLastTurn ==
    \A i \in Ids : Exists(i) =>
        /\ investigations[i].state = turns[i][Last(i)].state
        /\ investigations[i].outcome = turns[i][Last(i)].outcome

\* A turn has an answer exactly when it has ended, and only the last turn of
\* an investigation may still be open.
AnsweredIffEnded ==
    \A i \in Ids : \A n \in DOMAIN turns[i] :
        /\ (turns[i][n].outcome = NoOutcome) <=> (turns[i][n].state \in ACTIVE)
        /\ n < Last(i) => turns[i][n].state \in TERMINAL

\* The quota: capacity is checked before a job starts and its answer is
\* written much later, yet the bytes in use never exceed max_bytes.
WithinQuota == Used({}) <= MaxBytes

\* Whatever is deleted in between, no window of Day ticks sees more than
\* DailyJobs assistant jobs.
RollingAllowance ==
    Cardinality({j \in started : j.created > clock - Day}) <= DailyJobs

\* What the reads tell is what the writes go by: a key that is not found can be
\* used, and never stands for two; a first turn has the key of its investigation;
\* and as many jobs remain as no job of the last day, deleted ones included, has
\* taken, which does not change before the time that is told.
ReadsAgree ==
    /\ \A a \in Analyses, k \in Keys :
          /\ Cardinality(FindIdempotent(a, k)) <= 1
          /\ FindIdempotent(a, k) =
                {i \in Surviving : investigations[i].analysis = a /\ investigations[i].key = k}
    /\ \A i \in Ids : Exists(i) => FindTurnIdempotent(i, investigations[i].key) = {1}
    /\ LET since(t) == {j \in started : j.created > t - Day} IN
       /\ RemainingJobs = DailyJobs - Cardinality(since(clock))
       /\ CurrentReservations # {} =>
            LET t == NextExpiry(CurrentReservations) IN
            /\ since(t) # since(clock) /\ t > clock
            /\ since(t - 1) = since(clock)

\* An approval stands only beside the very record it was given to.
ApprovalMatchesRecord ==
    \A i \in Ids : investigations[i].approval \in {NONE, investigations[i].body}

\* A turn that has ended is history: nothing rewrites its question or its
\* answer, until the snapshot goes and everything goes with it.
KeepsEndedTurns ==
    \A i \in Ids : Exists(i) /\ Exists(i)' =>
        /\ Last(i) <= Last(i)'
        /\ \A n \in DOMAIN turns[i] :
             turns[i][n].state \in TERMINAL => turns'[i][n] = turns[i][n]
AnswersAreFinal == [][KeepsEndedTurns]_allStoreVars
=============================================================================
