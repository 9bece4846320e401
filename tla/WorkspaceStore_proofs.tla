----------------------- MODULE WorkspaceStore_proofs ------------------------
(***************************************************************************)
(* What holds of the workspace store for every set of analyses, clients    *)
(* and limits.  Consistent says of one investigation and its turns what    *)
(* TypeOK, NoOrphans, MirrorsLastTurn and AnsweredIffEnded say of all:     *)
(* together they are inductive, none of them is alone.  The first lemmas   *)
(* show that each way of writing an investigation keeps it consistent, the *)
(* next that every operation writes in one of these ways.                  *)
(***************************************************************************)
EXTENDS RecordEditing, SequenceTheorems, FiniteSetTheorems,
        WellFoundedInduction, TLAPS

STORED == ACTIVE \cup TERMINAL

\* An outcome is there exactly when the state is a final one.
AnsweredEntry(entry) == (entry.outcome = NoOutcome) <=> (entry.state \in ACTIVE)

\* One investigation and its turns, as the schema and transition() keep them.
Consistent(row, ts) ==
    /\ row \in Row
    /\ ts \in Seq(Turn)
    /\ \A n \in 1..Len(ts) : AnsweredEntry(ts[n])
    /\ \A n \in 1..Len(ts) : n < Len(ts) => ts[n].state \in TERMINAL
    /\ row.state \in STORED =>
         /\ Len(ts) \in 1..MaxTurns
         /\ row.state = ts[Len(ts)].state
         /\ row.outcome = ts[Len(ts)].outcome
    /\ row.state \notin STORED => ts = <<>> /\ row.analysis = NONE

\* The inductive invariant.
StoreInv ==
    /\ TypeOK
    /\ \A i \in Ids : Consistent(investigations[i], turns[i])
    /\ \A i \in Ids : Exists(i) =>
         investigations[i].analysis \in Analyses /\ Held(investigations[i].analysis)

-----------------------------------------------------------------------------
(* Values *)

\* The constants have the types the store gives them.
LEMMA ConstantTypes ==
    /\ NONE \notin Analyses /\ NONE \notin Keys /\ NONE \notin Requests
    /\ NONE \notin Bodies /\ NONE \notin Payloads /\ NONE \notin Ids
    /\ Blank \in Bodies
    /\ MaxClock \in Nat /\ DailyJobs \in Nat /\ MaxRevision \in Nat
    /\ MaxTurns \in Nat /\ MaxTurns >= 1
    /\ Retention \in Nat /\ Day \in Nat /\ Day > 0
  BY StoreAssumption

\* An active state is not final, and neither is the state of a missing row.
LEMMA StatesDisjoint ==
    /\ ACTIVE \cap TERMINAL = {}
    /\ "free" \notin STORED /\ "deleted" \notin STORED
  BY DEF ACTIVE, TERMINAL, STORED

\* Every answer a job can end with is a real outcome.
LEMMA AnswersAreOutcomes ==
    /\ NoOutcome \in Outcome
    /\ \A o \in JobOutcome \cup {FailedOutcome, InterruptedOutcome} :
         o \in Outcome /\ o # NoOutcome
  <1>1. \A o \in RunOutcome : o.bytes # 0
    BY StoreAssumption DEF RunOutcome
  <1>2. QED
    BY <1>1 DEF Outcome, JobOutcome, NoOutcome, CancelledOutcome,
         FailedOutcome, InterruptedOutcome

\* New rows are rows.
LEMMA RowTypes ==
    /\ NoSnapshot \in Snapshot
    /\ \A s \in {"free", "deleted", "queued"} : NoRow(s) \in Row
    /\ \A k \in Keys, r \in Requests : QueuedTurn(k, r) \in Turn
  <1>1. NoSnapshot \in Snapshot
    BY DEF NoSnapshot, Snapshot
  <1>2. \A k \in Keys, r \in Requests : QueuedTurn(k, r) \in Turn
    BY DEF QueuedTurn, Turn, Outcome, ACTIVE
  <1>3. \A s \in {"free", "deleted", "queued"} : NoRow(s) \in Row
    BY ConstantTypes DEF NoRow, Row, Outcome, ACTIVE
  <1>4. QED BY <1>1, <1>2, <1>3

\* A row that was never there, or is gone, has no turns.
LEMMA MissingConsistent ==
    \A s \in {"free", "deleted"} : Consistent(NoRow(s), <<>>)
  <1> TAKE s \in {"free", "deleted"}
  <1>1. NoRow(s) \in Row
    BY RowTypes
  <1>2. NoRow(s).state \notin STORED /\ NoRow(s).analysis = NONE
    BY StatesDisjoint DEF NoRow
  <1>3. <<>> \in Seq(Turn) /\ Len(<<>>) = 0
    BY EmptySeq
  <1>4. QED
    BY <1>1, <1>2, <1>3 DEF Consistent

\* create_investigation writes a consistent row.
LEMMA CreatedConsistent ==
  ASSUME NEW a \in Analyses, NEW k \in Keys, NEW r \in Requests
  PROVE  /\ Consistent(QueuedRow(a, k, r), <<QueuedTurn(k, r)>>)
         /\ QueuedRow(a, k, r).analysis = a
  <1> DEFINE row == QueuedRow(a, k, r)
             t == QueuedTurn(k, r)
             ts == <<t>>
  <1>1. row \in Row
    BY ConstantTypes DEF QueuedRow, NoRow, Row, Outcome, ACTIVE
  <1>2. row.state = "queued" /\ row.outcome = NoOutcome /\ row.analysis = a
    BY DEF QueuedRow, NoRow
  <1>3. t \in Turn /\ t.state = "queued" /\ t.outcome = NoOutcome
    BY RowTypes DEF QueuedTurn
  <1>4. "queued" \in ACTIVE /\ "queued" \in STORED
    BY DEF ACTIVE, STORED
  <1> HIDE DEF row, t
  <1>5. ts \in Seq(Turn) /\ Len(ts) = 1 /\ ts[1] = t
    BY <1>3
  <1> HIDE DEF ts
  <1>6. Consistent(row, ts)
    BY <1>1, <1>2, <1>3, <1>4, <1>5, ConstantTypes DEF Consistent, AnsweredEntry
  <1>7. QED BY <1>2, <1>6 DEF row, ts, t

\* What a move does to the two fields it is about.
LEMMA MovedFields ==
  ASSUME NEW s \in STORED, NEW o \in Outcome
  PROVE  /\ \A row \in Row : /\ Moved(row, s, o) \in Row
                             /\ Moved(row, s, o).state = s
                             /\ Moved(row, s, o).outcome = Coalesce(o, row.outcome)
                             /\ Moved(row, s, o).analysis = row.analysis
         /\ \A t \in Turn : /\ Moved(t, s, o) \in Turn
                            /\ Moved(t, s, o).state = s
                            /\ Moved(t, s, o).outcome = Coalesce(o, t.outcome)
  <1>1. s \in ACTIVE \cup TERMINAL
    BY DEF STORED
  <1>2. ASSUME NEW row \in Row
        PROVE  /\ Moved(row, s, o) \in Row
               /\ Moved(row, s, o).state = s
               /\ Moved(row, s, o).outcome = Coalesce(o, row.outcome)
               /\ Moved(row, s, o).analysis = row.analysis
    <2>1. Coalesce(o, row.outcome) \in Outcome
      BY <1>2 DEF Coalesce, Row
    <2> DEFINE c == Coalesce(o, row.outcome)
               m == [row EXCEPT !.state = s, !.outcome = c]
    <2>2. Moved(row, s, o) = m
      BY DEF Moved
    <2> HIDE DEF c
    <2>3. c \in Outcome
      BY <2>1 DEF c
    <2>4. m \in Row /\ m.state = s /\ m.outcome = c /\ m.analysis = row.analysis
      BY <1>1, <1>2, <2>3 DEF Row
    <2>5. QED BY <2>2, <2>4 DEF c
  <1>3. ASSUME NEW t \in Turn
        PROVE  /\ Moved(t, s, o) \in Turn
               /\ Moved(t, s, o).state = s
               /\ Moved(t, s, o).outcome = Coalesce(o, t.outcome)
    <2> DEFINE c == Coalesce(o, t.outcome)
               m == [t EXCEPT !.state = s, !.outcome = c]
    <2>1. c \in Outcome
      BY <1>3 DEF Coalesce, Turn
    <2>2. Moved(t, s, o) = m
      BY DEF Moved
    <2> HIDE DEF c
    <2>3. m \in Turn /\ m.state = s /\ m.outcome = c
      BY <1>1, <1>3, <2>1 DEF Turn
    <2>4. QED BY <2>2, <2>3 DEF c
  <1>4. QED BY <1>2, <1>3

\* transition, in the way its callers use it, on a job that is active:
\* without an outcome into an active state, with one into a final state.
LEMMA MovedConsistent ==
  ASSUME NEW row, NEW ts, Consistent(row, ts), row.state \in ACTIVE,
         NEW s \in STORED, NEW o \in Outcome,
         (o = NoOutcome) <=> (s \in ACTIVE)
  PROVE  Consistent(Moved(row, s, o),
                    [ts EXCEPT ![Len(ts)] = Moved(ts[Len(ts)], s, o)])
  <1> DEFINE last == Len(ts)
             t == Moved(ts[last], s, o)
             us == [ts EXCEPT ![last] = t]
  <1>1. /\ row \in Row /\ ts \in Seq(Turn) /\ last \in 1..MaxTurns
        /\ row.outcome = ts[last].outcome
        /\ row.outcome = NoOutcome
    BY DEF Consistent, STORED, AnsweredEntry
  <1>2. last \in Nat /\ ts[last] \in Turn /\ last \in 1..last
    BY <1>1, ConstantTypes
  <1>3. /\ t \in Turn /\ t.state = s /\ t.outcome = Coalesce(o, ts[last].outcome)
        /\ Moved(row, s, o) \in Row /\ Moved(row, s, o).state = s
        /\ Moved(row, s, o).outcome = Coalesce(o, row.outcome)
    <2>1. /\ Moved(row, s, o) \in Row /\ Moved(row, s, o).state = s
          /\ Moved(row, s, o).outcome = Coalesce(o, row.outcome)
      BY <1>1, MovedFields
    <2>2. ts[last] \in Turn
      BY <1>2
    <2> HIDE DEF last
    <2>3. t \in Turn /\ t.state = s /\ t.outcome = Coalesce(o, ts[last].outcome)
      BY <2>2, MovedFields
    <2>4. QED BY <2>1, <2>3
  <1>4. AnsweredEntry(t)
    BY <1>1, <1>3 DEF AnsweredEntry, Coalesce
  <1> HIDE DEF t
  <1>5. /\ us \in Seq(Turn) /\ Len(us) = last /\ us[last] = t
        /\ \A n \in 1..last : n # last => us[n] = ts[n]
    BY <1>1, <1>2, <1>3, ExceptSeq
  <1> HIDE DEF us
  <1>6. \A n \in 1..last : AnsweredEntry(us[n])
    BY <1>4, <1>5 DEF Consistent
  <1>7. \A n \in 1..last : n < last => us[n].state \in TERMINAL
    BY <1>5, <1>2 DEF Consistent
  <1>8. Consistent(Moved(row, s, o), us)
    BY <1>1, <1>3, <1>5, <1>6, <1>7 DEF Consistent
  <1>9. QED BY <1>8 DEF us, t

\* recover_interrupted, on one investigation.
LEMMA SweptConsistent ==
  ASSUME NEW row, NEW ts, Consistent(row, ts)
  PROVE  Consistent(IF row.state \in ACTIVE THEN Interrupted(row) ELSE row,
                    [n \in DOMAIN ts |-> IF ts[n].state \in ACTIVE
                                         THEN Interrupted(ts[n]) ELSE ts[n]])
  <1> DEFINE swept(e) == IF e.state \in ACTIVE THEN Interrupted(e) ELSE e
             us == [n \in DOMAIN ts |-> swept(ts[n])]
  <1>1. /\ row \in Row /\ ts \in Seq(Turn) /\ DOMAIN ts = 1..Len(ts)
        /\ Len(ts) \in Nat
    BY DEF Consistent
  <1>2. /\ "interrupted" \in TERMINAL /\ "interrupted" \in STORED
        /\ InterruptedOutcome \in Outcome /\ InterruptedOutcome # NoOutcome
        /\ \A x : Coalesce(InterruptedOutcome, x) = InterruptedOutcome
    BY AnswersAreOutcomes DEF TERMINAL, STORED, Coalesce
  <1>3. /\ swept(row) \in Row /\ swept(row).analysis = row.analysis
        /\ row.state \in ACTIVE => /\ swept(row).state = "interrupted"
                                   /\ swept(row).outcome = InterruptedOutcome
    BY <1>1, <1>2, MovedFields DEF Interrupted
  <1>4. \A t \in Turn :
          /\ swept(t) \in Turn
          /\ t.state \in ACTIVE => /\ swept(t).state = "interrupted"
                                   /\ swept(t).outcome = InterruptedOutcome
    BY <1>2, MovedFields DEF Interrupted
  <1>5. \A t \in Turn : AnsweredEntry(t) => AnsweredEntry(swept(t))
    BY <1>2, <1>4, StatesDisjoint DEF AnsweredEntry
  <1>6. row.state \notin ACTIVE => swept(row) = row
    OBVIOUS
  <1>7. \A n \in 1..Len(ts) : ts[n] \in Turn
    BY <1>1
  <1>8. \A t : t.state \notin ACTIVE => swept(t) = t
    OBVIOUS
  <1> HIDE DEF swept
  <1>9. us \in Seq(Turn) /\ Len(us) = Len(ts) /\ \A n \in 1..Len(ts) : us[n] = swept(ts[n])
    BY <1>1, <1>4, <1>7
  <1> HIDE DEF us
  <1>10. \A n \in 1..Len(ts) : AnsweredEntry(us[n])
    BY <1>5, <1>7, <1>9 DEF Consistent
  <1>11. \A n \in 1..Len(ts) : n < Len(ts) => us[n].state \in TERMINAL
    BY <1>8, <1>9, StatesDisjoint DEF Consistent
  <1>12. row.state \in STORED =>
           /\ Len(ts) \in 1..MaxTurns
           /\ swept(row).state = us[Len(ts)].state
           /\ swept(row).outcome = us[Len(ts)].outcome
    <2> SUFFICES ASSUME row.state \in STORED PROVE
           /\ Len(ts) \in 1..MaxTurns
           /\ swept(row).state = us[Len(ts)].state
           /\ swept(row).outcome = us[Len(ts)].outcome
      OBVIOUS
    <2>1. /\ Len(ts) \in 1..MaxTurns /\ row.state = ts[Len(ts)].state
          /\ row.outcome = ts[Len(ts)].outcome
      BY DEF Consistent
    <2>2. Len(ts) \in 1..Len(ts)
      BY <2>1, <1>1
    <2>3. ts[Len(ts)] \in Turn /\ us[Len(ts)] = swept(ts[Len(ts)])
      BY <2>2, <1>7, <1>9
    <2>4. CASE row.state \in ACTIVE
      BY <2>1, <2>3, <2>4, <1>3, <1>4
    <2>5. CASE row.state \notin ACTIVE
      BY <2>1, <2>3, <2>5, <1>6, <1>8
    <2>6. QED BY <2>4, <2>5
  <1>13. row.state \notin STORED => us = <<>> /\ swept(row).analysis = NONE
    BY <1>3, <1>9 DEF Consistent
  <1>14. row.state \in STORED <=> swept(row).state \in STORED
    BY <1>2, <1>3, <1>6 DEF STORED
  <1>15. Consistent(swept(row), us)
    BY <1>3, <1>9, <1>10, <1>11, <1>12, <1>13, <1>14 DEF Consistent
  <1>16. QED BY <1>15 DEF swept, us

-----------------------------------------------------------------------------
(* Operations *)

\* The store starts empty.
LEMMA StoreInvInit == Init => StoreInv
  <1> SUFFICES ASSUME Init PROVE StoreInv
    OBVIOUS
  <1>1. TypeOK
    BY RowTypes, ConstantTypes DEF Init, TypeOK
  <1>2. \A i \in Ids : Consistent(investigations[i], turns[i])
    BY MissingConsistent DEF Init
  <1>3. \A i \in Ids : ~Exists(i)
    BY StatesDisjoint DEF Init, Exists, STORED, NoRow
  <1>4. QED
    BY <1>1, <1>2, <1>3 DEF StoreInv

\* Removing snapshots with what is theirs leaves consistent investigations
\* of snapshots that are still held.
LEMMA RemovedConsistent ==
  ASSUME StoreInv, NEW gone \in SUBSET Analyses
  PROVE  /\ SnapshotsWithout(gone) \in [Analyses -> Snapshot]
         /\ InvestigationsWithout(gone) \in [Ids -> Row]
         /\ TurnsWithout(gone) \in [Ids -> Seq(Turn)]
         /\ CurrentReservations \subseteq Reservation
         /\ \A i \in Ids :
              /\ Consistent(InvestigationsWithout(gone)[i], TurnsWithout(gone)[i])
              /\ InvestigationsWithout(gone)[i].state \in STORED =>
                   /\ InvestigationsWithout(gone)[i] = investigations[i]
                   /\ TurnsWithout(gone)[i] = turns[i]
                   /\ Exists(i)
                   /\ investigations[i].analysis \in Analyses \ gone
                   /\ SnapshotsWithout(gone)[investigations[i].analysis]
                         = snapshots[investigations[i].analysis]
                   /\ Held(investigations[i].analysis)
  <1>1. /\ SnapshotsWithout(gone) \in [Analyses -> Snapshot]
        /\ InvestigationsWithout(gone) \in [Ids -> Row]
        /\ TurnsWithout(gone) \in [Ids -> Seq(Turn)]
        /\ CurrentReservations \subseteq Reservation
    BY RowTypes, EmptySeq DEF StoreInv, TypeOK, SnapshotsWithout,
         InvestigationsWithout, TurnsWithout, CurrentReservations
  <1>2. ASSUME NEW i \in Ids
        PROVE  Consistent(InvestigationsWithout(gone)[i], TurnsWithout(gone)[i])
    BY MissingConsistent DEF StoreInv, InvestigationsWithout, TurnsWithout
  <1>3. ASSUME NEW i \in Ids, InvestigationsWithout(gone)[i].state \in STORED
        PROVE  /\ InvestigationsWithout(gone)[i] = investigations[i]
               /\ TurnsWithout(gone)[i] = turns[i]
               /\ investigations[i].analysis \notin gone
               /\ Exists(i)
    <2>1. NoRow("deleted").state \notin STORED
      BY StatesDisjoint DEF NoRow
    <2>2. investigations[i].analysis \notin gone
      BY <1>3, <2>1 DEF InvestigationsWithout
    <2>3. QED
      BY <1>3, <2>2 DEF InvestigationsWithout, TurnsWithout, Exists, STORED
  <1>4. QED
    BY <1>1, <1>2, <1>3 DEF StoreInv, SnapshotsWithout

\* What is still there after a removal belongs to a snapshot still held.
LEMMA RemovedHeld ==
  ASSUME StoreInv, NEW gone \in SUBSET Analyses
  PROVE  \A j \in Ids : InvestigationsWithout(gone)[j].state \in STORED =>
           /\ InvestigationsWithout(gone)[j].analysis \in Analyses
           /\ SnapshotsWithout(gone)[InvestigationsWithout(gone)[j].analysis].payload
                # NONE
  BY RemovedConsistent DEF Held

\* The purge and the deletion of a snapshot.
LEMMA RemoveKeepsInv ==
  ASSUME StoreInv, NEW gone \in SUBSET Analyses,
         snapshots' = SnapshotsWithout(gone),
         investigations' = InvestigationsWithout(gone),
         turns' = TurnsWithout(gone),
         reservations' \subseteq Reservation,
         UNCHANGED <<clock, started>>
  PROVE  StoreInv'
  <1>1. TypeOK'
    BY RemovedConsistent DEF StoreInv, TypeOK
  <1>2. \A i \in Ids : Consistent(investigations'[i], turns'[i])
    BY RemovedConsistent
  <1>3. \A i \in Ids : investigations'[i].state \in STORED =>
          /\ investigations'[i].analysis \in Analyses
          /\ snapshots'[investigations'[i].analysis].payload # NONE
    BY RemovedConsistent DEF Held
  <1>4. QED
    BY <1>1, <1>2, <1>3 DEF StoreInv, Exists, Held, STORED

\* Storing a snapshot: the purge, and a new row that was not held before.
LEMMA PutKeepsInv ==
  ASSUME StoreInv, NEW a \in Analyses, NEW p \in Payloads, PutSnapshot(a, p)
  PROVE  StoreInv'
  <1> DEFINE new == [payload |-> p, expires |-> clock + Retention]
  <1>1. Expired \in SUBSET Analyses
    BY DEF Expired
  <1>2. new \in Snapshot /\ new.payload # NONE
    BY ConstantTypes DEF StoreInv, TypeOK, Snapshot
  <1> HIDE DEF new
  <1>3. snapshots' = [SnapshotsWithout(Expired) EXCEPT ![a] = new]
    BY DEF PutSnapshot, new
  <1>4. TypeOK'
    BY <1>1, <1>2, <1>3, RemovedConsistent
       DEF StoreInv, TypeOK, PutSnapshot
  <1>5. \A i \in Ids : Consistent(investigations'[i], turns'[i])
    BY <1>1, RemovedConsistent DEF PutSnapshot
  <1>6. \A i \in Ids : investigations'[i].state \in STORED =>
          /\ investigations'[i].analysis \in Analyses
          /\ snapshots'[investigations'[i].analysis].payload # NONE
    BY <1>1, <1>2, <1>3, RemovedConsistent DEF PutSnapshot, Held
  <1>7. QED
    BY <1>4, <1>5, <1>6 DEF StoreInv, Exists, Held, STORED

\* Reserving writes reservations only.
LEMMA ReserveType ==
  ASSUME StoreInv, NEW i \in Ids, NEW n \in Nat, NEW r \in Requests,
         Reserve(i, n, r)
  PROVE  reservations' \subseteq Reservation /\ started' \subseteq Reservation
  <1>1. [job |-> <<i, n>>, created |-> clock] \in Reservation
    BY ConstantTypes DEF StoreInv, TypeOK, Reservation
  <1>2. CurrentReservations \subseteq Reservation /\ started \subseteq Reservation
    BY DEF StoreInv, TypeOK, CurrentReservations
  <1>3. QED
    BY <1>1, <1>2 DEF Reserve

\* A new investigation.
LEMMA CreateKeepsInv ==
  ASSUME StoreInv, NEW i \in Ids, NEW a \in Analyses, NEW k \in Keys,
         NEW r \in Requests, CreateInvestigation(i, a, k, r)
  PROVE  StoreInv'
  <1> DEFINE row == QueuedRow(a, k, r)
             ts == <<QueuedTurn(k, r)>>
  <1>1. Expired \in SUBSET Analyses /\ a \notin Expired /\ Held(a)
    BY DEF Expired, CreateInvestigation, Unexpired, StoreInv, TypeOK, Snapshot
  <1>2. Consistent(row, ts) /\ row.analysis = a
    BY CreatedConsistent
  <1>3. /\ investigations' = [InvestigationsWithout(Expired) EXCEPT ![i] = row]
        /\ turns' = [TurnsWithout(Expired) EXCEPT ![i] = ts]
        /\ snapshots' = SnapshotsWithout(Expired)
        /\ UNCHANGED clock
    BY DEF CreateInvestigation
  <1>4. reservations' \subseteq Reservation /\ started' \subseteq Reservation
    BY ReserveType DEF CreateInvestigation
  <1> HIDE DEF row, ts
  <1>5. TypeOK'
    BY <1>1, <1>2, <1>3, <1>4, RemovedConsistent
       DEF StoreInv, TypeOK, Consistent
  <1>6. \A j \in Ids : Consistent(investigations'[j], turns'[j])
    BY <1>1, <1>2, <1>3, RemovedConsistent DEF InvestigationsWithout, TurnsWithout
  <1>7. SnapshotsWithout(Expired)[a] = snapshots[a]
    BY <1>1 DEF SnapshotsWithout
  <1>8. \A j \in Ids : investigations'[j].state \in STORED =>
          /\ investigations'[j].analysis \in Analyses
          /\ snapshots'[investigations'[j].analysis].payload # NONE
    <2>1. /\ investigations'[i].analysis \in Analyses
          /\ snapshots'[investigations'[i].analysis].payload # NONE
      BY <1>1, <1>2, <1>3, <1>7 DEF Held, InvestigationsWithout
    <2>2. \A j \in Ids \ {i} : investigations'[j] = InvestigationsWithout(Expired)[j]
      BY <1>3 DEF InvestigationsWithout
    <2>3. \A j \in Ids \ {i} : investigations'[j].state \in STORED =>
            /\ investigations'[j].analysis \in Analyses
            /\ snapshots'[investigations'[j].analysis].payload # NONE
      BY <1>1, <1>3, <2>2, RemovedHeld
    <2>4. QED BY <2>1, <2>3
  <1>9. QED
    BY <1>5, <1>6, <1>8 DEF StoreInv, Exists, Held, STORED

\* The next turn of an investigation that is not active.
LEMMA ReopenedConsistent ==
  ASSUME NEW row, NEW ts, Consistent(row, ts), row.state \in TERMINAL,
         Len(ts) + 1 <= MaxTurns, NEW k \in Keys, NEW r \in Requests
  PROVE  /\ Consistent(Reopened(row), Append(ts, QueuedTurn(k, r)))
         /\ Reopened(row).analysis = row.analysis
  <1> DEFINE t == QueuedTurn(k, r)
             us == Append(ts, t)
             new == Reopened(row)
  <1>1. /\ row \in Row /\ ts \in Seq(Turn) /\ Len(ts) \in 1..MaxTurns
        /\ row.state = ts[Len(ts)].state
    BY DEF Consistent, STORED
  <1>2. t \in Turn /\ t.state = "queued" /\ t.outcome = NoOutcome
    BY RowTypes DEF QueuedTurn
  <1>3. /\ new \in Row /\ new.analysis = row.analysis
        /\ new.state = "queued" /\ new.outcome = NoOutcome
    BY <1>1 DEF Reopened, Row, ACTIVE, Outcome
  <1>4. "queued" \in ACTIVE /\ "queued" \in STORED
    BY DEF ACTIVE, STORED
  <1> HIDE DEF t, new
  <1>5. /\ us \in Seq(Turn) /\ Len(us) = Len(ts) + 1 /\ us[Len(us)] = t
        /\ \A n \in 1..Len(ts) : us[n] = ts[n]
    BY <1>1, <1>2
  <1> HIDE DEF us
  <1>6. \A n \in 1..Len(us) : n \in 1..Len(ts) \/ n = Len(us)
    BY <1>1, <1>5, ConstantTypes
  <1>7. \A n \in 1..Len(us) : AnsweredEntry(us[n])
    BY <1>2, <1>4, <1>5, <1>6 DEF Consistent, AnsweredEntry
  <1>8. \A n \in 1..Len(us) : n < Len(us) => us[n].state \in TERMINAL
    <2> TAKE n \in 1..Len(us)
    <2> HAVE n < Len(us)
    <2>1. n \in 1..Len(ts) /\ us[n] = ts[n]
      BY <1>5, <1>6
    <2>2. CASE n = Len(ts)
      BY <1>1, <2>1, <2>2
    <2>3. CASE n # Len(ts)
      BY <1>1, <2>1, <2>3, ConstantTypes DEF Consistent
    <2>4. QED BY <2>2, <2>3
  <1>9. Len(us) \in 1..MaxTurns
    BY <1>1, <1>5, ConstantTypes
  <1>10. Consistent(new, us)
    BY <1>2, <1>3, <1>4, <1>5, <1>7, <1>8, <1>9 DEF Consistent
  <1>11. QED BY <1>3, <1>10 DEF new, us, t

\* A follow-up question, which copies the open turn into the investigation record,
\* keeps every mirrored field equal to that turn.
LEMMA AddTurnKeepsInv ==
  ASSUME StoreInv, NEW i \in Ids, NEW k \in Keys, NEW r \in Requests,
         AddTurn(i, k, r)
  PROVE  StoreInv'
  <1> DEFINE row == Reopened(investigations[i])
             ts == Append(turns[i], QueuedTurn(k, r))
  <1>1. /\ Expired \in SUBSET Analyses
        /\ investigations[i].state \in TERMINAL
        /\ investigations[i].analysis \notin Expired
        /\ investigations[i].analysis \in Analyses
        /\ Held(investigations[i].analysis)
        /\ Last(i) \in Nat /\ Last(i) + 1 \in Nat /\ Last(i) + 1 <= MaxTurns
    BY DEF AddTurn, Expired, Surviving, Exists, Active, StoreInv, TypeOK, Last
  <1>2. Consistent(row, ts) /\ row.analysis = investigations[i].analysis
    BY <1>1, ReopenedConsistent DEF StoreInv, Last
  <1>3. /\ investigations' = [InvestigationsWithout(Expired) EXCEPT ![i] = row]
        /\ turns' = [TurnsWithout(Expired) EXCEPT ![i] = ts]
        /\ snapshots' = SnapshotsWithout(Expired)
        /\ UNCHANGED clock
    BY DEF AddTurn
  <1>4. reservations' \subseteq Reservation /\ started' \subseteq Reservation
    BY <1>1, ReserveType DEF AddTurn
  <1> HIDE DEF row, ts
  <1>5. TypeOK'
    BY <1>1, <1>2, <1>3, <1>4, RemovedConsistent
       DEF StoreInv, TypeOK, Consistent
  <1>6. \A j \in Ids : Consistent(investigations'[j], turns'[j])
    BY <1>1, <1>2, <1>3, RemovedConsistent DEF InvestigationsWithout, TurnsWithout
  <1>7. SnapshotsWithout(Expired)[investigations[i].analysis]
          = snapshots[investigations[i].analysis]
    BY <1>1 DEF SnapshotsWithout
  <1>8. \A j \in Ids : investigations'[j].state \in STORED =>
          /\ investigations'[j].analysis \in Analyses
          /\ snapshots'[investigations'[j].analysis].payload # NONE
    <2>1. /\ investigations'[i].analysis \in Analyses
          /\ snapshots'[investigations'[i].analysis].payload # NONE
      BY <1>1, <1>2, <1>3, <1>7 DEF Held, InvestigationsWithout
    <2>2. \A j \in Ids \ {i} : investigations'[j] = InvestigationsWithout(Expired)[j]
      BY <1>3 DEF InvestigationsWithout
    <2>3. \A j \in Ids \ {i} : investigations'[j].state \in STORED =>
            /\ investigations'[j].analysis \in Analyses
            /\ snapshots'[investigations'[j].analysis].payload # NONE
      BY <1>1, <1>3, <2>2, RemovedHeld
    <2>4. QED BY <2>1, <2>3
  <1>9. QED
    BY <1>5, <1>6, <1>8 DEF StoreInv, Exists, Held, STORED

\* transition, for the moves its callers ask for.
LEMMA TransitionKeepsInv ==
  ASSUME StoreInv, NEW i \in Ids, NEW expected \in SUBSET ACTIVE,
         NEW s \in STORED, NEW o \in Outcome,
         (o = NoOutcome) <=> (s \in ACTIVE),
         Transition(i, expected, s, o)
  PROVE  StoreInv'
  <1>1. CASE investigations[i].state \notin expected
    <2>1. UNCHANGED <<clock, snapshots, investigations, turns, reservations, started>>
      BY <1>1 DEF Transition
    <2>2. QED
      BY <2>1 DEF StoreInv, TypeOK, Exists, Held
  <1>2. CASE investigations[i].state \in expected
    <2> DEFINE row == Moved(investigations[i], s, o)
               ts == [turns[i] EXCEPT ![Last(i)] = Moved(turns[i][Last(i)], s, o)]
    <2>1. /\ investigations[i].state \in ACTIVE /\ Exists(i)
          /\ investigations[i] \in Row
      BY <1>2 DEF Exists, StoreInv, TypeOK
    <2>2. Consistent(row, ts)
      BY <2>1, MovedConsistent DEF StoreInv, Last
    <2>3. row.analysis = investigations[i].analysis
      BY <2>1, MovedFields
    <2>4. /\ investigations' = [investigations EXCEPT ![i] = row]
          /\ turns' = [turns EXCEPT ![i] = ts]
          /\ UNCHANGED <<clock, snapshots, reservations, started>>
      BY <1>2 DEF Transition
    <2> HIDE DEF row, ts
    <2>5. TypeOK'
      BY <2>2, <2>4 DEF StoreInv, TypeOK, Consistent
    <2>6. \A j \in Ids : Consistent(investigations'[j], turns'[j])
      BY <2>2, <2>4 DEF StoreInv, TypeOK
    <2>7. \A j \in Ids : investigations'[j].state \in STORED =>
            /\ investigations'[j].analysis \in Analyses
            /\ snapshots'[investigations'[j].analysis].payload # NONE
      BY <2>1, <2>3, <2>4 DEF StoreInv, TypeOK, Exists, Held, STORED
    <2>8. QED
      BY <2>5, <2>6, <2>7 DEF StoreInv, Exists, Held, STORED
  <1>3. QED BY <1>1, <1>2

\* recover_interrupted.
LEMMA RecoverKeepsInv ==
  ASSUME StoreInv, RecoverInterrupted
  PROVE  StoreInv'
  <1>1. \A i \in Ids : Consistent(investigations'[i], turns'[i])
    BY SweptConsistent DEF StoreInv, RecoverInterrupted, Active
  <1>2. /\ investigations' \in [Ids -> Row]
        /\ turns' \in [Ids -> Seq(Turn)]
    <2>1. DOMAIN investigations' = Ids /\ investigations' = [i \in Ids |-> investigations'[i]]
      BY DEF RecoverInterrupted
    <2>2. DOMAIN turns' = Ids /\ turns' = [i \in Ids |-> turns'[i]]
      BY DEF RecoverInterrupted
    <2>3. QED BY <1>1, <2>1, <2>2 DEF Consistent
  <1>3. UNCHANGED <<clock, snapshots, reservations, started>>
    BY DEF RecoverInterrupted
  <1>4. TypeOK'
    BY <1>2, <1>3 DEF StoreInv, TypeOK
  <1>5. \A i \in Ids : investigations'[i].state \in STORED =>
          Exists(i) /\ investigations'[i].analysis = investigations[i].analysis
    <2> TAKE i \in Ids
    <2>1. investigations[i] \in Row
      BY DEF StoreInv, TypeOK
    <2>2. CASE Active(i)
      <3>1. investigations'[i] = Interrupted(investigations[i])
        BY <2>2 DEF RecoverInterrupted
      <3>2. Interrupted(investigations[i]).analysis = investigations[i].analysis
        BY <2>1, MovedFields, AnswersAreOutcomes DEF Interrupted, STORED, TERMINAL
      <3>3. QED BY <2>2, <3>1, <3>2 DEF Active, Exists
    <2>3. CASE ~Active(i)
      BY <2>3 DEF RecoverInterrupted, Exists, STORED
    <2>4. QED BY <2>2, <2>3
  <1>6. QED
    BY <1>1, <1>3, <1>4, <1>5 DEF StoreInv, Exists, Held, STORED

\* What writing a record does to a row.
LEMMA WithRecordFields ==
  ASSUME NEW row \in Row, NEW body \in Bodies, NEW approval \in Bodies \cup {NONE}
  PROVE  /\ WithRecord(row, body, approval) \in Row
         /\ WithRecord(row, body, approval).state = row.state
         /\ WithRecord(row, body, approval).analysis = row.analysis
         /\ WithRecord(row, body, approval).outcome = row.outcome
  <1> DEFINE next == row.revision + 1
  <1>1. next \in Nat
    BY DEF Row
  <1> HIDE DEF next
  <1>2. WithRecord(row, body, approval) =
          [row EXCEPT !.body = body, !.approval = approval, !.revision = next]
    BY DEF WithRecord, next
  <1>3. QED BY <1>1, <1>2 DEF Row

\* Writing a record leaves the job alone.
LEMMA WriteRecordKeepsInv ==
  ASSUME StoreInv, NEW i \in Ids, NEW rev, NEW body \in Bodies,
         NEW approval \in Bodies \cup {NONE}, Exists(i),
         WriteRecord(i, rev, body, approval)
  PROVE  StoreInv'
  <1> DEFINE row == WithRecord(investigations[i], body, approval)
  <1>1. investigations[i] \in Row
    BY DEF StoreInv, TypeOK
  <1>2. /\ row \in Row /\ row.state = investigations[i].state
        /\ row.analysis = investigations[i].analysis
        /\ row.outcome = investigations[i].outcome
    BY <1>1, WithRecordFields
  <1>3. /\ investigations' = [investigations EXCEPT ![i] = row]
        /\ UNCHANGED <<clock, snapshots, turns, reservations, started>>
    BY DEF WriteRecord
  <1> HIDE DEF row
  <1>4. Consistent(row, turns[i])
    BY <1>2 DEF StoreInv, Consistent
  <1>5. TypeOK'
    BY <1>2, <1>3 DEF StoreInv, TypeOK
  <1>6. \A j \in Ids : Consistent(investigations'[j], turns'[j])
    BY <1>3, <1>4 DEF StoreInv, TypeOK
  <1>7. \A j \in Ids : investigations'[j].state \in STORED =>
          /\ investigations'[j].analysis \in Analyses
          /\ snapshots'[investigations'[j].analysis].payload # NONE
    BY <1>2, <1>3 DEF StoreInv, TypeOK, Exists, Held, STORED
  <1>8. QED
    BY <1>5, <1>6, <1>7 DEF StoreInv, Exists, Held, STORED

\* Every operation of the store keeps the invariant.
LEMMA StoreInvStep ==
  ASSUME StoreInv, [Next]_allStoreVars
  PROVE  StoreInv'
  <1>1. CASE Tick
    BY <1>1, ConstantTypes DEF Tick, storeVars, StoreInv, TypeOK, Exists, Held
  <1>2. CASE PurgeExpired
    <2>1. Expired \in SUBSET Analyses
      BY DEF Expired
    <2>2. QED BY <1>2, <2>1, RemoveKeepsInv, RemovedConsistent DEF PurgeExpired
  <1>3. CASE RecoverInterrupted
    BY <1>3, RecoverKeepsInv
  <1>4. ASSUME NEW a \in Analyses, DeleteSnapshot(a) PROVE StoreInv'
    BY <1>4, RemoveKeepsInv DEF DeleteSnapshot, StoreInv, TypeOK
  <1>5. ASSUME NEW a \in Analyses, NEW p \in Payloads, PutSnapshot(a, p)
        PROVE  StoreInv'
    BY <1>5, PutKeepsInv
  <1>6. ASSUME NEW a \in Analyses, NEW i \in Ids, NEW k \in Keys,
               NEW r \in Requests, CreateInvestigation(i, a, k, r)
        PROVE  StoreInv'
    BY <1>6, CreateKeepsInv
  <1>7. ASSUME NEW i \in Ids, NEW k \in Keys, NEW r \in Requests, AddTurn(i, k, r)
        PROVE  StoreInv'
    BY <1>7, AddTurnKeepsInv
  <1>8. ASSUME NEW i \in Ids, ClaimJob(i) \/ CancelJob(i) PROVE StoreInv'
    BY <1>8, TransitionKeepsInv, AnswersAreOutcomes
       DEF ClaimJob, CancelJob, ACTIVE, STORED
  <1>9. ASSUME NEW i \in Ids, FailJob(i) PROVE StoreInv'
    <2>1. "failed" \in STORED /\ "failed" \notin ACTIVE
      BY DEF STORED, TERMINAL, ACTIVE
    <2>2. QED BY <1>9, <2>1, TransitionKeepsInv, AnswersAreOutcomes DEF FailJob
  <1>10. ASSUME NEW i \in Ids, NEW o \in JobOutcome, FinishJob(i, o) PROVE StoreInv'
    <2> DEFINE s == IF o.status = "other" THEN "failed" ELSE o.status
    <2>1. o.status \in {"completed", "partial", "failed", "cancelled", "other"}
      <3>1. RunStatuses \subseteq {"completed", "partial", "failed", "cancelled", "other"}
        BY StoreAssumption
      <3>2. CASE o \in RunOutcome
        BY <3>1, <3>2 DEF RunOutcome
      <3>3. CASE o = CancelledOutcome
        BY <3>3 DEF CancelledOutcome
      <3>4. QED BY <3>2, <3>3 DEF JobOutcome
    <2>2. s \in TERMINAL /\ s \in STORED /\ s \notin ACTIVE
      BY <2>1 DEF TERMINAL, STORED, ACTIVE
    <2>3. o \in Outcome /\ o # NoOutcome
      BY AnswersAreOutcomes
    <2>4. {"running", "cancelling"} \in SUBSET ACTIVE
      BY DEF ACTIVE
    <2> HIDE DEF s
    <2>5. Transition(i, {"running", "cancelling"}, s, o)
      BY <1>10 DEF FinishJob, s
    <2>6. QED BY <2>2, <2>3, <2>4, <2>5, TransitionKeepsInv
  <1>11. ASSUME NEW i \in Ids, NEW b \in Bodies,
                SaveRecord(i, investigations[i].revision, b)
         PROVE  StoreInv'
    <2> DEFINE approval == IF investigations[i].approval = b THEN b ELSE NONE
    <2>1. approval \in Bodies \cup {NONE}
      OBVIOUS
    <2> HIDE DEF approval
    <2>2. Exists(i) /\ WriteRecord(i, investigations[i].revision, b, approval)
      BY <1>11 DEF SaveRecord, approval
    <2>3. QED BY <2>1, <2>2, WriteRecordKeepsInv
  <1>12. ASSUME NEW i \in Ids, ReviewRecord(i, investigations[i].revision)
         PROVE  StoreInv'
    <2>1. investigations[i].body \in Bodies
      BY DEF StoreInv, TypeOK, Row
    <2>2. QED BY <1>12, <2>1, WriteRecordKeepsInv DEF ReviewRecord, Visible
  <1>13. CASE UNCHANGED allStoreVars
    BY <1>13 DEF allStoreVars, storeVars, StoreInv, TypeOK, Exists, Held
  <1>14. QED
    BY <1>1, <1>2, <1>3, <1>4, <1>5, <1>6, <1>7, <1>8, <1>9, <1>10, <1>11,
       <1>12, <1>13 DEF Next

\* StoreInv says no less than the properties the runs check.
LEMMA StoreInvMeans ==
  StoreInv => TypeOK /\ NoOrphans /\ MirrorsLastTurn /\ AnsweredIffEnded
  <1> SUFFICES ASSUME StoreInv
               PROVE  TypeOK /\ NoOrphans /\ MirrorsLastTurn /\ AnsweredIffEnded
    OBVIOUS
  <1>1. TypeOK
    BY DEF StoreInv
  <1>2. NoOrphans
    BY DEF StoreInv, NoOrphans, Consistent, Exists, STORED, Last
  <1>3. MirrorsLastTurn
    BY DEF StoreInv, MirrorsLastTurn, Consistent, Exists, STORED, Last
  <1>4. AnsweredIffEnded
    BY DEF StoreInv, AnsweredIffEnded, Consistent, AnsweredEntry, Last
  <1>5. QED BY <1>1, <1>2, <1>3, <1>4

\* The tables of the store stay consistent with each other, whatever the
\* operations, their order and the limits.
THEOREM StoreConsistent ==
  StoreSpec => [](TypeOK /\ NoOrphans /\ MirrorsLastTurn /\ AnsweredIffEnded)
  <1>1. StoreSpec => []StoreInv
    BY StoreInvInit, StoreInvStep, PTL DEF StoreSpec
  <1>2. QED
    BY <1>1, StoreInvMeans, PTL

-----------------------------------------------------------------------------
(* Approvals *)

\* An approval is kept or dropped with the record it stands beside.
LEMMA ApprovalKept ==
  ASSUME NEW row \in Row, row.approval \in {NONE, row.body}
  PROVE  /\ Reopened(row).approval \in {NONE, Reopened(row).body}
         /\ \A s, o : Moved(row, s, o).approval \in {NONE, Moved(row, s, o).body}
         /\ \A b, rev : LET approval == IF row.approval = b THEN b ELSE NONE
                            new == WithRecord(row, b, approval)
                        IN  new.approval \in {NONE, new.body}
         /\ LET new == WithRecord(row, row.body, row.body)
            IN  new.approval \in {NONE, new.body}
  BY DEF Reopened, Moved, WithRecord, Row

\* New and removed rows have no approval.
LEMMA NoApproval ==
    /\ \A s : NoRow(s).approval = NONE
    /\ \A a, k, r : QueuedRow(a, k, r).approval = NONE
  BY DEF NoRow, QueuedRow

\* Every operation keeps approvals beside the records they were given to.
LEMMA ApprovalStep ==
  ASSUME StoreInv, ApprovalMatchesRecord, [Next]_allStoreVars
  PROVE  ApprovalMatchesRecord'
  <1> DEFINE Good(row) == row.approval \in {NONE, row.body}
  <1> SUFFICES \A i \in Ids : Good(investigations'[i])
    BY DEF ApprovalMatchesRecord
  <1>1. /\ investigations \in [Ids -> Row]
        /\ \A i \in Ids : investigations[i] \in Row /\ Good(investigations[i])
    BY DEF StoreInv, TypeOK, ApprovalMatchesRecord
  <1>2. \A gone : \A i \in Ids : Good(InvestigationsWithout(gone)[i])
    BY <1>1, NoApproval DEF InvestigationsWithout
  <1>3. \A i \in Ids : \A s, o : Good(Moved(investigations[i], s, o))
    BY <1>1, ApprovalKept
  <1>4. ASSUME NEW a \in Analyses, NEW i \in Ids, NEW k \in Keys,
               NEW r \in Requests, CreateInvestigation(i, a, k, r)
        PROVE  \A j \in Ids : Good(investigations'[j])
    <2>1. Good(QueuedRow(a, k, r))
      BY NoApproval
    <2>2. investigations' =
            [InvestigationsWithout(Expired) EXCEPT ![i] = QueuedRow(a, k, r)]
      BY <1>4 DEF CreateInvestigation
    <2> HIDE DEF Good
    <2>3. QED BY <1>2, <2>1, <2>2 DEF InvestigationsWithout
  <1>5. ASSUME NEW i \in Ids, NEW k \in Keys, NEW r \in Requests, AddTurn(i, k, r)
        PROVE  \A j \in Ids : Good(investigations'[j])
    <2>1. Good(Reopened(investigations[i]))
      BY <1>1, ApprovalKept
    <2>2. investigations' = [InvestigationsWithout(Expired) EXCEPT
                               ![i] = Reopened(investigations[i])]
      BY <1>5 DEF AddTurn
    <2> HIDE DEF Good
    <2>3. QED BY <1>2, <2>1, <2>2 DEF InvestigationsWithout
  <1>6. ASSUME NEW i \in Ids, NEW expected, NEW s, NEW o, Transition(i, expected, s, o)
        PROVE  \A j \in Ids : Good(investigations'[j])
    <2>1. \/ investigations' = investigations
          \/ investigations' =
               [investigations EXCEPT ![i] = Moved(investigations[i], s, o)]
      BY <1>6 DEF Transition
    <2> HIDE DEF Good
    <2>2. QED BY <1>1, <1>3, <2>1
  <1>7. CASE RecoverInterrupted
    <2>1. investigations' = [i \in Ids |-> IF Active(i)
                               THEN Interrupted(investigations[i])
                               ELSE investigations[i]]
      BY <1>7 DEF RecoverInterrupted
    <2>2. \A i \in Ids : Good(Interrupted(investigations[i]))
      BY <1>3 DEF Interrupted
    <2> HIDE DEF Good
    <2>3. QED BY <1>1, <2>1, <2>2
  <1>8. ASSUME NEW i \in Ids, NEW b, NEW rev, SaveRecord(i, rev, b)
        PROVE  \A j \in Ids : Good(investigations'[j])
    <2> DEFINE new == WithRecord(investigations[i], b,
                          IF investigations[i].approval = b THEN b ELSE NONE)
    <2>1. Good(new)
      BY <1>1, ApprovalKept
    <2>2. investigations' = [investigations EXCEPT ![i] = new]
      BY <1>8 DEF SaveRecord, WriteRecord
    <2> HIDE DEF Good, new
    <2>3. QED BY <1>1, <2>1, <2>2
  <1>9. ASSUME NEW i \in Ids, NEW rev, ReviewRecord(i, rev)
        PROVE  \A j \in Ids : Good(investigations'[j])
    <2> DEFINE new == WithRecord(investigations[i], investigations[i].body,
                                 investigations[i].body)
    <2>1. Good(new)
      BY <1>1, ApprovalKept
    <2>2. investigations' = [investigations EXCEPT ![i] = new]
      BY <1>9 DEF ReviewRecord, WriteRecord
    <2> HIDE DEF Good, new
    <2>3. QED BY <1>1, <2>1, <2>2
  <1>10. ASSUME NEW gone, investigations' = InvestigationsWithout(gone)
         PROVE  \A j \in Ids : Good(investigations'[j])
    BY <1>2, <1>10
  <1>11. CASE UNCHANGED investigations
    BY <1>1, <1>11
  <1> HIDE DEF Good
  <1>12. QED
    BY <1>4, <1>5, <1>6, <1>7, <1>8, <1>9, <1>10, <1>11
       DEF Next, allStoreVars, storeVars, Tick, PurgeExpired, DeleteSnapshot,
           PutSnapshot, ClaimJob, CancelJob, FailJob, FinishJob

\* Whoever edits, approves or continues an investigation in whatever order,
\* an approval stands only beside the record it was given to.
THEOREM ApprovalsStand == StoreSpec => []ApprovalMatchesRecord
  <1>1. StoreSpec => []StoreInv
    BY StoreInvInit, StoreInvStep, PTL DEF StoreSpec
  <1>2. Init => ApprovalMatchesRecord
    BY NoApproval DEF Init, ApprovalMatchesRecord
  <1>3. QED
    BY <1>1, <1>2, ApprovalStep, PTL DEF StoreSpec

-----------------------------------------------------------------------------
(* Answers *)

\* The turns of an active investigation are over, but for the last.
LEMMA OnlyLastIsOpen ==
  ASSUME StoreInv, NEW i \in Ids, NEW n \in DOMAIN turns[i],
         turns[i][n].state \in TERMINAL, Active(i)
  PROVE  n # Last(i)
  BY StatesDisjoint DEF StoreInv, Consistent, Active, Last, STORED

\* No operation rewrites a turn that has ended.
LEMMA EndedTurnsStep ==
  ASSUME StoreInv, [Next]_allStoreVars
  PROVE  [KeepsEndedTurns]_allStoreVars
  <1> DEFINE Kept(i) ==
        /\ Len(turns[i]) <= Len(turns'[i])
        /\ \A n \in DOMAIN turns[i] :
             turns[i][n].state \in TERMINAL => turns'[i][n] = turns[i][n]
  <1> SUFFICES \A i \in Ids : Exists(i) /\ Exists(i)' => Kept(i)
    BY DEF KeepsEndedTurns, Last
  <1>1. /\ turns \in [Ids -> Seq(Turn)]
        /\ \A i \in Ids : /\ turns[i] \in Seq(Turn) /\ Len(turns[i]) \in Nat
                          /\ DOMAIN turns[i] = 1..Len(turns[i])
    BY DEF StoreInv, TypeOK
  <1>2. \A i \in Ids : turns'[i] = turns[i] => Kept(i)
    BY <1>1
  <1>3. ASSUME NEW gone, investigations' = InvestigationsWithout(gone),
               turns' = TurnsWithout(gone), NEW i \in Ids, Exists(i)'
        PROVE  Kept(i)
    <2>1. investigations[i].analysis \notin gone
      BY <1>3, StatesDisjoint
         DEF Exists, InvestigationsWithout, NoRow, STORED
    <2>2. turns'[i] = turns[i]
      BY <1>3, <2>1 DEF TurnsWithout
    <2>3. QED BY <1>2, <2>2
  <1>4. ASSUME NEW a \in Analyses, NEW i \in Ids, NEW k \in Keys,
               NEW r \in Requests, CreateInvestigation(i, a, k, r),
               NEW j \in Ids, Exists(j), Exists(j)'
        PROVE  Kept(j)
    <2>1. j # i
      BY <1>4, StatesDisjoint DEF CreateInvestigation, Exists, STORED
    <2>2. /\ investigations'[j] = InvestigationsWithout(Expired)[j]
          /\ turns'[j] = TurnsWithout(Expired)[j]
      BY <1>4, <2>1 DEF CreateInvestigation, InvestigationsWithout, TurnsWithout
    <2>3. investigations[j].analysis \notin Expired
      BY <1>4, <2>2, StatesDisjoint
         DEF Exists, InvestigationsWithout, NoRow, STORED
    <2>4. turns'[j] = turns[j]
      BY <2>2, <2>3 DEF TurnsWithout
    <2>5. QED BY <1>2, <2>4
  <1>5. ASSUME NEW i \in Ids, NEW k \in Keys, NEW r \in Requests,
               AddTurn(i, k, r), NEW j \in Ids, Exists(j), Exists(j)'
        PROVE  Kept(j)
    <2>1. CASE j # i
      <3>1. /\ investigations'[j] = InvestigationsWithout(Expired)[j]
            /\ turns'[j] = TurnsWithout(Expired)[j]
        BY <1>5, <2>1 DEF AddTurn, InvestigationsWithout, TurnsWithout
      <3>2. investigations[j].analysis \notin Expired
        BY <1>5, <3>1, StatesDisjoint
           DEF Exists, InvestigationsWithout, NoRow, STORED
      <3>3. turns'[j] = turns[j]
        BY <3>1, <3>2 DEF TurnsWithout
      <3>4. QED BY <1>2, <3>3
    <2>2. CASE j = i
      <3> DEFINE t == QueuedTurn(k, r)
      <3>1. t \in Turn
        BY RowTypes
      <3>2. turns'[i] = Append(turns[i], t)
        BY <1>5 DEF AddTurn, TurnsWithout
      <3> HIDE DEF t
      <3>3. /\ Len(turns'[i]) = Len(turns[i]) + 1
            /\ \A n \in 1..Len(turns[i]) : turns'[i][n] = turns[i][n]
        BY <1>1, <3>1, <3>2
      <3>4. QED BY <1>1, <2>2, <3>3
    <2>3. QED BY <2>1, <2>2
  <1>6. ASSUME NEW i \in Ids, NEW expected \in SUBSET ACTIVE, NEW s, NEW o,
               Transition(i, expected, s, o), NEW j \in Ids
        PROVE  Kept(j)
    <2>1. CASE turns'[j] = turns[j]
      BY <1>2, <2>1
    <2>2. CASE turns'[j] # turns[j]
      <3> DEFINE t == Moved(turns[i][Last(i)], s, o)
      <3>1. /\ investigations[i].state \in expected
            /\ turns' = [turns EXCEPT ![i] = [turns[i] EXCEPT ![Last(i)] = t]]
        BY <1>6, <2>2 DEF Transition
      <3> HIDE DEF t
      <3>2. j = i /\ Active(i)
        BY <1>1, <2>2, <3>1 DEF Active
      <3>3. turns'[i] = [turns[i] EXCEPT ![Last(i)] = t]
        BY <1>1, <3>1
      <3>4. /\ Len(turns'[i]) = Len(turns[i])
            /\ \A n \in DOMAIN turns[i] : n # Last(i) => turns'[i][n] = turns[i][n]
        BY <1>1, <3>3
      <3>5. QED
        BY <1>1, <3>2, <3>4, OnlyLastIsOpen
    <2>3. QED BY <2>1, <2>2
  <1>7. ASSUME RecoverInterrupted, NEW i \in Ids
        PROVE  Kept(i)
    <2>1. turns'[i] = [n \in DOMAIN turns[i] |->
             IF turns[i][n].state \in ACTIVE
             THEN Interrupted(turns[i][n]) ELSE turns[i][n]]
      BY <1>7 DEF RecoverInterrupted
    <2>2. Len(turns'[i]) = Len(turns[i])
      BY <1>1, <2>1
    <2>3. \A n \in DOMAIN turns[i] :
            turns[i][n].state \in TERMINAL => turns'[i][n] = turns[i][n]
      BY <2>1, StatesDisjoint
    <2>4. QED BY <1>1, <2>2, <2>3
  <1>8. CASE UNCHANGED turns
    BY <1>2, <1>8
  <1>9. ASSUME NEW i \in Ids,
               \/ ClaimJob(i) \/ CancelJob(i) \/ FailJob(i)
               \/ \E o \in JobOutcome : FinishJob(i, o),
               NEW j \in Ids
        PROVE  Kept(j)
    <2>1. {"queued"} \subseteq ACTIVE /\ {"queued", "running"} \subseteq ACTIVE
          /\ {"running", "cancelling"} \subseteq ACTIVE
      BY DEF ACTIVE
    <2> HIDE DEF Kept
    <2>2. QED
      BY <1>6, <1>9, <2>1 DEF ClaimJob, CancelJob, FailJob, FinishJob
  <1> HIDE DEF Kept
  <1>10. QED
    BY <1>3, <1>4, <1>5, <1>7, <1>8, <1>9
       DEF Next, allStoreVars, storeVars, Tick, PurgeExpired, DeleteSnapshot,
           PutSnapshot, SaveRecord, ReviewRecord, WriteRecord

\* A turn that has ended is history for every later operation, including the
\* recovery after a crash.
THEOREM AnswersStayFinal == StoreSpec => AnswersAreFinal
  <1>1. StoreSpec => []StoreInv
    BY StoreInvInit, StoreInvStep, PTL DEF StoreSpec
  <1>2. QED
    BY <1>1, EndedTurnsStep, PTL DEF StoreSpec, AnswersAreFinal

-----------------------------------------------------------------------------
(* Sums: what the quota adds up, over finite sets and in any order.  Each   *)
(* is shown by induction on the size of the set.                            *)

\* Induction: a set with 0 and every successor has all natural numbers.
LEMMA NatSetInduction ==
  ASSUME NEW T, 0 \in T, \A n \in Nat : n \in T => n + 1 \in T
  PROVE  Nat \subseteq T
  <1> DEFINE R == OpToRel(<, Nat)
             Rest == Nat \ T
  <1>1. ASSUME Rest # {} PROVE FALSE
    <2>1. IsWellFoundedOn(R, Nat)
      BY NatLessThanWellFounded DEF R
    <2> HIDE DEF R
    <2>2. PICK x \in Rest : \A y \in Rest : <<y, x>> \notin R
      <3>1. Rest \subseteq Nat
        OBVIOUS
      <3> HIDE DEF Rest
      <3>2. QED BY <1>1, <2>1, <3>1, WFMin
    <2>3. x \in Nat /\ x # 0
      OBVIOUS
    <2>4. x - 1 \in Nat /\ x - 1 < x
      BY <2>3
    <2>5. <<x - 1, x>> \in R
      BY <2>3, <2>4 DEF R, OpToRel
    <2>6. x - 1 \in T
      BY <2>2, <2>4, <2>5
    <2>7. (x - 1) + 1 \in T
      BY <2>4, <2>6
    <2>8. QED BY <2>3, <2>7
  <1>2. QED BY <1>1

\* Induction: what holds of no elements, and of one more, holds of a finite set.
LEMMA FiniteSetInduction ==
  ASSUME NEW S, IsFiniteSet(S), NEW F, {} \in F,
         \A A \in SUBSET S, x \in S : A \in F /\ x \notin A => A \cup {x} \in F
  PROVE  S \in F
  <1> DEFINE N == {n \in Nat : \A A \in SUBSET S : Cardinality(A) = n => A \in F}
  <1>1. \A A \in SUBSET S : IsFiniteSet(A) /\ Cardinality(A) \in Nat
    BY FS_Subset, FS_CardinalityType
  <1>2. 0 \in N
    BY <1>1, FS_EmptySet
  <1>3. ASSUME NEW n \in Nat, n \in N PROVE n + 1 \in N
    <2> SUFFICES ASSUME NEW A \in SUBSET S, Cardinality(A) = n + 1 PROVE A \in F
      OBVIOUS
    <2>1. A # {}
      <3>1. Cardinality({}) # n + 1
        BY FS_EmptySet
      <3>2. QED BY <3>1
    <2>2. PICK x \in A : TRUE
      BY <2>1
    <2>3. Cardinality(A \ {x}) = n
      <3>1. IsFiniteSet(A)
        BY <1>1
      <3>2. Cardinality(A \ {x}) = Cardinality(A) - 1
        BY <3>1, FS_RemoveElement
      <3>3. QED BY <3>2
    <2>4. A \ {x} \in F /\ A \ {x} \in SUBSET S
      BY <1>3, <2>3
    <2>5. (A \ {x}) \cup {x} \in F
      BY <2>2, <2>4
    <2>6. (A \ {x}) \cup {x} = A
      BY <2>2
    <2>7. QED BY <2>5, <2>6
  <1>4. Nat \subseteq N
    <2> HIDE DEF N
    <2>1. QED BY <1>2, <1>3, NatSetInduction
  <1>5. Cardinality(S) \in N
    BY <1>1, <1>4
  <1>6. QED BY <1>5

\* g adds up f over each part of S in the order of the fold.
Element(s) == CHOOSE x \in s : TRUE
Adds(g, f, S) == g = [s \in SUBSET S |-> IF s = {} THEN 0
                        ELSE f[Element(s)] + g[s \ {Element(s)}]]

\* The sum of the community modules is one that adds up in some order.
LEMMA SumIsSome ==
  ASSUME NEW S, NEW f
  PROVE  SumFunctionOnSet(f, S) = (CHOOSE g : Adds(g, f, S))[S]
  BY DEF SumFunctionOnSet, FoldFunctionOnSet, MapThenFoldSet, Adds, Element

\* A value of the fold, and the values that a function which adds up has.
SumNext(g, f, s) == IF s = {} THEN 0 ELSE f[Element(s)] + g[s \ {Element(s)}]

\* There is such a sum, part by part of a finite set.
LEMMA AddsExists ==
  ASSUME NEW S, IsFiniteSet(S), NEW f
  PROVE  \E g : Adds(g, f, S)
  <1> DEFINE Upto(n) == {s \in SUBSET S : Cardinality(s) <= n}
             N == {n \in Nat : \E g : g = [s \in Upto(n) |-> SumNext(g, f, s)]}
  <1>1. \A s \in SUBSET S : IsFiniteSet(s) /\ Cardinality(s) \in Nat
    BY FS_Subset, FS_CardinalityType
  <1>2. \A s \in SUBSET S : Cardinality(s) = 0 <=> s = {}
    BY <1>1, FS_EmptySet
  <1>3. ASSUME NEW s \in SUBSET S, s # {}
        PROVE  /\ Element(s) \in s /\ s \ {Element(s)} \in SUBSET S
               /\ Cardinality(s \ {Element(s)}) = Cardinality(s) - 1
    <2>1. Element(s) \in s
      BY <1>3 DEF Element
    <2>2. QED BY <1>1, <2>1, FS_RemoveElement
  <1>4. 0 \in N
    <2> DEFINE g == [s \in Upto(0) |-> 0]
    <2>1. \A s \in Upto(0) : s = {}
      BY <1>1, <1>2
    <2>2. g = [s \in Upto(0) |-> SumNext(g, f, s)]
      BY <2>1 DEF SumNext
    <2> HIDE DEF g, Upto
    <2>3. QED BY <2>2
  <1>5. ASSUME NEW n \in Nat, n \in N PROVE n + 1 \in N
    <2>1. PICK g : g = [s \in Upto(n) |-> SumNext(g, f, s)]
      BY <1>5
    <2> DEFINE h == [s \in Upto(n + 1) |-> SumNext(g, f, s)]
    <2>2. ASSUME NEW s \in Upto(n) PROVE s \in Upto(n + 1) /\ h[s] = g[s]
      <3>1. s \in Upto(n + 1)
        BY <1>1
      <3>2. g[s] = SumNext(g, f, s)
        <4> HIDE DEF Upto
        <4>1. QED BY <2>1
      <3>3. h[s] = SumNext(g, f, s)
        <4> HIDE DEF Upto
        <4>1. QED BY <3>1
      <3>4. QED BY <3>1, <3>2, <3>3
    <2>3. ASSUME NEW s \in Upto(n + 1) PROVE SumNext(g, f, s) = SumNext(h, f, s)
      <3>1. CASE s = {}
        BY <3>1 DEF SumNext
      <3>2. CASE s # {}
        <4>1. s \ {Element(s)} \in Upto(n)
          BY <1>1, <1>3, <3>2
        <4>2. g[s \ {Element(s)}] = h[s \ {Element(s)}]
          <5> HIDE DEF h, Upto
          <5>1. QED BY <2>2, <4>1
        <4> HIDE DEF h
        <4>3. QED BY <3>2, <4>2 DEF SumNext
      <3>3. QED BY <3>1, <3>2
    <2>4. h = [s \in Upto(n + 1) |-> SumNext(h, f, s)]
      <3> HIDE DEF Upto
      <3> DEFINE k == [s \in Upto(n + 1) |-> SumNext(h, f, s)]
      <3>1. \A s \in Upto(n + 1) : h[s] = k[s]
        BY <2>3
      <3>2. QED BY <3>1
    <2> HIDE DEF h, Upto
    <2>5. QED BY <2>4
  <1>6. Nat \subseteq N
    <2> HIDE DEF N
    <2>1. QED BY <1>4, <1>5, NatSetInduction
  <1>7. PICK g : g = [s \in Upto(Cardinality(S)) |-> SumNext(g, f, s)]
    <2>1. Cardinality(S) \in N
      BY <1>1, <1>6
    <2> HIDE DEF Upto
    <2>2. QED BY <2>1
  <1>8. Upto(Cardinality(S)) = SUBSET S
    <2>1. \A s \in SUBSET S : Cardinality(s) <= Cardinality(S)
      BY FS_Subset
    <2>2. QED BY <2>1
  <1>9. QED BY <1>7, <1>8 DEF Adds, SumNext

\* What it says of one part.
LEMMA AddsValue ==
  ASSUME NEW S, NEW f, NEW g, Adds(g, f, S), NEW s \in SUBSET S
  PROVE  g[s] = SumNext(g, f, s)
  BY DEF Adds, SumNext

\* Two such functions agree where both are defined.
LEMMA AddsAgree ==
  ASSUME NEW S, IsFiniteSet(S), NEW A \in SUBSET S, NEW f, NEW g, NEW h,
         Adds(g, f, S), Adds(h, f, A)
  PROVE  \A s \in SUBSET A : g[s] = h[s]
  <1> DEFINE N == {n \in Nat : \A s \in SUBSET A : Cardinality(s) = n => g[s] = h[s]}
  <1>1. \A s \in SUBSET S : IsFiniteSet(s) /\ Cardinality(s) \in Nat
    BY FS_Subset, FS_CardinalityType
  <1>2. \A s \in SUBSET A : Cardinality(s) = 0 => s = {}
    BY <1>1, FS_EmptySet
  <1>3. 0 \in N
    <2>1. g[{}] = 0 /\ h[{}] = 0
      BY AddsValue DEF SumNext
    <2>2. QED BY <1>2, <2>1
  <1>4. ASSUME NEW n \in Nat, n \in N PROVE n + 1 \in N
    <2> SUFFICES ASSUME NEW s \in SUBSET A, Cardinality(s) = n + 1
                 PROVE  g[s] = h[s]
      OBVIOUS
    <2> DEFINE e == Element(s)
    <2>1. IsFiniteSet(s) /\ s # {}
      <3>1. Cardinality({}) # n + 1
        BY FS_EmptySet
      <3>2. QED BY <1>1, <3>1
    <2>2. e \in s
      BY <2>1 DEF Element
    <2>3. Cardinality(s \ {e}) = n
      <3>1. Cardinality(s \ {e}) = Cardinality(s) - 1
        BY <2>1, <2>2, FS_RemoveElement
      <3>2. QED BY <3>1
    <2>4. g[s \ {e}] = h[s \ {e}]
      BY <1>4, <2>3
    <2>5. g[s] = SumNext(g, f, s) /\ h[s] = SumNext(h, f, s)
      BY AddsValue
    <2>6. QED BY <2>1, <2>4, <2>5 DEF SumNext
  <1>5. Nat \subseteq N
    <2> HIDE DEF N
    <2>1. QED BY <1>3, <1>4, NatSetInduction
  <1>6. QED BY <1>1, <1>5

\* Sums of natural numbers are natural numbers.
LEMMA AddsType ==
  ASSUME NEW S, IsFiniteSet(S), NEW f, \A x \in S : f[x] \in Nat, NEW g, Adds(g, f, S)
  PROVE  \A s \in SUBSET S : g[s] \in Nat
  <1> DEFINE N == {n \in Nat : \A s \in SUBSET S : Cardinality(s) = n => g[s] \in Nat}
  <1>1. \A s \in SUBSET S : IsFiniteSet(s) /\ Cardinality(s) \in Nat
    BY FS_Subset, FS_CardinalityType
  <1>2. \A s \in SUBSET S : Cardinality(s) = 0 => s = {}
    BY <1>1, FS_EmptySet
  <1>3. 0 \in N
    <2>1. g[{}] = 0
      BY AddsValue DEF SumNext
    <2>2. QED BY <1>2, <2>1
  <1>4. ASSUME NEW n \in Nat, n \in N PROVE n + 1 \in N
    <2> SUFFICES ASSUME NEW s \in SUBSET S, Cardinality(s) = n + 1
                 PROVE  g[s] \in Nat
      OBVIOUS
    <2> DEFINE e == Element(s)
    <2>1. IsFiniteSet(s) /\ s # {}
      <3>1. Cardinality({}) # n + 1
        BY FS_EmptySet
      <3>2. QED BY <1>1, <3>1
    <2>2. e \in s
      BY <2>1 DEF Element
    <2>3. Cardinality(s \ {e}) = n
      <3>1. Cardinality(s \ {e}) = Cardinality(s) - 1
        BY <2>1, <2>2, FS_RemoveElement
      <3>2. QED BY <3>1
    <2>4. g[s \ {e}] \in Nat /\ f[e] \in Nat
      BY <1>4, <2>2, <2>3
    <2>5. g[s] = SumNext(g, f, s)
      BY AddsValue
    <2>6. QED BY <2>1, <2>4, <2>5 DEF SumNext
  <1>5. Nat \subseteq N
    <2> HIDE DEF N
    <2>1. QED BY <1>3, <1>4, NatSetInduction
  <1>6. QED BY <1>1, <1>5

\* The order of the fold does not matter.
LEMMA AddsSplit ==
  ASSUME NEW S, IsFiniteSet(S), NEW f, \A x \in S : f[x] \in Nat, NEW g, Adds(g, f, S)
  PROVE  \A s \in SUBSET S : \A x \in s : g[s] = f[x] + g[s \ {x}]
  <1> DEFINE N == {n \in Nat : \A s \in SUBSET S : Cardinality(s) = n =>
                      \A x \in s : g[s] = f[x] + g[s \ {x}]}
  <1>1. \A s \in SUBSET S : IsFiniteSet(s) /\ Cardinality(s) \in Nat
    BY FS_Subset, FS_CardinalityType
  <1>2. \A s \in SUBSET S : Cardinality(s) = 0 => s = {}
    BY <1>1, FS_EmptySet
  <1>3. 0 \in N
    BY <1>2
  <1>4. ASSUME NEW n \in Nat, n \in N PROVE n + 1 \in N
    <2> SUFFICES ASSUME NEW s \in SUBSET S, Cardinality(s) = n + 1, NEW x \in s
                 PROVE  g[s] = f[x] + g[s \ {x}]
      OBVIOUS
    <2> DEFINE e == Element(s)
    <2>1. IsFiniteSet(s) /\ s # {}
      BY <1>1
    <2>2. e \in s
      BY <2>1 DEF Element
    <2>3. \A y \in s : Cardinality(s \ {y}) = n
      <3>1. \A y \in s : Cardinality(s \ {y}) = Cardinality(s) - 1
        BY <2>1, FS_RemoveElement
      <3>2. QED BY <3>1
    <2>4. g[s] = f[e] + g[s \ {e}]
      BY <2>1, AddsValue DEF SumNext
    <2> HIDE DEF e
    <2>5. CASE x = e
      BY <2>4, <2>5
    <2>6. CASE x # e
      <3>1. /\ s \ {e} \in SUBSET S /\ x \in s \ {e}
            /\ s \ {x} \in SUBSET S /\ e \in s \ {x}
        BY <2>2, <2>6
      <3>2. g[s \ {e}] = f[x] + g[(s \ {e}) \ {x}]
        BY <1>4, <2>2, <2>3, <3>1
      <3>3. g[s \ {x}] = f[e] + g[(s \ {x}) \ {e}]
        BY <1>4, <2>3, <3>1
      <3>4. (s \ {e}) \ {x} = (s \ {x}) \ {e}
        OBVIOUS
      <3> DEFINE rest == (s \ {e}) \ {x}
      <3>5. g[rest] \in Nat /\ f[x] \in Nat /\ f[e] \in Nat
        <4>1. rest \in SUBSET S
          OBVIOUS
        <4> HIDE DEF rest
        <4>2. QED BY <2>2, <4>1, AddsType
      <3>6. g[s \ {e}] = f[x] + g[rest] /\ g[s \ {x}] = f[e] + g[rest]
        BY <3>2, <3>3, <3>4
      <3> HIDE DEF rest
      <3>7. QED BY <2>4, <3>5, <3>6
    <2>7. QED BY <2>5, <2>6
  <1>5. Nat \subseteq N
    <2> HIDE DEF N
    <2>1. QED BY <1>3, <1>4, NatSetInduction
  <1>6. QED BY <1>1, <1>5

\* What the quota needs to know of sums.
LEMMA SumParts ==
  ASSUME NEW S, IsFiniteSet(S), NEW f, \A x \in S : f[x] \in Nat
  PROVE  /\ SumFunctionOnSet(f, S) \in Nat
         /\ \A x \in S : SumFunctionOnSet(f, S) = f[x] + SumFunctionOnSet(f, S \ {x})
         /\ SumFunctionOnSet(f, {}) = 0
  <1> DEFINE chosen(A) == CHOOSE g : Adds(g, f, A)
  <1>1. \A A : SumFunctionOnSet(f, A) = chosen(A)[A]
    BY SumIsSome
  <1>2. \A A \in SUBSET S : IsFiniteSet(A)
    BY FS_Subset
  <1>3. \A A \in SUBSET S : Adds(chosen(A), f, A)
    BY <1>2, AddsExists
  <1> HIDE DEF chosen
  <1>4. Adds(chosen(S), f, S)
    BY <1>3
  <1>5. \A A \in SUBSET S : SumFunctionOnSet(f, A) = chosen(S)[A]
    <2> SUFFICES ASSUME NEW A \in SUBSET S
                 PROVE  SumFunctionOnSet(f, A) = chosen(S)[A]
      OBVIOUS
    <2>1. Adds(chosen(A), f, A)
      BY <1>3
    <2>2. \A s \in SUBSET A : chosen(S)[s] = chosen(A)[s]
      BY <1>4, <2>1, AddsAgree
    <2>3. A \in SUBSET A
      OBVIOUS
    <2>4. chosen(S)[A] = chosen(A)[A]
      BY <2>2, <2>3
    <2>5. QED BY <1>1, <2>4
  <1>6. chosen(S)[{}] = 0
    BY <1>4, AddsValue DEF SumNext
  <1>7. SumFunctionOnSet(f, S) \in Nat
    BY <1>4, <1>5, AddsType
  <1>8. \A x \in S : chosen(S)[S] = f[x] + chosen(S)[S \ {x}]
    BY <1>4, AddsSplit
  <1>9. QED BY <1>5, <1>6, <1>7, <1>8

\* Fewer and smaller numbers have no larger a sum.
LEMMA SumAtMost ==
  ASSUME NEW S, IsFiniteSet(S), NEW f, \A x \in S : f[x] \in Nat,
         NEW A \in SUBSET S, NEW h, \A x \in A : h[x] \in Nat /\ h[x] <= f[x]
  PROVE  SumFunctionOnSet(h, A) <= SumFunctionOnSet(f, S)
  <1> DEFINE F == {B \in SUBSET S :
                     SumFunctionOnSet(h, A \cap B) <= SumFunctionOnSet(f, B)}
  <1>1. \A B \in SUBSET S : IsFiniteSet(B) /\ IsFiniteSet(A \cap B)
    BY FS_Subset
  <1>2. {} \in F
    <2>1. A \cap {} = {} /\ IsFiniteSet({})
      BY FS_EmptySet
    <2>2. SumFunctionOnSet(h, {}) = 0 /\ SumFunctionOnSet(f, {}) = 0
      BY <2>1, SumParts
    <2>3. QED BY <2>1, <2>2
  <1>3. ASSUME NEW B \in SUBSET S, NEW x \in S, B \in F, x \notin B
        PROVE  B \cup {x} \in F
    <2> DEFINE C == B \cup {x}
    <2>1. /\ SumFunctionOnSet(f, C) = f[x] + SumFunctionOnSet(f, C \ {x})
          /\ SumFunctionOnSet(f, B) \in Nat /\ SumFunctionOnSet(h, A \cap B) \in Nat
      BY <1>1, SumParts
    <2>2. C \ {x} = B
      BY <1>3
    <2>3. CASE x \in A
      <3>1. x \in A \cap C /\ (A \cap C) \ {x} = A \cap B
        BY <1>3, <2>3
      <3>2. SumFunctionOnSet(h, A \cap C) = h[x] + SumFunctionOnSet(h, (A \cap C) \ {x})
        <4>1. IsFiniteSet(A \cap C)
          BY <1>1
        <4> HIDE DEF C
        <4>2. QED BY <3>1, <4>1, SumParts
      <3> HIDE DEF C
      <3>3. SumFunctionOnSet(h, A \cap C) <= SumFunctionOnSet(f, C)
        BY <1>3, <2>1, <2>2, <2>3, <3>1, <3>2
      <3>4. QED BY <3>3 DEF C
    <2>4. CASE x \notin A
      <3>1. A \cap C = A \cap B
        BY <2>4
      <3>2. f[x] \in Nat
        OBVIOUS
      <3> HIDE DEF C
      <3>3. SumFunctionOnSet(h, A \cap C) <= SumFunctionOnSet(f, C)
        BY <1>3, <2>1, <2>2, <3>1, <3>2
      <3>4. QED BY <3>3 DEF C
    <2>5. QED BY <2>3, <2>4
  <1>4. S \in F
    <2> HIDE DEF F
    <2>1. QED BY <1>2, <1>3, FiniteSetInduction
  <1>5. A \cap S = A
    OBVIOUS
  <1>6. QED BY <1>4, <1>5
\* One element more, and one that has grown.
LEMMA SumOneMore ==
  ASSUME NEW S, IsFiniteSet(S), NEW f, \A y \in S : f[y] \in Nat,
         NEW A \in SUBSET S, NEW x, x \notin A,
         NEW h, \A y \in A : h[y] \in Nat /\ h[y] <= f[y], h[x] \in Nat
  PROVE  SumFunctionOnSet(h, A \cup {x}) <= SumFunctionOnSet(f, S) + h[x]
  <1> DEFINE B == A \cup {x}
  <1>1. IsFiniteSet(B)
    BY FS_Subset, FS_AddElement
  <1>2. \A y \in B : h[y] \in Nat
    OBVIOUS
  <1>3. x \in B /\ B \ {x} = A
    OBVIOUS
  <1> HIDE DEF B
  <1>4. SumFunctionOnSet(h, B) = h[x] + SumFunctionOnSet(h, A)
    BY <1>1, <1>2, <1>3, SumParts
  <1>5. SumFunctionOnSet(h, A) <= SumFunctionOnSet(f, S)
    BY SumAtMost
  <1>6. SumFunctionOnSet(h, A) \in Nat /\ SumFunctionOnSet(f, S) \in Nat
    <2>1. IsFiniteSet(A)
      BY FS_Subset
    <2>2. QED BY <2>1, SumParts
  <1>7. QED BY <1>4, <1>5, <1>6 DEF B

\* One element has grown.
LEMMA SumOneGrown ==
  ASSUME NEW S, IsFiniteSet(S), NEW f, \A y \in S : f[y] \in Nat,
         NEW A \in SUBSET S, NEW x \in S, NEW d \in Nat,
         NEW h, \A y \in A : h[y] \in Nat, \A y \in A \ {x} : h[y] <= f[y],
         x \in A => h[x] <= f[x] + d
  PROVE  SumFunctionOnSet(h, A) <= SumFunctionOnSet(f, S) + d
  <1> DEFINE k == [y \in S |-> IF y = x THEN f[x] + d ELSE f[y]]
  <1>1. \A y \in S : k[y] \in Nat
    OBVIOUS
  <1>2. \A y \in A : h[y] \in Nat /\ h[y] <= k[y]
    OBVIOUS
  <1>3. k[x] = f[x] + d /\ \A y \in S \ {x} : k[y] \in Nat /\ k[y] <= f[y]
    OBVIOUS
  <1> HIDE DEF k
  <1>4. SumFunctionOnSet(h, A) <= SumFunctionOnSet(k, S)
    BY <1>1, <1>2, SumAtMost
  <1>5. SumFunctionOnSet(k, S) = k[x] + SumFunctionOnSet(k, S \ {x})
    BY <1>1, SumParts
  <1>6. SumFunctionOnSet(f, S) = f[x] + SumFunctionOnSet(f, S \ {x})
    BY SumParts
  <1>7. IsFiniteSet(S \ {x}) /\ IsFiniteSet(A) /\ \A y \in S \ {x} : f[y] \in Nat
    BY FS_Subset
  <1>8. SumFunctionOnSet(k, S \ {x}) <= SumFunctionOnSet(f, S \ {x})
    <2> DEFINE R == S \ {x}
    <2>1. R \in SUBSET R /\ \A y \in R : k[y] \in Nat /\ k[y] <= f[y]
      BY <1>3
    <2>2. IsFiniteSet(R) /\ \A y \in R : f[y] \in Nat
      BY <1>7
    <2> HIDE DEF R
    <2>3. SumFunctionOnSet(k, R) <= SumFunctionOnSet(f, R)
      BY <2>1, <2>2, SumAtMost
    <2>4. QED BY <2>3 DEF R
  <1>9. /\ SumFunctionOnSet(k, S \ {x}) \in Nat /\ SumFunctionOnSet(f, S \ {x}) \in Nat
        /\ SumFunctionOnSet(h, A) \in Nat /\ f[x] \in Nat
    BY <1>2, <1>3, <1>7, SumParts
  <1>10. QED BY <1>3, <1>4, <1>5, <1>6, <1>8, <1>9

\* The same of functions: a sum is a number.
LEMMA SumType ==
  ASSUME NEW S, IsFiniteSet(S), NEW f \in [S -> Nat]
  PROVE  SumFunction(f) \in Nat
  <1>1. DOMAIN f = S /\ \A x \in S : f[x] \in Nat
    OBVIOUS
  <1>2. SumFunctionOnSet(f, S) \in Nat
    BY <1>1, SumParts
  <1>3. QED BY <1>1, <1>2 DEF SumFunction

\* Fewer and smaller values.
LEMMA SumLess ==
  ASSUME NEW S, IsFiniteSet(S), NEW f \in [S -> Nat],
         NEW T \in SUBSET S, NEW g \in [T -> Nat], \A x \in T : g[x] <= f[x]
  PROVE  SumFunction(g) <= SumFunction(f)
  <1>1. DOMAIN f = S /\ DOMAIN g = T
    OBVIOUS
  <1>2. (\A x \in S : f[x] \in Nat) /\ \A x \in T : g[x] \in Nat /\ g[x] <= f[x]
    OBVIOUS
  <1>3. SumFunctionOnSet(g, T) <= SumFunctionOnSet(f, S)
    BY <1>2, SumAtMost
  <1>4. QED BY <1>1, <1>3 DEF SumFunction

\* One element more.
LEMMA SumMore ==
  ASSUME NEW S, IsFiniteSet(S), NEW f \in [S -> Nat],
         NEW T \in SUBSET S, NEW x, x \notin T,
         NEW g \in [T \cup {x} -> Nat], \A y \in T : g[y] <= f[y]
  PROVE  SumFunction(g) <= SumFunction(f) + g[x]
  <1>1. DOMAIN f = S /\ DOMAIN g = T \cup {x}
    OBVIOUS
  <1>2. /\ \A y \in S : f[y] \in Nat
        /\ \A y \in T : g[y] \in Nat /\ g[y] <= f[y]
        /\ g[x] \in Nat
    OBVIOUS
  <1>3. SumFunctionOnSet(g, T \cup {x}) <= SumFunctionOnSet(f, S) + g[x]
    BY <1>2, SumOneMore
  <1>4. QED BY <1>1, <1>3 DEF SumFunction

\* One element grows.
LEMMA SumGrown ==
  ASSUME NEW S, IsFiniteSet(S), NEW f \in [S -> Nat],
         NEW T \in SUBSET S, NEW x \in S, NEW d \in Nat, NEW g \in [T -> Nat],
         \A y \in T \ {x} : g[y] <= f[y], x \in T => g[x] <= f[x] + d
  PROVE  SumFunction(g) <= SumFunction(f) + d
  <1>1. DOMAIN f = S /\ DOMAIN g = T
    OBVIOUS
  <1>2. (\A y \in S : f[y] \in Nat) /\ \A y \in T : g[y] \in Nat
    OBVIOUS
  <1>3. SumFunctionOnSet(g, T) <= SumFunctionOnSet(f, S) + d
    BY <1>2, SumOneGrown
  <1>4. QED BY <1>1, <1>3 DEF SumFunction

-----------------------------------------------------------------------------
(* The quota *)

\* Texts have lengths, and the first record fits the margin set aside for it.
LEMMA SizesAreNatural ==
    /\ \A p \in Payloads : PayloadSize[p] \in Nat
    /\ \A r \in Requests : RequestSize[r] \in Nat
    /\ \A o \in Outcome : o.bytes \in Nat
    /\ \A b \in Bodies, x \in Bodies \cup {NONE} : RecordBytes(b, x) \in Nat
    /\ MaxOutcome \in Nat /\ MaxOutcome >= 1 /\ RecordMargin \in Nat /\ MaxBytes \in Nat
    /\ RecordBytes(Blank, NONE) <= RecordMargin
  <1>1. \A o \in Outcome : o.bytes \in Nat
    <2>1. \A o \in RunOutcome : o.bytes \in Nat
      BY StoreAssumption DEF RunOutcome
    <2>2. QED
      BY <2>1 DEF Outcome, JobOutcome, NoOutcome, CancelledOutcome,
           FailedOutcome, InterruptedOutcome
  <1>2. \A b \in Bodies, x \in Bodies \cup {NONE} : RecordBytes(b, x) \in Nat
    <2>1. \A b \in Bodies : BodySize[b] \in Nat
      BY StoreAssumption
    <2>2. ApprovalSize \in Nat
      BY StoreAssumption
    <2>3. QED BY <2>1, <2>2 DEF RecordBytes
  <1>3. RecordBytes(Blank, NONE) <= RecordMargin
    BY StoreAssumption DEF RecordBytes
  <1>4. QED BY <1>1, <1>2, <1>3, StoreAssumption

\* The weights that TurnsBytes adds up.
TurnWeights(ts) == [n \in DOMAIN ts |-> TurnBytes(ts[n])]

\* A turn weighs a number of bytes.
LEMMA TurnBytesType ==
  \A t \in Turn : TurnBytes(t) \in Nat
  BY SizesAreNatural DEF TurnBytes, Turn

\* So do all the turns of an investigation.
LEMMA TurnWeightsType ==
  ASSUME NEW ts \in Seq(Turn)
  PROVE  /\ TurnWeights(ts) \in [1..Len(ts) -> Nat]
         /\ IsFiniteSet(1..Len(ts))
         /\ TurnsBytes(ts) = SumFunction(TurnWeights(ts))
         /\ TurnsBytes(ts) \in Nat
  <1>1. DOMAIN ts = 1..Len(ts) /\ Len(ts) \in Nat /\ \A n \in 1..Len(ts) : ts[n] \in Turn
    OBVIOUS
  <1>2. TurnWeights(ts) \in [1..Len(ts) -> Nat]
    BY <1>1, TurnBytesType DEF TurnWeights
  <1>3. IsFiniteSet(1..Len(ts))
    BY <1>1, FS_Interval
  <1>4. TurnsBytes(ts) = SumFunction(TurnWeights(ts))
    BY DEF TurnsBytes, TurnWeights
  <1>5. QED BY <1>2, <1>3, <1>4, SumType

\* And so does a stored investigation.
LEMMA RowBytesType ==
  ASSUME NEW row \in Row, row.request \in Requests, NEW ts \in Seq(Turn)
  PROVE  RowBytes(row, ts) \in Nat
  <1>1. /\ RequestSize[row.request] \in Nat /\ row.outcome.bytes \in Nat
        /\ RecordBytes(row.body, row.approval) \in Nat
        /\ MaxOutcome \in Nat
    BY SizesAreNatural DEF Row
  <1>2. TurnsBytes(ts) \in Nat
    BY TurnWeightsType
  <1>3. QED BY SMTT(30), <1>1, <1>2 DEF RowBytes

\* A turn is added.
LEMMA AppendedBytes ==
  ASSUME NEW ts \in Seq(Turn), NEW t \in Turn
  PROVE  TurnsBytes(Append(ts, t)) <= TurnsBytes(ts) + TurnBytes(t)
  <1> DEFINE us == Append(ts, t)
             x == Len(ts) + 1
  <1>1. /\ us \in Seq(Turn) /\ Len(us) = x /\ us[x] = t
        /\ \A n \in 1..Len(ts) : us[n] = ts[n]
        /\ 1..x = 1..Len(ts) \cup {x} /\ x \notin 1..Len(ts)
        /\ DOMAIN us = 1..x /\ DOMAIN ts = 1..Len(ts)
    OBVIOUS
  <1> HIDE DEF us, x
  <1>2. /\ TurnWeights(us) \in [1..Len(ts) \cup {x} -> Nat]
        /\ TurnsBytes(us) = SumFunction(TurnWeights(us))
    BY <1>1, TurnWeightsType
  <1>3. /\ TurnWeights(ts) \in [1..Len(ts) -> Nat] /\ IsFiniteSet(1..Len(ts))
        /\ TurnsBytes(ts) = SumFunction(TurnWeights(ts))
    BY TurnWeightsType
  <1>4. /\ \A n \in 1..Len(ts) : TurnWeights(us)[n] = TurnWeights(ts)[n]
        /\ TurnWeights(us)[x] = TurnBytes(t)
    BY <1>1 DEF TurnWeights
  <1>5. \A n \in 1..Len(ts) : TurnWeights(us)[n] <= TurnWeights(ts)[n]
    BY <1>3, <1>4
  <1>6. SumFunction(TurnWeights(us)) <= SumFunction(TurnWeights(ts)) + TurnWeights(us)[x]
    BY <1>1, <1>2, <1>3, <1>5, SumMore
  <1>7. QED BY <1>2, <1>3, <1>4, <1>6 DEF us

\* A turn is answered, the others stay.
LEMMA RewrittenBytes ==
  ASSUME NEW ts \in Seq(Turn), NEW us \in Seq(Turn), Len(us) = Len(ts),
         NEW x \in 1..Len(ts), NEW d \in Nat,
         \A n \in 1..Len(ts) : n # x => us[n] = ts[n],
         TurnBytes(us[x]) <= TurnBytes(ts[x]) + d
  PROVE  TurnsBytes(us) <= TurnsBytes(ts) + d
  <1>1. /\ TurnWeights(us) \in [1..Len(ts) -> Nat]
        /\ TurnsBytes(us) = SumFunction(TurnWeights(us))
    BY TurnWeightsType
  <1>2. /\ TurnWeights(ts) \in [1..Len(ts) -> Nat] /\ IsFiniteSet(1..Len(ts))
        /\ TurnsBytes(ts) = SumFunction(TurnWeights(ts))
    BY TurnWeightsType
  <1>3. /\ \A n \in 1..Len(ts) \ {x} : TurnWeights(us)[n] = TurnWeights(ts)[n]
        /\ TurnWeights(us)[x] <= TurnWeights(ts)[x] + d
    BY DEF TurnWeights
  <1>4. \A n \in 1..Len(ts) \ {x} : TurnWeights(us)[n] <= TurnWeights(ts)[n]
    BY <1>2, <1>3
  <1>5. SumFunction(TurnWeights(us)) <= SumFunction(TurnWeights(ts)) + d
    BY <1>1, <1>2, <1>3, <1>4, SumGrown
  <1>6. QED BY <1>1, <1>2, <1>5

-----------------------------------------------------------------------------
\* The weights that Used adds up.
PayloadWeights(gone) ==
    [a \in HeldWithout(gone) |-> PayloadSize[snapshots[a].payload]]
RowWeights(gone) ==
    [i \in StoredWithout(gone) |-> RowBytes(investigations[i], turns[i])]

\* Finitely many rows, each of a request that has a length, within the quota.
QuotaInv ==
    /\ StoreInv
    /\ IsFiniteSet(HeldWithout({})) /\ IsFiniteSet(StoredWithout({}))
    /\ \A i \in Ids : Exists(i) => investigations[i].request \in Requests
    /\ WithinQuota

\* What is stored has a size, and a removal makes it no larger.
LEMMA UsedBytes ==
  ASSUME QuotaInv, NEW gone
  PROVE  /\ HeldWithout(gone) \subseteq HeldWithout({})
         /\ StoredWithout(gone) \subseteq StoredWithout({})
         /\ IsFiniteSet(HeldWithout(gone)) /\ IsFiniteSet(StoredWithout(gone))
         /\ PayloadWeights(gone) \in [HeldWithout(gone) -> Nat]
         /\ RowWeights(gone) \in [StoredWithout(gone) -> Nat]
         /\ SumFunction(PayloadWeights(gone)) \in Nat
         /\ SumFunction(RowWeights(gone)) \in Nat
         /\ Used(gone) = SumFunction(PayloadWeights(gone)) + SumFunction(RowWeights(gone))
         /\ Used(gone) <= Used({})
  <1>1. \A x : /\ HeldWithout(x) \subseteq HeldWithout({})
               /\ StoredWithout(x) \subseteq StoredWithout({})
    BY DEF HeldWithout, StoredWithout
  <1>2. \A x : IsFiniteSet(HeldWithout(x)) /\ IsFiniteSet(StoredWithout(x))
    BY <1>1, FS_Subset DEF QuotaInv
  <1>3. \A x : PayloadWeights(x) \in [HeldWithout(x) -> Nat]
    <2>1. \A a \in Analyses : Held(a) => snapshots[a].payload \in Payloads
      BY DEF QuotaInv, StoreInv, TypeOK, Snapshot, Held
    <2>2. \A x : \A a \in HeldWithout(x) : PayloadSize[snapshots[a].payload] \in Nat
      BY <2>1, SizesAreNatural DEF HeldWithout
    <2>3. QED BY <2>2 DEF PayloadWeights
  <1>4. \A x : RowWeights(x) \in [StoredWithout(x) -> Nat]
    <2>1. \A i \in Ids : Exists(i) => RowBytes(investigations[i], turns[i]) \in Nat
      BY RowBytesType DEF QuotaInv, StoreInv, TypeOK
    <2>2. \A x : \A i \in StoredWithout(x) : RowBytes(investigations[i], turns[i]) \in Nat
      BY <2>1 DEF StoredWithout
    <2>3. QED BY <2>2 DEF RowWeights
  <1>5. \A x : /\ SumFunction(PayloadWeights(x)) \in Nat
               /\ SumFunction(RowWeights(x)) \in Nat
    BY <1>2, <1>3, <1>4, SumType
  <1>6. \A x : Used(x) = SumFunction(PayloadWeights(x)) + SumFunction(RowWeights(x))
    BY DEF Used, PayloadWeights, RowWeights
  <1>7. SumFunction(PayloadWeights(gone)) <= SumFunction(PayloadWeights({}))
    <2>1. \A a \in HeldWithout(gone) : PayloadWeights(gone)[a] <= PayloadWeights({})[a]
      <3>1. \A a \in HeldWithout(gone) :
              /\ PayloadWeights(gone)[a] = PayloadWeights({})[a]
              /\ PayloadWeights(gone)[a] \in Nat
        BY <1>1, <1>3 DEF PayloadWeights
      <3>2. QED BY <3>1
    <2>2. QED BY <1>1, <1>2, <1>3, <2>1, SumLess
  <1>8. SumFunction(RowWeights(gone)) <= SumFunction(RowWeights({}))
    <2>1. \A i \in StoredWithout(gone) : RowWeights(gone)[i] <= RowWeights({})[i]
      <3>1. \A i \in StoredWithout(gone) :
              /\ RowWeights(gone)[i] = RowWeights({})[i]
              /\ RowWeights(gone)[i] \in Nat
        BY <1>1, <1>4 DEF RowWeights
      <3>2. QED BY <3>1
    <2>2. QED BY <1>1, <1>2, <1>4, <2>1, SumLess
  <1>9. QED BY <1>1, <1>2, <1>3, <1>4, <1>5, <1>6, <1>7, <1>8

\* What a transaction leaves stored that has removed gone: payloads that stay.
LEMMA PayloadsAfter ==
  ASSUME QuotaInv, StoreInv', NEW gone,
         HeldWithout({})' \subseteq HeldWithout(gone),
         \A a \in HeldWithout({})' : snapshots'[a].payload = snapshots[a].payload
  PROVE  /\ IsFiniteSet(HeldWithout({})')
         /\ SumFunction(PayloadWeights({}))' \in Nat
         /\ SumFunction(PayloadWeights({}))' <= SumFunction(PayloadWeights(gone))
  <1> DEFINE T == HeldWithout({})'
             g == [a \in T |-> PayloadSize[snapshots'[a].payload]]
             f == PayloadWeights(gone)
             S == HeldWithout(gone)
  <1>1. PayloadWeights({})' = g
    BY DEF PayloadWeights
  <1>2. IsFiniteSet(S) /\ f \in [S -> Nat] /\ T \in SUBSET S
    BY UsedBytes
  <1>3. \A a \in T : PayloadSize[snapshots'[a].payload] = f[a]
    BY DEF PayloadWeights
  <1> HIDE DEF T, f, S
  <1>4. g \in [T -> Nat] /\ \A a \in T : g[a] <= f[a]
    BY <1>2, <1>3
  <1> HIDE DEF g
  <1>5. IsFiniteSet(T) /\ SumFunction(g) \in Nat /\ SumFunction(g) <= SumFunction(f)
    BY <1>2, <1>4, SumLess, SumType, FS_Subset
  <1>6. QED BY <1>1, <1>5 DEF T, f, S, g

\* The weights of the rows that are stored after a step.
LEMMA RowsAfterType ==
  ASSUME StoreInv',
         \A i \in Ids : Exists(i)' => investigations'[i].request \in Requests
  PROVE  /\ RowWeights({})' = [i \in StoredWithout({})' |-> RowBytes(investigations'[i], turns'[i])]
         /\ RowWeights({})' \in [StoredWithout({})' -> Nat]
         /\ \A i \in StoredWithout({})' : i \in Ids /\ Exists(i)'
  <1>1. \A i \in StoredWithout({})' : i \in Ids /\ Exists(i)'
    BY DEF StoredWithout
  <1>2. \A i \in Ids : investigations'[i] \in Row /\ turns'[i] \in Seq(Turn)
    BY DEF StoreInv, TypeOK
  <1>3. \A i \in StoredWithout({})' : RowBytes(investigations'[i], turns'[i]) \in Nat
    BY <1>1, <1>2, RowBytesType
  <1>4. RowWeights({})' = [i \in StoredWithout({})' |-> RowBytes(investigations'[i], turns'[i])]
    BY DEF RowWeights
  <1>5. QED BY <1>1, <1>3, <1>4

\* Rows that stay, of which one, x, grows by d.
LEMMA RowsAfter ==
  ASSUME QuotaInv, StoreInv', NEW gone,
         \A i \in Ids : Exists(i)' => investigations'[i].request \in Requests,
         StoredWithout({})' \subseteq StoredWithout(gone),
         NEW x \in StoredWithout(gone), NEW d \in Nat,
         \A i \in StoredWithout({})' : i # x =>
           RowBytes(investigations'[i], turns'[i]) <= RowBytes(investigations[i], turns[i]),
         RowBytes(investigations'[x], turns'[x]) <= RowBytes(investigations[x], turns[x]) + d
  PROVE  /\ IsFiniteSet(StoredWithout({})')
         /\ SumFunction(RowWeights({}))' \in Nat
         /\ SumFunction(RowWeights({}))' <= SumFunction(RowWeights(gone)) + d
  <1> DEFINE T == StoredWithout({})'
             g == RowWeights({})'
             f == RowWeights(gone)
             S == StoredWithout(gone)
  <1>1. IsFiniteSet(S) /\ f \in [S -> Nat] /\ T \in SUBSET S
    BY UsedBytes
  <1>2. g \in [T -> Nat]
    BY RowsAfterType
  <1>3. /\ \A i \in T : g[i] = RowBytes(investigations'[i], turns'[i])
        /\ \A i \in S : f[i] = RowBytes(investigations[i], turns[i])
    <2>1. g = [i \in T |-> RowBytes(investigations'[i], turns'[i])]
      BY RowsAfterType
    <2>2. f = [i \in S |-> RowBytes(investigations[i], turns[i])]
      BY DEF RowWeights
    <2> HIDE DEF g, T, f, S
    <2>3. QED BY <2>1, <2>2
  <1>4. (\A i \in T \ {x} : g[i] <= f[i]) /\ (x \in T => g[x] <= f[x] + d)
    <2> HIDE DEF g, f
    <2>1. QED BY <1>1, <1>3
  <1>5. x \in S
    OBVIOUS
  <1> HIDE DEF g, T, f, S
  <1>6. /\ IsFiniteSet(T) /\ SumFunction(g) \in Nat
        /\ SumFunction(g) <= SumFunction(f) + d
    BY <1>1, <1>2, <1>4, <1>5, SumGrown, SumType, FS_Subset
  <1>7. QED BY <1>6 DEF T, f, S, g

\* Rows that stay, none of them larger.
LEMMA RowsKept ==
  ASSUME QuotaInv, StoreInv', NEW gone,
         \A i \in Ids : Exists(i)' => investigations'[i].request \in Requests,
         StoredWithout({})' \subseteq StoredWithout(gone),
         \A i \in StoredWithout({})' :
           RowBytes(investigations'[i], turns'[i]) <= RowBytes(investigations[i], turns[i])
  PROVE  /\ IsFiniteSet(StoredWithout({})')
         /\ SumFunction(RowWeights({}))' \in Nat
         /\ SumFunction(RowWeights({}))' <= SumFunction(RowWeights(gone))
  <1> DEFINE T == StoredWithout({})'
             g == RowWeights({})'
             f == RowWeights(gone)
             S == StoredWithout(gone)
  <1>1. IsFiniteSet(S) /\ f \in [S -> Nat] /\ T \in SUBSET S
    BY UsedBytes
  <1>2. g \in [T -> Nat]
    BY RowsAfterType
  <1>3. /\ \A i \in T : g[i] = RowBytes(investigations'[i], turns'[i])
        /\ \A i \in S : f[i] = RowBytes(investigations[i], turns[i])
    <2>1. g = [i \in T |-> RowBytes(investigations'[i], turns'[i])]
      BY RowsAfterType
    <2>2. f = [i \in S |-> RowBytes(investigations[i], turns[i])]
      BY DEF RowWeights
    <2> HIDE DEF g, T, f, S
    <2>3. QED BY <2>1, <2>2
  <1>4. \A i \in T : g[i] <= f[i]
    <2> HIDE DEF g, f
    <2>1. QED BY <1>1, <1>3
  <1> HIDE DEF g, T, f, S
  <1>5. IsFiniteSet(T) /\ SumFunction(g) \in Nat /\ SumFunction(g) <= SumFunction(f)
    BY <1>1, <1>2, <1>4, SumLess, SumType, FS_Subset
  <1>6. QED BY <1>5 DEF T, f, S, g

\* Rows that stay, and one more of at most d bytes.
LEMMA RowsAndOne ==
  ASSUME QuotaInv, StoreInv', NEW gone,
         \A i \in Ids : Exists(i)' => investigations'[i].request \in Requests,
         NEW x, x \notin StoredWithout(gone), x \in StoredWithout({})',
         StoredWithout({})' \subseteq StoredWithout(gone) \cup {x},
         NEW d \in Nat, RowBytes(investigations'[x], turns'[x]) <= d,
         \A i \in StoredWithout({})' : i # x =>
           RowBytes(investigations'[i], turns'[i]) <= RowBytes(investigations[i], turns[i])
  PROVE  /\ IsFiniteSet(StoredWithout({})')
         /\ SumFunction(RowWeights({}))' \in Nat
         /\ SumFunction(RowWeights({}))' <= SumFunction(RowWeights(gone)) + d
  <1> DEFINE T == StoredWithout({})'
             R == T \ {x}
             g == RowWeights({})'
             f == RowWeights(gone)
             S == StoredWithout(gone)
  <1>1. IsFiniteSet(S) /\ f \in [S -> Nat] /\ R \in SUBSET S
    BY UsedBytes
  <1>2. g \in [T -> Nat]
    BY RowsAfterType
  <1>3. /\ \A i \in T : g[i] = RowBytes(investigations'[i], turns'[i])
        /\ \A i \in S : f[i] = RowBytes(investigations[i], turns[i])
    <2>1. g = [i \in T |-> RowBytes(investigations'[i], turns'[i])]
      BY RowsAfterType
    <2>2. f = [i \in S |-> RowBytes(investigations[i], turns[i])]
      BY DEF RowWeights
    <2> HIDE DEF g, T, f, S
    <2>3. QED BY <2>1, <2>2
  <1>4. (\A i \in R : g[i] <= f[i]) /\ g[x] <= d /\ g[x] \in Nat
    <2>1. \A i \in R : i \in T /\ i # x /\ i \in S
      BY <1>1
    <2>2. x \in T
      OBVIOUS
    <2> HIDE DEF g, f, R
    <2>3. QED BY <1>2, <1>3, <2>1, <2>2
  <1>5. x \notin R /\ T = R \cup {x}
    OBVIOUS
  <1>6. IsFiniteSet(T)
    <2>1. IsFiniteSet(R)
      BY <1>1, FS_Subset
    <2> HIDE DEF R
    <2>2. QED BY <1>5, <2>1, FS_AddElement
  <1> HIDE DEF g, T, f, S, R
  <1>7. g \in [R \cup {x} -> Nat]
    BY <1>2, <1>5
  <1>8. SumFunction(g) <= SumFunction(f) + g[x]
    BY <1>1, <1>4, <1>5, <1>7, SumMore
  <1>9. SumFunction(g) \in Nat /\ SumFunction(f) \in Nat
    BY <1>1, <1>2, <1>6, SumType
  <1>10. SumFunction(g) <= SumFunction(f) + d
    BY <1>4, <1>8, <1>9
  <1>11. QED BY <1>6, <1>9, <1>10 DEF T, f, S, g

\* Room for c and d was found, payloads took c and rows d: still within the quota.
LEMMA WithinRoom ==
  ASSUME QuotaInv, StoreInv', NEW gone, NEW c \in Nat, NEW d \in Nat,
         Used(gone) + (c + d) <= MaxBytes,
         \A i \in Ids : Exists(i)' => investigations'[i].request \in Requests,
         IsFiniteSet(HeldWithout({})'), IsFiniteSet(StoredWithout({})'),
         SumFunction(PayloadWeights({}))' \in Nat, SumFunction(RowWeights({}))' \in Nat,
         SumFunction(PayloadWeights({}))' <= SumFunction(PayloadWeights(gone)) + c,
         SumFunction(RowWeights({}))' <= SumFunction(RowWeights(gone)) + d
  PROVE  QuotaInv'
  <1>1. Used({})' = SumFunction(PayloadWeights({}))' + SumFunction(RowWeights({}))'
    BY DEF Used, PayloadWeights, RowWeights
  <1>2. /\ Used(gone) = SumFunction(PayloadWeights(gone)) + SumFunction(RowWeights(gone))
        /\ SumFunction(PayloadWeights(gone)) \in Nat
        /\ SumFunction(RowWeights(gone)) \in Nat
    BY UsedBytes
  <1>3. MaxBytes \in Nat
    BY SizesAreNatural
  <1>4. Used({})' <= MaxBytes
    BY <1>1, <1>2, <1>3
  <1>5. IsFiniteSet(HeldWithout({}))' /\ IsFiniteSet(StoredWithout({}))'
    OBVIOUS
  <1>6. QED BY <1>4, <1>5 DEF QuotaInv, WithinQuota

\* What rows weigh after each way of writing them.
LEMMA MovedBytes ==
  ASSUME NEW row, NEW ts, Consistent(row, ts), row.state \in ACTIVE,
         row.request \in Requests,
         NEW s \in STORED, NEW o \in Outcome, o.bytes <= MaxOutcome,
         (o = NoOutcome) <=> (s \in ACTIVE)
  PROVE  /\ RowBytes(Moved(row, s, o),
                     [ts EXCEPT ![Len(ts)] = Moved(ts[Len(ts)], s, o)])
              <= RowBytes(row, ts)
         /\ Moved(row, s, o).request = row.request
  <1> DEFINE last == Len(ts)
             old == ts[last]
             new == Moved(old, s, o)
             us == [ts EXCEPT ![last] = new]
             rnew == Moved(row, s, o)
  <1>1. /\ row \in Row /\ ts \in Seq(Turn) /\ last \in 1..last
        /\ row.outcome = old.outcome /\ old.outcome = NoOutcome
        /\ row.state = old.state /\ old \in Turn
    <2>1. /\ row \in Row /\ ts \in Seq(Turn) /\ last \in 1..MaxTurns
          /\ row.outcome = old.outcome /\ row.state = old.state
      BY DEF Consistent, STORED
    <2>2. last \in 1..last /\ old \in Turn
      BY <2>1, ConstantTypes
    <2>3. AnsweredEntry(old)
      BY <2>2 DEF Consistent
    <2>4. QED BY <2>1, <2>2, <2>3 DEF AnsweredEntry
  <1>2. /\ rnew.state = s /\ rnew.outcome = o /\ rnew.request = row.request
        /\ rnew.body = row.body /\ rnew.approval = row.approval
        /\ new \in Turn /\ new.outcome = o /\ new.request = old.request
    <2>1. Coalesce(o, NoOutcome) = o
      BY DEF Coalesce
    <2> DEFINE c == o
    <2>2. rnew = [row EXCEPT !.state = s, !.outcome = c]
          /\ new = [old EXCEPT !.state = s, !.outcome = c]
      BY <1>1, <2>1 DEF Moved
    <2>3. new \in Turn
      <3> HIDE DEF new
      <3>1. s \in ACTIVE \cup TERMINAL
        BY DEF STORED
      <3>2. QED BY <1>1, <2>2, <3>1 DEF Turn
    <2>4. QED BY <1>1, <2>2, <2>3 DEF Row, Turn
  <1> HIDE DEF new, rnew, old
  <1>3. /\ us \in Seq(Turn) /\ Len(us) = last /\ us[last] = new
        /\ \A n \in 1..last : n # last => us[n] = ts[n]
    BY <1>1, <1>2, ExceptSeq
  <1>4. o.bytes \in Nat
    BY SizesAreNatural
  <1>5. TurnBytes(new) <= TurnBytes(old) + o.bytes
    <2>1. NoOutcome.bytes = 0
      BY DEF NoOutcome
    <2>2. RequestSize[old.request] \in Nat
      BY <1>1, SizesAreNatural DEF Turn
    <2>3. TurnBytes(new) = RequestSize[old.request] + o.bytes
          /\ TurnBytes(old) = RequestSize[old.request] + 0
      BY <1>1, <1>2, <2>1 DEF TurnBytes
    <2>4. QED BY <1>4, <2>2, <2>3
  <1> HIDE DEF us
  <1>6. TurnsBytes(us) <= TurnsBytes(ts) + o.bytes
    <2>1. us[last] = new /\ ts[last] = old
      BY <1>3 DEF old
    <2>2. QED BY <1>1, <1>3, <1>4, <1>5, <2>1, RewrittenBytes
  <1>7. TurnsBytes(us) \in Nat /\ TurnsBytes(ts) \in Nat
    BY <1>1, <1>3, TurnWeightsType
  <1>8. /\ RequestSize[row.request] \in Nat
        /\ RecordBytes(row.body, row.approval) \in Nat
        /\ MaxOutcome \in Nat
    BY <1>1, SizesAreNatural DEF Row
  <1> DEFINE reserve == IF s \in ACTIVE THEN 2 * MaxOutcome ELSE 0
             base == RequestSize[row.request] + RecordBytes(row.body, row.approval)
  <1>9. /\ RowBytes(row, ts) = base + TurnsBytes(ts) + 2 * MaxOutcome
        /\ RowBytes(rnew, us) = base + o.bytes + TurnsBytes(us) + reserve
    <2>1. row.outcome.bytes = 0
      BY <1>1 DEF NoOutcome
    <2>2. QED BY <1>2, <1>4, <1>7, <1>8, <2>1 DEF RowBytes
  <1>10. s \in ACTIVE => o.bytes = 0
    BY DEF NoOutcome
  <1>11. base \in Nat
    BY <1>8
  <1>12. reserve + 2 * o.bytes <= 2 * MaxOutcome
    BY <1>4, <1>8, <1>10
  <1>13. reserve \in Nat
    BY <1>8
  <1> HIDE DEF base, reserve
  <1>14. RowBytes(rnew, us) <= RowBytes(row, ts)
    BY <1>4, <1>6, <1>7, <1>8, <1>9, <1>11, <1>12, <1>13
  <1>15. QED BY <1>2, <1>14 DEF rnew, us, new, old

\* recover_interrupted frees the room of the jobs it ends.
LEMMA SweptBytes ==
  ASSUME NEW row, NEW ts, Consistent(row, ts), row.request \in Requests,
         row.state \in STORED
  PROVE  RowBytes(IF row.state \in ACTIVE THEN Interrupted(row) ELSE row,
                  [n \in DOMAIN ts |-> IF ts[n].state \in ACTIVE
                                       THEN Interrupted(ts[n]) ELSE ts[n]])
           <= RowBytes(row, ts)
  <1> DEFINE us == [n \in DOMAIN ts |-> IF ts[n].state \in ACTIVE
                                        THEN Interrupted(ts[n]) ELSE ts[n]]
             last == Len(ts)
  <1>1. /\ row \in Row /\ ts \in Seq(Turn) /\ last \in 1..last
        /\ row.state = ts[last].state
        /\ \A n \in 1..last : n < last => ts[n].state \in TERMINAL
        /\ DOMAIN ts = 1..last
    BY ConstantTypes DEF Consistent
  <1>2. \A n \in 1..last : n # last => ts[n].state \notin ACTIVE
    <2>1. last \in Nat
      BY <1>1
    <2> HIDE DEF last
    <2>2. \A n \in 1..last : n # last => n < last
      BY <2>1
    <2>3. QED BY <1>1, <2>2, StatesDisjoint
  <1>3. RowBytes(row, ts) \in Nat
    BY <1>1, RowBytesType
  <1>4. CASE row.state \in ACTIVE
    <2>1. us = [ts EXCEPT ![last] = Interrupted(ts[last])]
      <3>1. \A n \in 1..last : us[n] = [ts EXCEPT ![last] = Interrupted(ts[last])][n]
        BY <1>1, <1>2, <1>4
      <3>2. DOMAIN us = 1..last
            /\ DOMAIN [ts EXCEPT ![last] = Interrupted(ts[last])] = 1..last
        BY <1>1
      <3>3. us = [n \in 1..last |-> us[n]]
        BY <1>1
      <3>4. QED BY <3>1, <3>2, <3>3
    <2>2. /\ "interrupted" \in STORED /\ "interrupted" \notin ACTIVE
          /\ InterruptedOutcome \in Outcome /\ InterruptedOutcome # NoOutcome
          /\ InterruptedOutcome.bytes <= MaxOutcome
      BY AnswersAreOutcomes, SizesAreNatural
         DEF STORED, TERMINAL, ACTIVE, InterruptedOutcome
    <2> HIDE DEF us
    <2>3. RowBytes(Interrupted(row), us) <= RowBytes(row, ts)
      BY <1>4, <2>1, <2>2, MovedBytes DEF Interrupted
    <2>4. QED BY <1>4, <2>3 DEF us
  <1>5. CASE row.state \notin ACTIVE
    <2>1. us = ts
      <3>1. \A n \in 1..last : us[n] = ts[n]
        BY <1>1, <1>2, <1>5
      <3>2. QED BY <1>1, <3>1
    <2> HIDE DEF us
    <2>2. RowBytes(row, us) <= RowBytes(row, ts)
      BY <1>3, <2>1
    <2>3. QED BY <1>5, <2>2 DEF us
  <1>6. QED BY <1>4, <1>5

\* A follow-up takes the room that add_turn asks for.
LEMMA ReopenedBytes ==
  ASSUME NEW row, NEW ts, Consistent(row, ts), row.state \in TERMINAL,
         row.request \in Requests, NEW k \in Keys, NEW r \in Requests
  PROVE  /\ RowBytes(Reopened(row), Append(ts, QueuedTurn(k, r)))
              <= RowBytes(row, ts) + (RequestSize[r] + 2 * MaxOutcome)
         /\ Reopened(row).request = row.request
  <1> DEFINE t == QueuedTurn(k, r)
             us == Append(ts, t)
             new == Reopened(row)
  <1>1. /\ row \in Row /\ ts \in Seq(Turn) /\ row.state \notin ACTIVE
    BY StatesDisjoint DEF Consistent
  <1>2. t \in Turn /\ TurnBytes(t) = RequestSize[r] + 0
    BY RowTypes DEF QueuedTurn, TurnBytes, NoOutcome
  <1>3. /\ new.state = "queued" /\ new.outcome = NoOutcome
        /\ new.request = row.request
        /\ new.body = row.body /\ new.approval = row.approval
    BY <1>1 DEF Reopened, Row
  <1>4. "queued" \in ACTIVE /\ NoOutcome.bytes = 0
    BY DEF ACTIVE, NoOutcome
  <1> HIDE DEF t, new
  <1>5. TurnsBytes(us) <= TurnsBytes(ts) + TurnBytes(t) /\ us \in Seq(Turn)
    BY <1>1, <1>2, AppendedBytes
  <1> HIDE DEF us
  <1>6. TurnsBytes(us) \in Nat /\ TurnsBytes(ts) \in Nat
    BY <1>1, <1>5, TurnWeightsType
  <1>7. /\ RequestSize[row.request] \in Nat /\ RequestSize[r] \in Nat
        /\ RecordBytes(row.body, row.approval) \in Nat
        /\ row.outcome.bytes \in Nat /\ MaxOutcome \in Nat
    BY <1>1, SizesAreNatural DEF Row
  <1> DEFINE base == RequestSize[row.request] + RecordBytes(row.body, row.approval)
  <1>8. /\ RowBytes(row, ts) = base + row.outcome.bytes + TurnsBytes(ts)
        /\ RowBytes(new, us) = base + TurnsBytes(us) + 2 * MaxOutcome
    BY <1>1, <1>3, <1>4, <1>6, <1>7 DEF RowBytes
  <1>9. base \in Nat
    BY <1>7
  <1> HIDE DEF base
  <1>10. RowBytes(new, us) <= RowBytes(row, ts) + (RequestSize[r] + 2 * MaxOutcome)
    <2> DEFINE before == TurnsBytes(ts)
               after == TurnsBytes(us)
               size == RequestSize[r]
               held == row.outcome.bytes
    <2>1. /\ before \in Nat /\ after \in Nat /\ size \in Nat /\ held \in Nat
          /\ MaxOutcome \in Nat
      BY <1>6, <1>7
    <2>2. after <= before + size
      BY <1>2, <1>5, <1>7
    <2>3. /\ RowBytes(row, ts) = base + held + before
          /\ RowBytes(new, us) = base + after + 2 * MaxOutcome
      BY <1>8
    <2>4. (RequestSize[r] + 2 * MaxOutcome) = size + 2 * MaxOutcome
      OBVIOUS
    <2> HIDE DEF before, after, size, held
    <2>5. base + after + 2 * MaxOutcome <= (base + held + before) + (size + 2 * MaxOutcome)
      BY <1>9, <2>1, <2>2
    <2>6. QED BY <2>3, <2>4, <2>5
  <1>11. QED BY <1>3, <1>10 DEF us, t, new

\* A new investigation takes at most the room that create_investigation asks for.
LEMMA CreatedBytes ==
  ASSUME NEW a \in Analyses, NEW k \in Keys, NEW r \in Requests
  PROVE  /\ RowBytes(QueuedRow(a, k, r), <<QueuedTurn(k, r)>>)
              <= 2 * RequestSize[r] + 2 * MaxOutcome + RecordMargin
         /\ QueuedRow(a, k, r).request = r
  <1> DEFINE t == QueuedTurn(k, r)
             us == Append(<<>>, t)
             new == QueuedRow(a, k, r)
  <1>1. t \in Turn /\ TurnBytes(t) = RequestSize[r] + 0
    BY RowTypes DEF QueuedTurn, TurnBytes, NoOutcome
  <1>2. /\ new.state = "queued" /\ new.outcome = NoOutcome /\ new.request = r
        /\ new.body = Blank /\ new.approval = NONE
    BY DEF QueuedRow, NoRow
  <1>3. "queued" \in ACTIVE /\ NoOutcome.bytes = 0
    BY DEF ACTIVE, NoOutcome
  <1> HIDE DEF t, new
  <1>4. us = <<t>> /\ <<>> \in Seq(Turn)
    BY <1>1, EmptySeq
  <1>5. TurnsBytes(us) <= TurnsBytes(<<>>) + TurnBytes(t) /\ us \in Seq(Turn)
    <2> DEFINE ts == <<>>
    <2>1. ts \in Seq(Turn)
      BY <1>4
    <2>2. us = Append(ts, t)
      OBVIOUS
    <2> HIDE DEF ts, us
    <2>3. TurnsBytes(us) <= TurnsBytes(ts) + TurnBytes(t)
      BY <1>1, <2>1, <2>2, AppendedBytes
    <2>4. us \in Seq(Turn)
      BY <1>1, <1>4
    <2>5. QED BY <2>3, <2>4 DEF ts
  <1>6. TurnsBytes(<<>>) = 0
    <2>1. TurnWeights(<<>>) \in [1..0 -> Nat]
          /\ TurnsBytes(<<>>) = SumFunction(TurnWeights(<<>>))
      BY <1>4, TurnWeightsType
    <2>2. DOMAIN TurnWeights(<<>>) = {}
      BY <2>1
    <2>3. SumFunctionOnSet(TurnWeights(<<>>), {}) = 0
      BY FS_EmptySet, SumParts
    <2>4. QED BY <2>1, <2>2, <2>3 DEF SumFunction
  <1> HIDE DEF us
  <1>7. TurnsBytes(us) \in Nat
    BY <1>5, TurnWeightsType
  <1>8. /\ RequestSize[r] \in Nat /\ MaxOutcome \in Nat /\ RecordMargin \in Nat
        /\ RecordBytes(Blank, NONE) \in Nat /\ RecordBytes(Blank, NONE) <= RecordMargin
    BY SizesAreNatural, ConstantTypes
  <1>9. RowBytes(new, us) =
          RequestSize[r] + 0 + RecordBytes(Blank, NONE) + TurnsBytes(us) + 2 * MaxOutcome
    BY <1>2, <1>3 DEF RowBytes
  <1>10. RowBytes(new, us) <= 2 * RequestSize[r] + 2 * MaxOutcome + RecordMargin
    BY <1>1, <1>5, <1>6, <1>7, <1>8, <1>9
  <1>11. QED BY <1>2, <1>4, <1>10 DEF new, t

\* A record takes at most its own length more than before.
LEMMA WrittenBytes ==
  ASSUME NEW row \in Row, NEW ts \in Seq(Turn), row.request \in Requests,
         NEW body \in Bodies, NEW approval \in Bodies \cup {NONE}
  PROVE  /\ RowBytes(WithRecord(row, body, approval), ts)
              <= RowBytes(row, ts) + RecordBytes(body, approval)
         /\ WithRecord(row, body, approval).request = row.request
  <1> DEFINE new == WithRecord(row, body, approval)
  <1>1. /\ new.state = row.state /\ new.outcome = row.outcome
        /\ new.request = row.request /\ new.body = body /\ new.approval = approval
    BY DEF WithRecord, Row
  <1> HIDE DEF new
  <1>2. /\ RequestSize[row.request] \in Nat /\ row.outcome.bytes \in Nat
        /\ RecordBytes(row.body, row.approval) \in Nat
        /\ RecordBytes(body, approval) \in Nat /\ MaxOutcome \in Nat
    BY SizesAreNatural DEF Row
  <1>3. TurnsBytes(ts) \in Nat
    BY TurnWeightsType
  <1>4. RowBytes(new, ts) <= RowBytes(row, ts) + RecordBytes(body, approval)
    BY <1>1, <1>2, <1>3 DEF RowBytes
  <1>5. QED BY <1>1, <1>4 DEF new

-----------------------------------------------------------------------------
\* The runner reports a final state.
LEMMA EndedStatus ==
  \A o \in JobOutcome :
    /\ (IF o.status = "other" THEN "failed" ELSE o.status) \in STORED
    /\ (IF o.status = "other" THEN "failed" ELSE o.status) \notin ACTIVE
  <1>1. RunStatuses \subseteq {"completed", "partial", "failed", "cancelled", "other"}
    BY StoreAssumption
  <1>2. \A o \in RunOutcome :
          o.status \in {"completed", "partial", "failed", "cancelled", "other"}
    BY <1>1 DEF RunOutcome
  <1>3. CancelledOutcome.status = "cancelled"
    BY DEF CancelledOutcome
  <1>4. QED BY <1>2, <1>3 DEF JobOutcome, STORED, TERMINAL, ACTIVE

\* Every operation keeps what is stored within the quota: a removal frees room.
LEMMA RemoveKeepsQuota ==
  ASSUME QuotaInv, StoreInv', NEW gone \in SUBSET Analyses,
         snapshots' = SnapshotsWithout(gone),
         investigations' = InvestigationsWithout(gone),
         turns' = TurnsWithout(gone)
  PROVE  QuotaInv'
  <1> USE DEF QuotaInv
  <1>1. /\ HeldWithout({})' \subseteq HeldWithout(gone)
        /\ \A a \in HeldWithout({})' : snapshots'[a].payload = snapshots[a].payload
    BY DEF HeldWithout, Held, SnapshotsWithout, NoSnapshot
  <1>2. \A i \in Ids : Exists(i)' =>
          /\ Exists(i) /\ investigations[i].analysis \notin gone
          /\ investigations'[i] = investigations[i] /\ turns'[i] = turns[i]
    BY RemovedConsistent DEF Exists, STORED
  <1>3. StoredWithout({})' \subseteq StoredWithout(gone)
    BY <1>2 DEF StoredWithout
  <1>4. \A i \in Ids : Exists(i)' => investigations'[i].request \in Requests
    BY <1>2
  <1>5. \A i \in StoredWithout({})' :
          RowBytes(investigations'[i], turns'[i]) <= RowBytes(investigations[i], turns[i])
    <2>1. \A i \in StoredWithout({})' : i \in Ids /\ Exists(i)' /\ Exists(i)
      BY <1>2 DEF StoredWithout
    <2>2. \A i \in StoredWithout({})' : RowBytes(investigations[i], turns[i]) \in Nat
      BY <2>1, RowBytesType DEF StoreInv, TypeOK
    <2>3. QED BY <1>2, <2>1, <2>2
  <1>6. /\ IsFiniteSet(HeldWithout({})') /\ SumFunction(PayloadWeights({}))' \in Nat
        /\ SumFunction(PayloadWeights({}))' <= SumFunction(PayloadWeights(gone))
    BY <1>1, PayloadsAfter
  <1>7. /\ IsFiniteSet(StoredWithout({})') /\ SumFunction(RowWeights({}))' \in Nat
        /\ SumFunction(RowWeights({}))' <= SumFunction(RowWeights(gone))
    BY <1>3, <1>4, <1>5, RowsKept
  <1>8. Used(gone) + (0 + 0) <= MaxBytes
    <2>1. Used(gone) <= Used({}) /\ Used(gone) \in Nat /\ Used({}) \in Nat
      BY UsedBytes
    <2>2. QED BY <2>1, SizesAreNatural DEF WithinQuota
  <1>9. QED
    <2>1. /\ SumFunction(PayloadWeights(gone)) \in Nat
          /\ SumFunction(RowWeights(gone)) \in Nat
      BY UsedBytes
    <2>2. /\ SumFunction(PayloadWeights({}))' <= SumFunction(PayloadWeights(gone)) + 0
          /\ SumFunction(RowWeights({}))' <= SumFunction(RowWeights(gone)) + 0
      BY <1>6, <1>7, <2>1
    <2> HIDE DEF QuotaInv
    <2>3. QED BY <1>4, <1>6, <1>7, <1>8, <2>2, WithinRoom

\* A row that is stored weighs a number of bytes.
LEMMA KeptBytes ==
  ASSUME QuotaInv, NEW i \in Ids, Exists(i)
  PROVE  RowBytes(investigations[i], turns[i]) \in Nat
  BY RowBytesType DEF QuotaInv, StoreInv, TypeOK

\* put_snapshot finds room for the payload after its purge.
LEMMA PutKeepsQuota ==
  ASSUME QuotaInv, StoreInv', NEW a \in Analyses, NEW p \in Payloads, PutSnapshot(a, p)
  PROVE  QuotaInv'
  <1> DEFINE gone == Expired
             S == HeldWithout(gone)
             T == HeldWithout({})'
             R == T \ {a}
             f == PayloadWeights(gone)
             g == PayloadWeights({})'
             new == [payload |-> p, expires |-> clock + Retention]
  <1>1. /\ snapshots' = [SnapshotsWithout(gone) EXCEPT ![a] = new]
        /\ investigations' = InvestigationsWithout(gone)
        /\ turns' = TurnsWithout(gone)
        /\ Used(gone) + PayloadSize[p] <= MaxBytes
        /\ ~Unexpired(a)
    BY DEF PutSnapshot, HasRoom
  <1>2. gone \in SUBSET Analyses /\ StoreInv
    BY DEF Expired, QuotaInv
  <1>3. p # NONE /\ PayloadSize[p] \in Nat
    BY ConstantTypes, SizesAreNatural
  <1> HIDE DEF new
  <1>4. /\ snapshots'[a] = new /\ new.payload = p
        /\ \A b \in Analyses \ {a} : snapshots'[b] = SnapshotsWithout(gone)[b]
    BY <1>1 DEF SnapshotsWithout, new
  <1>5. a \notin S
    <2>1. Held(a) => a \in gone
      BY <1>1, <1>2 DEF Unexpired, Expired, StoreInv, TypeOK, Snapshot
    <2>2. QED BY <2>1 DEF HeldWithout
  <1>6. a \in T
    BY <1>3, <1>4 DEF HeldWithout, Held
  <1>7. \A b \in R : b \in S /\ snapshots'[b] = snapshots[b]
    BY <1>4 DEF HeldWithout, Held, SnapshotsWithout, NoSnapshot
  <1>8. /\ IsFiniteSet(S) /\ f \in [S -> Nat] /\ SumFunction(f) \in Nat
        /\ SumFunction(RowWeights(gone)) \in Nat
    BY UsedBytes
  <1>9. g = [b \in T |-> PayloadSize[snapshots'[b].payload]]
        /\ f = [b \in S |-> PayloadSize[snapshots[b].payload]]
    BY DEF PayloadWeights
  <1> HIDE DEF S, T, f, g, gone
  <1>10. /\ \A b \in R : g[b] = f[b] /\ f[b] \in Nat
         /\ g[a] = PayloadSize[p]
    <2>1. \A b \in R : b \in T /\ b \in S /\ snapshots'[b] = snapshots[b]
      BY <1>7
    <2> HIDE DEF R
    <2>2. QED BY <1>4, <1>6, <1>8, <1>9, <2>1
  <1>11. T = R \cup {a} /\ a \notin R /\ R \in SUBSET S
    BY <1>6, <1>7
  <1>12. IsFiniteSet(T)
    <2>1. IsFiniteSet(R)
      BY <1>8, <1>11, FS_Subset
    <2> HIDE DEF R
    <2>2. QED BY <1>11, <2>1, FS_AddElement
  <1> HIDE DEF R
  <1>13. g \in [R \cup {a} -> Nat] /\ \A b \in R : g[b] <= f[b]
    <2>1. \A b \in T : g[b] \in Nat
      BY <1>3, <1>10, <1>11
    <2>2. g \in [T -> Nat]
      BY <1>9, <2>1
    <2>3. QED BY <1>10, <1>11, <2>2
  <1>14. SumFunction(g) <= SumFunction(f) + PayloadSize[p]
    BY <1>8, <1>10, <1>11, <1>13, SumMore
  <1>15. SumFunction(g) \in Nat
    BY <1>11, <1>12, <1>13, SumType
  <1>16. \A i \in Ids : Exists(i)' =>
           /\ Exists(i) /\ investigations[i].analysis \notin gone
           /\ investigations'[i] = investigations[i] /\ turns'[i] = turns[i]
    BY <1>1, <1>2, RemovedConsistent DEF Exists, STORED
  <1>17. \A i \in Ids : Exists(i)' => investigations'[i].request \in Requests
    BY <1>16 DEF QuotaInv
  <1>18. /\ IsFiniteSet(StoredWithout({})') /\ SumFunction(RowWeights({}))' \in Nat
         /\ SumFunction(RowWeights({}))' <= SumFunction(RowWeights(gone))
    <2>1. StoredWithout({})' \subseteq StoredWithout(gone)
      BY <1>16 DEF StoredWithout
    <2>2. \A i \in StoredWithout({})' : i \in Ids /\ Exists(i)'
      BY DEF StoredWithout
    <2>3. \A i \in StoredWithout({})' :
            RowBytes(investigations'[i], turns'[i]) <= RowBytes(investigations[i], turns[i])
      <3>1. \A i \in StoredWithout({})' : RowBytes(investigations[i], turns[i]) \in Nat
        BY <1>16, <2>2, KeptBytes
      <3>2. QED BY <1>16, <2>2, <3>1
    <2>4. QED BY <1>17, <2>1, <2>3, RowsKept
  <1>19. Used(gone) + (PayloadSize[p] + 0) <= MaxBytes
    BY <1>1, <1>3
  <1>20. SumFunction(RowWeights({}))' <= SumFunction(RowWeights(gone)) + 0
    BY <1>8, <1>18
  <1>21. QED
    BY <1>3, <1>12, <1>14, <1>15, <1>17, <1>18, <1>19, <1>20, WithinRoom DEF g, f, T

\* create_investigation finds room for its row, its first turn and an answer.
LEMMA CreateKeepsQuota ==
  ASSUME QuotaInv, StoreInv', NEW i \in Ids, NEW a \in Analyses, NEW k \in Keys,
         NEW r \in Requests, CreateInvestigation(i, a, k, r)
  PROVE  QuotaInv'
  <1> DEFINE gone == Expired
             row == QueuedRow(a, k, r)
             ts == <<QueuedTurn(k, r)>>
             d == 2 * RequestSize[r] + 2 * MaxOutcome + RecordMargin
  <1>1. /\ snapshots' = SnapshotsWithout(gone)
        /\ investigations' = [InvestigationsWithout(gone) EXCEPT ![i] = row]
        /\ turns' = [TurnsWithout(gone) EXCEPT ![i] = ts]
        /\ Used(gone) + d <= MaxBytes
        /\ investigations[i].state = "free"
    BY DEF CreateInvestigation, HasRoom
  <1>2. gone \in SUBSET Analyses /\ StoreInv
    BY DEF Expired, QuotaInv
  <1>3. RowBytes(row, ts) <= d /\ row.request = r
    BY CreatedBytes
  <1>4. d \in Nat
    BY SizesAreNatural
  <1>5. row.state = "queued"
    BY DEF QueuedRow, NoRow
  <1> HIDE DEF row, ts, d, gone
  <1>6. /\ HeldWithout({})' \subseteq HeldWithout(gone)
        /\ \A b \in HeldWithout({})' : snapshots'[b].payload = snapshots[b].payload
    BY <1>1 DEF HeldWithout, Held, SnapshotsWithout, NoSnapshot
  <1>7. investigations'[i] = row /\ turns'[i] = ts
    BY <1>1 DEF InvestigationsWithout, TurnsWithout
  <1>8. \A j \in Ids \ {i} : Exists(j)' =>
          /\ Exists(j) /\ investigations[j].analysis \notin gone
          /\ investigations'[j] = investigations[j] /\ turns'[j] = turns[j]
    <2>1. \A j \in Ids \ {i} : /\ investigations'[j] = InvestigationsWithout(gone)[j]
                                /\ turns'[j] = TurnsWithout(gone)[j]
      BY <1>1 DEF InvestigationsWithout, TurnsWithout
    <2>2. QED BY <1>2, <2>1, RemovedConsistent DEF Exists, STORED
  <1>9. \A j \in Ids : Exists(j)' => investigations'[j].request \in Requests
    BY <1>3, <1>7, <1>8 DEF QuotaInv
  <1>10. /\ i \notin StoredWithout(gone) /\ i \in StoredWithout({})'
         /\ StoredWithout({})' \subseteq StoredWithout(gone) \cup {i}
    <2>1. ~Exists(i)
      BY <1>1, StatesDisjoint DEF Exists, STORED
    <2>2. Exists(i)'
      BY <1>5, <1>7 DEF Exists, ACTIVE
    <2>3. QED BY <1>8, <2>1, <2>2 DEF StoredWithout
  <1>11. \A j \in StoredWithout({})' : j # i =>
           RowBytes(investigations'[j], turns'[j]) <= RowBytes(investigations[j], turns[j])
    <2>1. \A j \in StoredWithout({})' : j \in Ids /\ Exists(j)'
      BY DEF StoredWithout
    <2>2. \A j \in StoredWithout({})' : j # i => RowBytes(investigations[j], turns[j]) \in Nat
      BY <1>8, <2>1, KeptBytes
    <2>3. QED BY <1>8, <2>1, <2>2
  <1>12. /\ IsFiniteSet(HeldWithout({})') /\ SumFunction(PayloadWeights({}))' \in Nat
         /\ SumFunction(PayloadWeights({}))' <= SumFunction(PayloadWeights(gone))
    BY <1>6, PayloadsAfter
  <1>13. RowBytes(investigations'[i], turns'[i]) <= d
    BY <1>3, <1>7
  <1>14. /\ IsFiniteSet(StoredWithout({})') /\ SumFunction(RowWeights({}))' \in Nat
         /\ SumFunction(RowWeights({}))' <= SumFunction(RowWeights(gone)) + d
    BY <1>4, <1>9, <1>10, <1>11, <1>13, RowsAndOne
  <1>15. Used(gone) + (0 + d) <= MaxBytes
    BY <1>1, <1>4
  <1>16. SumFunction(PayloadWeights({}))' <= SumFunction(PayloadWeights(gone)) + 0
    BY <1>12, UsedBytes
  <1>17. QED BY <1>4, <1>9, <1>12, <1>14, <1>15, <1>16, WithinRoom

\* add_turn finds room for the question and the answer.
LEMMA AddTurnKeepsQuota ==
  ASSUME QuotaInv, StoreInv', NEW i \in Ids, NEW k \in Keys, NEW r \in Requests,
         AddTurn(i, k, r)
  PROVE  QuotaInv'
  <1> DEFINE gone == Expired
             row == Reopened(investigations[i])
             ts == Append(turns[i], QueuedTurn(k, r))
             d == RequestSize[r] + 2 * MaxOutcome
  <1>1. /\ snapshots' = SnapshotsWithout(gone)
        /\ investigations' = [InvestigationsWithout(gone) EXCEPT ![i] = row]
        /\ turns' = [TurnsWithout(gone) EXCEPT ![i] = ts]
        /\ Used(gone) + d <= MaxBytes
        /\ investigations[i].state \in TERMINAL
        /\ investigations[i].analysis \notin gone
        /\ Exists(i)
    BY DEF AddTurn, HasRoom, Surviving, Exists, Active
  <1>2. gone \in SUBSET Analyses /\ StoreInv
    BY DEF Expired, QuotaInv
  <1>3. /\ RowBytes(row, ts) <= RowBytes(investigations[i], turns[i]) + d
        /\ row.request = investigations[i].request
        /\ investigations[i].request \in Requests
    BY <1>1, ReopenedBytes DEF QuotaInv, StoreInv
  <1>4. d \in Nat
    BY SizesAreNatural
  <1> HIDE DEF row, ts, d, gone
  <1>6. /\ HeldWithout({})' \subseteq HeldWithout(gone)
        /\ \A b \in HeldWithout({})' : snapshots'[b].payload = snapshots[b].payload
    BY <1>1 DEF HeldWithout, Held, SnapshotsWithout, NoSnapshot
  <1>7. investigations'[i] = row /\ turns'[i] = ts
    BY <1>1 DEF InvestigationsWithout, TurnsWithout
  <1>8. \A j \in Ids \ {i} : Exists(j)' =>
          /\ Exists(j) /\ investigations[j].analysis \notin gone
          /\ investigations'[j] = investigations[j] /\ turns'[j] = turns[j]
    <2>1. \A j \in Ids \ {i} : /\ investigations'[j] = InvestigationsWithout(gone)[j]
                                /\ turns'[j] = TurnsWithout(gone)[j]
      BY <1>1 DEF InvestigationsWithout, TurnsWithout
    <2>2. QED BY <1>2, <2>1, RemovedConsistent DEF Exists, STORED
  <1>9. \A j \in Ids : Exists(j)' => investigations'[j].request \in Requests
    BY <1>3, <1>7, <1>8 DEF QuotaInv
  <1>10. /\ i \in StoredWithout(gone)
         /\ StoredWithout({})' \subseteq StoredWithout(gone)
    BY <1>1, <1>8 DEF StoredWithout
  <1>11. \A j \in StoredWithout({})' : j # i =>
           RowBytes(investigations'[j], turns'[j]) <= RowBytes(investigations[j], turns[j])
    <2>1. \A j \in StoredWithout({})' : j \in Ids /\ Exists(j)'
      BY DEF StoredWithout
    <2>2. \A j \in StoredWithout({})' : j # i => RowBytes(investigations[j], turns[j]) \in Nat
      BY <1>8, <2>1, KeptBytes
    <2>3. QED BY <1>8, <2>1, <2>2
  <1>12. /\ IsFiniteSet(HeldWithout({})') /\ SumFunction(PayloadWeights({}))' \in Nat
         /\ SumFunction(PayloadWeights({}))' <= SumFunction(PayloadWeights(gone))
    BY <1>6, PayloadsAfter
  <1>13. RowBytes(investigations'[i], turns'[i]) <= RowBytes(investigations[i], turns[i]) + d
    BY <1>3, <1>7
  <1>14. /\ IsFiniteSet(StoredWithout({})') /\ SumFunction(RowWeights({}))' \in Nat
         /\ SumFunction(RowWeights({}))' <= SumFunction(RowWeights(gone)) + d
    BY <1>4, <1>9, <1>10, <1>11, <1>13, RowsAfter
  <1>15. Used(gone) + (0 + d) <= MaxBytes
    BY <1>1, <1>4
  <1>16. SumFunction(PayloadWeights({}))' <= SumFunction(PayloadWeights(gone)) + 0
    BY <1>12, UsedBytes
  <1>17. QED BY <1>4, <1>9, <1>12, <1>14, <1>15, <1>16, WithinRoom

\* An operation that writes rows in place, and lets one of them grow by d.
LEMMA RewriteKeepsQuota ==
  ASSUME QuotaInv, StoreInv', UNCHANGED snapshots,
         NEW d \in Nat, Used({}) + d <= MaxBytes, NEW x \in Ids, Exists(x),
         \A i \in Ids : Exists(i)' =>
           Exists(i) /\ investigations'[i].request = investigations[i].request,
         \A i \in Ids : Exists(i)' /\ i # x =>
           RowBytes(investigations'[i], turns'[i]) <= RowBytes(investigations[i], turns[i]),
         RowBytes(investigations'[x], turns'[x]) <= RowBytes(investigations[x], turns[x]) + d
  PROVE  QuotaInv'
  <1>1. /\ HeldWithout({})' \subseteq HeldWithout({})
        /\ \A b \in HeldWithout({})' : snapshots'[b].payload = snapshots[b].payload
    BY DEF HeldWithout, Held
  <1>2. \A i \in Ids : Exists(i)' => investigations'[i].request \in Requests
    BY DEF QuotaInv
  <1>3. /\ StoredWithout({})' \subseteq StoredWithout({}) /\ x \in StoredWithout({})
        /\ \A i \in StoredWithout({})' : i \in Ids /\ Exists(i)'
    BY DEF StoredWithout
  <1>4. \A i \in StoredWithout({})' : i # x =>
          RowBytes(investigations'[i], turns'[i]) <= RowBytes(investigations[i], turns[i])
    BY <1>3
  <1>5. /\ IsFiniteSet(HeldWithout({})') /\ SumFunction(PayloadWeights({}))' \in Nat
        /\ SumFunction(PayloadWeights({}))' <= SumFunction(PayloadWeights({}))
    BY <1>1, PayloadsAfter
  <1>6. /\ IsFiniteSet(StoredWithout({})') /\ SumFunction(RowWeights({}))' \in Nat
        /\ SumFunction(RowWeights({}))' <= SumFunction(RowWeights({})) + d
    BY <1>2, <1>3, <1>4, RowsAfter
  <1>7. SumFunction(PayloadWeights({}))' <= SumFunction(PayloadWeights({})) + 0
    BY <1>5, UsedBytes
  <1>8. Used({}) + (0 + d) <= MaxBytes
    OBVIOUS
  <1>9. QED BY <1>2, <1>5, <1>6, <1>7, <1>8, WithinRoom

\* transition writes an answer where room was set aside for it.
LEMMA TransitionKeepsQuota ==
  ASSUME QuotaInv, StoreInv', NEW i \in Ids, NEW expected \in SUBSET ACTIVE,
         NEW s \in STORED, NEW o \in Outcome,
         (o = NoOutcome) <=> (s \in ACTIVE),
         Transition(i, expected, s, o)
  PROVE  QuotaInv'
  <1>1. CASE investigations[i].state \notin expected
    <2>1. UNCHANGED <<snapshots, investigations, turns>>
      BY <1>1 DEF Transition
    <2>2. UNCHANGED <<HeldWithout({}), StoredWithout({}), Used({})>>
      BY <2>1 DEF HeldWithout, StoredWithout, Used, Held, Exists
    <2>3. QED BY <2>1, <2>2 DEF QuotaInv, WithinQuota, Exists
  <1>2. CASE investigations[i].state \in expected
    <2> DEFINE row == Moved(investigations[i], s, o)
               ts == [turns[i] EXCEPT ![Last(i)] = Moved(turns[i][Last(i)], s, o)]
    <2>1. /\ investigations[i].state \in ACTIVE /\ Exists(i)
          /\ investigations[i].request \in Requests
          /\ Consistent(investigations[i], turns[i])
      BY <1>2 DEF Exists, QuotaInv, StoreInv
    <2>2. /\ RowBytes(row, ts) <= RowBytes(investigations[i], turns[i])
          /\ row.request = investigations[i].request
      BY <2>1, MovedBytes DEF Last, Transition
    <2>3. /\ investigations' = [investigations EXCEPT ![i] = row]
          /\ turns' = [turns EXCEPT ![i] = ts]
          /\ UNCHANGED snapshots
      BY <1>2 DEF Transition
    <2> HIDE DEF row, ts
    <2>4. /\ investigations'[i] = row /\ turns'[i] = ts
          /\ \A j \in Ids \ {i} : investigations'[j] = investigations[j] /\ turns'[j] = turns[j]
      BY <2>3 DEF QuotaInv, StoreInv, TypeOK
    <2>5. \A j \in Ids : Exists(j)' =>
            Exists(j) /\ investigations'[j].request = investigations[j].request
      BY <2>1, <2>2, <2>4 DEF Exists
    <2>6. \A j \in Ids : Exists(j) => RowBytes(investigations[j], turns[j]) \in Nat
      BY KeptBytes
    <2>7. \A j \in Ids : Exists(j)' /\ j # i =>
            RowBytes(investigations'[j], turns'[j]) <= RowBytes(investigations[j], turns[j])
      BY <2>4, <2>5, <2>6
    <2>8. RowBytes(investigations'[i], turns'[i]) <= RowBytes(investigations[i], turns[i]) + 0
      <3>1. RowBytes(investigations[i], turns[i]) \in Nat
        BY <2>1, <2>6
      <3>2. QED BY <2>2, <2>4, <3>1
    <2>9. Used({}) + 0 <= MaxBytes
      BY UsedBytes DEF QuotaInv, WithinQuota
    <2>10. QED BY <2>1, <2>3, <2>5, <2>7, <2>8, <2>9, RewriteKeepsQuota
  <1>3. QED BY <1>1, <1>2

\* save_record and review_record find room for the whole record.
LEMMA WriteKeepsQuota ==
  ASSUME QuotaInv, StoreInv', NEW i \in Ids, NEW rev, NEW body \in Bodies,
         NEW approval \in Bodies \cup {NONE}, Exists(i),
         WriteRecord(i, rev, body, approval)
  PROVE  QuotaInv'
  <1> DEFINE row == WithRecord(investigations[i], body, approval)
             d == RecordBytes(body, approval)
  <1>1. /\ investigations[i] \in Row /\ turns[i] \in Seq(Turn)
        /\ investigations[i].request \in Requests
    BY DEF QuotaInv, StoreInv, TypeOK
  <1>2. /\ RowBytes(row, turns[i]) <= RowBytes(investigations[i], turns[i]) + d
        /\ row.request = investigations[i].request
    BY <1>1, WrittenBytes
  <1>3. /\ investigations' = [investigations EXCEPT ![i] = row]
        /\ UNCHANGED <<turns, snapshots>>
        /\ Used({}) + d <= MaxBytes
    BY DEF WriteRecord, HasRoom
  <1>4. d \in Nat
    BY SizesAreNatural
  <1> HIDE DEF row, d
  <1>5. /\ investigations'[i] = row
        /\ \A j \in Ids \ {i} : investigations'[j] = investigations[j]
    BY <1>3 DEF QuotaInv, StoreInv, TypeOK
  <1>6. \A j \in Ids : Exists(j)' =>
          Exists(j) /\ investigations'[j].request = investigations[j].request
    BY <1>2, <1>5 DEF Exists
  <1>7. \A j \in Ids : Exists(j)' /\ j # i =>
          RowBytes(investigations'[j], turns'[j]) <= RowBytes(investigations[j], turns[j])
    <2>1. \A j \in Ids : Exists(j) => RowBytes(investigations[j], turns[j]) \in Nat
      BY KeptBytes
    <2>2. QED BY <1>3, <1>5, <1>6, <2>1
  <1>8. RowBytes(investigations'[i], turns'[i]) <= RowBytes(investigations[i], turns[i]) + d
    BY <1>2, <1>3, <1>5
  <1>9. QED BY <1>3, <1>4, <1>6, <1>7, <1>8, RewriteKeepsQuota

\* recover_interrupted needs no room.
LEMMA RecoverKeepsQuota ==
  ASSUME QuotaInv, StoreInv', RecoverInterrupted
  PROVE  QuotaInv'
  <1>1. \A i \in Ids : /\ investigations'[i] =
                           (IF investigations[i].state \in ACTIVE
                            THEN Interrupted(investigations[i]) ELSE investigations[i])
                       /\ turns'[i] = [n \in DOMAIN turns[i] |->
                            IF turns[i][n].state \in ACTIVE
                            THEN Interrupted(turns[i][n]) ELSE turns[i][n]]
    BY DEF RecoverInterrupted, Active
  <1>2. \A i \in Ids : Exists(i)' =>
          Exists(i) /\ investigations'[i].request = investigations[i].request
    <2>1. \A i \in Ids : investigations[i] \in Row
      BY DEF QuotaInv, StoreInv, TypeOK
    <2>2. \A row \in Row : Interrupted(row).request = row.request
      BY DEF Interrupted, Moved, Row
    <2>3. QED BY <1>1, <2>1, <2>2 DEF Exists
  <1>3. \A i \in Ids : Exists(i) =>
          RowBytes(investigations'[i], turns'[i]) <= RowBytes(investigations[i], turns[i])
    BY <1>1, SweptBytes DEF QuotaInv, StoreInv, Exists, STORED
  <1>4. StoredWithout({})' \subseteq StoredWithout({})
    BY <1>2 DEF StoredWithout
  <1>5. \A i \in StoredWithout({})' :
          RowBytes(investigations'[i], turns'[i]) <= RowBytes(investigations[i], turns[i])
    BY <1>2, <1>3 DEF StoredWithout
  <1>6. \A i \in Ids : Exists(i)' => investigations'[i].request \in Requests
    BY <1>2 DEF QuotaInv
  <1>7. /\ HeldWithout({})' \subseteq HeldWithout({})
        /\ \A b \in HeldWithout({})' : snapshots'[b].payload = snapshots[b].payload
    BY DEF HeldWithout, Held, RecoverInterrupted
  <1>8. /\ IsFiniteSet(HeldWithout({})') /\ SumFunction(PayloadWeights({}))' \in Nat
        /\ SumFunction(PayloadWeights({}))' <= SumFunction(PayloadWeights({}))
    BY <1>7, PayloadsAfter
  <1>9. /\ IsFiniteSet(StoredWithout({})') /\ SumFunction(RowWeights({}))' \in Nat
        /\ SumFunction(RowWeights({}))' <= SumFunction(RowWeights({}))
    BY <1>4, <1>5, <1>6, RowsKept
  <1>10. /\ Used({}) + (0 + 0) <= MaxBytes
         /\ SumFunction(PayloadWeights({}))' <= SumFunction(PayloadWeights({})) + 0
         /\ SumFunction(RowWeights({}))' <= SumFunction(RowWeights({})) + 0
    BY <1>8, <1>9, UsedBytes DEF QuotaInv, WithinQuota
  <1>11. QED BY <1>6, <1>8, <1>9, <1>10, WithinRoom

\* So every operation keeps within the quota.
LEMMA QuotaInvStep ==
  ASSUME QuotaInv, [Next]_allStoreVars
  PROVE  QuotaInv'
  <1>1. StoreInv /\ StoreInv'
    BY StoreInvStep DEF QuotaInv
  <1>2. ASSUME UNCHANGED <<snapshots, investigations, turns>> PROVE QuotaInv'
    <2>1. UNCHANGED <<HeldWithout({}), StoredWithout({}), Used({})>>
      BY <1>2 DEF HeldWithout, StoredWithout, Used, Held, Exists
    <2>2. QED BY <1>1, <1>2, <2>1 DEF QuotaInv, WithinQuota, Exists
  <1>3. CASE PurgeExpired
    <2>1. Expired \in SUBSET Analyses
      BY DEF Expired
    <2>2. QED BY <1>1, <1>3, <2>1, RemoveKeepsQuota DEF PurgeExpired
  <1>4. CASE RecoverInterrupted
    BY <1>1, <1>4, RecoverKeepsQuota
  <1>5. ASSUME NEW a \in Analyses, DeleteSnapshot(a) PROVE QuotaInv'
    BY <1>1, <1>5, RemoveKeepsQuota DEF DeleteSnapshot
  <1>6. ASSUME NEW a \in Analyses, NEW p \in Payloads, PutSnapshot(a, p)
        PROVE  QuotaInv'
    BY <1>1, <1>6, PutKeepsQuota
  <1>7. ASSUME NEW a \in Analyses, NEW i \in Ids, NEW k \in Keys,
               NEW r \in Requests, CreateInvestigation(i, a, k, r)
        PROVE  QuotaInv'
    BY <1>1, <1>7, CreateKeepsQuota
  <1>8. ASSUME NEW i \in Ids, NEW k \in Keys, NEW r \in Requests, AddTurn(i, k, r)
        PROVE  QuotaInv'
    BY <1>1, <1>8, AddTurnKeepsQuota
  <1>9. ASSUME NEW i \in Ids, ClaimJob(i) \/ CancelJob(i) PROVE QuotaInv'
    BY <1>1, <1>9, TransitionKeepsQuota, AnswersAreOutcomes
       DEF ClaimJob, CancelJob, ACTIVE, STORED
  <1>10. ASSUME NEW i \in Ids, FailJob(i) PROVE QuotaInv'
    <2>1. "failed" \in STORED /\ "failed" \notin ACTIVE
      BY DEF STORED, TERMINAL, ACTIVE
    <2>2. QED BY <1>1, <1>10, <2>1, TransitionKeepsQuota, AnswersAreOutcomes DEF FailJob
  <1>11. ASSUME NEW i \in Ids, NEW o \in JobOutcome, FinishJob(i, o) PROVE QuotaInv'
    <2> DEFINE s == IF o.status = "other" THEN "failed" ELSE o.status
    <2>1. s \in STORED /\ s \notin ACTIVE
      BY EndedStatus
    <2>2. o \in Outcome /\ o # NoOutcome
      BY AnswersAreOutcomes
    <2>3. {"running", "cancelling"} \in SUBSET ACTIVE
      BY DEF ACTIVE
    <2> HIDE DEF s
    <2>4. Transition(i, {"running", "cancelling"}, s, o)
      BY <1>11 DEF FinishJob, s
    <2>5. QED BY <1>1, <2>1, <2>2, <2>3, <2>4, TransitionKeepsQuota
  <1>12. ASSUME NEW i \in Ids, NEW b \in Bodies,
                SaveRecord(i, investigations[i].revision, b)
         PROVE  QuotaInv'
    <2> DEFINE approval == IF investigations[i].approval = b THEN b ELSE NONE
    <2>1. approval \in Bodies \cup {NONE}
      OBVIOUS
    <2> HIDE DEF approval
    <2>2. Exists(i) /\ WriteRecord(i, investigations[i].revision, b, approval)
      BY <1>12 DEF SaveRecord, approval
    <2>3. QED BY <1>1, <2>1, <2>2, WriteKeepsQuota
  <1>13. ASSUME NEW i \in Ids, ReviewRecord(i, investigations[i].revision)
         PROVE  QuotaInv'
    <2>1. investigations[i].body \in Bodies
      BY <1>1 DEF StoreInv, TypeOK, Row
    <2>2. QED BY <1>1, <1>13, <2>1, WriteKeepsQuota DEF ReviewRecord, Visible
  <1>14. CASE Tick \/ UNCHANGED allStoreVars
    BY <1>2, <1>14 DEF Tick, allStoreVars, storeVars
  <1>15. QED
    BY <1>3, <1>4, <1>5, <1>6, <1>7, <1>8, <1>9, <1>10, <1>11, <1>12, <1>13,
       <1>14 DEF Next

\* The empty store is within it.
LEMMA QuotaInvInit == Init => QuotaInv
  <1> SUFFICES ASSUME Init PROVE QuotaInv
    OBVIOUS
  <1>1. HeldWithout({}) = {} /\ StoredWithout({}) = {} /\ \A i \in Ids : ~Exists(i)
    BY StatesDisjoint
       DEF Init, HeldWithout, StoredWithout, Held, Exists, NoSnapshot, NoRow, STORED
  <1>2. IsFiniteSet({}) /\ \A f : SumFunctionOnSet(f, {}) = 0
    BY FS_EmptySet, SumParts
  <1>3. Used({}) = 0
    <2>1. DOMAIN PayloadWeights({}) = {} /\ DOMAIN RowWeights({}) = {}
      BY <1>1 DEF PayloadWeights, RowWeights
    <2>2. SumFunction(PayloadWeights({})) = 0 /\ SumFunction(RowWeights({})) = 0
      BY <1>2, <2>1 DEF SumFunction
    <2>3. Used({}) = SumFunction(PayloadWeights({})) + SumFunction(RowWeights({}))
      BY DEF Used, PayloadWeights, RowWeights
    <2>4. QED BY <2>2, <2>3
  <1>4. QED
    BY <1>1, <1>2, <1>3, StoreInvInit, SizesAreNatural DEF QuotaInv, WithinQuota

\* Capacity is checked before a job starts and its answer is written much later,
\* yet the bytes in use never exceed max_bytes, for any sizes and limits.
THEOREM QuotaKept == StoreSpec => []WithinQuota
  <1>1. StoreSpec => []QuotaInv
    BY QuotaInvInit, QuotaInvStep, PTL DEF StoreSpec
  <1>2. QuotaInv => WithinQuota
    BY DEF QuotaInv
  <1>3. QED BY <1>1, <1>2, PTL

-----------------------------------------------------------------------------
(* The allowance *)

\* The reservations of the last day are the jobs of the last day: a purge drops
\* only those that are older, and a deletion none.
Since(jobs, t) == {j \in jobs : j.created > t}
AllowanceInv ==
    /\ clock \in Nat
    /\ reservations \subseteq Reservation /\ started \subseteq Reservation
    /\ \A j \in started : j.created <= clock
    /\ CurrentReservations = Since(started, clock - Day)
    /\ IsFiniteSet(CurrentReservations)
    /\ Cardinality(CurrentReservations) <= DailyJobs

\* One more element.
LEMMA OneMore ==
  ASSUME NEW S, IsFiniteSet(S), NEW x
  PROVE  /\ IsFiniteSet(S \cup {x}) /\ Cardinality(S) \in Nat
         /\ Cardinality(S \cup {x}) \in Nat
         /\ Cardinality(S \cup {x}) <= Cardinality(S) + 1
  <1>1. Cardinality(S) \in Nat
    BY FS_CardinalityType
  <1>2. CASE x \in S
    <2> DEFINE T == S \cup {x}
    <2>1. T = S
      BY <1>2
    <2> HIDE DEF T
    <2>2. IsFiniteSet(T) /\ Cardinality(T) = Cardinality(S)
      BY <2>1
    <2>3. QED BY <1>1, <2>2 DEF T
  <1>3. CASE x \notin S
    <2>1. IsFiniteSet(S \cup {x}) /\ Cardinality(S \cup {x}) = Cardinality(S) + 1
      BY <1>3, FS_AddElement
    <2>2. QED BY <1>1, <2>1
  <1>4. QED BY <1>2, <1>3

\* Every operation keeps the reservations to the jobs of the last day.
LEMMA AllowanceStep ==
  ASSUME StoreInv, AllowanceInv, [Next]_allStoreVars
  PROVE  AllowanceInv'
  <1> USE DEF AllowanceInv, Since
  <1>1. Day \in Nat /\ Day > 0 /\ DailyJobs \in Nat
    BY ConstantTypes
  <1>2. \A j \in Reservation : j.created \in Nat
    BY DEF Reservation
  <1>3. ASSUME clock' = clock + 1, UNCHANGED <<reservations, started>>
        PROVE  AllowanceInv'
    <2>1. CurrentReservations' = Since(started, clock' - Day)
      <3> DEFINE lo == clock - Day
                 hi == clock' - Day
      <3>1. \A j \in Reservation : j.created > hi => j.created > lo
        BY <1>1, <1>2, <1>3
      <3>2. CurrentReservations' = {r \in reservations : r.created > hi}
        BY <1>3 DEF CurrentReservations
      <3>3. {r \in reservations : r.created > lo} = {j \in started : j.created > lo}
        BY DEF CurrentReservations
      <3>4. reservations \subseteq Reservation /\ started \subseteq Reservation
        OBVIOUS
      <3> HIDE DEF lo, hi, AllowanceInv
      <3>5. {r \in reservations : r.created > hi} = {j \in started : j.created > hi}
        BY <3>1, <3>3, <3>4
      <3>6. Since(started, clock' - Day) = {j \in started : j.created > hi}
        BY DEF hi
      <3>7. QED BY <3>2, <3>5, <3>6
    <2>2. CurrentReservations' \subseteq CurrentReservations
      BY <1>1, <1>2, <1>3 DEF CurrentReservations
    <2>3. /\ IsFiniteSet(CurrentReservations')
          /\ Cardinality(CurrentReservations') <= Cardinality(CurrentReservations)
          /\ Cardinality(CurrentReservations') \in Nat
          /\ Cardinality(CurrentReservations) \in Nat
      BY <2>2, FS_Subset, FS_CardinalityType
    <2>4. \A j \in started : j.created <= clock'
      BY <1>2, <1>3
    <2>5. QED BY <1>1, <1>3, <2>1, <2>3, <2>4
  <1>4. ASSUME UNCHANGED <<clock, started>>,
               reservations' = reservations \/ reservations' = CurrentReservations
        PROVE  AllowanceInv'
    <2>1. CurrentReservations' = CurrentReservations
      BY <1>4 DEF CurrentReservations
    <2>2. reservations' \subseteq Reservation
      BY <1>4 DEF CurrentReservations
    <2>3. QED BY <1>4, <2>1, <2>2
  <1>5. ASSUME NEW i \in Ids, NEW n \in Nat, NEW r \in Requests, Reserve(i, n, r),
               UNCHANGED clock
        PROVE  AllowanceInv'
    <2>1. CASE r \notin LLM
      BY <1>4, <1>5, <2>1 DEF Reserve
    <2>2. CASE r \in LLM
      <3> DEFINE new == [job |-> <<i, n>>, created |-> clock]
      <3>1. /\ Cardinality(CurrentReservations) < DailyJobs
            /\ reservations' = CurrentReservations \cup {new}
            /\ started' = started \cup {new}
        BY <1>5, <2>2 DEF Reserve
      <3>2. new \in Reservation /\ new.created = clock
        BY DEF Reservation
      <3> HIDE DEF new
      <3>3. new.created > clock - Day
        BY <1>1, <3>2
      <3>4. CurrentReservations' = CurrentReservations \cup {new}
        BY <1>5, <3>1, <3>3 DEF CurrentReservations
      <3>5. Since(started, clock - Day)' = Since(started, clock - Day) \cup {new}
        BY <1>1, <1>5, <3>1, <3>3
      <3>6. /\ IsFiniteSet(CurrentReservations')
            /\ Cardinality(CurrentReservations') <= Cardinality(CurrentReservations) + 1
        <4> DEFINE S == CurrentReservations
        <4>1. IsFiniteSet(S)
          OBVIOUS
        <4> HIDE DEF S
        <4>2. /\ IsFiniteSet(S \cup {new})
              /\ Cardinality(S \cup {new}) <= Cardinality(S) + 1
          BY <4>1, OneMore
        <4>3. QED BY <3>4, <4>2 DEF S
      <3>7. Cardinality(CurrentReservations') <= DailyJobs
        <4>1. Cardinality(CurrentReservations) \in Nat
              /\ Cardinality(CurrentReservations') \in Nat
          BY <3>6, FS_CardinalityType
        <4>2. QED BY <1>1, <3>1, <3>6, <4>1
      <3>8. reservations' \subseteq Reservation /\ started' \subseteq Reservation
        BY <3>1, <3>2 DEF CurrentReservations
      <3>9. \A j \in started' : j.created <= clock'
        BY <1>5, <3>1, <3>2
      <3>10. QED BY <1>5, <3>4, <3>5, <3>6, <3>7, <3>8, <3>9
    <2>3. QED BY <2>1, <2>2
  <1> HIDE DEF AllowanceInv, Since
  <1>6. CASE Tick
    BY <1>3, <1>6 DEF Tick, storeVars
  <1>7. ASSUME NEW i \in Ids, NEW a \in Analyses, NEW k \in Keys,
               NEW r \in Requests, CreateInvestigation(i, a, k, r)
        PROVE  AllowanceInv'
    BY <1>5, <1>7 DEF CreateInvestigation
  <1>8. ASSUME NEW i \in Ids, NEW k \in Keys, NEW r \in Requests, AddTurn(i, k, r)
        PROVE  AllowanceInv'
    <2>1. Last(i) + 1 \in Nat
      BY DEF StoreInv, TypeOK, Last
    <2>2. QED BY <1>5, <1>8, <2>1 DEF AddTurn
  <1>9. CASE PurgeExpired \/ \E a \in Analyses, p \in Payloads : PutSnapshot(a, p)
    BY <1>4, <1>9 DEF PurgeExpired, PutSnapshot
  <1>10. CASE \/ RecoverInterrupted \/ UNCHANGED allStoreVars
              \/ \E a \in Analyses : DeleteSnapshot(a)
    BY <1>4, <1>10 DEF RecoverInterrupted, DeleteSnapshot, allStoreVars, storeVars
  <1>11. ASSUME NEW i \in Ids,
                \/ ClaimJob(i) \/ CancelJob(i) \/ FailJob(i)
                \/ \E o \in JobOutcome : FinishJob(i, o)
                \/ \E b \in Bodies : SaveRecord(i, investigations[i].revision, b)
                \/ ReviewRecord(i, investigations[i].revision)
         PROVE  AllowanceInv'
    BY <1>4, <1>11 DEF ClaimJob, CancelJob, FailJob, FinishJob, Transition,
         SaveRecord, ReviewRecord, WriteRecord
  <1>12. QED
    BY <1>6, <1>7, <1>8, <1>9, <1>10, <1>11 DEF Next

\* At first there are none.
LEMMA AllowanceInit == Init => AllowanceInv
  <1> SUFFICES ASSUME Init PROVE AllowanceInv
    OBVIOUS
  <1>1. CurrentReservations = {} /\ Since(started, clock - Day) = {}
    BY DEF Init, CurrentReservations, Since
  <1>2. QED
    BY <1>1, FS_EmptySet, ConstantTypes DEF Init, AllowanceInv

\* Whatever is deleted, purged or interrupted in between, no window of a day has
\* more assistant jobs than the allowance.
THEOREM AllowanceKept == StoreSpec => []RollingAllowance
  <1>1. StoreSpec => []StoreInv
    BY StoreInvInit, StoreInvStep, PTL DEF StoreSpec
  <1>2. StoreSpec => []AllowanceInv
    BY <1>1, AllowanceInit, AllowanceStep, PTL DEF StoreSpec
  <1>3. AllowanceInv => RollingAllowance
    <2> SUFFICES ASSUME AllowanceInv PROVE RollingAllowance
      OBVIOUS
    <2>1. {j \in started : j.created > clock - Day} = CurrentReservations
      BY DEF AllowanceInv, Since
    <2>2. QED BY <2>1 DEF AllowanceInv, RollingAllowance
  <1>4. QED BY <1>2, <1>3, PTL

-----------------------------------------------------------------------------
(* The reads *)

\* The first turn of an investigation has its key, and no other turn has it.
KeyedByFirst(row, ts) ==
    /\ Len(ts) >= 1
    /\ ts[1].key = row.key
    /\ \A n \in 1..Len(ts) : n # 1 => ts[n].key # row.key

\* No two investigations of an analysis have the same key.
KeysInv ==
    /\ \A i \in Ids : Exists(i) => KeyedByFirst(investigations[i], turns[i])
    /\ \A i, j \in Ids :
         /\ Exists(i) /\ Exists(j)
         /\ investigations[i].analysis = investigations[j].analysis
         /\ investigations[i].key = investigations[j].key
         => i = j

\* A row that stays keeps its key and those of its turns.
KeepsKeys(row, ts, new, us) ==
    /\ new.key = row.key /\ new.analysis = row.analysis
    /\ KeyedByFirst(row, ts) => KeyedByFirst(new, us)

\* transition leaves the keys alone.
LEMMA MovedKeepsKeys ==
  ASSUME NEW row \in Row, NEW ts \in Seq(Turn), NEW s, NEW o, NEW n
  PROVE  KeepsKeys(row, ts, Moved(row, s, o), [ts EXCEPT ![n] = Moved(ts[n], s, o)])
  <1> DEFINE new == Moved(ts[n], s, o)
             us == [ts EXCEPT ![n] = new]
  <1>1. Moved(row, s, o).key = row.key /\ Moved(row, s, o).analysis = row.analysis
    BY DEF Moved, Row
  <1>2. n \in 1..Len(ts) => new.key = ts[n].key
    <2>1. n \in 1..Len(ts) => ts[n] \in Turn
      OBVIOUS
    <2>2. QED BY <2>1 DEF Moved, Turn
  <1> HIDE DEF new
  <1>3. Len(us) = Len(ts) /\ \A m \in 1..Len(ts) : us[m].key = ts[m].key
    BY <1>2
  <1> HIDE DEF us
  <1>4. KeyedByFirst(row, ts) => KeyedByFirst(Moved(row, s, o), us)
    <2>1. Len(ts) >= 1 => 1 \in 1..Len(ts)
      OBVIOUS
    <2>2. QED BY <1>1, <1>3, <2>1 DEF KeyedByFirst
  <1>5. QED BY <1>1, <1>4 DEF KeepsKeys, us, new

\* Every operation keeps the keys apart.
LEMMA KeptKeysStep ==
  ASSUME StoreInv, KeysInv, [Next]_allStoreVars
  PROVE  KeysInv'
  <1> DEFINE Keeps(j) == Exists(j)' =>
        Exists(j) /\ KeepsKeys(investigations[j], turns[j], investigations'[j], turns'[j])
  <1>1. /\ investigations \in [Ids -> Row] /\ turns \in [Ids -> Seq(Turn)]
        /\ \A i \in Ids : investigations[i] \in Row /\ turns[i] \in Seq(Turn)
    BY DEF StoreInv, TypeOK
  <1>2. ASSUME \A j \in Ids : Keeps(j) PROVE KeysInv'
    BY <1>2 DEF KeysInv, KeepsKeys
  <1>3. \A j \in Ids : investigations'[j] = investigations[j] /\ turns'[j] = turns[j]
          => Keeps(j)
    BY DEF Exists, KeepsKeys
  <1>4. ASSUME NEW gone \in SUBSET Analyses, NEW j \in Ids,
               investigations'[j] = InvestigationsWithout(gone)[j],
               turns'[j] = TurnsWithout(gone)[j]
        PROVE  Keeps(j)
    BY <1>3, <1>4, RemovedConsistent DEF Exists, STORED
  <1>5. Expired \in SUBSET Analyses
    BY DEF Expired
  <1>6. ASSUME NEW a \in Analyses, NEW i \in Ids, NEW k \in Keys,
               NEW r \in Requests, CreateInvestigation(i, a, k, r)
        PROVE  KeysInv'
    <2> DEFINE t == QueuedTurn(k, r)
    <2>1. /\ investigations'[i] = QueuedRow(a, k, r) /\ turns'[i] = <<t>>
          /\ \A j \in Ids \ {i} : /\ investigations'[j] = InvestigationsWithout(Expired)[j]
                                   /\ turns'[j] = TurnsWithout(Expired)[j]
      BY <1>6 DEF CreateInvestigation, InvestigationsWithout, TurnsWithout
    <2>2. QueuedRow(a, k, r).key = k /\ QueuedRow(a, k, r).analysis = a /\ t.key = k
      BY DEF QueuedRow, NoRow, QueuedTurn
    <2>3. KeyedByFirst(investigations'[i], turns'[i])
      BY <2>1, <2>2 DEF KeyedByFirst
    <2>4. \A j \in Ids \ {i} : Keeps(j)
      BY <1>4, <1>5, <2>1
    <2>5. \A j \in Ids \ {i} : Exists(j)' =>
            /\ j \in Surviving
            /\ investigations'[j] = investigations[j]
      BY <1>5, <2>1, RemovedConsistent DEF Exists, STORED, Surviving
    <2>6. \A j \in Ids \ {i} : Exists(j)' =>
            ~(investigations'[j].analysis = a /\ investigations'[j].key = k)
      BY <1>6, <2>5 DEF CreateInvestigation
    <2>7. \A j \in Ids : Exists(j)' => KeyedByFirst(investigations'[j], turns'[j])
      BY <2>3, <2>4 DEF KeysInv, KeepsKeys
    <2>8. \A j, h \in Ids \ {i} :
            /\ Exists(j)' /\ Exists(h)'
            /\ investigations'[j].analysis = investigations'[h].analysis
            /\ investigations'[j].key = investigations'[h].key
            => j = h
      BY <2>4 DEF KeysInv, KeepsKeys
    <2>9. investigations'[i].analysis = a /\ investigations'[i].key = k
      BY <2>1, <2>2
    <2> HIDE DEF t, Keeps
    <2>10. \A j, h \in Ids :
            /\ Exists(j)' /\ Exists(h)'
            /\ investigations'[j].analysis = investigations'[h].analysis
            /\ investigations'[j].key = investigations'[h].key
            => j = h
      BY <2>6, <2>8, <2>9
    <2>11. QED BY <2>7, <2>10 DEF KeysInv
  <1>7. ASSUME NEW i \in Ids, NEW k \in Keys, NEW r \in Requests, AddTurn(i, k, r),
               NEW j \in Ids
        PROVE  Keeps(j)
    <2>1. CASE j # i
      <3>1. /\ investigations'[j] = InvestigationsWithout(Expired)[j]
            /\ turns'[j] = TurnsWithout(Expired)[j]
        BY <1>7, <2>1 DEF AddTurn, InvestigationsWithout, TurnsWithout
      <3>2. QED BY <1>4, <1>5, <3>1
    <2>2. CASE j = i
      <3> DEFINE t == QueuedTurn(k, r)
                 ts == turns[i]
                 us == Append(ts, t)
      <3>1. /\ investigations'[i] = Reopened(investigations[i]) /\ turns'[i] = us
            /\ Exists(i) /\ \A n \in DOMAIN ts : ts[n].key # k
        BY <1>7 DEF AddTurn, InvestigationsWithout, TurnsWithout, Surviving
      <3>2. t \in Turn /\ t.key = k
        BY RowTypes DEF QueuedTurn
      <3>3. /\ Reopened(investigations[i]).key = investigations[i].key
            /\ Reopened(investigations[i]).analysis = investigations[i].analysis
        BY <1>1 DEF Reopened, Row
      <3>4. ts \in Seq(Turn) /\ DOMAIN ts = 1..Len(ts) /\ Len(ts) \in Nat
        BY <1>1
      <3> HIDE DEF t, ts
      <3>5. /\ Len(us) = Len(ts) + 1 /\ us[Len(ts) + 1] = t
            /\ \A n \in 1..Len(ts) : us[n] = ts[n]
        BY <3>2, <3>4
      <3> HIDE DEF us
      <3>6. KeyedByFirst(investigations[i], ts) => KeyedByFirst(investigations'[i], us)
        <4> SUFFICES ASSUME KeyedByFirst(investigations[i], ts)
                     PROVE  KeyedByFirst(investigations'[i], us)
          OBVIOUS
        <4>1. Len(us) >= 1 /\ 1 \in 1..Len(ts)
          BY <3>4, <3>5 DEF KeyedByFirst
        <4>2. us[1].key = investigations'[i].key /\ investigations'[i].key # k
          BY <3>1, <3>3, <3>4, <3>5, <4>1 DEF KeyedByFirst
        <4>3. \A n \in 1..Len(us) : n \in 1..Len(ts) \/ n = Len(ts) + 1
          BY <3>4, <3>5
        <4>4. \A n \in 1..Len(us) : n # 1 => us[n].key # investigations'[i].key
          BY <3>1, <3>2, <3>3, <3>5, <4>2, <4>3 DEF KeyedByFirst
        <4>5. QED BY <4>1, <4>2, <4>4 DEF KeyedByFirst
      <3>7. QED BY <2>2, <3>1, <3>3, <3>6 DEF KeepsKeys, ts
    <2>3. QED BY <2>1, <2>2
  <1>8. ASSUME NEW i \in Ids, NEW expected \in SUBSET ACTIVE, NEW s, NEW o,
               Transition(i, expected, s, o), NEW j \in Ids
        PROVE  Keeps(j)
    <2>1. CASE j # i \/ investigations[i].state \notin expected
      BY <1>1, <1>3, <1>8, <2>1 DEF Transition
    <2>2. CASE j = i /\ investigations[i].state \in expected
      <3>1. /\ investigations'[i] = Moved(investigations[i], s, o)
            /\ turns'[i] = [turns[i] EXCEPT ![Last(i)] = Moved(turns[i][Last(i)], s, o)]
            /\ Exists(i)
        BY <1>1, <1>8, <2>2 DEF Transition, Exists
      <3>2. KeepsKeys(investigations[i], turns[i], investigations'[i], turns'[i])
        <4> DEFINE row == investigations[i]
                   ts == turns[i]
        <4>1. row \in Row /\ ts \in Seq(Turn)
          BY <1>1
        <4> HIDE DEF row, ts
        <4>2. KeepsKeys(row, ts, Moved(row, s, o),
                        [ts EXCEPT ![Last(i)] = Moved(ts[Last(i)], s, o)])
          BY <4>1, MovedKeepsKeys
        <4>3. QED BY <3>1, <4>2 DEF row, ts
      <3>3. QED BY <2>2, <3>1, <3>2
    <2>3. QED BY <2>1, <2>2
  <1>9. ASSUME RecoverInterrupted, NEW j \in Ids PROVE Keeps(j)
    <2> DEFINE swept(e) == IF e.state \in ACTIVE THEN Interrupted(e) ELSE e
    <2>1. /\ investigations'[j] = swept(investigations[j])
          /\ turns'[j] = [n \in DOMAIN turns[j] |-> swept(turns[j][n])]
      BY <1>9 DEF RecoverInterrupted, Active
    <2>2. /\ \A row \in Row : swept(row).key = row.key /\ swept(row).analysis = row.analysis
          /\ \A t \in Turn : swept(t).key = t.key
      BY DEF Interrupted, Moved, Row, Turn
    <2>3. Exists(j)' => Exists(j)
      BY <2>1 DEF Exists
    <2> HIDE DEF swept
    <2> DEFINE ts == turns[j]
    <2>4. ts \in Seq(Turn) /\ DOMAIN ts = 1..Len(ts) /\ \A n \in 1..Len(ts) : ts[n] \in Turn
      BY <1>1
    <2>5. /\ Len(turns'[j]) = Len(ts)
          /\ \A n \in 1..Len(ts) : turns'[j][n].key = ts[n].key
      BY <2>1, <2>2, <2>4
    <2> HIDE DEF ts
    <2>6. KeyedByFirst(investigations[j], ts) => KeyedByFirst(investigations'[j], turns'[j])
      <3>1. Len(ts) >= 1 => 1 \in 1..Len(ts)
        BY <2>4
      <3>2. investigations'[j].key = investigations[j].key
        BY <1>1, <2>1, <2>2
      <3>3. QED BY <2>5, <3>1, <3>2 DEF KeyedByFirst
    <2>7. QED BY <1>1, <2>1, <2>2, <2>3, <2>6 DEF KeepsKeys, ts
  <1>10. ASSUME NEW i \in Ids, NEW rev, NEW b, NEW approval, Exists(i),
                WriteRecord(i, rev, b, approval), NEW j \in Ids
         PROVE  Keeps(j)
    <2>1. /\ turns' = turns
          /\ investigations' = [investigations EXCEPT
                                  ![i] = WithRecord(investigations[i], b, approval)]
      BY <1>10 DEF WriteRecord
    <2>2. /\ WithRecord(investigations[i], b, approval).key = investigations[i].key
          /\ WithRecord(investigations[i], b, approval).analysis = investigations[i].analysis
      BY <1>1 DEF WithRecord, Row
    <2>3. CASE j = i
      <3>1. /\ turns'[j] = turns[j]
            /\ investigations'[j] = WithRecord(investigations[i], b, approval)
        BY <1>1, <2>1, <2>3
      <3>2. /\ investigations'[j].key = investigations[j].key
            /\ investigations'[j].analysis = investigations[j].analysis
        BY <2>2, <2>3, <3>1
      <3>3. KeyedByFirst(investigations[j], turns[j]) => KeyedByFirst(investigations'[j], turns'[j])
        BY <3>1, <3>2 DEF KeyedByFirst
      <3>4. Exists(j)
        BY <1>10, <2>3
      <3>5. QED BY <3>2, <3>3, <3>4 DEF KeepsKeys
    <2>4. CASE j # i
      BY <1>1, <1>3, <2>1, <2>4
    <2>5. QED BY <2>3, <2>4
  <1> HIDE DEF Keeps
  <1>11. ASSUME NEW gone \in SUBSET Analyses, investigations' = InvestigationsWithout(gone),
                turns' = TurnsWithout(gone)
         PROVE  KeysInv'
    BY <1>2, <1>4, <1>11
  <1>12. ASSUME UNCHANGED <<investigations, turns>> PROVE KeysInv'
    BY <1>2, <1>3, <1>12
  <1>13. ASSUME NEW i \in Ids,
                \/ ClaimJob(i) \/ CancelJob(i) \/ FailJob(i)
                \/ \E o \in JobOutcome : FinishJob(i, o)
         PROVE  KeysInv'
    <2>1. /\ {"queued"} \in SUBSET ACTIVE /\ {"queued", "running"} \in SUBSET ACTIVE
          /\ {"running", "cancelling"} \in SUBSET ACTIVE /\ ACTIVE \in SUBSET ACTIVE
      BY DEF ACTIVE
    <2>2. QED BY <1>2, <1>8, <1>13, <2>1 DEF ClaimJob, CancelJob, FailJob, FinishJob
  <1>14. ASSUME NEW i \in Ids,
                \/ \E b \in Bodies : SaveRecord(i, investigations[i].revision, b)
                \/ ReviewRecord(i, investigations[i].revision)
         PROVE  KeysInv'
    BY <1>2, <1>10, <1>14 DEF SaveRecord, ReviewRecord, Visible
  <1>15. ASSUME NEW a \in Analyses, DeleteSnapshot(a) PROVE KeysInv'
    <2>1. {a} \in SUBSET Analyses
      OBVIOUS
    <2>2. QED BY <1>11, <1>15, <2>1 DEF DeleteSnapshot
  <1>16. CASE PurgeExpired \/ \E a \in Analyses, p \in Payloads : PutSnapshot(a, p)
    BY <1>5, <1>11, <1>16 DEF PurgeExpired, PutSnapshot
  <1>17. CASE Tick \/ UNCHANGED allStoreVars
    BY <1>12, <1>17 DEF Tick, allStoreVars, storeVars
  <1>18. QED
    BY <1>2, <1>6, <1>7, <1>9, <1>13, <1>14, <1>15, <1>16, <1>17 DEF Next

\* At first there are no keys.
LEMMA KeptKeysInit == Init => KeysInv
  <1>1. Init => \A i \in Ids : ~Exists(i)
    BY StatesDisjoint DEF Init, Exists, STORED, NoRow
  <1>2. QED BY <1>1 DEF KeysInv

\* A set of numbers has a least.
LEMMA LeastNumber ==
  ASSUME NEW T, T \subseteq Nat, T # {}
  PROVE  \E m \in T : \A n \in T : m <= n
  <1> DEFINE R == OpToRel(<, Nat)
  <1>1. IsWellFoundedOn(R, Nat)
    BY NatLessThanWellFounded DEF R
  <1> HIDE DEF R
  <1>2. PICK m \in T : \A n \in T : <<n, m>> \notin R
    BY <1>1, WFMin
  <1>3. ASSUME NEW n \in T PROVE m <= n
    <2>1. m \in Nat /\ n \in Nat
      OBVIOUS
    <2>2. n < m => <<n, m>> \in R
      BY <2>1 DEF R, OpToRel
    <2>3. QED BY <1>2, <2>1, <2>2
  <1>4. QED BY <1>3

\* So what the reads tell is what the writes go by.
LEMMA ReadsFollow ==
  ASSUME StoreInv, AllowanceInv, KeysInv
  PROVE  ReadsAgree
  <1>1. ASSUME NEW a \in Analyses, NEW k \in Keys
        PROVE  /\ Cardinality(FindIdempotent(a, k)) <= 1
               /\ FindIdempotent(a, k) = {i \in Surviving :
                     investigations[i].analysis = a /\ investigations[i].key = k}
    <2>1. \A i, j \in FindIdempotent(a, k) : i = j
      BY DEF FindIdempotent, KeysInv
    <2>2. Cardinality(FindIdempotent(a, k)) <= 1
      <3> DEFINE F == FindIdempotent(a, k)
      <3> HIDE DEF F
      <3>1. \A i, j \in F : i = j
        BY <2>1 DEF F
      <3>2. CASE F = {}
        BY <3>2, FS_EmptySet DEF F
      <3>3. CASE F # {}
        <4>1. PICK i \in F : TRUE
          BY <3>3
        <4>2. F = {i}
          BY <3>1, <4>1
        <4>3. Cardinality({i}) = 1
          BY FS_Singleton
        <4>4. QED BY <4>2, <4>3 DEF F
      <3>4. QED BY <3>2, <3>3
    <2>3. ASSUME NEW i \in Ids, Exists(i), investigations[i].analysis = a
          PROVE  Unexpired(a) <=> investigations[i].analysis \notin Expired
      <3>1. Held(a)
        BY <2>3 DEF StoreInv
      <3>2. snapshots[a].expires \in Nat /\ clock \in Nat
        BY DEF StoreInv, TypeOK, Snapshot
      <3>3. QED BY <2>3, <3>1, <3>2 DEF Unexpired, Expired
    <2>4. QED BY <2>2, <2>3 DEF FindIdempotent, Surviving
  <1>2. ASSUME NEW i \in Ids, Exists(i)
        PROVE  FindTurnIdempotent(i, investigations[i].key) = {1}
    <2>1. DOMAIN turns[i] = 1..Len(turns[i]) /\ KeyedByFirst(investigations[i], turns[i])
      BY <1>2 DEF StoreInv, TypeOK, KeysInv
    <2>2. 1 \in 1..Len(turns[i])
      BY <2>1 DEF KeyedByFirst, StoreInv, TypeOK
    <2>3. QED BY <2>1, <2>2 DEF FindTurnIdempotent, KeyedByFirst
  <1> DEFINE since(t) == {j \in started : j.created > t - Day}
  <1>3. /\ Day \in Nat /\ Day > 0 /\ DailyJobs \in Nat /\ clock \in Nat
        /\ CurrentReservations = since(clock)
        /\ IsFiniteSet(CurrentReservations)
        /\ Cardinality(CurrentReservations) <= DailyJobs
        /\ \A j \in started : j.created \in Nat
    BY ConstantTypes DEF AllowanceInv, Since, Reservation
  <1>4. RemainingJobs = DailyJobs - Cardinality(since(clock))
    <2>1. Cardinality(CurrentReservations) \in Nat
      BY <1>3, FS_CardinalityType
    <2> HIDE DEF since
    <2> DEFINE left == DailyJobs - Cardinality(CurrentReservations)
    <2>2. left >= 0 /\ left \in Nat
      BY <1>3, <2>1
    <2>3. RemainingJobs = IF left < 0 THEN 0 ELSE left
      BY DEF RemainingJobs
    <2>4. left = DailyJobs - Cardinality(since(clock))
      BY <1>3
    <2> HIDE DEF left
    <2>5. QED BY <2>2, <2>3, <2>4
  <1>5. ASSUME CurrentReservations # {}, NEW t, t = NextExpiry(CurrentReservations)
        PROVE  /\ since(t) # since(clock) /\ t > clock
               /\ since(t - 1) = since(clock)
    <2> DEFINE C == CurrentReservations
               times == {r.created + Day : r \in C}
    <2>1. C \subseteq started /\ \A r \in C : r.created \in Nat /\ r.created + Day > clock
      BY <1>3
    <2>2. times \subseteq Nat /\ times # {}
      BY <1>3, <1>5, <2>1
    <2>3. \E m \in times : \A n \in times : m <= n
      <3> HIDE DEF times
      <3>1. QED BY <2>2, LeastNumber
    <2>4. \E m \in times : \A r \in C : m <= r.created + Day
      BY <2>3
    <2>5. t \in times /\ \A r \in C : t <= r.created + Day
      BY <1>5, <2>4 DEF NextExpiry
    <2>6. PICK r \in C : t = r.created + Day
      BY <2>5
    <2>7. t \in Nat /\ t > clock
      BY <1>3, <2>1, <2>6
    <2>8. r \in since(clock) /\ r \notin since(t)
      <3>1. r.created \in Nat /\ ~(r.created > t - Day)
        BY <1>3, <2>1, <2>6
      <3>2. QED BY <1>3, <3>1
    <2>9. \A j \in started : j.created > t - 1 - Day <=> j.created > clock - Day
      <3>1. ASSUME NEW j \in started, j.created > clock - Day
            PROVE  j.created > t - 1 - Day
        <4>1. j \in C
          BY <1>3, <3>1
        <4>2. t <= j.created + Day /\ j.created \in Nat
          BY <1>3, <2>5, <4>1
        <4>3. QED BY <1>3, <2>7, <4>2
      <3>2. ASSUME NEW j \in started, j.created > t - 1 - Day
            PROVE  j.created > clock - Day
        BY <1>3, <2>7, <3>2
      <3>3. QED BY <3>1, <3>2
    <2>10. since(t - 1) = since(clock)
      BY <2>9
    <2>11. QED BY <2>7, <2>8, <2>10
  <1> HIDE DEF since
  <1>6. QED
    <2>1. ASSUME CurrentReservations # {}
          PROVE  LET t == NextExpiry(CurrentReservations) IN
                 /\ since(t) # since(clock) /\ t > clock
                 /\ since(t - 1) = since(clock)
      BY <1>5, <2>1
    <2>2. QED BY <1>1, <1>2, <1>4, <2>1 DEF ReadsAgree, since

\* What the reads tell of keys and of the allowance is what the writes go by,
\* for any clients, keys and limits.
THEOREM ReadsTellTrue == StoreSpec => []ReadsAgree
  <1>1. StoreSpec => []StoreInv
    BY StoreInvInit, StoreInvStep, PTL DEF StoreSpec
  <1>2. StoreSpec => []AllowanceInv
    BY <1>1, AllowanceInit, AllowanceStep, PTL DEF StoreSpec
  <1>3. StoreSpec => []KeysInv
    BY <1>1, KeptKeysInit, KeptKeysStep, PTL DEF StoreSpec
  <1>4. QED BY <1>1, <1>2, <1>3, ReadsFollow, PTL

-----------------------------------------------------------------------------
(* Both hold for any editors, records and jobs.  The store's part is that a *)
(* step either leaves a record as it is or counts its revision up; the     *)
(* editors' part, that nobody's screen is ahead of the record it shows.    *)

\* What a row of the store may do to the record in it.
KeepsRecord(row, new) ==
    /\ new.body = row.body /\ new.approval = row.approval
    /\ new.revision = row.revision
RecordSteps(row, new) ==
    /\ row.state # "free" => new.state # "free"
    /\ row.state # "free" /\ new.state \in STORED =>
         /\ row.state \in STORED
         /\ KeepsRecord(row, new) \/ new.revision = row.revision + 1

\* What a screen shows was in the row, and is still there with its revision.
WasShown(seen, row) ==
    /\ row.state # "free"
    /\ row.state \in STORED =>
         /\ seen.revision <= row.revision
         /\ seen.revision = row.revision =>
              seen.body = row.body /\ seen.approval = row.approval

Screens == [Editors -> [id : Ids \cup {NONE}, revision : Nat, body : Bodies,
                        approval : Bodies \cup {NONE}]]

EditInv ==
    /\ StoreInv
    /\ screen \in Screens
    /\ \A e \in Editors : screen[e].id # NONE =>
         WasShown(screen[e], investigations[screen[e].id])

\* The ways in which a row is written keep its record or count it up.
LEMMA RowSteps ==
  ASSUME NEW row \in Row
  PROVE  /\ RecordSteps(row, row)
         /\ RecordSteps(row, NoRow("deleted"))
         /\ \A s \in STORED, o \in Outcome :
              row.state \in STORED => RecordSteps(row, Moved(row, s, o))
         /\ row.state \in STORED => RecordSteps(row, Reopened(row))
         /\ \A b, approval :
              row.state \in STORED => RecordSteps(row, WithRecord(row, b, approval))
  <1>1. \A s \in STORED : s # "free"
    BY StatesDisjoint
  <1>2. RecordSteps(row, row)
    BY DEF RecordSteps, KeepsRecord
  <1>3. RecordSteps(row, NoRow("deleted"))
    BY StatesDisjoint DEF RecordSteps, NoRow
  <1>4. ASSUME NEW s \in STORED, NEW o \in Outcome, row.state \in STORED
        PROVE  RecordSteps(row, Moved(row, s, o))
    BY <1>1, <1>4 DEF RecordSteps, KeepsRecord, Moved, Row
  <1>5. ASSUME row.state \in STORED PROVE RecordSteps(row, Reopened(row))
    BY <1>5 DEF RecordSteps, KeepsRecord, Reopened, Row
  <1>6. ASSUME NEW b, NEW approval, row.state \in STORED
        PROVE  RecordSteps(row, WithRecord(row, b, approval))
    BY <1>1, <1>6 DEF RecordSteps, WithRecord, Row
  <1>7. QED BY <1>2, <1>3, <1>4, <1>5, <1>6

\* So does every operation of the store, in every row.
LEMMA RecordStep ==
  ASSUME StoreInv, [Next]_allStoreVars
  PROVE  \A i \in Ids : RecordSteps(investigations[i], investigations'[i])
  <1> DEFINE Steps(i) == RecordSteps(investigations[i], investigations'[i])
  <1>1. /\ investigations \in [Ids -> Row]
        /\ \A i \in Ids : investigations[i] \in Row
    BY DEF StoreInv, TypeOK
  <1>2. \A i \in Ids : RecordSteps(investigations[i], investigations[i])
    BY <1>1, RowSteps
  <1>3. \A gone : \A i \in Ids :
          RecordSteps(investigations[i], InvestigationsWithout(gone)[i])
    BY <1>1, <1>2, RowSteps DEF InvestigationsWithout
  <1>4. ASSUME NEW a \in Analyses, NEW i \in Ids, NEW k \in Keys,
               NEW r \in Requests, CreateInvestigation(i, a, k, r),
               NEW j \in Ids
        PROVE  Steps(j)
    <2>1. /\ investigations[i].state = "free"
          /\ investigations' =
               [InvestigationsWithout(Expired) EXCEPT ![i] = QueuedRow(a, k, r)]
      BY <1>4 DEF CreateInvestigation
    <2>2. RecordSteps(investigations[i], QueuedRow(a, k, r))
      BY <2>1 DEF RecordSteps
    <2>3. QED BY <1>3, <2>1, <2>2 DEF InvestigationsWithout
  <1>5. ASSUME NEW i \in Ids, NEW k \in Keys, NEW r \in Requests,
               AddTurn(i, k, r), NEW j \in Ids
        PROVE  Steps(j)
    <2>1. /\ investigations[i].state \in STORED
          /\ investigations' = [InvestigationsWithout(Expired) EXCEPT
                                  ![i] = Reopened(investigations[i])]
      BY <1>5 DEF AddTurn, Surviving, Exists, STORED
    <2>2. RecordSteps(investigations[i], Reopened(investigations[i]))
      BY <1>1, <2>1, RowSteps
    <2>3. QED BY <1>3, <2>1, <2>2 DEF InvestigationsWithout
  <1>6. ASSUME NEW i \in Ids, NEW expected \in SUBSET ACTIVE,
               NEW s \in STORED, NEW o \in Outcome,
               Transition(i, expected, s, o), NEW j \in Ids
        PROVE  Steps(j)
    <2>1. \/ investigations' = investigations
          \/ /\ investigations[i].state \in STORED
             /\ investigations' =
                  [investigations EXCEPT ![i] = Moved(investigations[i], s, o)]
      BY <1>6 DEF Transition, STORED
    <2>2. investigations[i].state \in STORED =>
            RecordSteps(investigations[i], Moved(investigations[i], s, o))
      BY <1>1, RowSteps
    <2>3. QED BY <1>1, <1>2, <2>1, <2>2
  <1>7. ASSUME NEW i \in Ids,
               \/ ClaimJob(i) \/ CancelJob(i) \/ FailJob(i)
               \/ \E o \in JobOutcome : FinishJob(i, o),
               NEW j \in Ids
        PROVE  Steps(j)
    <2> DEFINE ended(o) == IF o.status = "other" THEN "failed" ELSE o.status
    <2>1. /\ {"queued"} \in SUBSET ACTIVE /\ {"queued", "running"} \in SUBSET ACTIVE
          /\ {"running", "cancelling"} \in SUBSET ACTIVE /\ ACTIVE \in SUBSET ACTIVE
          /\ {"running", "cancelling", "failed"} \subseteq STORED
      BY DEF ACTIVE, TERMINAL, STORED
    <2>2. \A o \in JobOutcome : o \in Outcome /\ ended(o) \in STORED
      <3>1. RunStatuses \subseteq {"completed", "partial", "failed", "cancelled", "other"}
        BY StoreAssumption
      <3>2. \A o \in RunOutcome :
              o.status \in {"completed", "partial", "failed", "cancelled", "other"}
        BY <3>1 DEF RunOutcome
      <3>3. CancelledOutcome.status = "cancelled"
        BY DEF CancelledOutcome
      <3>4. QED BY <3>2, <3>3, AnswersAreOutcomes DEF JobOutcome, STORED, TERMINAL
    <2>3. NoOutcome \in Outcome /\ FailedOutcome \in Outcome
      BY AnswersAreOutcomes
    <2> HIDE DEF Steps
    <2>4. CASE ClaimJob(i) BY <1>6, <2>1, <2>3, <2>4 DEF ClaimJob
    <2>5. CASE CancelJob(i) BY <1>6, <2>1, <2>3, <2>5 DEF CancelJob
    <2>6. CASE FailJob(i) BY <1>6, <2>1, <2>3, <2>6 DEF FailJob
    <2>7. ASSUME NEW o \in JobOutcome, FinishJob(i, o) PROVE Steps(j)
      <3>1. Transition(i, {"running", "cancelling"}, ended(o), o)
        BY <2>7 DEF FinishJob
      <3>2. ended(o) \in STORED /\ o \in Outcome
        BY <2>2
      <3> HIDE DEF ended
      <3>3. QED BY <1>6, <2>1, <3>1, <3>2
    <2>8. QED BY <1>7, <2>4, <2>5, <2>6, <2>7
  <1>8. ASSUME RecoverInterrupted, NEW j \in Ids PROVE Steps(j)
    <2>1. investigations'[j] = IF Active(j) THEN Interrupted(investigations[j])
                                            ELSE investigations[j]
      BY <1>8 DEF RecoverInterrupted
    <2>2. Active(j) => investigations[j].state \in STORED
      BY DEF Active, STORED
    <2>3. "interrupted" \in STORED /\ InterruptedOutcome \in Outcome
      BY AnswersAreOutcomes DEF STORED, TERMINAL
    <2>4. Active(j) => RecordSteps(investigations[j], Interrupted(investigations[j]))
      BY <1>1, <2>2, <2>3, RowSteps DEF Interrupted
    <2>5. QED BY <1>2, <2>1, <2>4
  <1>9. ASSUME NEW i \in Ids, NEW rev, NEW b, NEW approval, Exists(i),
               WriteRecord(i, rev, b, approval), NEW j \in Ids
        PROVE  Steps(j)
    <2>1. /\ investigations[i].state \in STORED
          /\ investigations' = [investigations EXCEPT
               ![i] = WithRecord(investigations[i], b, approval)]
      BY <1>9 DEF WriteRecord, Exists, STORED
    <2>2. RecordSteps(investigations[i], WithRecord(investigations[i], b, approval))
      BY <1>1, <2>1, RowSteps
    <2>3. QED BY <1>1, <1>2, <2>1, <2>2
  <1>10. ASSUME NEW i \in Ids,
                \/ \E b \in Bodies : SaveRecord(i, investigations[i].revision, b)
                \/ ReviewRecord(i, investigations[i].revision),
                NEW j \in Ids
         PROVE  Steps(j)
    <2> HIDE DEF Steps
    <2>1. QED BY <1>9, <1>10 DEF SaveRecord, ReviewRecord, Visible
  <1>11. ASSUME NEW gone, investigations' = InvestigationsWithout(gone),
                NEW j \in Ids
         PROVE  Steps(j)
    BY <1>3, <1>11
  <1>12. ASSUME UNCHANGED investigations, NEW j \in Ids PROVE Steps(j)
    BY <1>2, <1>12
  <1> HIDE DEF Steps
  <1>13. ASSUME NEW j \in Ids PROVE Steps(j)
    <2>1. CASE Tick \/ UNCHANGED allStoreVars
      BY <1>12, <2>1 DEF Tick, allStoreVars, storeVars
    <2>2. CASE \/ PurgeExpired
               \/ \E a \in Analyses :
                    DeleteSnapshot(a) \/ \E p \in Payloads : PutSnapshot(a, p)
      BY <1>11, <2>2 DEF PurgeExpired, DeleteSnapshot, PutSnapshot
    <2>3. CASE RecoverInterrupted
      BY <1>8, <2>3
    <2>4. ASSUME NEW a \in Analyses, NEW i \in Ids, NEW k \in Keys,
                 NEW r \in Requests, CreateInvestigation(i, a, k, r)
          PROVE  Steps(j)
      BY <1>4, <2>4
    <2>5. ASSUME NEW i \in Ids, NEW k \in Keys, NEW r \in Requests, AddTurn(i, k, r)
          PROVE  Steps(j)
      BY <1>5, <2>5
    <2>6. ASSUME NEW i \in Ids,
                 \/ ClaimJob(i) \/ CancelJob(i) \/ FailJob(i)
                 \/ \E o \in JobOutcome : FinishJob(i, o)
          PROVE  Steps(j)
      BY <1>7, <2>6
    <2>7. ASSUME NEW i \in Ids,
                 \/ \E b \in Bodies : SaveRecord(i, investigations[i].revision, b)
                 \/ ReviewRecord(i, investigations[i].revision)
          PROVE  Steps(j)
      BY <1>10, <2>7
    <2>8. QED
      BY <2>1, <2>2, <2>3, <2>4, <2>5, <2>6, <2>7 DEF Next
  <1>14. QED BY <1>13 DEF Steps

\* A row that steps so leaves behind every screen that it changes under.
LEMMA ShownStays ==
  ASSUME NEW seen, seen.revision \in Nat, NEW row \in Row, NEW new \in Row,
         WasShown(seen, row), RecordSteps(row, new)
  PROVE  WasShown(seen, new)
  <1>1. row.revision \in Nat /\ new.revision \in Nat
    BY DEF Row
  <1>2. QED BY <1>1 DEF WasShown, RecordSteps, KeepsRecord

\* A request that writes, writes at the revision on the screen; so to the
\* store every step of the editors is one of its own.
LEMMA EditorsUseTheStore ==
  ASSUME EditInv, EditingNext
  PROVE  Next \/ UNCHANGED allStoreVars
  <1>1. \A e \in Editors : screen[e].id # NONE => screen[e].id \in Ids
    BY DEF EditInv, Screens
  <1>2. CASE Meanwhile
    BY <1>2 DEF Meanwhile, Next
  <1>3. ASSUME NEW e \in Editors, Review(e) PROVE Next
    <2> DEFINE i == screen[e].id
    <2>1. i \in Ids /\ screen[e].revision = investigations[i].revision
      BY <1>1, <1>3 DEF Review, ReviewRecord, WriteRecord
    <2>2. ReviewRecord(i, investigations[i].revision)
      BY <1>3, <2>1 DEF Review
    <2>3. QED BY <2>1, <2>2 DEF Next
  <1>4. ASSUME NEW e \in Editors, NEW b \in Bodies, Save(e, b) PROVE Next
    <2> DEFINE i == screen[e].id
    <2>1. i \in Ids /\ screen[e].revision = investigations[i].revision
      BY <1>1, <1>4 DEF Save, SaveRecord, WriteRecord
    <2>2. SaveRecord(i, investigations[i].revision, b)
      BY <1>4, <2>1 DEF Save
    <2>3. QED BY <2>1, <2>2 DEF Next
  <1>5. ASSUME NEW e \in Editors, NEW i \in Ids, Open(e, i)
        PROVE  UNCHANGED allStoreVars
    BY <1>5 DEF Open
  <1>6. QED BY <1>2, <1>3, <1>4, <1>5 DEF EditingNext

LEMMA EditInvStep ==
  ASSUME EditInv, [EditingNext]_editingVars
  PROVE  EditInv'
  <1>1. [Next]_allStoreVars
    BY EditorsUseTheStore DEF editingVars
  <1>2. StoreInv'
    BY <1>1, StoreInvStep DEF EditInv
  <1>3. /\ investigations \in [Ids -> Row] /\ investigations' \in [Ids -> Row]
        /\ screen \in Screens
    BY <1>2 DEF EditInv, StoreInv, TypeOK
  <1>4. \A i \in Ids : RecordSteps(investigations[i], investigations'[i])
    BY <1>1, RecordStep DEF EditInv
  <1>5. ASSUME NEW e \in Editors, screen[e].id # NONE
        PROVE  WasShown(screen[e], investigations'[screen[e].id])
    BY <1>3, <1>4, <1>5, ShownStays DEF EditInv, Screens
  <1>6. CASE screen' = screen
    BY <1>2, <1>3, <1>5, <1>6 DEF EditInv
  <1>7. ASSUME NEW e \in Editors, NEW i \in Ids, Open(e, i) PROVE EditInv'
    <2> DEFINE row == investigations[i]
               shown == [id |-> i, revision |-> row.revision,
                         body |-> row.body, approval |-> row.approval]
    <2>1. /\ screen' = [screen EXCEPT ![e] = shown]
          /\ investigations' = investigations /\ row.state \in STORED
      BY <1>7 DEF Open, Visible, Exists, STORED, allStoreVars, storeVars
    <2>2. row \in Row
      BY <1>3
    <2>3. /\ shown.id = i
          /\ shown \in [id : Ids \cup {NONE}, revision : Nat, body : Bodies,
                        approval : Bodies \cup {NONE}]
      BY <2>2 DEF Row
    <2>4. WasShown(shown, row)
      BY <2>1, <2>2, StatesDisjoint DEF WasShown, Row
    <2> HIDE DEF shown
    <2>5. screen' \in Screens /\ screen'[e] = shown
          /\ \A f \in Editors : f # e => screen'[f] = screen[f]
      BY <1>3, <2>1, <2>3 DEF Screens
    <2>6. QED BY <1>2, <1>5, <2>1, <2>3, <2>4, <2>5 DEF EditInv
  <1>8. [EditingNext]_editingVars =>
          screen' = screen \/ \E e \in Editors, i \in Ids : Open(e, i)
    BY DEF EditingNext, editingVars, Meanwhile, Review, Save
  <1>9. QED BY <1>6, <1>7, <1>8

LEMMA EditInvInit == EditingInit => EditInv
  <1> SUFFICES ASSUME EditingInit PROVE EditInv
    OBVIOUS
  <1>1. StoreInv
    BY StoreInvInit DEF EditingInit
  <1>2. NothingRead \in [id : Ids \cup {NONE}, revision : Nat, body : Bodies,
                         approval : Bodies \cup {NONE}] /\ NothingRead.id = NONE
    BY ConstantTypes DEF NothingRead
  <1>3. QED BY <1>1, <1>2 DEF EditingInit, EditInv, Screens

\* Whoever still has the current revision has the current record.
THEOREM RevisionsIdentify == EditingSpec => []RevisionIdentifiesRecord
  <1>1. EditingSpec => []EditInv
    BY EditInvInit, EditInvStep, PTL DEF EditingSpec
  <1>2. EditInv => RevisionIdentifiesRecord
    BY ConstantTypes
       DEF EditInv, RevisionIdentifiesRecord, WasShown, Exists, STORED
  <1>3. QED BY <1>1, <1>2, PTL

\* Editing and reviewing are operations of the store, so it keeps its tables,
\* its limits and its keys under them too.
THEOREM RowsAndLimitsHold == EditingSpec => []RowsAndLimits
  <1>1. EditingSpec => []EditInv
    BY EditInvInit, EditInvStep, PTL DEF EditingSpec
  <1>2. ASSUME EditInv, [EditingNext]_editingVars PROVE [Next]_allStoreVars
    BY <1>2, EditorsUseTheStore DEF editingVars
  <1>3. EditingInit => QuotaInv /\ AllowanceInv /\ KeysInv
    BY QuotaInvInit, AllowanceInit, KeptKeysInit DEF EditingInit
  <1>4. ASSUME EditInv, QuotaInv, [EditingNext]_editingVars PROVE QuotaInv'
    BY <1>2, <1>4, QuotaInvStep
  <1>5. ASSUME EditInv, AllowanceInv, [EditingNext]_editingVars PROVE AllowanceInv'
    BY <1>2, <1>5, AllowanceStep DEF EditInv
  <1>6. ASSUME EditInv, KeysInv, [EditingNext]_editingVars PROVE KeysInv'
    BY <1>2, <1>6, KeptKeysStep DEF EditInv
  <1>7. EditingSpec => []QuotaInv /\ []AllowanceInv /\ []KeysInv
    BY <1>1, <1>3, <1>4, <1>5, <1>6, PTL DEF EditingSpec
  <1>8. ASSUME EditInv, QuotaInv, AllowanceInv, KeysInv PROVE RowsAndLimits
    <2>1. TypeOK /\ NoOrphans /\ AnsweredIffEnded
      BY <1>8, StoreInvMeans DEF EditInv
    <2>2. ReadsAgree
      BY <1>8, ReadsFollow DEF EditInv
    <2>3. RevisionIdentifiesRecord
      BY <1>8, ConstantTypes
         DEF EditInv, RevisionIdentifiesRecord, WasShown, Exists, STORED
    <2>4. WithinQuota
      BY <1>8 DEF QuotaInv
    <2>5. RollingAllowance
      <3>1. {j \in started : j.created > clock - Day} = CurrentReservations
        BY <1>8 DEF AllowanceInv, Since
      <3>2. QED BY <1>8, <3>1 DEF AllowanceInv, RollingAllowance
    <2>6. QED BY <2>1, <2>2, <2>3, <2>4, <2>5 DEF RowsAndLimits
  <1>9. QED BY <1>1, <1>7, <1>8, PTL

\* No editor replaces, or approves, a record other than the one it has read.
THEOREM NoUpdateIsLost == EditingSpec => NoLostUpdate
  <1> DEFINE Kept(e) ==
        LET i == screen[e].id IN
        /\ \A b \in Bodies : Save(e, b) =>
             /\ investigations[i].body = screen[e].body
             /\ investigations[i].approval = screen[e].approval
        /\ Review(e) => investigations'[i].approval = screen[e].body
  <1>1. EditingSpec => []EditInv
    BY EditInvInit, EditInvStep, PTL DEF EditingSpec
  <1>2. ASSUME EditInv, NEW e \in Editors PROVE Kept(e)
    <2> DEFINE i == screen[e].id
    <2>1. ASSUME i # NONE, Exists(i), screen[e].revision = investigations[i].revision
          PROVE  /\ investigations[i].body = screen[e].body
                 /\ investigations[i].approval = screen[e].approval
      BY <1>2, <2>1 DEF EditInv, WasShown, Exists, STORED
    <2>2. ASSUME NEW b \in Bodies, Save(e, b)
          PROVE  /\ investigations[i].body = screen[e].body
                 /\ investigations[i].approval = screen[e].approval
      BY <2>1, <2>2 DEF Save, SaveRecord, WriteRecord
    <2>3. ASSUME Review(e) PROVE investigations'[i].approval = screen[e].body
      <3>1. /\ i # NONE /\ Exists(i)
            /\ screen[e].revision = investigations[i].revision
            /\ investigations' = [investigations EXCEPT ![i] =
                 WithRecord(investigations[i], investigations[i].body,
                            investigations[i].body)]
        BY <2>3 DEF Review, ReviewRecord, WriteRecord, Visible
      <3>2. i \in Ids /\ investigations \in [Ids -> Row]
        BY <1>2, <3>1 DEF EditInv, Screens, StoreInv, TypeOK
      <3>3. investigations'[i] = WithRecord(investigations[i],
                investigations[i].body, investigations[i].body)
        BY <3>1, <3>2
      <3>4. investigations'[i].approval = investigations[i].body
        BY <3>2, <3>3 DEF WithRecord, Row
      <3>5. QED BY <2>1, <3>1, <3>4
    <2>4. QED BY <2>2, <2>3
  <1>3. EditInv => OverwritesOnlyWhatWasRead
    BY <1>2 DEF OverwritesOnlyWhatWasRead
  <1>4. QED BY <1>1, <1>3, PTL DEF EditingSpec, NoLostUpdate
=============================================================================
