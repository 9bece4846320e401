--------------------- MODULE InvestigationService_proofs ---------------------
(***************************************************************************)
(* The service changes the tables only through the operations of the       *)
(* store: every behaviour of the service is a behaviour of the store, so   *)
(* what is proved of the store holds under any interleaving of handlers,   *)
(* worker, failures and restarts.                                          *)
(*                                                                         *)
(* Three more inductive invariants, each with the one before it, follow    *)
(* the jobs: SlotInv says where a job is, JobInv that the books of the     *)
(* service agree with the tables, AskInv what was handed to the model.     *)
(* They carry EveryJobAccounted and WorkerInStep, and JobInv carries the   *)
(* refinement of JobLifecycle.                                             *)
(***************************************************************************)
EXTENDS InvestigationService, WorkspaceStore_proofs

\* What the service's own state needs beside its types: a pending job has an
\* event, a claimed one a turn, and at the final write there is an answer.
ServiceInv ==
    /\ StoreInv
    /\ ServiceTypeOK
    /\ \A i \in pending : events[i] # 0
    /\ InHand => worker.turn # 0
    /\ worker.pc \in {"answered", "finishing"} => worker.outcome \in JobOutcome

\* The service starts with everything empty.
LEMMA ServiceInvInit == ServiceInit => ServiceInv
  <1> SUFFICES ASSUME ServiceInit PROVE ServiceInv
    OBVIOUS
  <1>1. StoreInv
    BY StoreInvInit DEF ServiceInit
  <1>2. ServiceTypeOK
    <2>1. worker = [Idle EXCEPT !.pc = "exited"] /\ worker.pc = "exited"
          /\ worker.id = NONE
      BY DEF ServiceInit, Idle
    <2>2. worker \in WorkerState
      BY <2>1, ConstantTypes DEF Idle, WorkerPC, WorkerState
    <2>3. events \in [Ids -> 0..MaxTurns]
      BY ConstantTypes DEF ServiceInit
    <2>4. QED
      BY <1>1, <2>1, <2>2, <2>3, ConstantTypes, ServiceAssumption
         DEF ServiceInit, ServiceTypeOK, StoreInv, Busy
  <1>3. worker.pc = "exited" /\ pending = {}
    BY DEF ServiceInit, Idle
  <1>4. QED
    BY <1>1, <1>2, <1>3 DEF ServiceInv, InHand

\* The handlers step the store, or leave it alone.
LEMMA HandlersStepStore ==
  ASSUME Handlers PROVE [Next]_allStoreVars
  <1>1. CASE Enqueue
    BY <1>1 DEF Enqueue
  <1>2. ASSUME NEW i \in Ids, NEW k \in Keys, NEW r \in Requests,
               NEW a \in Analyses, Submit(i, a, k, r)
        PROVE  Next
    BY <1>2 DEF Submit, Next
  <1>3. ASSUME NEW i \in Ids, NEW k \in Keys, NEW r \in Requests, FollowUp(i, k, r)
        PROVE  Next
    BY <1>3 DEF FollowUp, Next
  <1>4. ASSUME NEW i \in Ids, Cancel(i) PROVE Next
    BY <1>4 DEF Cancel, Next
  <1>5. ASSUME NEW a \in Analyses, Delete(a) PROVE Next
    BY <1>5 DEF Delete, Next
  <1>6. ASSUME NEW a \in Analyses, NEW p \in Payloads, SaveAnalysis(a, p) PROVE Next
    BY <1>6 DEF SaveAnalysis, Next
  <1>7. QED
    BY <1>1, <1>2, <1>3, <1>4, <1>5, <1>6 DEF Handlers

\* So do the steps of the worker ...
LEMMA WorkerStepsStore ==
  ASSUME ServiceInv, WorkerStep \/ Maintain \/ StoreFails
  PROVE  [Next]_allStoreVars
  <1>1. CASE Take \/ LoadSnapshot \/ Decide \/ RunnerReturns \/ Recheck
               \/ Cleanup \/ Leave \/ StoreFails
    BY <1>1 DEF Take, LoadSnapshot, Decide, RunnerReturns, Recheck, Cleanup,
         Leave, StoreFails
  <1>2. CASE Maintain
    BY <1>2 DEF Maintain, Next
  <1>3. ASSUME worker.pc \in {"taken", "finishing", "failing"}
        PROVE  worker.id \in Ids
    BY <1>3 DEF ServiceInv, ServiceTypeOK, Busy
  <1>4. CASE Claim
    BY <1>3, <1>4 DEF Claim, At, Next
  <1>5. CASE Finish
    BY <1>3, <1>5 DEF Finish, At, Next, ServiceInv
  <1>6. CASE Fail
    BY <1>3, <1>6 DEF Fail, At, Next
  <1>7. QED
    BY <1>1, <1>2, <1>4, <1>5, <1>6 DEF WorkerStep

\* ... and those of the process.
LEMMA ServiceStepsStore ==
  ASSUME ServiceInv, [ServiceNext]_vars
  PROVE  [Next]_allStoreVars
  <1>1. CASE Process
    BY <1>1 DEF Process, CloseFlag, CloseSignal, Terminate, Start, Next
  <1>2. CASE TimePasses
    BY <1>2 DEF TimePasses, Next
  <1>3. CASE UNCHANGED vars
    BY <1>3 DEF vars
  <1>4. QED
    BY <1>1, <1>2, <1>3, HandlersStepStore, WorkerStepsStore DEF ServiceNext

-----------------------------------------------------------------------------
(* The service's own state *)

\* The values a job's worker takes from the store are of their types.
LEMMA LastTurnTypes ==
  ASSUME StoreInv, NEW i \in Ids, Exists(i)
  PROVE  /\ Last(i) \in 1..MaxTurns
         /\ turns[i][Last(i)].request \in Requests
         /\ investigations[i].analysis \in Analyses
  <1>1. /\ Consistent(investigations[i], turns[i])
        /\ investigations[i].analysis \in Analyses
        /\ investigations[i].state \in STORED
    BY DEF StoreInv, Exists, STORED
  <1>2. Last(i) \in 1..MaxTurns /\ turns[i] \in Seq(Turn)
    BY <1>1 DEF Consistent, Last
  <1>3. turns[i][Last(i)] \in Turn
    BY <1>2, ConstantTypes DEF Last
  <1>4. QED
    BY <1>1, <1>2, <1>3 DEF Turn

\* Handlers keep the types of the service's state.
LEMMA HandlersKeepInv ==
  ASSUME ServiceInv, Handlers, StoreInv'
  PROVE  ServiceInv'
  <1> USE DEF ServiceInv, ServiceTypeOK, InHand, Busy, At
  <1>1. CASE Enqueue
    <2>1. admitting.id \in Ids /\ admitting.turn \in 1..MaxTurns
      BY <1>1 DEF Enqueue, LockFree
    <2>2. QED
      BY <1>1, <2>1, ConstantTypes DEF Enqueue, allStoreVars, storeVars, StoreInv
  <1>2. ASSUME NEW i \in Ids, NEW k \in Keys, NEW r \in Requests,
               NEW a \in Analyses, Submit(i, a, k, r)
        PROVE  ServiceInv'
    BY <1>2, ConstantTypes DEF Submit, StoreInv
  <1>3. ASSUME NEW i \in Ids, NEW k \in Keys, NEW r \in Requests, FollowUp(i, k, r)
        PROVE  ServiceInv'
    <2>1. Last(i) + 1 \in 1..MaxTurns
      BY <1>3, ConstantTypes DEF FollowUp, AddTurn, StoreInv, TypeOK, Last
    <2>2. QED
      BY <1>3, <2>1, ConstantTypes DEF FollowUp, StoreInv
  <1>4. ASSUME NEW i \in Ids, Cancel(i) PROVE ServiceInv'
    BY <1>4, ConstantTypes DEF Cancel, StoreInv
  <1>5. ASSUME NEW a \in Analyses, Delete(a) PROVE ServiceInv'
    BY <1>5, ConstantTypes DEF Delete, StoreInv
  <1>6. ASSUME NEW a \in Analyses, NEW p \in Payloads, SaveAnalysis(a, p)
        PROVE  ServiceInv'
    BY <1>6 DEF SaveAnalysis, serviceVars, StoreInv
  <1>7. QED
    BY <1>1, <1>2, <1>3, <1>4, <1>5, <1>6 DEF Handlers

\* A step from one place of the code to another keeps the worker's record.
LEMMA GotoKeepsWorker ==
  ASSUME worker \in WorkerState, NEW pc \in WorkerPC, Goto(pc)
  PROVE  /\ worker' \in WorkerState
         /\ worker'.pc = pc
         /\ worker'.id = worker.id
         /\ worker'.turn = worker.turn
         /\ worker'.outcome = worker.outcome
  BY DEF Goto, WorkerState

\* So do the steps of the worker, whose hands are full from Take to Cleanup.
LEMMA WorkerKeepsInv ==
  ASSUME ServiceInv, WorkerStep \/ Maintain \/ StoreFails, StoreInv'
  PROVE  ServiceInv'
  <1>0. TypeOK' /\ worker \in WorkerState
    BY DEF StoreInv, ServiceInv, ServiceTypeOK
  <1>a. WorkerPC = {"idle", "taken", "claimed", "loaded", "calling",
                    "answered", "finishing", "failing", "cleanup", "exited"}
    BY DEF WorkerPC
  <1>b. ASSUME /\ worker' \in WorkerState
               /\ worker'.id \in Ids <=> Busy'
               /\ InHand' => worker'.turn # 0
               /\ worker'.pc \in {"answered", "finishing"}
                    => worker'.outcome \in JobOutcome
               /\ UNCHANGED <<proc, pending, events, signalled, admitting, starts>>
               /\ queue' \in Seq(Ids)
               /\ faults' \in 0..MaxFaults
               /\ asked' \subseteq Ids \X (1..MaxTurns)
        PROVE  ServiceInv'
    BY <1>b, <1>0 DEF ServiceInv, ServiceTypeOK
  <1>1. CASE Take
    <2>1. Head(queue) \in Ids /\ Tail(queue) \in Seq(Ids)
      BY <1>1 DEF Take, ServiceInv, ServiceTypeOK
    <2>2. worker' = [Idle EXCEPT !.pc = "taken", !.id = Head(queue)]
      BY <1>1 DEF Take
    <2>5. worker' = [pc |-> "taken", id |-> Head(queue), turn |-> 0,
                     analysis |-> NONE, request |-> NONE, outcome |-> NoOutcome]
      BY <2>2 DEF Idle
    <2>3. worker' \in WorkerState /\ worker'.pc = "taken" /\ worker'.id \in Ids
      <3>1. 0 \in 0..MaxTurns /\ "taken" \in WorkerPC
        BY <1>a, ConstantTypes
      <3>2. QED
        BY <2>1, <2>5, <3>1 DEF WorkerState
    <2>4. QED
      BY <1>b, <1>1, <2>1, <2>3 DEF Take, ServiceInv, ServiceTypeOK, Busy, InHand
  <1>2. CASE Claim
    <2>1. /\ worker.id \in Ids /\ events[worker.id] # 0
          /\ events[worker.id] \in 0..MaxTurns
      BY <1>2 DEF Claim, At, ServiceInv, ServiceTypeOK, Busy
    <2>2. CASE Visible(worker.id)
      <3> DEFINE i == worker.id
      <3>1. /\ turns[i][Last(i)].request \in Requests
            /\ investigations[i].analysis \in Analyses
        BY <2>1, <2>2, LastTurnTypes DEF Visible, ServiceInv
      <3>2. worker' = [worker EXCEPT !.pc = "claimed", !.turn = events[i],
                         !.analysis = investigations[i].analysis,
                         !.request = turns[i][Last(i)].request]
        BY <1>2, <2>2 DEF Claim
      <3> HIDE DEF i
      <3>3. /\ worker' \in WorkerState /\ worker'.pc = "claimed"
            /\ worker'.id = worker.id /\ worker'.turn = events[i]
        BY <1>0, <1>a, <2>1, <3>1, <3>2 DEF WorkerState, i
      <3>4. QED
        BY <1>b, <1>2, <2>1, <3>3
           DEF Claim, ServiceInv, ServiceTypeOK, Busy, InHand, i
    <2>3. CASE ~Visible(worker.id)
      <3>1. worker' = [worker EXCEPT !.pc = "cleanup", !.turn = events[worker.id]]
        BY <1>2, <2>3 DEF Claim
      <3>2. /\ worker' \in WorkerState /\ worker'.pc = "cleanup"
            /\ worker'.id = worker.id
        BY <1>0, <1>a, <2>1, <3>1 DEF WorkerState
      <3>3. QED
        BY <1>b, <1>2, <2>1, <3>2
           DEF Claim, ServiceInv, ServiceTypeOK, Busy, InHand
    <2>4. QED BY <2>2, <2>3
  <1>3. CASE LoadSnapshot
    <2>1. PICK pc \in {"loaded", "cleanup"} : Goto(pc)
      BY <1>3 DEF LoadSnapshot
    <2>2. QED
      BY <1>b, <1>0, <1>a, <1>3, <2>1, GotoKeepsWorker
         DEF LoadSnapshot, At, ServiceInv, ServiceTypeOK, Busy, InHand
  <1>4. CASE Decide
    <2>1. /\ CancelledOutcome \in JobOutcome
          /\ \A n \in OutcomeSizes : [status |-> "completed", bytes |-> n] \in JobOutcome
      BY DEF JobOutcome, RunOutcome
    <2>2. worker.pc = "loaded" /\ worker.id \in Ids /\ worker.turn # 0
      BY <1>4 DEF Decide, At, ServiceInv, ServiceTypeOK, Busy, InHand
    <2>3. worker.turn \in 1..MaxTurns
      BY <1>0, <2>2, ConstantTypes DEF WorkerState
    <2>4. CASE Goto("calling") /\ asked' = asked \cup {<<worker.id, worker.turn>>}
      <3>1. /\ worker' \in WorkerState /\ worker'.pc = "calling"
            /\ worker'.id = worker.id /\ worker'.turn = worker.turn
        BY <1>0, <1>a, <2>4, GotoKeepsWorker
      <3>2. asked' \subseteq Ids \X (1..MaxTurns)
        BY <2>2, <2>3, <2>4 DEF ServiceInv, ServiceTypeOK
      <3>3. QED
        BY <1>b, <1>4, <2>2, <3>1, <3>2
           DEF Decide, ServiceInv, ServiceTypeOK, Busy, InHand
    <2>5. ASSUME NEW o \in JobOutcome,
                 worker' = [worker EXCEPT !.pc = "answered", !.outcome = o],
                 asked' = asked
          PROVE  ServiceInv'
      <3>1. /\ worker' \in WorkerState /\ worker'.pc = "answered"
            /\ worker'.id = worker.id /\ worker'.turn = worker.turn
            /\ worker'.outcome = o
        BY <1>0, <1>a, <2>5 DEF WorkerState
      <3>2. QED
        BY <1>b, <1>4, <2>2, <2>5, <3>1
           DEF Decide, ServiceInv, ServiceTypeOK, Busy, InHand
    <2>6. QED
      BY <1>4, <2>1, <2>4, <2>5 DEF Decide
  <1>5. CASE RunnerReturns
    <2>1. worker.pc = "calling" /\ worker.id \in Ids /\ worker.turn # 0
      BY <1>5 DEF RunnerReturns, At, ServiceInv, ServiceTypeOK, Busy, InHand
    <2>2. CASE Goto("failing")
      BY <1>b, <1>0, <1>a, <1>5, <2>1, <2>2, GotoKeepsWorker
         DEF RunnerReturns, ServiceInv, ServiceTypeOK, Busy, InHand
    <2>3. ASSUME NEW o \in RunOutcome,
                 worker' = [worker EXCEPT !.pc = "answered", !.outcome = o]
          PROVE  ServiceInv'
      <3>1. o \in JobOutcome
        BY DEF JobOutcome
      <3>2. /\ worker' \in WorkerState /\ worker'.pc = "answered"
            /\ worker'.id = worker.id /\ worker'.turn = worker.turn
            /\ worker'.outcome = o
        BY <1>0, <1>a, <2>3, <3>1 DEF WorkerState
      <3>3. QED
        BY <1>b, <1>5, <2>1, <3>1, <3>2
           DEF RunnerReturns, ServiceInv, ServiceTypeOK, Busy, InHand
    <2>4. QED
      BY <1>5, <2>2, <2>3 DEF RunnerReturns
  <1>6. CASE Recheck
    <2>1. /\ worker.pc = "answered" /\ worker.id \in Ids /\ worker.turn # 0
          /\ worker.outcome \in JobOutcome
      BY <1>6 DEF Recheck, At, ServiceInv, ServiceTypeOK, Busy, InHand
    <2>2. PICK o \in JobOutcome :
            worker' = [worker EXCEPT !.pc = "finishing", !.outcome = o]
      BY <1>6, <2>1 DEF Recheck, JobOutcome
    <2>3. /\ worker' \in WorkerState /\ worker'.pc = "finishing"
          /\ worker'.id = worker.id /\ worker'.turn = worker.turn
          /\ worker'.outcome = o
      BY <1>0, <1>a, <2>2 DEF WorkerState
    <2>4. QED
      BY <1>b, <1>6, <2>1, <2>2, <2>3
         DEF Recheck, ServiceInv, ServiceTypeOK, Busy, InHand
  <1>7. CASE Finish
    <2>1. PICK pc \in {"cleanup", "failing"} : Goto(pc)
      BY <1>7 DEF Finish
    <2>2. QED
      BY <1>b, <1>0, <1>a, <1>7, <2>1, GotoKeepsWorker
         DEF Finish, At, ServiceInv, ServiceTypeOK, Busy, InHand
  <1>8. CASE Fail
    BY <1>b, <1>0, <1>a, <1>8, GotoKeepsWorker
       DEF Fail, At, ServiceInv, ServiceTypeOK, Busy, InHand
  <1>9. CASE Cleanup
    <2>1. worker' = Idle
      BY <1>9 DEF Cleanup
    <2>2. worker' \in WorkerState /\ worker'.pc = "idle" /\ worker'.id = NONE
      BY <2>1, <1>a, ConstantTypes DEF Idle, WorkerState
    <2>3. /\ pending' \subseteq Ids /\ events' \in [Ids -> 0..MaxTurns]
          /\ \A i \in pending' : events'[i] # 0
      <3>1. /\ pending' = pending \ {worker.id}
            /\ events' = [events EXCEPT ![worker.id] = 0]
        BY <1>9 DEF Cleanup
      <3>2. /\ pending \subseteq Ids /\ events \in [Ids -> 0..MaxTurns]
            /\ \A i \in pending : events[i] # 0
        BY DEF ServiceInv, ServiceTypeOK
      <3>3. 0 \in 0..MaxTurns
        BY ConstantTypes
      <3>4. QED
        BY <3>1, <3>2, <3>3
    <2>4. QED
      BY <1>0, <1>9, <2>2, <2>3, ConstantTypes
         DEF Cleanup, ServiceInv, ServiceTypeOK, Busy, InHand
  <1>10. CASE Leave
    <2>1. worker.id \notin Ids
      BY <1>10 DEF Leave, At, ServiceInv, ServiceTypeOK, Busy
    <2>2. QED
      BY <1>b, <1>0, <1>a, <1>10, <2>1, GotoKeepsWorker
         DEF Leave, ServiceInv, ServiceTypeOK, Busy, InHand
  <1>11. CASE Maintain
    BY <1>0, <1>11 DEF Maintain, serviceVars, ServiceInv, ServiceTypeOK, Busy, InHand
  <1>12. CASE StoreFails
    <2>1. PICK pc \in {"cleanup", "failing"} : Goto(pc)
      BY <1>12 DEF StoreFails
    <2>2. worker.id \in Ids /\ faults' \in 0..MaxFaults
      BY <1>12, ServiceAssumption
         DEF StoreFails, ServiceInv, ServiceTypeOK, Busy
    <2>3. QED
      BY <1>b, <1>0, <1>a, <1>12, <2>1, <2>2, GotoKeepsWorker
         DEF StoreFails, ServiceInv, ServiceTypeOK, Busy, InHand
  <1>13. QED
    BY <1>1, <1>2, <1>3, <1>4, <1>5, <1>6, <1>7, <1>8, <1>9, <1>10, <1>11,
       <1>12 DEF WorkerStep

\* A start, an end and the passing of time keep them too.
LEMMA ServiceInvStep ==
  ASSUME ServiceInv, [ServiceNext]_vars
  PROVE  ServiceInv'
  <1>0. StoreInv'
    BY ServiceStepsStore, StoreInvStep DEF ServiceInv
  <1> USE DEF ServiceInv, ServiceTypeOK, InHand, Busy, WorkerPC, WorkerState
  <1>1. TypeOK'
    BY <1>0 DEF StoreInv
  <1>2. CASE CloseFlag
    BY <1>0, <1>1, <1>2 DEF CloseFlag
  <1>3. CASE CloseSignal
    BY <1>0, <1>1, <1>3, ConstantTypes DEF CloseSignal
  <1>4. CASE Terminate
    BY <1>0, <1>1, <1>4, ConstantTypes DEF Terminate, Idle
  <1>5. CASE Start
    BY <1>0, <1>1, <1>5, ConstantTypes, ServiceAssumption DEF Start, Idle
  <1>6. CASE TimePasses
    BY <1>0, <1>1, <1>6 DEF TimePasses, serviceVars
  <1>7. CASE UNCHANGED vars
    BY <1>0, <1>1, <1>7 DEF vars, serviceVars
  <1>8. QED
    BY <1>0, <1>2, <1>3, <1>4, <1>5, <1>6, <1>7, HandlersKeepInv, WorkerKeepsInv
       DEF ServiceNext, Process

\* Type correctness of the composed system.
THEOREM ServiceTypes == Spec => []ServiceTypeOK
  <1>1. Spec => []ServiceInv
    BY ServiceInvInit, ServiceInvStep, PTL DEF Spec
  <1>2. ServiceInv => ServiceTypeOK
    BY DEF ServiceInv
  <1>3. QED BY <1>1, <1>2, PTL

\* The service is an implementation of the store: whatever the handlers, the
\* worker, its failures and the restarts do, they do it by store operations.
THEOREM ServiceImplementsStore == Spec => StoreSpec
  <1>1. Spec => []ServiceInv
    BY ServiceInvInit, ServiceInvStep, PTL DEF Spec
  <1>2. ServiceInit => Init
    BY DEF ServiceInit
  <1>3. QED
    BY <1>1, <1>2, ServiceStepsStore, PTL DEF Spec, StoreSpec

\* So the tables stay consistent under every interleaving of the service.
THEOREM ServiceKeepsStoreConsistent ==
  Spec => [](TypeOK /\ NoOrphans /\ MirrorsLastTurn /\ AnsweredIffEnded)
  BY ServiceImplementsStore, StoreConsistent, PTL

\* And it keeps the limits, the approvals and the keys of the store, whatever
\* fails and restarts between an admission and its answer.
THEOREM ServiceKeepsLimits ==
  Spec => [](WithinQuota /\ RollingAllowance /\ ReadsAgree /\ ApprovalMatchesRecord)
  BY ServiceImplementsStore, QuotaKept, AllowanceKept, ReadsTellTrue,
     ApprovalsStand, PTL

-----------------------------------------------------------------------------
(* What a store step leaves of an investigation that it does not open *)

\* What a step of the store leaves of an investigation that it does not open.
Kept(i) ==
    /\ investigations[i].state # "free" => investigations'[i].state # "free"
    /\ investigations'[i].state \in STORED =>
         /\ Exists(i)
         /\ investigations'[i].analysis = investigations[i].analysis
         /\ investigations'[i].key = investigations[i].key
         /\ investigations'[i].state \in ACTIVE => Active(i)
         /\ investigations'[i].state = "queued" => investigations[i].state = "queued"
         /\ LET s == snapshots'[investigations[i].analysis] IN
            s.payload # NONE /\ s.expires > clock'
              => Unexpired(investigations[i].analysis)
         /\ Len(turns'[i]) = Len(turns[i])
         /\ \A n \in DOMAIN turns[i] :
              /\ turns'[i][n].key = turns[i][n].key
              /\ turns'[i][n].request = turns[i][n].request
\* Nor does it ask to cancel it.
NotAsked(i) ==
    investigations'[i].state = "cancelling" => investigations[i].state = "cancelling"

\* What an invariant of the store says of one investigation.
LEMMA RowFacts ==
  ASSUME StoreInv, NEW i \in Ids
  PROVE  /\ investigations[i] \in Row
         /\ turns[i] \in Seq(Turn) /\ DOMAIN turns[i] = 1..Len(turns[i])
         /\ Len(turns[i]) \in Nat
         /\ Exists(i) <=> investigations[i].state \in STORED
         /\ Active(i) => Exists(i)
         /\ Exists(i) => /\ investigations[i].analysis \in Analyses
                         /\ Held(investigations[i].analysis)
                         /\ Last(i) \in 1..MaxTurns
         /\ ~Exists(i) => turns[i] = <<>> /\ investigations[i].analysis = NONE
         /\ Exists(i) /\ Unexpired(investigations[i].analysis) => Visible(i)
         /\ Exists(i) /\ investigations[i].analysis \notin Expired => Visible(i)
  <1>1. /\ investigations[i] \in Row
        /\ turns[i] \in Seq(Turn) /\ DOMAIN turns[i] = 1..Len(turns[i])
        /\ Len(turns[i]) \in Nat
        /\ Consistent(investigations[i], turns[i])
    BY DEF StoreInv, TypeOK
  <1>2. Exists(i) <=> investigations[i].state \in STORED
    BY DEF Exists, STORED
  <1>3. Active(i) => Exists(i)
    BY DEF Active, Exists
  <1>4. Exists(i) => /\ investigations[i].analysis \in Analyses
                     /\ Held(investigations[i].analysis)
                     /\ Last(i) \in 1..MaxTurns
    BY <1>1, <1>2 DEF StoreInv, Consistent, Last
  <1>5. ~Exists(i) => turns[i] = <<>> /\ investigations[i].analysis = NONE
    BY <1>1, <1>2 DEF Consistent
  <1>6. /\ clock \in Nat
        /\ \A a \in Analyses : snapshots[a].expires \in Nat
    BY ConstantTypes DEF StoreInv, TypeOK, Snapshot
  <1>7. Exists(i) /\ investigations[i].analysis \notin Expired => Visible(i)
    BY <1>4, <1>6 DEF Visible, Unexpired, Expired
  <1>8. QED
    BY <1>1, <1>2, <1>3, <1>4, <1>5, <1>7 DEF Visible

\* What the primed tables say of one investigation, spelt out.
LEMMA StoredMeans ==
  ASSUME NEW i \in Ids
  PROVE  /\ Exists(i)' <=> investigations'[i].state \in STORED
         /\ Active(i)' <=> investigations'[i].state \in ACTIVE
         /\ Active(i) <=> investigations[i].state \in ACTIVE
         /\ investigations'[i].state \in ACTIVE => Exists(i)'
         /\ \A a : Unexpired(a)' <=> /\ snapshots'[a].payload # NONE
                                    /\ snapshots'[a].expires > clock'
  BY DEF Exists, Active, Unexpired, Held, STORED

\* An investigation that is kept and still there was there, with its turns.
LEMMA KeptMeans ==
  ASSUME NEW i \in Ids, Kept(i), Exists(i)'
  PROVE  /\ Exists(i) /\ Last(i)' = Last(i)
         /\ Active(i)' => Active(i)
         /\ Visible(i)' => Visible(i)
  BY DEF Kept, Exists, Active, Visible, Unexpired, Held, Last, STORED

\* Rows and turns that do not change are kept, if no snapshot gets younger.
LEMMA SameKept ==
  ASSUME StoreInv, NEW i \in Ids, investigations'[i] = investigations[i],
         turns'[i] = turns[i],
         Exists(i) => (Unexpired(investigations[i].analysis)'
                         => Unexpired(investigations[i].analysis))
  PROVE  Kept(i) /\ NotAsked(i)
  BY DEF Kept, NotAsked, Exists, Active, Unexpired, Held, STORED

\* Removing snapshots removes what is theirs and nothing else.
LEMMA RemovedKept ==
  ASSUME StoreInv, NEW gone, NEW i \in Ids,
         investigations'[i] = InvestigationsWithout(gone)[i],
         turns'[i] = TurnsWithout(gone)[i],
         \A a \in Analyses : a \notin gone /\ Held(a) =>
            (Unexpired(a)' => Unexpired(a))
  PROVE  /\ Kept(i) /\ NotAsked(i)
         /\ Exists(i)' => investigations[i].analysis \notin gone
  <1>1. CASE investigations[i].analysis \in gone
    <2>1. investigations'[i] = NoRow("deleted")
      BY <1>1 DEF InvestigationsWithout
    <2>2. investigations'[i].state = "deleted" /\ ~Exists(i)'
      BY <2>1, StatesDisjoint DEF NoRow, Exists, STORED
    <2>3. QED BY <2>2, StoredMeans, StatesDisjoint DEF Kept, NotAsked, NoRow
  <1>2. CASE investigations[i].analysis \notin gone
    <2>1. investigations'[i] = investigations[i] /\ turns'[i] = turns[i]
      BY <1>2 DEF InvestigationsWithout, TurnsWithout
    <2>2. Exists(i) => (Unexpired(investigations[i].analysis)'
                          => Unexpired(investigations[i].analysis))
      BY <1>2, <2>1, RowFacts
    <2>3. QED BY <1>2, <2>1, <2>2, SameKept
  <1>3. QED BY <1>1, <1>2

\* No snapshot that stays gets younger.
LEMMA NoneYounger ==
  ASSUME StoreInv, NEW gone, UNCHANGED clock, snapshots' = SnapshotsWithout(gone),
         NEW a \in Analyses, a \notin gone, Unexpired(a)'
  PROVE  Unexpired(a)
  BY DEF SnapshotsWithout, Unexpired, Held

\* A move that does not open a job keeps all else of it.
LEMMA MovedKept ==
  ASSUME StoreInv, NEW i \in Ids, NEW expected \in SUBSET ACTIVE,
         NEW s \in STORED, NEW o \in Outcome, s # "queued",
         Transition(i, expected, s, o), NEW j \in Ids
  PROVE  /\ Kept(j)
         /\ j # i \/ s # "cancelling" => NotAsked(j)
         /\ j # i => investigations'[j] = investigations[j] /\ turns'[j] = turns[j]
         /\ investigations'[i].state = IF investigations[i].state \in expected
                                       THEN s ELSE investigations[i].state
  <1>1. UNCHANGED <<clock, snapshots>>
    BY DEF Transition
  <1>2. investigations'[j] = investigations[j] /\ turns'[j] = turns[j]
          => Kept(j) /\ NotAsked(j)
    BY <1>1, SameKept DEF Unexpired, Held
  <1>3. /\ investigations \in [Ids -> Row] /\ turns \in [Ids -> Seq(Turn)]
    BY DEF StoreInv, TypeOK
  <1>4. CASE investigations[i].state \notin expected
    BY <1>2, <1>4 DEF Transition
  <1>5. CASE investigations[i].state \in expected
    <2> DEFINE row == investigations[i]
               last == Last(i)
               t == Moved(turns[i][last], s, o)
    <2>1. /\ investigations' = [investigations EXCEPT ![i] = Moved(row, s, o)]
          /\ turns' = [turns EXCEPT ![i] = [turns[i] EXCEPT ![last] = t]]
      BY <1>5 DEF Transition
    <2>2. j # i => investigations'[j] = investigations[j] /\ turns'[j] = turns[j]
      BY <2>1
    <2>3. Active(i) /\ Exists(i) /\ last \in 1..Len(turns[i])
      <3>1. Active(i) /\ Exists(i)
        BY <1>5, RowFacts DEF Active
      <3>2. QED BY <3>1, RowFacts, ConstantTypes DEF Last
    <2>4. turns[i][last] \in Turn
      BY <2>3, RowFacts
    <2>5. /\ investigations'[i] = Moved(row, s, o)
          /\ turns'[i] = [turns[i] EXCEPT ![last] = t]
      BY <1>3, <2>1
    <2>6. /\ investigations'[i].state = s
          /\ investigations'[i].analysis = row.analysis
          /\ investigations'[i].key = row.key
      BY <1>3, <2>5 DEF Moved, Row
    <2>7. t.key = turns[i][last].key /\ t.request = turns[i][last].request
      BY <2>4 DEF Moved, Turn
    <2> HIDE DEF t, last
    <2>8. /\ Len(turns'[i]) = Len(turns[i])
          /\ \A n \in DOMAIN turns[i] :
               /\ turns'[i][n].key = turns[i][n].key
               /\ turns'[i][n].request = turns[i][n].request
      <3>1. DOMAIN turns[i] = 1..Len(turns[i]) /\ turns[i] \in Seq(Turn)
        BY RowFacts
      <3>2. /\ Len(turns'[i]) = Len(turns[i])
            /\ \A n \in DOMAIN turns[i] :
                 turns'[i][n] = IF n = last THEN t ELSE turns[i][n]
        BY <2>5, <3>1
      <3>3. QED BY <2>7, <3>2
    <2>9. Exists(i)' /\ (Visible(i)' => Visible(i))
      BY <1>1, <2>3, <2>6 DEF Exists, Visible, Unexpired, Held, STORED
    <2>10. Kept(i)
      <3>1. s # "free"
        BY StatesDisjoint
      <3>2. QED
        BY <1>1, <2>3, <2>6, <2>8, <2>9, <3>1, StoredMeans DEF Kept, Unexpired, Held
    <2>11. s # "cancelling" => NotAsked(i)
      BY <2>6 DEF NotAsked
    <2>12. QED
      BY <1>2, <1>5, <2>2, <2>6, <2>10, <2>11
  <1>6. QED BY <1>4, <1>5

\* The steps of the store that neither open, move nor end a job, but for the
\* recovery, after which no job is active.
LEMMA QuietKept ==
  ASSUME StoreInv, NEW i \in Ids,
         \/ Tick \/ PurgeExpired \/ UNCHANGED allStoreVars
         \/ \E a \in Analyses :
              DeleteSnapshot(a) \/ \E p \in Payloads : PutSnapshot(a, p)
  PROVE  Kept(i) /\ NotAsked(i)
  <1>0. /\ clock \in Nat /\ \A a \in Analyses : snapshots[a].expires \in Nat
        /\ snapshots \in [Analyses -> Snapshot]
    BY ConstantTypes DEF StoreInv, TypeOK, Snapshot
  <1>1. CASE UNCHANGED allStoreVars
    BY <1>1, SameKept DEF allStoreVars, storeVars, Unexpired, Held
  <1>2. CASE Tick
    <2>1. /\ UNCHANGED <<investigations, turns, snapshots>>
          /\ clock' = clock + 1
      BY <1>2 DEF Tick, storeVars
    <2>2. \A a \in Analyses : Unexpired(a)' => Unexpired(a)
      BY <1>0, <2>1 DEF Unexpired, Held
    <2>3. Exists(i) => investigations[i].analysis \in Analyses
      BY RowFacts
    <2>4. Exists(i) => (Unexpired(investigations[i].analysis)'
                          => Unexpired(investigations[i].analysis))
      BY <2>1, <2>2, <2>3
    <2>5. QED BY <2>1, <2>4, SameKept
  <1>3. ASSUME NEW gone, UNCHANGED clock, snapshots' = SnapshotsWithout(gone),
               investigations' = InvestigationsWithout(gone),
               turns' = TurnsWithout(gone)
        PROVE  Kept(i) /\ NotAsked(i)
    <2>1. \A a \in Analyses : a \notin gone /\ Held(a) =>
            (Unexpired(a)' => Unexpired(a))
      BY <1>3, NoneYounger
    <2>2. QED BY <1>3, <2>1, RemovedKept
  <1>4. CASE PurgeExpired
    BY <1>3, <1>4 DEF PurgeExpired
  <1>5. ASSUME NEW a \in Analyses, DeleteSnapshot(a)
        PROVE  Kept(i) /\ NotAsked(i)
    BY <1>3, <1>5 DEF DeleteSnapshot
  <1>6. ASSUME NEW a \in Analyses, NEW p \in Payloads, PutSnapshot(a, p)
        PROVE  Kept(i) /\ NotAsked(i)
    <2>1. \A b \in Analyses : b \notin Expired /\ Held(b) =>
            (Unexpired(b)' => Unexpired(b))
      BY <1>0 DEF Expired, Unexpired
    <2>2. /\ investigations' = InvestigationsWithout(Expired)
          /\ turns' = TurnsWithout(Expired)
      BY <1>6 DEF PutSnapshot
    <2>3. QED BY <1>0, <2>1, <2>2, RemovedKept
  <1>7. QED BY <1>1, <1>2, <1>4, <1>5, <1>6

\* The recovery at a start keeps every investigation and ends every job.
LEMMA RecoveredKept ==
  ASSUME StoreInv, NEW i \in Ids, RecoverInterrupted
  PROVE  Kept(i) /\ NotAsked(i) /\ ~Active(i)'
  <1> DEFINE swept(e) == IF e.state \in ACTIVE THEN Interrupted(e) ELSE e
  <1>1. /\ investigations[i] \in Row /\ turns[i] \in Seq(Turn)
        /\ DOMAIN turns[i] = 1..Len(turns[i])
        /\ Active(i) => Exists(i)
    BY RowFacts
  <1>2. /\ investigations'[i] = swept(investigations[i])
        /\ turns'[i] = [n \in DOMAIN turns[i] |-> swept(turns[i][n])]
        /\ UNCHANGED <<clock, snapshots>>
    BY DEF RecoverInterrupted, Active
  <1>3. \A t \in Turn : swept(t).key = t.key /\ swept(t).request = t.request
    BY DEF Interrupted, Moved, Turn
  <1>4. /\ swept(investigations[i]).analysis = investigations[i].analysis
        /\ swept(investigations[i]).key = investigations[i].key
        /\ swept(investigations[i]).state = IF Active(i) THEN "interrupted"
                                            ELSE investigations[i].state
    BY <1>1 DEF Interrupted, Moved, Row, Active
  <1> HIDE DEF swept
  <1>5. /\ Len(turns'[i]) = Len(turns[i])
        /\ \A n \in DOMAIN turns[i] :
             /\ turns'[i][n].key = turns[i][n].key
             /\ turns'[i][n].request = turns[i][n].request
    BY <1>1, <1>2, <1>3
  <1>6. "interrupted" \notin ACTIVE
    BY DEF ACTIVE
  <1>7. ~Active(i)' /\ NotAsked(i)
    BY <1>2, <1>4, <1>6 DEF Active, NotAsked
  <1>8. Exists(i)' => Exists(i) /\ (Visible(i)' => Visible(i))
    BY <1>1, <1>2, <1>4 DEF Exists, Visible, Unexpired, Held
  <1>9. QED
    BY <1>2, <1>4, <1>5, <1>6, <1>7, <1>8, StoredMeans DEF Kept, Unexpired, Held

\* A new investigation opens one job; its key is new to the analysis.
LEMMA CreatedKept ==
  ASSUME StoreInv, NEW a \in Analyses, NEW i \in Ids, NEW k \in Keys,
         NEW r \in Requests, CreateInvestigation(i, a, k, r)
  PROVE  /\ investigations[i].state = "free"
         /\ investigations'[i] = QueuedRow(a, k, r)
         /\ turns'[i] = <<QueuedTurn(k, r)>>
         /\ \A j \in Ids \ {i} :
              /\ Kept(j) /\ NotAsked(j)
              /\ Exists(j)' => ~(/\ investigations[j].analysis = a
                                 /\ investigations[j].key = k)
  <1>1. /\ investigations \in [Ids -> Row] /\ turns \in [Ids -> Seq(Turn)]
        /\ DOMAIN InvestigationsWithout(Expired) = Ids
        /\ DOMAIN TurnsWithout(Expired) = Ids
    BY DEF StoreInv, TypeOK, InvestigationsWithout, TurnsWithout
  <1>2. /\ investigations[i].state = "free"
        /\ \A j \in Surviving : ~(/\ investigations[j].analysis = a
                                  /\ investigations[j].key = k)
        /\ snapshots' = SnapshotsWithout(Expired) /\ UNCHANGED clock
        /\ investigations' =
             [InvestigationsWithout(Expired) EXCEPT ![i] = QueuedRow(a, k, r)]
        /\ turns' = [TurnsWithout(Expired) EXCEPT ![i] = <<QueuedTurn(k, r)>>]
    BY DEF CreateInvestigation
  <1>3. \A b \in Analyses : b \notin Expired /\ Held(b) =>
          (Unexpired(b)' => Unexpired(b))
    BY <1>2, NoneYounger
  <1>4. ASSUME NEW j \in Ids \ {i}
        PROVE  /\ Kept(j) /\ NotAsked(j)
               /\ Exists(j)' => j \in Surviving
    <2>1. /\ investigations'[j] = InvestigationsWithout(Expired)[j]
          /\ turns'[j] = TurnsWithout(Expired)[j]
      BY <1>1, <1>2
    <2>2. /\ Kept(j) /\ NotAsked(j)
          /\ Exists(j)' => investigations[j].analysis \notin Expired
      BY <1>3, <2>1, RemovedKept
    <2>3. QED BY <2>2, KeptMeans DEF Surviving
  <1>5. /\ investigations'[i] = QueuedRow(a, k, r)
        /\ turns'[i] = <<QueuedTurn(k, r)>>
    BY <1>1, <1>2
  <1>6. QED BY <1>2, <1>4, <1>5

\* A follow-up opens the next turn, under a key that is new to it.
LEMMA ContinuedKept ==
  ASSUME StoreInv, NEW i \in Ids, NEW k \in Keys, NEW r \in Requests,
         AddTurn(i, k, r)
  PROVE  /\ Exists(i) /\ ~Active(i) /\ Exists(i)'
         /\ investigations'[i].state = "queued"
         /\ investigations'[i].analysis = investigations[i].analysis
         /\ investigations'[i].key = investigations[i].key
         /\ turns'[i] = Append(turns[i], QueuedTurn(k, r))
         /\ \A n \in DOMAIN turns[i] : turns[i][n].key # k
         /\ \A j \in Ids \ {i} : Kept(j) /\ NotAsked(j)
  <1>1. /\ investigations \in [Ids -> Row] /\ turns \in [Ids -> Seq(Turn)]
        /\ DOMAIN InvestigationsWithout(Expired) = Ids
        /\ DOMAIN TurnsWithout(Expired) = Ids
    BY DEF StoreInv, TypeOK, InvestigationsWithout, TurnsWithout
  <1>2. /\ i \in Surviving /\ ~Active(i)
        /\ \A n \in DOMAIN turns[i] : turns[i][n].key # k
        /\ snapshots' = SnapshotsWithout(Expired) /\ UNCHANGED clock
        /\ investigations' = [InvestigationsWithout(Expired) EXCEPT
                                ![i] = Reopened(investigations[i])]
        /\ turns' = [TurnsWithout(Expired) EXCEPT
                       ![i] = Append(turns[i], QueuedTurn(k, r))]
    BY DEF AddTurn
  <1>3. \A b \in Analyses : b \notin Expired /\ Held(b) =>
          (Unexpired(b)' => Unexpired(b))
    BY <1>2, NoneYounger
  <1>4. ASSUME NEW j \in Ids \ {i} PROVE Kept(j) /\ NotAsked(j)
    <2>1. /\ investigations'[j] = InvestigationsWithout(Expired)[j]
          /\ turns'[j] = TurnsWithout(Expired)[j]
      BY <1>1, <1>2
    <2>2. QED BY <1>3, <2>1, RemovedKept
  <1>5. /\ investigations'[i] = Reopened(investigations[i])
        /\ turns'[i] = Append(turns[i], QueuedTurn(k, r))
    BY <1>1, <1>2
  <1>6. /\ Reopened(investigations[i]).state = "queued"
        /\ Reopened(investigations[i]).analysis = investigations[i].analysis
        /\ Reopened(investigations[i]).key = investigations[i].key
    BY <1>1 DEF Reopened, Row
  <1>7. Exists(i) /\ Exists(i)'
    BY <1>2, <1>5, <1>6 DEF Surviving, Exists, ACTIVE
  <1>8. QED BY <1>2, <1>4, <1>5, <1>6, <1>7

-----------------------------------------------------------------------------
(* Steps of the service *)

\* The values of the constants that name states and places.
LEMMA SlotValues ==
  ASSUME ServiceInv
  PROVE  /\ pending \subseteq Ids /\ queue \in Seq(Ids) /\ NONE \notin Ids
         /\ events \in [Ids -> 0..MaxTurns]
         /\ worker \in WorkerState /\ (Busy <=> worker.id \in Ids)
         /\ Queued \subseteq Ids
         /\ NoJob.id = NONE
         /\ ~LockFree => admitting.id \in Ids /\ admitting.turn \in 1..MaxTurns
         /\ LockFree => admitting.id = NONE
         /\ 0 \in 0..MaxTurns
  <1>1. Queued \subseteq Ids
    BY DEF ServiceInv, ServiceTypeOK, Queued
  <1>2. QED
    BY <1>1, ConstantTypes DEF ServiceInv, ServiceTypeOK, LockFree, NoJob

\* What a job's outcome becomes in the store is a final state.
LEMMA EndingsAreFinal ==
  \A o \in JobOutcome : /\ o \in Outcome /\ o # NoOutcome
                         /\ (IF o.status = "other" THEN "failed" ELSE o.status) \in TERMINAL
  <1>1. RunStatuses \subseteq {"completed", "partial", "failed", "cancelled", "other"}
    BY StoreAssumption
  <1>2. \A o \in RunOutcome :
          o.status \in {"completed", "partial", "failed", "cancelled", "other"}
    BY <1>1 DEF RunOutcome
  <1>3. CancelledOutcome.status = "cancelled"
    BY DEF CancelledOutcome
  <1>4. QED BY <1>2, <1>3, AnswersAreOutcomes DEF JobOutcome, TERMINAL

\* Between Take and Cleanup the worker has one job, and changes nothing that
\* the handlers look at.
LEMMA WorkerStays ==
  ASSUME ServiceInv,
         \/ Claim \/ LoadSnapshot \/ Decide \/ RunnerReturns \/ Recheck
         \/ Finish \/ Fail \/ StoreFails
  PROVE  /\ Busy /\ Busy' /\ worker'.id = worker.id
         /\ worker' \in WorkerState
         /\ UNCHANGED <<proc, queue, pending, events, signalled, admitting, starts>>
         /\ Serving
  <1>0. worker \in WorkerState
    BY SlotValues
  <1>a. WorkerPC = {"idle", "taken", "claimed", "loaded", "calling",
                    "answered", "finishing", "failing", "cleanup", "exited"}
    BY DEF WorkerPC
  <1>9. UNCHANGED <<proc, queue, pending, events, signalled, admitting, starts>>
        /\ Serving
    BY DEF Claim, LoadSnapshot, Decide, RunnerReturns, Recheck, Finish, Fail,
         StoreFails
  <1>10. worker' \in WorkerState
    <2>1. StoreInv'
      BY WorkerStepsStore, StoreInvStep DEF WorkerStep, ServiceInv
    <2>2. QED BY <2>1, WorkerKeepsInv, SlotValues DEF WorkerStep, ServiceInv, ServiceTypeOK
  <1> SUFFICES Busy /\ Busy' /\ worker'.id = worker.id
    BY <1>9, <1>10
  <1>g. ASSUME NEW pc \in WorkerPC, Goto(pc), Busy, pc \notin {"idle", "exited"}
        PROVE  Busy' /\ worker'.id = worker.id
    BY <1>0, <1>g, GotoKeepsWorker DEF Busy
  <1>1. CASE Claim
    BY <1>0, <1>1 DEF Claim, At, Busy, WorkerState
  <1>2. CASE LoadSnapshot
    BY <1>a, <1>g, <1>2 DEF LoadSnapshot, At, Busy
  <1>3. CASE Decide
    <2>1. Busy BY <1>3 DEF Decide, At, Busy
    <2>2. \/ Goto("calling")
          \/ \E o : worker' = [worker EXCEPT !.pc = "answered", !.outcome = o]
      BY <1>3 DEF Decide
    <2>3. Busy' /\ worker'.id = worker.id
      BY <1>0, <1>a, <1>g, <2>1, <2>2 DEF Busy, WorkerState
    <2>4. QED BY <1>3, <2>1, <2>3 DEF Decide
  <1>4. CASE RunnerReturns
    <2>1. Busy BY <1>4 DEF RunnerReturns, At, Busy
    <2>2. \/ Goto("failing")
          \/ \E o : worker' = [worker EXCEPT !.pc = "answered", !.outcome = o]
      BY <1>4 DEF RunnerReturns
    <2>3. Busy' /\ worker'.id = worker.id
      BY <1>0, <1>a, <1>g, <2>1, <2>2 DEF Busy, WorkerState
    <2>4. QED BY <1>4, <2>1, <2>3 DEF RunnerReturns
  <1>5. CASE Recheck
    BY <1>0, <1>5 DEF Recheck, At, Busy, WorkerState
  <1>6. CASE Finish
    BY <1>a, <1>g, <1>6 DEF Finish, At, Busy
  <1>7. CASE Fail
    BY <1>a, <1>g, <1>7 DEF Fail, At, Busy
  <1>8. CASE StoreFails
    BY <1>a, <1>g, <1>8 DEF StoreFails, At, Busy
  <1>11. QED
    BY <1>1, <1>2, <1>3, <1>4, <1>5, <1>6, <1>7, <1>8

\* An investigation is kept by every step but those that open it.
LEMMA StepKept ==
  ASSUME ServiceInv, [ServiceNext]_vars, NEW i \in Ids
  PROVE  /\ \/ Kept(i)
            \/ \E a \in Analyses, k \in Keys, r \in Requests : Submit(i, a, k, r)
            \/ \E k \in Keys, r \in Requests : FollowUp(i, k, r)
         /\ NotAsked(i) \/ Cancel(i)
  <1>0. StoreInv
    BY DEF ServiceInv
  <1>w. worker.pc \in {"taken", "finishing", "failing"} => worker.id \in Ids
    BY DEF ServiceInv, ServiceTypeOK, Busy
  <1>s. /\ {"queued"} \in SUBSET ACTIVE /\ {"queued", "running"} \in SUBSET ACTIVE
        /\ {"running", "cancelling"} \in SUBSET ACTIVE /\ ACTIVE \in SUBSET ACTIVE
        /\ {"running", "cancelling", "failed"} \subseteq STORED
        /\ NoOutcome \in Outcome /\ FailedOutcome \in Outcome
    BY AnswersAreOutcomes DEF ACTIVE, TERMINAL, STORED
  <1>1. CASE UNCHANGED allStoreVars
    BY <1>0, <1>1, QuietKept
  <1>2. ASSUME NEW j \in Ids, NEW a \in Analyses, NEW k \in Keys, NEW r \in Requests,
               Submit(j, a, k, r)
        PROVE  (Kept(i) \/ j = i) /\ NotAsked(i)
    <2>1. CreateInvestigation(j, a, k, r)
      BY <1>2 DEF Submit
    <2>2. QueuedRow(a, k, r).state = "queued"
      BY DEF QueuedRow, NoRow
    <2>3. QED BY <1>0, <2>1, <2>2, CreatedKept DEF NotAsked
  <1>3. ASSUME NEW j \in Ids, NEW k \in Keys, NEW r \in Requests, FollowUp(j, k, r)
        PROVE  (Kept(i) \/ j = i) /\ NotAsked(i)
    <2>1. AddTurn(j, k, r)
      BY <1>3 DEF FollowUp
    <2>2. QED BY <1>0, <2>1, ContinuedKept DEF NotAsked
  <1>4. ASSUME NEW j \in Ids, Cancel(j) PROVE Kept(i) /\ (NotAsked(i) \/ i = j)
    <2>1. Transition(j, {"queued", "running"}, "cancelling", NoOutcome)
      BY <1>4 DEF Cancel, CancelJob
    <2>2. QED BY <1>0, <1>s, <2>1, MovedKept
  <1>5. ASSUME \/ \E a \in Analyses :
                    Delete(a) \/ \E p \in Payloads : SaveAnalysis(a, p)
               \/ Maintain \/ TimePasses
        PROVE  Kept(i) /\ NotAsked(i)
    BY <1>0, <1>5, QuietKept DEF Delete, SaveAnalysis, Maintain, TimePasses
  <1>6. CASE Start
    BY <1>0, <1>6, RecoveredKept DEF Start
  <1>7. CASE Claim
    <2>1. UNCHANGED allStoreVars \/ Transition(worker.id, {"queued"}, "running", NoOutcome)
      BY <1>7 DEF Claim, ClaimJob
    <2>2. worker.id \in Ids
      BY <1>7, <1>w DEF Claim, At
    <2>3. ASSUME Transition(worker.id, {"queued"}, "running", NoOutcome)
          PROVE  Kept(i) /\ NotAsked(i)
      <3> DEFINE expected == {"queued"}
                 s == "running"
      <3>1. /\ expected \in SUBSET ACTIVE /\ s \in STORED
            /\ s # "queued" /\ s # "cancelling"
            /\ Transition(worker.id, expected, s, NoOutcome)
        BY <1>s, <2>3
      <3> HIDE DEF expected, s
      <3>2. QED BY <1>0, <1>s, <2>2, <3>1, MovedKept
    <2>4. QED BY <1>1, <2>1, <2>3
  <1>8. CASE Finish
    <2> DEFINE o == worker.outcome
               s == IF o.status = "other" THEN "failed" ELSE o.status
    <2>1. UNCHANGED allStoreVars \/ Transition(worker.id, {"running", "cancelling"}, s, o)
      BY <1>8 DEF Finish, FinishJob
    <2>2. worker.id \in Ids /\ o \in JobOutcome
      BY <1>8, <1>w DEF Finish, At, ServiceInv
    <2>3. o \in Outcome /\ s \in TERMINAL
      BY <2>2, EndingsAreFinal
    <2>4. s \in STORED /\ s # "queued" /\ s # "cancelling"
      BY <2>3 DEF STORED, TERMINAL
    <2> HIDE DEF s, o
    <2>5. ASSUME Transition(worker.id, {"running", "cancelling"}, s, o)
          PROVE  Kept(i) /\ NotAsked(i)
      <3> DEFINE expected == {"running", "cancelling"}
      <3>1. /\ expected \in SUBSET ACTIVE
            /\ Transition(worker.id, expected, s, o)
        BY <1>s, <2>5
      <3> HIDE DEF expected
      <3>2. QED BY <1>0, <2>2, <2>3, <2>4, <3>1, MovedKept
    <2>6. QED BY <1>1, <2>1, <2>5
  <1>9. CASE Fail
    <2> DEFINE s == "failed"
    <2>1. /\ Transition(worker.id, ACTIVE, s, FailedOutcome)
          /\ s \in STORED /\ s # "queued" /\ s # "cancelling"
      BY <1>9, <1>s DEF Fail, FailJob
    <2>2. worker.id \in Ids
      BY <1>9, <1>w DEF Fail, At
    <2>3. ACTIVE \in SUBSET ACTIVE /\ FailedOutcome \in Outcome
      BY <1>s
    <2> HIDE DEF s
    <2>4. QED BY <1>0, <2>1, <2>2, <2>3, MovedKept
  <1>10. CASE \/ Enqueue \/ Take \/ LoadSnapshot \/ Decide \/ RunnerReturns
              \/ Recheck \/ Cleanup \/ Leave \/ StoreFails
              \/ CloseFlag \/ CloseSignal \/ Terminate \/ UNCHANGED vars
    <2>1. UNCHANGED allStoreVars
      BY <1>10 DEF Enqueue, Take, LoadSnapshot, Decide, RunnerReturns, Recheck,
           Cleanup, Leave, StoreFails, CloseFlag, CloseSignal, Terminate, vars
    <2>2. QED BY <1>1, <2>1
  <1>11. QED
    BY <1>2, <1>3, <1>4, <1>5, <1>6, <1>7, <1>8, <1>9, <1>10
       DEF ServiceNext, Handlers, WorkerStep, Process

-----------------------------------------------------------------------------
(* Slots *)

\* With SlotsAccounted: the process that is down has nothing in hand, no
\* handler is inside its critical section once close() has signalled, and
\* who has a slot, or is about to, is no longer an unused identifier.
SlotInv ==
    /\ ServiceInv /\ SlotsAccounted /\ IsFiniteSet(pending)
    /\ proc = "down" => pending = {} /\ LockFree
    /\ proc = "joining" => LockFree /\ ClosingStopsAll
    /\ \A i \in pending : investigations[i].state # "free"
    /\ ~LockFree => investigations[admitting.id].state # "free"

Elements(q) == {q[n] : n \in DOMAIN q}
Distinct(q) == \A m, n \in DOMAIN q : q[m] = q[n] => m = n

\* Appending what a queue does not hold keeps its elements distinct.
LEMMA AppendedQueue ==
  ASSUME NEW q \in Seq(Ids), NEW x \in Ids, Distinct(q), x \notin Elements(q)
  PROVE  /\ Elements(Append(q, x)) = Elements(q) \cup {x}
         /\ Distinct(Append(q, x))
  <1> DEFINE r == Append(q, x)
  <1>1. /\ DOMAIN q = 1..Len(q) /\ Len(q) \in Nat
        /\ DOMAIN r = 1..(Len(q) + 1)
        /\ \A n \in 1..Len(q) : r[n] = q[n]
        /\ r[Len(q) + 1] = x
    OBVIOUS
  <1> HIDE DEF r
  <1>2. \A n \in DOMAIN r : n \in DOMAIN q \/ n = Len(q) + 1
    BY <1>1
  <1>3. DOMAIN q \subseteq DOMAIN r /\ Len(q) + 1 \in DOMAIN r
    BY <1>1
  <1>4. Elements(r) = Elements(q) \cup {x}
    BY <1>1, <1>2, <1>3 DEF Elements
  <1>5. Distinct(r)
    BY <1>1, <1>2 DEF Distinct, Elements
  <1>6. QED BY <1>4, <1>5 DEF r

\* Taking the head of a queue of distinct elements takes it out altogether.
LEMMA TakenQueue ==
  ASSUME NEW q \in Seq(Ids), q # <<>>, Distinct(q)
  PROVE  /\ Head(q) \in Elements(q)
         /\ Elements(Tail(q)) = Elements(q) \ {Head(q)}
         /\ Distinct(Tail(q))
  <1> DEFINE t == Tail(q)
  <1>1. /\ DOMAIN q = 1..Len(q) /\ Len(q) \in Nat \ {0}
        /\ Head(q) = q[1]
        /\ DOMAIN t = 1..(Len(q) - 1)
        /\ \A n \in 1..(Len(q) - 1) : t[n] = q[n + 1]
    OBVIOUS
  <1> HIDE DEF t
  <1>2. Head(q) \in Elements(q)
    BY <1>1 DEF Elements
  <1>3. ASSUME NEW n \in DOMAIN t
        PROVE  n + 1 \in DOMAIN q /\ t[n] = q[n + 1] /\ t[n] # Head(q)
    BY <1>1, <1>3 DEF Distinct
  <1>4. ASSUME NEW n \in DOMAIN q, q[n] # Head(q)
        PROVE  n - 1 \in DOMAIN t /\ t[n - 1] = q[n]
    BY <1>1, <1>4
  <1>5. Elements(t) = Elements(q) \ {Head(q)}
    BY <1>3, <1>4 DEF Elements
  <1>6. Distinct(t)
    BY <1>1, <1>3 DEF Distinct
  <1>7. QED BY <1>2, <1>5, <1>6 DEF t

\* Nothing is queued, or in hand, that is not pending.
LEMMA NothingPending ==
  ASSUME ServiceInv, SlotsAccounted, pending = {}
  PROVE  ~Busy /\ queue = <<>> /\ \A i \in Ids : events[i] = 0
  <1>1. queue \in Seq(Ids) /\ Queued = {}
    BY DEF ServiceInv, ServiceTypeOK, SlotsAccounted
  <1>2. queue = <<>>
    <2>1. queue # <<>> => 1 \in DOMAIN queue
      BY <1>1
    <2>2. 1 \in DOMAIN queue => queue[1] \in Queued
      BY DEF Queued
    <2>3. QED BY <1>1, <2>1, <2>2
  <1>3. QED BY <1>2 DEF SlotsAccounted

\* Every job keeps the one place it has.
LEMMA SlotsStep ==
  ASSUME SlotInv, [ServiceNext]_vars
  PROVE  SlotsAccounted' /\ IsFiniteSet(pending')
  <1>0. /\ ServiceInv /\ SlotsAccounted /\ IsFiniteSet(pending)
        /\ Capacity \in Nat /\ Capacity > 0
        /\ Cardinality(pending) \in Nat
    BY ServiceAssumption, FS_CardinalityType DEF SlotInv
  <1>v. /\ pending \subseteq Ids /\ queue \in Seq(Ids) /\ NONE \notin Ids
        /\ events \in [Ids -> 0..MaxTurns]
        /\ (Busy <=> worker.id \in Ids)
        /\ NoJob.id = NONE /\ Idle.pc = "idle"
        /\ ~LockFree => admitting.id \in Ids /\ admitting.turn \in 1..MaxTurns
    BY <1>0, SlotValues DEF Idle
  <1>q. Queued = Elements(queue) /\ Distinct(queue) /\ Queued' = Elements(queue')
    BY <1>0 DEF Queued, Elements, Distinct, SlotsAccounted
  <1>1. ASSUME UNCHANGED <<queue, pending, events, admitting>>,
               Busy' <=> Busy, Busy => worker'.id = worker.id
        PROVE  SlotsAccounted' /\ IsFiniteSet(pending')
    BY <1>0, <1>1 DEF SlotsAccounted, Queued, LockFree
  <1>2. CASE Enqueue
    <2> DEFINE i == admitting.id
    <2>1. /\ ~LockFree /\ pending' = pending \cup {i}
          /\ events' = [events EXCEPT ![i] = admitting.turn]
          /\ queue' = Append(queue, i) /\ admitting' = NoJob
          /\ UNCHANGED worker
      BY <1>2 DEF Enqueue
    <2>2. /\ i \in Ids /\ admitting.turn \in 1..MaxTurns /\ i \notin pending
          /\ Cardinality(pending) < Capacity
      BY <1>0, <1>v, <2>1 DEF SlotsAccounted
    <2> HIDE DEF i
    <2>3. i \notin Queued /\ (Busy => worker.id # i)
      BY <1>0, <2>2 DEF SlotsAccounted
    <2>4. Elements(queue') = Elements(queue) \cup {i} /\ Distinct(queue')
      BY <1>v, <1>q, <2>1, <2>2, <2>3, AppendedQueue
    <2>5. IsFiniteSet(pending') /\ Cardinality(pending') = Cardinality(pending) + 1
      BY <1>0, <2>1, <2>2, FS_AddElement
    <2>6. Cardinality(pending') <= Capacity
      BY <1>0, <2>2, <2>5
    <2>7. \A j \in Ids : events'[j] # 0 <=> j \in pending'
      BY <1>0, <1>v, <2>1, <2>2, ConstantTypes DEF SlotsAccounted
    <2>8. Busy' = Busy /\ LockFree' /\ admitting'.id \notin pending'
      BY <1>v, <2>1, <2>2 DEF Busy, LockFree
    <2>9. pending' = Queued' \cup (IF Busy' THEN {worker'.id} ELSE {})
      BY <1>0, <1>q, <2>1, <2>4, <2>8 DEF SlotsAccounted
    <2>10. Busy' => worker'.id \notin Queued'
      BY <1>0, <1>q, <2>1, <2>3, <2>4, <2>8 DEF SlotsAccounted
    <2>11. QED
      BY <2>4, <2>5, <2>6, <2>7, <2>8, <2>9, <2>10 DEF SlotsAccounted, Distinct
  <1>3. ASSUME UNCHANGED <<queue, pending, events, worker>>,
               admitting'.id \notin pending, Cardinality(pending) < Capacity
        PROVE  SlotsAccounted' /\ IsFiniteSet(pending')
    BY <1>0, <1>3 DEF SlotsAccounted, Queued, Busy
  <1>4. ASSUME NEW i \in Ids, NEW a \in Analyses, NEW k \in Keys, NEW r \in Requests,
               Submit(i, a, k, r)
        PROVE  SlotsAccounted' /\ IsFiniteSet(pending')
    <2>1. investigations[i].state = "free"
      BY <1>4 DEF Submit, CreateInvestigation
    <2>2. i \notin pending
      BY <2>1 DEF SlotInv
    <2>3. QED BY <1>3, <1>4, <2>2 DEF Submit
  <1>5. ASSUME NEW i \in Ids, NEW k \in Keys, NEW r \in Requests, FollowUp(i, k, r)
        PROVE  SlotsAccounted' /\ IsFiniteSet(pending')
    BY <1>3, <1>5 DEF FollowUp
  <1>6. CASE \/ \E i \in Ids : Cancel(i)
             \/ \E a \in Analyses :
                  Delete(a) \/ \E p \in Payloads : SaveAnalysis(a, p)
             \/ Maintain \/ CloseFlag \/ CloseSignal \/ TimePasses \/ UNCHANGED vars
    <2>1. UNCHANGED <<queue, pending, events, admitting, worker>>
      BY <1>6 DEF Cancel, Delete, SaveAnalysis, Maintain, CloseFlag,
           CloseSignal, TimePasses, vars, serviceVars
    <2>2. QED BY <1>1, <2>1 DEF Busy
  <1>7. CASE \/ Claim \/ LoadSnapshot \/ Decide \/ RunnerReturns \/ Recheck
             \/ Finish \/ Fail \/ StoreFails
    <2>1. /\ Busy /\ Busy' /\ worker'.id = worker.id
          /\ UNCHANGED <<queue, pending, events, admitting>>
      BY <1>0, <1>7, WorkerStays
    <2>2. QED BY <1>1, <2>1
  <1>8. CASE Leave
    <2>1. ~Busy /\ ~Busy' /\ UNCHANGED <<queue, pending, events, admitting>>
      BY <1>0, <1>8, SlotValues DEF Leave, At, Goto, Busy, WorkerState
    <2>2. QED BY <1>1, <2>1
  <1>9. CASE Take
    <2>1. /\ ~Busy /\ queue # <<>> /\ queue' = Tail(queue)
          /\ worker'.id = Head(queue) /\ Busy'
          /\ UNCHANGED <<pending, events, admitting>>
      BY <1>9 DEF Take, At, Busy, Idle
    <2>2. /\ Head(queue) \in Elements(queue)
          /\ Elements(queue') = Elements(queue) \ {Head(queue)}
          /\ Distinct(queue')
      BY <1>v, <1>q, <2>1, TakenQueue
    <2>3. pending' = Queued' \cup (IF Busy' THEN {worker'.id} ELSE {})
      BY <1>0, <1>q, <2>1, <2>2 DEF SlotsAccounted
    <2>4. Busy' => worker'.id \notin Queued'
      BY <1>q, <2>1, <2>2
    <2>5. QED
      BY <1>0, <2>1, <2>2, <2>3, <2>4 DEF SlotsAccounted, Distinct, LockFree
  <1>10. CASE Cleanup
    <2>1. /\ Busy /\ pending' = pending \ {worker.id}
          /\ events' = [events EXCEPT ![worker.id] = 0]
          /\ worker' = Idle /\ UNCHANGED <<queue, admitting>> /\ LockFree
      BY <1>10 DEF Cleanup, At, Busy
    <2>2. ~Busy' /\ LockFree'
      BY <1>v, <2>1 DEF Busy, LockFree
    <2>3. /\ IsFiniteSet(pending')
          /\ Cardinality(pending') <= Cardinality(pending)
      <3>1. pending' \in SUBSET pending
        BY <2>1
      <3>2. QED BY <1>0, <3>1, FS_Subset
    <2>4. Cardinality(pending') <= Capacity
      <3>1. Cardinality(pending') \in Nat
        BY <2>3, FS_CardinalityType
      <3>2. QED BY <1>0, <2>3, <3>1 DEF SlotsAccounted
    <2>5. pending' = Queued'
      BY <1>0, <2>1 DEF SlotsAccounted, Queued
    <2>6. \A j \in Ids : events'[j] # 0 <=> j \in pending'
      BY <1>0, <1>v, <2>1 DEF SlotsAccounted
    <2>7. /\ \A m, n \in DOMAIN queue' : queue'[m] = queue'[n] => m = n
          /\ admitting'.id \notin pending'
      BY <1>0, <2>1 DEF SlotsAccounted
    <2>8. QED
      BY <2>2, <2>3, <2>4, <2>5, <2>6, <2>7 DEF SlotsAccounted
  <1>11. CASE Terminate
    <2>1. /\ queue' = <<>> /\ pending' = {} /\ admitting' = NoJob
          /\ events' = [i \in Ids |-> 0] /\ worker'.pc = "exited"
      BY <1>11 DEF Terminate, Idle
    <2>2. IsFiniteSet(pending') /\ Cardinality(pending') = 0
      BY <2>1, FS_EmptySet
    <2>3. Queued' = {} /\ ~Busy' /\ LockFree'
      BY <2>1 DEF Queued, Busy, LockFree
    <2>4. \A m, n \in DOMAIN queue' : queue'[m] = queue'[n] => m = n
      BY <2>1
    <2>5. QED
      BY <1>0, <2>1, <2>2, <2>3, <2>4 DEF SlotsAccounted
  <1>12. CASE Start
    <2>1. pending = {}
      BY <1>12 DEF Start, SlotInv
    <2>2. ~Busy /\ worker' = Idle /\ UNCHANGED <<queue, pending, events, admitting>>
      BY <1>0, <1>12, <2>1, NothingPending DEF Start
    <2>3. ~Busy'
      BY <1>v, <2>2 DEF Busy
    <2>4. QED BY <1>1, <2>2, <2>3
  <1>13. QED
    BY <1>2, <1>4, <1>5, <1>6, <1>7, <1>8, <1>9, <1>10, <1>11, <1>12
       DEF ServiceNext, Handlers, WorkerStep, Process

\* An identifier that was ever used is never taken for a new one.
LEMMA UsedStaysUsed ==
  ASSUME ServiceInv, [ServiceNext]_vars, NEW i \in Ids,
         investigations[i].state # "free"
  PROVE  investigations'[i].state # "free"
  <1>1. ASSUME NEW a \in Analyses, NEW k \in Keys, NEW r \in Requests,
               Submit(i, a, k, r)
        PROVE  FALSE
    BY <1>1 DEF Submit, CreateInvestigation
  <1>2. ASSUME NEW k \in Keys, NEW r \in Requests, FollowUp(i, k, r)
        PROVE  investigations'[i].state = "queued"
    BY <1>2, ContinuedKept DEF FollowUp, ServiceInv
  <1>3. QED BY <1>1, <1>2, StepKept DEF Kept

\* What the steps do to the slots, seen from the process.
LEMMA SlotFrame ==
  ASSUME SlotInv, [ServiceNext]_vars
  PROVE  /\ Enqueue \/ pending' \subseteq pending
         /\ \/ UNCHANGED admitting
            \/ LockFree'
            \/ \E i \in Ids, k \in Keys, r \in Requests :
                 (\E a \in Analyses : Submit(i, a, k, r)) \/ FollowUp(i, k, r)
         /\ proc' = "down" => Terminate \/ UNCHANGED serviceVars
         /\ proc' = "joining" =>
              \/ CloseSignal
              \/ /\ proc = "joining" /\ pending' \subseteq pending
                 /\ UNCHANGED admitting /\ signalled \subseteq signalled'
                 /\ \A i \in pending' : events'[i] = events[i]
  <1>1. CASE Enqueue
    BY <1>1 DEF Enqueue, SlotInv, LockFree, NoJob
  <1>2. ASSUME NEW i \in Ids, NEW k \in Keys, NEW r \in Requests,
               (\E a \in Analyses : Submit(i, a, k, r)) \/ FollowUp(i, k, r)
        PROVE  UNCHANGED pending /\ proc' = "up"
    BY <1>2 DEF Submit, FollowUp
  <1>3. CASE \/ \E i \in Ids : Cancel(i)
             \/ \E a \in Analyses :
                  Delete(a) \/ \E p \in Payloads : SaveAnalysis(a, p)
             \/ Maintain \/ TimePasses \/ UNCHANGED vars
    BY <1>3 DEF Cancel, Delete, SaveAnalysis, Maintain, TimePasses, vars,
         serviceVars, Serving
  <1>4. CASE \/ Claim \/ LoadSnapshot \/ Decide \/ RunnerReturns \/ Recheck
             \/ Finish \/ Fail \/ StoreFails
    BY <1>4, WorkerStays DEF Serving, SlotInv
  <1>5. CASE Take \/ Leave
    BY <1>5 DEF Take, Leave, Serving
  <1>6. CASE Cleanup
    <2>1. /\ Serving /\ pending' = pending \ {worker.id}
          /\ events' = [events EXCEPT ![worker.id] = 0]
          /\ UNCHANGED <<admitting, signalled, proc>>
      BY <1>6 DEF Cleanup
    <2>2. pending \subseteq Ids /\ events \in [Ids -> 0..MaxTurns]
      BY SlotValues DEF SlotInv
    <2>3. \A i \in pending' : events'[i] = events[i]
      BY <2>1, <2>2
    <2>4. QED BY <2>1, <2>3 DEF Serving
  <1>7. CASE Terminate
    BY <1>7 DEF Terminate, LockFree
  <1>8. CASE CloseFlag \/ CloseSignal \/ Start
    BY <1>8 DEF CloseFlag, CloseSignal, Start
  <1>9. QED
    BY <1>1, <1>2, <1>3, <1>4, <1>5, <1>6, <1>7, <1>8
       DEF ServiceNext, Handlers, WorkerStep, Process

\* Nothing is queued, pending or in hand when the service starts.
LEMMA SlotInvInit == ServiceInit => SlotInv
  <1> SUFFICES ASSUME ServiceInit PROVE SlotInv
    OBVIOUS
  <1>1. ServiceInv
    BY ServiceInvInit
  <1>2. /\ pending = {} /\ queue = <<>> /\ LockFree /\ proc = "down"
        /\ admitting.id \notin pending /\ events = [i \in Ids |-> 0]
        /\ worker.pc = "exited"
    BY DEF ServiceInit, LockFree, Idle
  <1>3. IsFiniteSet(pending) /\ Cardinality(pending) = 0
    BY <1>2, FS_EmptySet
  <1>4. Queued = {} /\ ~Busy
    BY <1>2 DEF Queued, Busy
  <1>5. \A m, n \in DOMAIN queue : queue[m] = queue[n] => m = n
    BY <1>2
  <1>6. SlotsAccounted
    BY <1>2, <1>3, <1>4, <1>5, ServiceAssumption DEF SlotsAccounted
  <1>7. QED BY <1>1, <1>2, <1>3, <1>6 DEF SlotInv

\* Every step moves a job between the queue, the worker and the lock's holder
\* without losing or doubling it.
LEMMA SlotInvStep ==
  ASSUME SlotInv, [ServiceNext]_vars
  PROVE  SlotInv'
  <1>1. ServiceInv' /\ ServiceInv
    BY ServiceInvStep DEF SlotInv
  <1>2. SlotsAccounted' /\ IsFiniteSet(pending')
    BY SlotsStep
  <1>3. \A i \in Ids : investigations[i].state # "free" => investigations'[i].state # "free"
    BY <1>1, UsedStaysUsed
  <1>4. proc' = "down" => pending' = {} /\ LockFree'
    <2>1. Terminate => pending' = {} /\ LockFree'
      BY DEF Terminate, LockFree
    <2>2. QED
      BY <2>1, SlotFrame DEF SlotInv, serviceVars, LockFree
  <1>5. proc' = "joining" => LockFree' /\ ClosingStopsAll'
    <2>1. CASE CloseSignal
      <3>1. /\ LockFree /\ UNCHANGED <<admitting, pending, events>>
            /\ signalled' = signalled \cup
                 {<<i, events[i]>> : i \in {j \in Ids : events[j] # 0}}
        BY <2>1 DEF CloseSignal
      <3>2. \A i \in pending : i \in Ids /\ events[i] # 0
        BY <1>1, SlotValues DEF SlotInv, SlotsAccounted
      <3>3. QED BY <3>1, <3>2 DEF LockFree, ClosingStopsAll
    <2>2. CASE ~CloseSignal
      BY <2>2, SlotFrame DEF SlotInv, LockFree, ClosingStopsAll
    <2>3. QED BY <2>1, <2>2
  <1>6. \A i \in pending' : investigations'[i].state # "free"
    <2>1. Enqueue => /\ pending' = pending \cup {admitting.id}
                     /\ ~LockFree /\ admitting.id \in Ids
      BY <1>1, SlotValues DEF Enqueue
    <2>2. pending \subseteq Ids
      BY <1>1, SlotValues
    <2>3. QED BY <1>3, <2>1, <2>2, SlotFrame DEF SlotInv
  <1>7. ~LockFree' => investigations'[admitting'.id].state # "free"
    <2>1. ASSUME NEW i \in Ids, NEW k \in Keys, NEW r \in Requests,
                 (\E a \in Analyses : Submit(i, a, k, r)) \/ FollowUp(i, k, r)
          PROVE  admitting'.id = i /\ investigations'[i].state # "free"
      <3>1. ASSUME NEW a \in Analyses, Submit(i, a, k, r)
            PROVE  investigations'[i].state = "queued"
        <4>1. StoreInv /\ CreateInvestigation(i, a, k, r)
          BY <1>1, <3>1 DEF Submit, ServiceInv
        <4>2. investigations'[i] = QueuedRow(a, k, r)
          BY <4>1, CreatedKept
        <4>3. QED BY <4>2 DEF QueuedRow, NoRow
      <3>2. ASSUME FollowUp(i, k, r) PROVE investigations'[i].state = "queued"
        BY <1>1, <3>2, ContinuedKept DEF FollowUp, ServiceInv
      <3>3. admitting'.id = i
        BY <2>1 DEF Submit, FollowUp
      <3>4. QED BY <2>1, <3>1, <3>2, <3>3
    <2>2. ASSUME UNCHANGED admitting, ~LockFree'
          PROVE  investigations'[admitting'.id].state # "free"
      <3>1. ~LockFree /\ admitting.id \in Ids
        BY <1>1, <2>2, SlotValues DEF LockFree
      <3>2. QED BY <1>3, <2>2, <3>1 DEF SlotInv
    <2>3. QED BY <2>1, <2>2, SlotFrame
  <1>8. QED BY <1>1, <1>2, <1>4, <1>5, <1>6, <1>7 DEF SlotInv

\* An idempotency key stays unique, whichever retries race.
LEMMA KeysStep ==
  ASSUME ServiceInv, OneJobPerKey, [ServiceNext]_vars
  PROVE  OneJobPerKey'
  <1> DEFINE Same(i, j) ==
               /\ investigations[i].analysis = investigations[j].analysis
               /\ investigations[i].key = investigations[j].key
             Same1(i, j) ==
               /\ investigations'[i].analysis = investigations'[j].analysis
               /\ investigations'[i].key = investigations'[j].key
             Apart(ts) == \A m, n \in DOMAIN ts : ts[m].key = ts[n].key => m = n
  <1>0. StoreInv /\ StoreInv'
    BY ServiceInvStep DEF ServiceInv
  <1>1. /\ \A i, j \in Ids : Exists(i) /\ Exists(j) /\ Same(i, j) => i = j
        /\ \A i \in Ids : Exists(i) => Apart(turns[i])
    BY DEF OneJobPerKey
  <1>d. \A i \in Ids : /\ DOMAIN turns[i] = 1..Len(turns[i])
                       /\ DOMAIN turns'[i] = 1..Len(turns'[i])
                       /\ turns[i] \in Seq(Turn)
    BY <1>0 DEF StoreInv, TypeOK
  <1>2. ASSUME NEW i \in Ids, Kept(i), Exists(i)'
        PROVE  /\ Exists(i) /\ Apart(turns'[i])
               /\ investigations'[i].analysis = investigations[i].analysis
               /\ investigations'[i].key = investigations[i].key
    <2>1. investigations'[i].state \in STORED
      BY <1>2, StoredMeans
    <2>2. QED BY <1>1, <1>2, <1>d, <2>1 DEF Kept
  <1>3. CASE \A i \in Ids : Kept(i)
    BY <1>1, <1>2, <1>3 DEF OneJobPerKey
  <1>4. ASSUME NEW i \in Ids, NEW a \in Analyses, NEW k \in Keys, NEW r \in Requests,
               Submit(i, a, k, r)
        PROVE  OneJobPerKey'
    <2>1. CreateInvestigation(i, a, k, r)
      BY <1>4 DEF Submit
    <2>a. QueuedRow(a, k, r).analysis = a /\ QueuedRow(a, k, r).key = k
      BY DEF QueuedRow, NoRow
    <2>2. /\ investigations'[i].analysis = a /\ investigations'[i].key = k
          /\ turns'[i] = <<QueuedTurn(k, r)>>
          /\ \A j \in Ids \ {i} :
               Kept(j) /\ (Exists(j)' => ~(/\ investigations[j].analysis = a
                                           /\ investigations[j].key = k))
      BY <1>0, <2>1, <2>a, CreatedKept
    <2>3. \A j \in Ids \ {i} : Exists(j)' => ~Same1(i, j)
      BY <1>2, <2>2
    <2>4. Apart(turns'[i])
      BY <2>2
    <2>5. \A j, l \in Ids \ {i} : Exists(j)' /\ Exists(l)' /\ Same1(j, l) => j = l
      BY <1>1, <1>2, <2>2
    <2>6. \A j, l \in Ids : Exists(j)' /\ Exists(l)' /\ Same1(j, l) => j = l
      BY <2>3, <2>5
    <2>7. \A j \in Ids : Exists(j)' => Apart(turns'[j])
      BY <1>2, <2>2, <2>4
    <2>8. QED BY <2>6, <2>7 DEF OneJobPerKey
  <1>5. ASSUME NEW i \in Ids, NEW k \in Keys, NEW r \in Requests, FollowUp(i, k, r)
        PROVE  OneJobPerKey'
    <2>1. AddTurn(i, k, r)
      BY <1>5 DEF FollowUp
    <2>2. /\ Exists(i)
          /\ investigations'[i].analysis = investigations[i].analysis
          /\ investigations'[i].key = investigations[i].key
          /\ turns'[i] = Append(turns[i], QueuedTurn(k, r))
          /\ \A n \in DOMAIN turns[i] : turns[i][n].key # k
          /\ \A j \in Ids \ {i} : Kept(j)
      BY <1>0, <2>1, ContinuedKept
    <2>3. QueuedTurn(k, r) \in Turn /\ QueuedTurn(k, r).key = k
      BY RowTypes DEF QueuedTurn
    <2>4. Apart(turns'[i])
      <3> DEFINE t == QueuedTurn(k, r)
      <3> HIDE DEF t
      <3>1. t \in Turn /\ t.key = k /\ turns'[i] = Append(turns[i], t)
        BY <2>2, <2>3 DEF t
      <3>2. /\ Len(turns'[i]) = Len(turns[i]) + 1 /\ Len(turns[i]) \in Nat
            /\ \A n \in DOMAIN turns[i] : turns'[i][n] = turns[i][n]
            /\ turns'[i][Len(turns[i]) + 1] = t
        BY <1>d, <3>1
      <3>3. \A n \in DOMAIN turns'[i] : n \in DOMAIN turns[i] \/ n = Len(turns[i]) + 1
        BY <1>d, <3>2
      <3>4. Apart(turns[i])
        BY <1>1, <2>2
      <3>5. QED BY <2>2, <3>1, <3>2, <3>3, <3>4
    <2>5. \A j \in Ids : Exists(j)' =>
            /\ Exists(j) /\ Apart(turns'[j])
            /\ investigations'[j].analysis = investigations[j].analysis
            /\ investigations'[j].key = investigations[j].key
      BY <1>2, <2>2, <2>4
    <2>6. QED BY <1>1, <2>5 DEF OneJobPerKey
  <1>6. QED BY <1>3, <1>4, <1>5, StepKept

-----------------------------------------------------------------------------
(* Jobs *)

\* With WorkerOnLastTurn, CancellingIsSignalled and NoJobForgotten: a slot's
\* event is that of the last turn, the worker has begun the job in its hands,
\* and a job it gives up has ended or cannot be seen any more.
JobInv ==
    /\ SlotInv
    /\ \A i \in pending : Exists(i) => events[i] = Last(i)
    /\ ~LockFree /\ Exists(admitting.id) => admitting.turn = Last(admitting.id)
    /\ WorkerOnLastTurn
    /\ InHand /\ Exists(worker.id) => investigations[worker.id].state # "queued"
    /\ CancellingIsSignalled
    /\ NoJobForgotten
    /\ faults = 0 /\ At("cleanup") => ~(Visible(worker.id) /\ Active(worker.id))

\* Who has a slot, or is about to have one, is kept by every step.
LEMMA PendingKept ==
  ASSUME SlotInv, [ServiceNext]_vars
  PROVE  /\ \A i \in pending : Kept(i)
         /\ ~LockFree => Kept(admitting.id)
  <1>1. /\ ServiceInv /\ pending \subseteq Ids
        /\ ~LockFree => admitting.id \in Ids
    BY SlotValues DEF SlotInv
  <1>2. ASSUME NEW i \in Ids, ~Kept(i)
        PROVE  LockFree /\ i \notin pending
    <2>1. ASSUME NEW a \in Analyses, NEW k \in Keys, NEW r \in Requests,
                 Submit(i, a, k, r)
          PROVE  LockFree /\ investigations[i].state = "free"
      BY <2>1 DEF Submit, CreateInvestigation
    <2>2. ASSUME NEW k \in Keys, NEW r \in Requests, FollowUp(i, k, r)
          PROVE  LockFree /\ i \notin pending
      BY <2>2 DEF FollowUp
    <2>3. QED BY <1>1, <1>2, <2>1, <2>2, StepKept DEF SlotInv
  <1>3. QED BY <1>1, <1>2

\* What the steps do to the job in the worker's hands.
LEMMA HandFrame ==
  ASSUME ServiceInv, [ServiceNext]_vars
  PROVE  /\ InHand' =>
              \/ Claim /\ Visible(worker.id)
              \/ /\ InHand /\ worker'.id = worker.id /\ worker'.turn = worker.turn
                 /\ worker'.request = worker.request
                 /\ worker'.analysis = worker.analysis
         /\ worker'.pc = "cleanup" =>
              \/ UNCHANGED worker
              \/ /\ worker'.id = worker.id
                 /\ \/ Claim /\ ~Visible(worker.id) /\ UNCHANGED allStoreVars
                    \/ LoadSnapshot /\ ~Unexpired(worker.analysis)
                    \/ Finish /\ FinishJob(worker.id, worker.outcome)
                    \/ Fail \/ StoreFails
  <1>0. worker \in WorkerState
    BY SlotValues
  <1>g. ASSUME NEW pc, Goto(pc)
        PROVE  /\ worker'.pc = pc /\ worker'.id = worker.id
               /\ worker'.turn = worker.turn /\ worker'.request = worker.request
               /\ worker'.analysis = worker.analysis
    BY <1>0, <1>g DEF Goto, WorkerState
  <1>o. ASSUME NEW pc, NEW o, worker' = [worker EXCEPT !.pc = pc, !.outcome = o]
        PROVE  /\ worker'.pc = pc /\ worker'.id = worker.id
               /\ worker'.turn = worker.turn /\ worker'.request = worker.request
               /\ worker'.analysis = worker.analysis
    BY <1>0, <1>o DEF WorkerState
  <1>1. CASE UNCHANGED worker
    BY <1>1 DEF InHand
  <1>2. CASE \/ Handlers \/ Maintain \/ CloseFlag \/ CloseSignal \/ TimePasses
             \/ UNCHANGED vars
    <2>1. UNCHANGED worker
      BY <1>2 DEF Handlers, Enqueue, Submit, FollowUp, Cancel, Delete, SaveAnalysis,
           Maintain, CloseFlag, CloseSignal, TimePasses, vars, serviceVars
    <2>2. QED BY <1>1, <2>1
  <1>3. CASE Take \/ Cleanup \/ Terminate \/ Start
    <2>1. Take => worker'.pc = "taken"
      BY DEF Take, Idle
    <2>2. Terminate => worker'.pc = "exited"
      BY DEF Terminate, Idle
    <2>3. Cleanup \/ Start => worker'.pc = "idle"
      BY DEF Cleanup, Start, Idle
    <2>4. QED BY <1>3, <2>1, <2>2, <2>3 DEF InHand
  <1>4. CASE Leave
    BY <1>g, <1>4 DEF Leave, InHand
  <1>5. CASE Claim
    <2>1. CASE Visible(worker.id)
      <3>1. worker'.pc = "claimed"
        BY <1>0, <1>5, <2>1 DEF Claim, WorkerState
      <3>2. QED BY <1>5, <2>1, <3>1 DEF InHand
    <2>2. CASE ~Visible(worker.id)
      <3>1. /\ worker'.pc = "cleanup" /\ worker'.id = worker.id
            /\ UNCHANGED allStoreVars
        BY <1>0, <1>5, <2>2 DEF Claim, WorkerState
      <3>2. QED BY <1>5, <2>2, <3>1 DEF InHand
    <2>3. QED BY <2>1, <2>2
  <1>6. CASE LoadSnapshot
    BY <1>g, <1>6 DEF LoadSnapshot, At, InHand
  <1>7. CASE Decide
    <2>1. \/ Goto("calling")
          \/ \E o : worker' = [worker EXCEPT !.pc = "answered", !.outcome = o]
      BY <1>7 DEF Decide
    <2>2. worker.pc = "loaded"
      BY <1>7 DEF Decide, At
    <2>3. /\ worker'.pc # "cleanup" /\ worker'.id = worker.id
          /\ worker'.turn = worker.turn /\ worker'.request = worker.request
          /\ worker'.analysis = worker.analysis
      <3>1. CASE Goto("calling")
        BY <1>g, <3>1
      <3>2. CASE ~Goto("calling")
        BY <1>0, <2>1, <3>2 DEF WorkerState
      <3>3. QED BY <3>1, <3>2
    <2>4. QED BY <2>2, <2>3 DEF InHand
  <1>8. CASE RunnerReturns
    <2>1. \/ Goto("failing")
          \/ \E o : worker' = [worker EXCEPT !.pc = "answered", !.outcome = o]
      BY <1>8 DEF RunnerReturns
    <2>2. worker.pc = "calling"
      BY <1>8 DEF RunnerReturns, At
    <2>3. /\ worker'.pc # "cleanup" /\ worker'.id = worker.id
          /\ worker'.turn = worker.turn /\ worker'.request = worker.request
          /\ worker'.analysis = worker.analysis
      <3>1. CASE Goto("failing")
        BY <1>g, <3>1
      <3>2. CASE ~Goto("failing")
        BY <1>0, <2>1, <3>2 DEF WorkerState
      <3>3. QED BY <3>1, <3>2
    <2>4. QED BY <2>2, <2>3 DEF InHand
  <1>9. CASE Recheck
    <2>1. \E o : worker' = [worker EXCEPT !.pc = "finishing", !.outcome = o]
      BY <1>9 DEF Recheck
    <2>2. worker.pc = "answered"
      BY <1>9 DEF Recheck, At
    <2>3. QED BY <1>o, <2>1, <2>2 DEF InHand
  <1>10. CASE Finish
    BY <1>g, <1>10 DEF Finish, InHand
  <1>11. CASE Fail
    BY <1>g, <1>11 DEF Fail, InHand
  <1>12. CASE StoreFails
    <2>1. \E pc \in {"cleanup", "failing"} : Goto(pc)
      BY <1>12 DEF StoreFails
    <2>2. QED BY <1>g, <1>12, <2>1 DEF InHand
  <1>13. QED
    BY <1>2, <1>3, <1>4, <1>5, <1>6, <1>7, <1>8, <1>9, <1>10, <1>11, <1>12
       DEF ServiceNext, WorkerStep, Process

\* Where slots, events, faults and the process go.
LEMMA JobFrame ==
  ASSUME SlotInv, [ServiceNext]_vars
  PROVE  /\ \A i \in pending' :
              \/ i \in pending /\ events'[i] = events[i]
              \/ Enqueue /\ i = admitting.id /\ events'[i] = admitting.turn
         /\ \A i \in pending : i \in pending' \/ Terminate \/ (Cleanup /\ i = worker.id)
         /\ \/ UNCHANGED admitting
            \/ Terminate
            \/ Enqueue /\ admitting.id \in pending'
            \/ LockFree /\ ~LockFree'
         /\ faults \in Nat /\ (faults' = 0 => faults = 0 /\ ~StoreFails)
         /\ \/ Start \/ Terminate
            \/ (Serving' => Serving) /\ signalled \subseteq signalled'
  <1>0. /\ pending \subseteq Ids /\ events \in [Ids -> 0..MaxTurns]
        /\ ~LockFree => admitting.id \in Ids
        /\ faults \in Nat /\ NONE \notin Ids
    BY SlotValues, ServiceAssumption DEF SlotInv, ServiceInv, ServiceTypeOK
  <1>1. CASE Enqueue
    <2>1. /\ admitting.id \in Ids /\ pending' = pending \cup {admitting.id}
          /\ events' = [events EXCEPT ![admitting.id] = admitting.turn]
          /\ UNCHANGED <<faults, proc, signalled, worker>>
      BY <1>0, <1>1 DEF Enqueue
    <2>2. \A i \in pending' :
              \/ i \in pending /\ events'[i] = events[i]
              \/ i = admitting.id /\ events'[i] = admitting.turn
      BY <1>0, <2>1
    <2>3. ~StoreFails
      BY <1>0, <2>1 DEF StoreFails
    <2>4. QED BY <1>0, <1>1, <2>1, <2>2, <2>3 DEF Serving
  <1>2. ASSUME NEW i \in Ids, NEW k \in Keys, NEW r \in Requests,
               (\E a \in Analyses : Submit(i, a, k, r)) \/ FollowUp(i, k, r)
        PROVE  /\ UNCHANGED <<pending, events, faults, proc, signalled>>
               /\ LockFree /\ ~LockFree'
    <2>1. /\ UNCHANGED <<pending, events, faults, proc, signalled>>
          /\ LockFree /\ admitting'.id = i
      BY <1>2 DEF Submit, FollowUp
    <2>2. QED BY <1>0, <2>1 DEF LockFree, NoJob
  <1>3. CASE Cleanup
    <2>1. /\ Serving /\ pending' = pending \ {worker.id}
          /\ events' = [events EXCEPT ![worker.id] = 0]
          /\ UNCHANGED <<admitting, signalled, proc, faults>>
      BY <1>3 DEF Cleanup
    <2>2. \A i \in pending' : i \in pending /\ events'[i] = events[i]
      BY <1>0, <2>1
    <2>3. ~StoreFails
      BY <1>0, <2>1 DEF StoreFails
    <2>4. QED BY <1>0, <1>3, <2>1, <2>2, <2>3
  <1>4. CASE StoreFails
    BY <1>0, <1>4 DEF StoreFails, Serving
  <1>5. CASE Terminate
    BY <1>0, <1>5 DEF Terminate, StoreFails
  <1>6. ASSUME UNCHANGED <<pending, events, admitting, faults>>,
               Start \/ ((Serving' => Serving) /\ signalled \subseteq signalled')
        PROVE  /\ \A i \in pending' : i \in pending /\ events'[i] = events[i]
               /\ \A i \in pending : i \in pending'
               /\ faults \in Nat /\ (faults' = 0 => faults = 0 /\ ~StoreFails)
    BY <1>0, <1>6 DEF StoreFails
  <1>7. CASE \/ \E i \in Ids : Cancel(i)
             \/ \E a \in Analyses :
                  Delete(a) \/ \E p \in Payloads : SaveAnalysis(a, p)
             \/ Maintain \/ TimePasses \/ UNCHANGED vars
             \/ Take \/ Leave \/ Claim \/ LoadSnapshot \/ Decide \/ RunnerReturns
             \/ Recheck \/ Finish \/ Fail \/ CloseFlag \/ CloseSignal \/ Start
    <2>1. UNCHANGED <<pending, events, admitting, faults>>
      BY <1>7 DEF Cancel, Delete, SaveAnalysis, Maintain, TimePasses, vars,
           serviceVars, Take, Leave, Claim, LoadSnapshot, Decide, RunnerReturns,
           Recheck, Finish, Fail, CloseFlag, CloseSignal, Start
    <2>2. Start \/ ((Serving' => Serving) /\ signalled \subseteq signalled')
      BY <1>7 DEF Cancel, Delete, SaveAnalysis, Maintain, TimePasses, vars,
           serviceVars, Take, Leave, Claim, LoadSnapshot, Decide, RunnerReturns,
           Recheck, Finish, Fail, CloseFlag, CloseSignal, Serving
    <2>3. QED BY <1>6, <2>1, <2>2
  <1>8. CASE \E i \in Ids, k \in Keys, r \in Requests :
               (\E a \in Analyses : Submit(i, a, k, r)) \/ FollowUp(i, k, r)
    BY <1>0, <1>2, <1>8 DEF StoreFails, Serving
  <1>9. QED
    BY <1>1, <1>3, <1>4, <1>5, <1>7, <1>8
       DEF ServiceNext, Handlers, WorkerStep, Process

\* The event of a slot is that of the last turn.
LEMMA EventsStep ==
  ASSUME JobInv, [ServiceNext]_vars
  PROVE  /\ \A i \in pending' : Exists(i)' => events'[i] = Last(i)'
         /\ \A i \in Ids : ~LockFree' /\ admitting'.id = i /\ Exists(i)'
                             => admitting'.turn = Last(i)'
  <1>0. /\ SlotInv /\ ServiceInv /\ StoreInv
        /\ pending \subseteq Ids /\ pending' \subseteq Ids
    <2>1. SlotInv /\ ServiceInv /\ StoreInv
      BY DEF JobInv, SlotInv, ServiceInv
    <2>2. ServiceInv'
      BY <2>1, SlotInvStep DEF SlotInv
    <2>3. QED BY <2>1, <2>2 DEF ServiceInv, ServiceTypeOK
  <1>1. ASSUME NEW i \in Ids, i \in pending', Exists(i)'
        PROVE  events'[i] = Last(i)'
    <2>1. CASE i \in pending /\ events'[i] = events[i]
      <3>1. Kept(i)
        BY <1>0, <2>1, PendingKept
      <3>2. Exists(i) /\ Last(i)' = Last(i)
        BY <1>1, <3>1, KeptMeans
      <3>3. QED BY <2>1, <3>2 DEF JobInv
    <2>2. CASE Enqueue /\ i = admitting.id /\ events'[i] = admitting.turn
      <3>1. ~LockFree /\ UNCHANGED <<investigations, turns>>
        BY <2>2 DEF Enqueue, allStoreVars, storeVars
      <3>2. Exists(i) /\ Last(i)' = Last(i)
        BY <1>1, <3>1 DEF Exists, Last
      <3>3. Exists(admitting.id) /\ Last(admitting.id) = Last(i)
        BY <2>2, <3>2
      <3>4. QED BY <2>2, <3>1, <3>2, <3>3 DEF JobInv
    <2>3. QED BY <1>0, <1>1, <2>1, <2>2, JobFrame
  <1>2. ASSUME NEW i \in Ids, ~LockFree', admitting'.id = i, Exists(i)'
        PROVE  admitting'.turn = Last(i)'
    <2>1. CASE UNCHANGED admitting
      <3>1. ~LockFree /\ admitting.id = i
        BY <1>2, <2>1 DEF LockFree
      <3>2. Kept(i)
        BY <1>0, <3>1, PendingKept
      <3>3. Exists(i) /\ Last(i)' = Last(i)
        BY <1>2, <3>2, KeptMeans
      <3>4. Exists(admitting.id) /\ Last(admitting.id) = Last(i)
        BY <3>1, <3>3
      <3>5. QED BY <2>1, <3>1, <3>3, <3>4 DEF JobInv
    <2>2. ASSUME NEW j \in Ids, NEW a \in Analyses, NEW k \in Keys, NEW r \in Requests,
                 Submit(j, a, k, r)
          PROVE  admitting'.turn = Last(i)'
      <3>1. turns'[j] = <<QueuedTurn(k, r)>>
        BY <1>0, <2>2, CreatedKept DEF Submit
      <3>2. admitting' = [id |-> j, turn |-> 1]
        BY <2>2 DEF Submit
      <3>3. QED BY <1>2, <3>1, <3>2 DEF Last
    <2>3. ASSUME NEW j \in Ids, NEW k \in Keys, NEW r \in Requests, FollowUp(j, k, r)
          PROVE  admitting'.turn = Last(i)'
      <3>1. turns'[j] = Append(turns[j], QueuedTurn(k, r)) /\ turns[j] \in Seq(Turn)
        BY <1>0, <2>3, ContinuedKept, RowFacts DEF FollowUp
      <3>2. admitting' = [id |-> j, turn |-> Last(j) + 1]
        BY <2>3 DEF FollowUp
      <3>3. QED BY <1>2, <3>1, <3>2, RowTypes DEF Last
    <2>4. QED BY <1>0, <1>2, <2>1, <2>2, <2>3, SlotFrame
  <1>3. QED BY <1>0, <1>1, <1>2

\* The worker keeps up with the job in its hands.
LEMMA HandStep ==
  ASSUME JobInv, [ServiceNext]_vars, NEW i \in Ids, worker'.id = i, InHand'
  PROVE  /\ events'[i] = worker'.turn
         /\ Exists(i)' => /\ worker'.turn = Last(i)'
                          /\ worker'.request = turns'[i][worker'.turn].request
                          /\ worker'.analysis = investigations'[i].analysis
                          /\ investigations'[i].state # "queued"
  <1>0. SlotInv /\ ServiceInv /\ StoreInv /\ SlotInv'
    BY SlotInvStep DEF JobInv, SlotInv, ServiceInv
  <1>1. i \in pending'
    BY <1>0 DEF InHand, Busy, SlotInv, SlotsAccounted
  <1>2. Exists(i)' => events'[i] = Last(i)'
    BY <1>1, EventsStep
  <1>3. CASE Claim /\ Visible(worker.id)
    <2>1. worker.id = i /\ Visible(i)
      BY <1>0, <1>3, WorkerStays
    <2>2. /\ i \in pending
          /\ worker' = [worker EXCEPT !.pc = "claimed", !.turn = events[i],
                          !.analysis = investigations[i].analysis,
                          !.request = turns[i][Last(i)].request]
          /\ Transition(i, {"queued"}, "running", NoOutcome)
          /\ UNCHANGED events
      <3>1. Busy
        BY <1>3 DEF Claim, At, Busy
      <3>2. QED
        BY <1>0, <1>3, <2>1, <3>1 DEF Claim, ClaimJob, SlotInv, SlotsAccounted
    <2>3. /\ worker'.turn = events[i]
          /\ worker'.analysis = investigations[i].analysis
          /\ worker'.request = turns[i][Last(i)].request
      BY <1>0, <2>2, SlotValues DEF WorkerState
    <2>4. Exists(i) /\ events[i] = Last(i) /\ Kept(i)
      BY <1>0, <2>1, <2>2, PendingKept DEF JobInv, Visible
    <2>5. investigations'[i].state # "queued"
      <3> DEFINE expected == {"queued"}
                 s == "running"
      <3>1. /\ expected \in SUBSET ACTIVE /\ s \in STORED /\ s # "queued"
            /\ Transition(i, expected, s, NoOutcome) /\ NoOutcome \in Outcome
        BY <2>2, AnswersAreOutcomes DEF ACTIVE, STORED
      <3> HIDE DEF expected, s
      <3>2. investigations'[i].state = IF investigations[i].state \in expected
                                       THEN s ELSE investigations[i].state
        BY <1>0, <3>1, MovedKept
      <3>3. QED BY <3>2 DEF expected, s
    <2>6. Last(i) \in DOMAIN turns[i]
      BY <1>0, <2>4, RowFacts, ConstantTypes DEF Last
    <2>7. Exists(i)' => /\ Last(i)' = Last(i)
                        /\ turns'[i][Last(i)].request = turns[i][Last(i)].request
                        /\ investigations'[i].analysis = investigations[i].analysis
      BY <2>4, <2>6, KeptMeans, StoredMeans DEF Kept
    <2>8. QED BY <2>2, <2>3, <2>4, <2>5, <2>7
  <1>4. CASE /\ InHand /\ worker'.id = worker.id /\ worker'.turn = worker.turn
             /\ worker'.request = worker.request
             /\ worker'.analysis = worker.analysis
    <2>1. worker.id = i /\ i \in pending /\ Kept(i)
      <3>1. Busy /\ worker.id = i
        BY <1>4 DEF InHand, Busy
      <3>2. i \in pending
        BY <1>0, <3>1 DEF SlotInv, SlotsAccounted
      <3>3. QED BY <1>0, <3>1, <3>2, PendingKept
    <2>2. events'[i] = events[i]
      BY <1>0, <1>1, <2>1, JobFrame DEF SlotInv, SlotsAccounted
    <2>3. /\ events[i] = worker.turn
          /\ Exists(i) => /\ worker.turn = Last(i)
                          /\ worker.request = turns[i][worker.turn].request
                          /\ worker.analysis = investigations[i].analysis
                          /\ investigations[i].state # "queued"
      BY <1>4, <2>1 DEF JobInv, WorkerOnLastTurn
    <2>4. Exists(i) => Last(i) \in DOMAIN turns[i]
      BY <1>0, RowFacts, ConstantTypes DEF Last
    <2>5. Exists(i)' => /\ Exists(i) /\ Last(i)' = Last(i)
                        /\ turns'[i][Last(i)].request = turns[i][Last(i)].request
                        /\ investigations'[i].analysis = investigations[i].analysis
                        /\ (investigations'[i].state = "queued" =>
                              investigations[i].state = "queued")
      BY <2>1, <2>4, KeptMeans, StoredMeans DEF Kept
    <2>6. QED BY <1>4, <2>2, <2>3, <2>5
  <1>5. QED BY <1>0, <1>3, <1>4, HandFrame

\* A job that turns to cancelling gets its event set in the same step.
LEMMA CancellingStep ==
  ASSUME JobInv, [ServiceNext]_vars, NEW i \in Ids,
         Serving', investigations'[i].state = "cancelling"
  PROVE  <<i, Last(i)'>> \in signalled'
  <1>0. SlotInv /\ ServiceInv /\ StoreInv
    BY DEF JobInv, SlotInv, ServiceInv
  <1>1. "cancelling" \in ACTIVE /\ "queued" # "cancelling"
    BY DEF ACTIVE
  <1>2. Exists(i)' /\ Active(i)'
    BY <1>1, StoredMeans
  <1>3. Kept(i)
    <2>1. ASSUME NEW a \in Analyses, NEW k \in Keys, NEW r \in Requests,
                 Submit(i, a, k, r)
          PROVE  FALSE
      <3>1. investigations'[i] = QueuedRow(a, k, r)
        BY <1>0, <2>1, CreatedKept DEF Submit
      <3>2. QED BY <3>1 DEF QueuedRow, NoRow
    <2>2. ASSUME NEW k \in Keys, NEW r \in Requests, FollowUp(i, k, r)
          PROVE  FALSE
      BY <1>0, <2>2, ContinuedKept DEF FollowUp
    <2>3. QED BY <1>0, <2>1, <2>2, StepKept
  <1>4. Exists(i) /\ Last(i)' = Last(i)
    BY <1>2, <1>3, KeptMeans
  <1>5. CASE Cancel(i)
    <2>1. events[i] # 0 /\ signalled' = signalled \cup {<<i, events[i]>>}
      BY <1>5 DEF Cancel
    <2>2. i \in pending
      BY <1>0, <2>1 DEF SlotInv, SlotsAccounted
    <2>3. events[i] = Last(i)
      BY <1>4, <2>2 DEF JobInv
    <2>4. QED BY <1>4, <2>1, <2>3
  <1>6. CASE NotAsked(i)
    <2>1. investigations[i].state = "cancelling"
      BY <1>6 DEF NotAsked
    <2>2. ~Start
      BY <1>0, <1>2, RecoveredKept DEF Start
    <2>3. ~Terminate
      BY DEF Terminate, Serving
    <2>4. Serving /\ signalled \subseteq signalled'
      BY <1>0, <2>2, <2>3, JobFrame
    <2>5. QED BY <1>4, <2>1, <2>4 DEF JobInv, CancellingIsSignalled
  <1>7. QED BY <1>0, <1>5, <1>6, StepKept

\* A job leaves the service's books only by ending, or after a fault.
LEMMA ForgottenStep ==
  ASSUME JobInv, [ServiceNext]_vars, NEW i \in Ids,
         Serving', faults' = 0, Visible(i)', Active(i)'
  PROVE  i \in pending' \/ admitting'.id = i
  <1>0. SlotInv /\ ServiceInv /\ StoreInv
    BY DEF JobInv, SlotInv, ServiceInv
  <1>1. Exists(i)' /\ NONE \notin Ids
    BY SlotValues, <1>0, StoredMeans
  <1>2. CASE Kept(i)
    <2>1. Visible(i) /\ Active(i)
      BY <1>1, <1>2, KeptMeans
    <2>2. ~Start
      BY <1>0, RecoveredKept DEF Start
    <2>3. ~Terminate
      BY DEF Terminate, Serving
    <2>4. Serving /\ faults = 0
      BY <1>0, <2>2, <2>3, JobFrame
    <2>5. CASE i \in pending
      <3>1. ~(Cleanup /\ i = worker.id)
        <4>1. SUFFICES ASSUME Cleanup, i = worker.id PROVE FALSE
          OBVIOUS
        <4>2. At("cleanup")
          BY <4>1 DEF Cleanup
        <4>3. Visible(worker.id) /\ Active(worker.id)
          BY <2>1, <4>1
        <4>4. QED BY <2>4, <4>2, <4>3 DEF JobInv
      <3>2. QED BY <1>0, <2>3, <2>5, <3>1, JobFrame
    <2>6. CASE admitting.id = i
      <3>1. ~LockFree
        BY <1>0, <1>1, <2>6, SlotValues
      <3>2. QED BY <1>0, <2>3, <2>6, <3>1, JobFrame
    <2>7. QED BY <2>1, <2>4, <2>5, <2>6 DEF JobInv, NoJobForgotten
  <1>3. CASE \/ \E a \in Analyses, k \in Keys, r \in Requests : Submit(i, a, k, r)
             \/ \E k \in Keys, r \in Requests : FollowUp(i, k, r)
    BY <1>3 DEF Submit, FollowUp
  <1>4. QED BY <1>0, <1>2, <1>3, StepKept

\* When the worker is about to clean up, the job is over, or out of sight.
LEMMA CleanupStep ==
  ASSUME JobInv, [ServiceNext]_vars, NEW i \in Ids, worker'.id = i,
         faults' = 0, worker'.pc = "cleanup", Visible(i)', Active(i)'
  PROVE  FALSE
  <1>0. /\ SlotInv /\ ServiceInv /\ StoreInv
        /\ faults = 0 /\ ~StoreFails
    BY JobFrame DEF JobInv, SlotInv, ServiceInv
  <1>1. Exists(i)'
    BY StoredMeans
  <1>2. worker.id = i /\ Busy
    <2>1. CASE UNCHANGED worker
      BY <2>1 DEF Busy
    <2>2. CASE \/ Claim \/ LoadSnapshot \/ Finish \/ Fail
      BY <1>0, <2>2, WorkerStays
    <2>3. QED BY <1>0, <2>1, <2>2, HandFrame
  <1>3. Kept(i)
    BY <1>0, <1>2, PendingKept DEF SlotInv, SlotsAccounted
  <1>4. Exists(i) /\ Visible(i) /\ Active(i)
    BY <1>1, <1>3, KeptMeans
  <1>5. CASE UNCHANGED worker
    <2>1. At("cleanup") /\ Visible(worker.id) /\ Active(worker.id)
      BY <1>2, <1>4, <1>5 DEF At
    <2>2. QED BY <1>0, <2>1 DEF JobInv
  <1>6. CASE Claim /\ ~Visible(worker.id)
    BY <1>2, <1>4, <1>6
  <1>7. CASE LoadSnapshot /\ ~Unexpired(worker.analysis)
    <2>1. InHand
      BY <1>7 DEF LoadSnapshot, At, InHand
    <2>2. worker.analysis = investigations[i].analysis
      BY <1>2, <1>4, <2>1 DEF JobInv, WorkerOnLastTurn
    <2>3. QED BY <1>4, <1>7, <2>2 DEF Visible
  <1>8. CASE Finish /\ FinishJob(worker.id, worker.outcome)
    <2> DEFINE o == worker.outcome
               s == IF o.status = "other" THEN "failed" ELSE o.status
               expected == {"running", "cancelling"}
    <2>1. Transition(i, expected, s, o) /\ expected \in SUBSET ACTIVE
      BY <1>2, <1>8 DEF FinishJob, ACTIVE
    <2>2. o \in JobOutcome
      BY <1>0, <1>8 DEF Finish, At, ServiceInv
    <2>3. o \in Outcome /\ s \in TERMINAL
      BY <2>2, EndingsAreFinal
    <2>4. s \in STORED /\ s # "queued" /\ s \notin ACTIVE
      BY <2>3 DEF STORED, TERMINAL, ACTIVE
    <2>5. investigations[i].state \in expected
      <3>1. InHand
        BY <1>8 DEF Finish, At, InHand
      <3>2. investigations[i].state # "queued"
        BY <1>2, <1>4, <3>1 DEF JobInv
      <3>3. QED BY <1>4, <3>2 DEF Active, ACTIVE
    <2> HIDE DEF o, s, expected
    <2>6. investigations'[i].state = s
      BY <1>0, <2>1, <2>3, <2>4, <2>5, MovedKept
    <2>7. QED BY <2>4, <2>6, StoredMeans
  <1>9. CASE Fail
    <2> DEFINE s == "failed"
    <2>1. Transition(i, ACTIVE, s, FailedOutcome)
      BY <1>2, <1>9 DEF Fail, FailJob
    <2>2. s \in STORED /\ s # "queued" /\ s \notin ACTIVE /\ FailedOutcome \in Outcome
      BY AnswersAreOutcomes DEF STORED, TERMINAL, ACTIVE
    <2> HIDE DEF s
    <2>3. ACTIVE \in SUBSET ACTIVE /\ investigations[i].state \in ACTIVE
      BY <1>4 DEF Active
    <2>4. investigations'[i].state = s
      BY <1>0, <2>1, <2>2, <2>3, MovedKept
    <2>5. QED BY <2>2, <2>4, StoredMeans
  <1>10. QED BY <1>0, <1>5, <1>6, <1>7, <1>8, <1>9, HandFrame

\* The stronger invariant holds where nothing has been submitted.
LEMMA JobInvInit == ServiceInit => JobInv
  <1> SUFFICES ASSUME ServiceInit PROVE JobInv
    OBVIOUS
  <1>1. SlotInv
    BY SlotInvInit
  <1>2. /\ pending = {} /\ LockFree /\ ~Serving /\ ~InHand /\ ~At("cleanup")
    BY DEF ServiceInit, LockFree, Serving, InHand, At, Idle
  <1>3. QED
    BY <1>1, <1>2 DEF JobInv, WorkerOnLastTurn, CancellingIsSignalled, NoJobForgotten

\* Every step keeps it: the lemmas above, one for each of its parts.
LEMMA JobInvStep ==
  ASSUME JobInv, [ServiceNext]_vars
  PROVE  JobInv'
  <1>0. SlotInv' /\ ServiceInv'
    BY SlotInvStep DEF JobInv, SlotInv
  <1>1. \A i \in pending' : Exists(i)' => events'[i] = Last(i)'
    BY EventsStep
  <1>2. (~LockFree /\ Exists(admitting.id) => admitting.turn = Last(admitting.id))'
    <2> SUFFICES ASSUME ~LockFree', Exists(admitting.id)'
                 PROVE  admitting'.turn = Last(admitting.id)'
      OBVIOUS
    <2>1. PICK i \in Ids : i = admitting'.id
      <3>1. (~LockFree => admitting.id \in Ids)'
        BY <1>0 DEF ServiceInv, ServiceTypeOK, LockFree
      <3>2. QED BY <3>1
    <2>2. Exists(i)'
      BY <2>1 DEF Exists
    <2>3. QED BY <2>1, <2>2, EventsStep DEF Last
  <1>3. /\ WorkerOnLastTurn'
        /\ (InHand /\ Exists(worker.id) => investigations[worker.id].state # "queued")'
    <2> SUFFICES ASSUME InHand'
                 PROVE  /\ events'[worker'.id] = worker'.turn
                        /\ Exists(worker.id)' =>
                             /\ worker'.turn = Last(worker.id)'
                             /\ worker'.request = turns'[worker'.id][worker'.turn].request
                             /\ worker'.analysis = investigations'[worker'.id].analysis
                             /\ investigations'[worker'.id].state # "queued"
      BY DEF WorkerOnLastTurn
    <2>1. PICK i \in Ids : i = worker'.id
      BY <1>0 DEF ServiceInv, ServiceTypeOK, InHand, Busy
    <2>2. /\ Exists(worker.id)' <=> Exists(i)'
          /\ Last(worker.id)' = Last(i)'
      BY <2>1 DEF Exists, Last
    <2>3. QED BY <2>1, <2>2, HandStep
  <1>4. CancellingIsSignalled'
    <2>1. ASSUME NEW i \in Ids, Serving', investigations'[i].state = "cancelling"
          PROVE  <<i, Last(i)'>> \in signalled'
      BY <2>1, CancellingStep
    <2>2. QED BY <2>1 DEF CancellingIsSignalled
  <1>5. NoJobForgotten'
    <2>1. ASSUME NEW i \in Ids, Serving', faults' = 0, Visible(i)', Active(i)'
          PROVE  i \in pending' \/ admitting'.id = i
      BY <2>1, ForgottenStep
    <2>2. QED BY <2>1 DEF NoJobForgotten
  <1>6. (faults = 0 /\ At("cleanup") => ~(Visible(worker.id) /\ Active(worker.id)))'
    <2> SUFFICES ASSUME faults' = 0, worker'.pc = "cleanup",
                        Visible(worker.id)', Active(worker.id)'
                 PROVE  FALSE
      BY DEF At
    <2>1. PICK i \in Ids : i = worker'.id
      BY <1>0 DEF ServiceInv, ServiceTypeOK, Busy
    <2>2. Visible(i)' /\ Active(i)'
      BY <2>1 DEF Visible, Active, Exists, Unexpired, Held
    <2>3. QED BY <2>1, <2>2, CleanupStep
  <1>7. QED BY <1>0, <1>1, <1>2, <1>3, <1>4, <1>5, <1>6 DEF JobInv

\* Without investigations no key is used twice.
LEMMA KeysInit == ServiceInit => OneJobPerKey
  BY StatesDisjoint DEF ServiceInit, Init, OneJobPerKey, Exists, NoRow, STORED

\* The books of the service agree with the tables at every moment.
THEOREM JobsAccounted == Spec => []EveryJobAccounted
  <1> DEFINE Books == JobInv /\ OneJobPerKey
  <1>1. ServiceInit => Books
    BY JobInvInit, KeysInit
  <1>2. Books /\ [ServiceNext]_vars => Books'
    BY JobInvStep, KeysStep DEF JobInv, SlotInv
  <1>3. Books => EveryJobAccounted
    <2>1. ASSUME JobInv PROVE ClosingStopsAll
      BY <2>1 DEF JobInv, SlotInv, ClosingStopsAll
    <2>2. QED
      BY <2>1 DEF JobInv, SlotInv, ServiceInv, EveryJobAccounted
  <1> HIDE DEF Books
  <1>4. QED BY <1>1, <1>2, <1>3, PTL DEF Spec

-----------------------------------------------------------------------------
(* Questions *)

Jobs == {j.job : j \in started}
\* What has been asked is on its way to its answer until the slot is given up.
Late == {"calling", "answered", "finishing", "failing", "cleanup"}

\* With JobInv: a turn that needs the model was admitted under the allowance; a
\* question that was asked is that of a turn that exists, and of no job that
\* still waits for the worker.
AskInv ==
    /\ JobInv
    /\ \A i \in Ids : \A n \in DOMAIN turns[i] :
         turns[i][n].request \in LLM => <<i, n>> \in Jobs
    /\ InHand /\ worker.request \in LLM => <<worker.id, worker.turn>> \in Jobs
    /\ asked \subseteq Jobs
    /\ \A i \in Ids, n \in 1..MaxTurns : <<i, n>> \in asked =>
         investigations[i].state # "free" /\ (Exists(i) => n <= Last(i))
    /\ \A i \in pending : <<i, events[i]>> \in asked =>
         worker.id = i /\ worker.pc \in Late
    /\ ~LockFree => <<admitting.id, admitting.turn>> \notin asked

\* No step of the service strikes an admitted job from the history.
LEMMA JobsGrow ==
  ASSUME ServiceInv, [ServiceNext]_vars
  PROVE  Jobs \subseteq Jobs'
  <1>1. [Next]_allStoreVars
    BY ServiceStepsStore
  <1>2. ASSUME NEW i, NEW n, NEW r, Reserve(i, n, r)
        PROVE  started \subseteq started'
    BY <1>2 DEF Reserve
  <1>3. started \subseteq started'
    <2>1. CASE UNCHANGED allStoreVars
      BY <2>1 DEF allStoreVars, storeVars
    <2>2. CASE \/ Tick \/ PurgeExpired \/ RecoverInterrupted
               \/ \E a \in Analyses :
                    DeleteSnapshot(a) \/ \E p \in Payloads : PutSnapshot(a, p)
               \/ \E i \in Ids : \E b \in Bodies :
                    SaveRecord(i, investigations[i].revision, b)
               \/ \E i \in Ids : ReviewRecord(i, investigations[i].revision)
      BY <2>2 DEF Tick, PurgeExpired, RecoverInterrupted, DeleteSnapshot, PutSnapshot,
           SaveRecord, ReviewRecord, WriteRecord, storeVars
    <2>3. ASSUME NEW i, NEW expected, NEW s, NEW o, Transition(i, expected, s, o)
          PROVE  started \subseteq started'
      BY <2>3 DEF Transition
    <2>4. CASE \E i \in Ids : \/ ClaimJob(i) \/ CancelJob(i) \/ FailJob(i)
                              \/ \E o \in JobOutcome : FinishJob(i, o)
      BY <2>3, <2>4 DEF ClaimJob, CancelJob, FailJob, FinishJob
    <2>5. CASE \E i \in Ids, k \in Keys, r \in Requests :
                 AddTurn(i, k, r) \/ \E a \in Analyses : CreateInvestigation(i, a, k, r)
      BY <1>2, <2>5 DEF AddTurn, CreateInvestigation
    <2>6. QED BY <1>1, <2>1, <2>2, <2>4, <2>5 DEF Next
  <1>4. QED BY <1>3 DEF Jobs

\* A job admitted for the model is on record from then on.
LEMMA Reserved ==
  ASSUME NEW i \in Ids, NEW n, NEW r \in LLM, Reserve(i, n, r)
  PROVE  <<i, n>> \in Jobs'
  <1> DEFINE new == [job |-> <<i, n>>, created |-> clock]
  <1>1. new \in started' /\ new.job = <<i, n>>
    BY DEF Reserve
  <1> HIDE DEF new
  <1>2. QED BY <1>1 DEF Jobs

\* What is asked, and when.
LEMMA AskedFrame ==
  ASSUME [ServiceNext]_vars
  PROVE  \/ UNCHANGED asked
         \/ /\ Decide /\ At("loaded") /\ Goto("calling") /\ worker.request \in LLM
            /\ asked' = asked \cup {<<worker.id, worker.turn>>}
            /\ UNCHANGED <<allStoreVars, pending, events, admitting>>
  <1>1. CASE Decide
    BY <1>1 DEF Decide
  <1>2. CASE Handlers \/ Maintain \/ StoreFails \/ Process \/ TimePasses \/ UNCHANGED vars
    BY <1>2 DEF Handlers, Enqueue, Submit, FollowUp, Cancel, Delete, SaveAnalysis,
         Maintain, StoreFails, Process, CloseFlag, CloseSignal, Terminate, Start,
         TimePasses, vars, serviceVars
  <1>3. CASE \/ Take \/ Claim \/ LoadSnapshot \/ RunnerReturns \/ Recheck
             \/ Finish \/ Fail \/ Cleanup \/ Leave
    BY <1>3 DEF Take, Claim, LoadSnapshot, RunnerReturns, Recheck, Finish, Fail,
         Cleanup, Leave
  <1>4. QED BY <1>1, <1>2, <1>3 DEF ServiceNext, WorkerStep

\* The worker goes on with what it asked until the slot is given up.
LEMMA LateStays ==
  ASSUME SlotInv, [ServiceNext]_vars, worker.pc \in Late
  PROVE  \/ worker'.pc \in Late /\ worker'.id = worker.id
         \/ Terminate \/ Cleanup
  <1>0. /\ worker \in WorkerState /\ Busy /\ worker.id \in pending
        /\ worker.pc \notin {"idle", "taken", "claimed", "loaded", "exited"}
    BY SlotValues DEF SlotInv, SlotsAccounted, Late, Busy
  <1>a. WorkerPC = {"idle", "taken", "claimed", "loaded", "calling",
                    "answered", "finishing", "failing", "cleanup", "exited"}
    BY DEF WorkerPC
  <1>g. ASSUME NEW pc \in Late, Goto(pc)
        PROVE  worker'.pc \in Late /\ worker'.id = worker.id
    BY <1>0, <1>a, <1>g, GotoKeepsWorker DEF Late
  <1>o. ASSUME NEW o, NEW pc \in Late,
               worker' = [worker EXCEPT !.pc = pc, !.outcome = o]
        PROVE  worker'.pc \in Late /\ worker'.id = worker.id
    BY <1>0, <1>o DEF WorkerState
  <1>l. {"calling", "answered", "finishing", "failing", "cleanup"} \subseteq Late
    BY DEF Late
  <1>1. CASE UNCHANGED worker
    BY <1>1
  <1>2. CASE \/ Handlers \/ Maintain \/ CloseFlag \/ CloseSignal \/ TimePasses
             \/ UNCHANGED vars
    <2>1. UNCHANGED worker
      BY <1>2 DEF Handlers, Enqueue, Submit, FollowUp, Cancel, Delete, SaveAnalysis,
           Maintain, CloseFlag, CloseSignal, TimePasses, vars, serviceVars
    <2>2. QED BY <2>1
  <1>3. CASE Start
    BY <1>0, <1>3 DEF Start, SlotInv
  <1>4. CASE Take \/ Leave \/ Claim \/ LoadSnapshot \/ Decide
    BY <1>0, <1>4 DEF Take, Leave, Claim, LoadSnapshot, Decide, At
  <1>5. CASE RunnerReturns
    BY <1>5, <1>g, <1>o, <1>l DEF RunnerReturns
  <1>6. CASE Recheck
    BY <1>6, <1>o, <1>l DEF Recheck
  <1>7. CASE Finish
    BY <1>7, <1>g, <1>l DEF Finish
  <1>8. CASE Fail
    BY <1>8, <1>g, <1>l DEF Fail
  <1>9. CASE StoreFails
    BY <1>9, <1>g, <1>l DEF StoreFails
  <1>10. QED
    BY <1>2, <1>3, <1>4, <1>5, <1>6, <1>7, <1>8, <1>9
       DEF ServiceNext, WorkerStep, Process

\* The records of a turn, and who asks for it, agree with the history.
LEMMA AdmittedStep ==
  ASSUME AskInv, [ServiceNext]_vars
  PROVE  /\ \A i \in Ids : \A n \in DOMAIN turns'[i] :
              turns'[i][n].request \in LLM => <<i, n>> \in Jobs'
         /\ InHand' /\ worker'.request \in LLM
              => <<worker'.id, worker'.turn>> \in Jobs'
  <1>0. /\ JobInv /\ SlotInv /\ ServiceInv /\ StoreInv /\ StoreInv'
        /\ Jobs \subseteq Jobs'
    <2>1. JobInv /\ SlotInv /\ ServiceInv /\ StoreInv
      BY DEF AskInv, JobInv, SlotInv, ServiceInv
    <2>2. QED BY <2>1, JobsGrow, ServiceInvStep DEF ServiceInv
  <1>1. ASSUME NEW i \in Ids, NEW n \in DOMAIN turns'[i],
               turns'[i][n].request \in LLM
        PROVE  <<i, n>> \in Jobs'
    <2>d. /\ turns[i] \in Seq(Turn) /\ DOMAIN turns[i] = 1..Len(turns[i])
          /\ turns'[i] \in Seq(Turn) /\ DOMAIN turns'[i] = 1..Len(turns'[i])
      BY <1>0 DEF StoreInv, TypeOK
    <2>1. CASE Kept(i)
      <3>1. Exists(i)'
        <4>1. turns'[i] # <<>>
          BY <1>1, <2>d
        <4>2. (\A j \in Ids : ~Exists(j) => turns[j] = <<>>)'
          <5>1. (\A j \in Ids : Consistent(investigations[j], turns[j]))'
            BY <1>0 DEF StoreInv
          <5>2. QED BY <5>1 DEF Consistent, Exists, STORED
        <4>3. QED BY <4>1, <4>2
      <3>2. /\ Len(turns'[i]) = Len(turns[i])
            /\ turns'[i][n].request = turns[i][n].request /\ n \in DOMAIN turns[i]
        BY <1>1, <2>1, <2>d, <3>1, StoredMeans DEF Kept
      <3>3. QED BY <1>0, <1>1, <3>2 DEF AskInv
    <2>2. ASSUME NEW a \in Analyses, NEW k \in Keys, NEW r \in Requests,
                 Submit(i, a, k, r)
          PROVE  <<i, n>> \in Jobs'
      <3>1. turns'[i] = <<QueuedTurn(k, r)>> /\ Reserve(i, 1, r)
        <4>1. CreateInvestigation(i, a, k, r)
          BY <2>2 DEF Submit
        <4>2. Reserve(i, 1, r)
          BY <4>1 DEF CreateInvestigation
        <4>3. QED BY <1>0, <4>1, <4>2, CreatedKept
      <3>2. n = 1 /\ turns'[i][n] = QueuedTurn(k, r)
        <4> DEFINE t == QueuedTurn(k, r)
        <4> HIDE DEF t
        <4>1. turns'[i] = <<t>> /\ n \in DOMAIN turns'[i]
          BY <1>1, <3>1 DEF t
        <4>2. n = 1 /\ turns'[i][n] = t
          BY <4>1
        <4>3. QED BY <4>2 DEF t
      <3>3. r \in LLM
        BY <1>1, <3>2 DEF QueuedTurn
      <3>4. QED BY <3>1, <3>2, <3>3, Reserved
    <2>3. ASSUME NEW k \in Keys, NEW r \in Requests, FollowUp(i, k, r)
          PROVE  <<i, n>> \in Jobs'
      <3> DEFINE t == QueuedTurn(k, r)
      <3>1. /\ turns'[i] = Append(turns[i], t) /\ Reserve(i, Last(i) + 1, r)
            /\ t \in Turn /\ t.request = r
        <4>1. AddTurn(i, k, r)
          BY <2>3 DEF FollowUp
        <4>2. Reserve(i, Last(i) + 1, r)
          BY <4>1 DEF AddTurn
        <4>3. turns'[i] = Append(turns[i], t)
          BY <1>0, <4>1, ContinuedKept
        <4>4. t \in Turn /\ t.request = r
          BY RowTypes DEF QueuedTurn
        <4>5. QED BY <4>2, <4>3, <4>4
      <3> HIDE DEF t
      <3>2. CASE n = Len(turns[i]) + 1
        <4>1. r \in LLM
          BY <1>1, <2>d, <3>1, <3>2
        <4>2. QED BY <3>1, <3>2, <4>1, Reserved DEF Last
      <3>3. CASE n # Len(turns[i]) + 1
        <4>1. n \in DOMAIN turns[i] /\ turns'[i][n] = turns[i][n]
          BY <1>1, <2>d, <3>1, <3>3
        <4>2. QED BY <1>0, <1>1, <4>1 DEF AskInv
      <3>4. QED BY <3>2, <3>3
    <2>4. QED BY <1>0, <2>1, <2>2, <2>3, StepKept
  <1>2. ASSUME InHand', worker'.request \in LLM
        PROVE  <<worker'.id, worker'.turn>> \in Jobs'
    <2>1. CASE Claim /\ Visible(worker.id)
      <3>1. /\ Busy /\ worker.pc = "taken" /\ worker \in WorkerState
        BY <1>0, <2>1, SlotValues DEF Claim, At, Busy
      <3>2. PICK i \in Ids : worker.id = i
        BY <1>0, <3>1, SlotValues
      <3>3. i \in pending /\ Exists(i)
        BY <1>0, <2>1, <3>1, <3>2 DEF SlotInv, SlotsAccounted, Visible
      <3>4. /\ worker' = [worker EXCEPT !.pc = "claimed", !.turn = events[i],
                            !.analysis = investigations[i].analysis,
                            !.request = turns[i][Last(i)].request]
            /\ events[i] = Last(i)
        BY <1>0, <2>1, <3>2, <3>3 DEF Claim, JobInv
      <3>5. /\ worker'.id = i /\ worker'.turn = Last(i)
            /\ worker'.request = turns[i][Last(i)].request
        BY <3>1, <3>2, <3>4 DEF WorkerState
      <3>6. Last(i) \in DOMAIN turns[i]
        BY <1>0, <3>3, RowFacts, ConstantTypes DEF Last
      <3>7. QED BY <1>0, <1>2, <3>5, <3>6 DEF AskInv
    <2>2. CASE /\ InHand /\ worker'.id = worker.id /\ worker'.turn = worker.turn
               /\ worker'.request = worker.request
               /\ worker'.analysis = worker.analysis
      BY <1>0, <1>2, <2>2 DEF AskInv
    <2>3. QED BY <1>0, <1>2, <2>1, <2>2, HandFrame
  <1>3. QED BY <1>1, <1>2

\* When the worker turns to the model, it asks for the first time.
LEMMA NewQuestion ==
  ASSUME AskInv, Decide, Goto("calling"), worker.request \in LLM
  PROVE  /\ worker.id \in pending /\ events[worker.id] = worker.turn
         /\ worker.pc = "loaded" /\ InHand
         /\ <<worker.id, worker.turn>> \notin asked
         /\ <<worker.id, worker.turn>> \in Jobs
         /\ worker'.pc = "calling" /\ worker'.id = worker.id
  <1>1. worker.pc = "loaded" /\ InHand /\ Busy
    BY DEF Decide, At, InHand, Busy
  <1>2. worker.id \in pending /\ events[worker.id] = worker.turn
    BY <1>1 DEF AskInv, JobInv, SlotInv, SlotsAccounted, WorkerOnLastTurn
  <1>3. "loaded" \notin Late
    BY DEF Late
  <1>4. worker'.pc = "calling" /\ worker'.id = worker.id
    BY SlotValues, GotoKeepsWorker DEF AskInv, JobInv, SlotInv, WorkerPC
  <1>5. QED BY <1>1, <1>2, <1>3, <1>4 DEF AskInv

\* Nothing has been asked before the first start.
LEMMA AskInvInit == ServiceInit => AskInv
  <1> SUFFICES ASSUME ServiceInit PROVE AskInv
    OBVIOUS
  <1>1. JobInv
    BY JobInvInit
  <1>2. asked = {} /\ ~InHand /\ LockFree /\ pending = {}
    BY DEF ServiceInit, InHand, Idle, LockFree
  <1>3. \A i \in Ids : turns[i] = <<>>
    BY DEF ServiceInit, Init
  <1>4. \A i \in Ids : DOMAIN turns[i] = {}
    BY <1>3
  <1>5. QED BY <1>1, <1>2, <1>4 DEF AskInv

\* Every step keeps what is known of the questions.
LEMMA AskInvStep ==
  ASSUME AskInv, [ServiceNext]_vars
  PROVE  AskInv'
  <1>0. /\ JobInv /\ SlotInv /\ ServiceInv /\ StoreInv
        /\ JobInv' /\ SlotInv' /\ ServiceInv'
        /\ Jobs \subseteq Jobs'
    <2>1. JobInv /\ SlotInv /\ ServiceInv /\ StoreInv
      BY DEF AskInv, JobInv, SlotInv, ServiceInv
    <2>2. JobInv' /\ SlotInv'
      BY <2>1, JobInvStep DEF JobInv
    <2>3. QED BY <2>1, <2>2, JobsGrow DEF SlotInv
  <1>1. (asked \subseteq Jobs)'
    <2>1. CASE UNCHANGED asked
      BY <1>0, <2>1 DEF AskInv
    <2>2. CASE ~UNCHANGED asked
      BY <1>0, <2>2, AskedFrame, NewQuestion DEF AskInv
    <2>3. QED BY <2>1, <2>2
  <1>2. ASSUME NEW i \in Ids, NEW n \in 1..MaxTurns, <<i, n>> \in asked'
        PROVE  investigations'[i].state # "free" /\ (Exists(i)' => n <= Last(i)')
    <2>1. CASE <<i, n>> \in asked
      <3>1. investigations[i].state # "free" /\ (Exists(i) => n <= Last(i))
        BY <2>1 DEF AskInv
      <3>2. CASE Kept(i)
        <4>1. investigations'[i].state # "free"
          BY <3>1, <3>2 DEF Kept
        <4>2. QED BY <3>1, <3>2, <4>1, KeptMeans
      <3>3. ASSUME NEW a \in Analyses, NEW k \in Keys, NEW r \in Requests,
                   Submit(i, a, k, r)
            PROVE  FALSE
        BY <3>1, <3>3 DEF Submit, CreateInvestigation
      <3>4. ASSUME NEW k \in Keys, NEW r \in Requests, FollowUp(i, k, r)
            PROVE  investigations'[i].state # "free" /\ n <= Last(i)'
        <4>1. /\ Exists(i) /\ investigations'[i].state = "queued"
              /\ turns'[i] = Append(turns[i], QueuedTurn(k, r))
          BY <1>0, <3>4, ContinuedKept DEF FollowUp
        <4>2. Last(i)' = Last(i) + 1 /\ Last(i) \in Nat
          BY <1>0, <4>1, RowFacts, RowTypes DEF Last
        <4>3. n <= Last(i) /\ n \in Nat /\ "queued" # "free"
          BY <3>1, <4>1, ConstantTypes
        <4>4. QED BY <4>1, <4>2, <4>3
      <3>5. QED BY <1>0, <3>2, <3>3, <3>4, StepKept
    <2>2. CASE <<i, n>> \notin asked
      <3>1. /\ Decide /\ Goto("calling") /\ worker.request \in LLM
            /\ asked' = asked \cup {<<worker.id, worker.turn>>}
            /\ UNCHANGED allStoreVars
        BY <1>2, <2>2, AskedFrame
      <3>2. i = worker.id /\ n = worker.turn
        BY <1>2, <2>2, <3>1
      <3>3. i \in pending /\ InHand
        BY <3>1, <3>2, NewQuestion
      <3>4. investigations[i].state # "free"
        BY <1>0, <3>3 DEF SlotInv
      <3>5. Exists(i) => n = Last(i)
        BY <1>0, <3>2, <3>3 DEF JobInv, WorkerOnLastTurn
      <3>6. UNCHANGED <<investigations, turns>>
        BY <3>1 DEF allStoreVars, storeVars
      <3>7. Last(i) \in Nat
        BY <1>0, RowFacts DEF Last
      <3>8. QED BY <3>4, <3>5, <3>6, <3>7 DEF Exists, Last
    <2>3. QED BY <2>1, <2>2
  <1>3. ASSUME NEW i \in pending', <<i, events'[i]>> \in asked'
        PROVE  worker'.id = i /\ worker'.pc \in Late
    <2>1. CASE UNCHANGED asked
      <3>1. ~Enqueue \/ i # admitting.id \/ events'[i] # admitting.turn
        BY <1>3, <2>1 DEF AskInv, Enqueue
      <3>2. i \in pending /\ events'[i] = events[i]
        BY <1>0, <3>1, JobFrame
      <3>3. worker.id = i /\ worker.pc \in Late
        BY <1>3, <2>1, <3>2 DEF AskInv
      <3>4. ~Cleanup /\ ~Terminate
        BY <1>3, <3>3 DEF Cleanup, Terminate
      <3>5. QED BY <1>0, <3>3, <3>4, LateStays
    <2>2. CASE ~UNCHANGED asked
      <3>1. /\ Decide /\ At("loaded") /\ Goto("calling") /\ worker.request \in LLM
            /\ asked' = asked \cup {<<worker.id, worker.turn>>}
            /\ UNCHANGED <<pending, events>>
        BY <2>2, AskedFrame
      <3>2. worker'.pc = "calling" /\ worker'.id = worker.id /\ worker.pc = "loaded"
        BY <3>1, NewQuestion
      <3>3. CASE i = worker.id
        BY <3>2, <3>3 DEF Late
      <3>4. CASE i # worker.id
        <4>1. <<i, events[i]>> \in asked /\ i \in pending
          BY <1>3, <3>1, <3>4
        <4>2. QED BY <3>4, <4>1 DEF AskInv
      <3>5. QED BY <3>3, <3>4
    <2>3. QED BY <2>1, <2>2
  <1>4. ASSUME ~LockFree', <<admitting'.id, admitting'.turn>> \in asked'
        PROVE  FALSE
    <2>1. CASE UNCHANGED admitting
      <3>1. ~LockFree /\ <<admitting.id, admitting.turn>> \notin asked
        BY <1>4, <2>1 DEF AskInv, LockFree
      <3>2. admitting.id # worker.id \/ UNCHANGED asked
        <4>1. admitting.id \notin pending
          BY <1>0 DEF SlotInv, SlotsAccounted
        <4>2. QED BY <4>1, AskedFrame, NewQuestion
      <3>3. QED BY <1>4, <2>1, <3>1, <3>2, AskedFrame
    <2>2. ASSUME NEW i \in Ids, NEW a \in Analyses, NEW k \in Keys, NEW r \in Requests,
                 Submit(i, a, k, r)
          PROVE  FALSE
      <3>1. /\ admitting' = [id |-> i, turn |-> 1] /\ UNCHANGED asked
            /\ investigations[i].state = "free"
        BY <2>2 DEF Submit, CreateInvestigation
      <3>2. 1 \in 1..MaxTurns /\ <<i, 1>> \in asked
        BY <1>4, <3>1, ConstantTypes
      <3>3. QED BY <3>1, <3>2 DEF AskInv
    <2>3. ASSUME NEW i \in Ids, NEW k \in Keys, NEW r \in Requests, FollowUp(i, k, r)
          PROVE  FALSE
      <3>1. /\ admitting' = [id |-> i, turn |-> Last(i) + 1] /\ UNCHANGED asked
            /\ Exists(i) /\ Last(i) + 1 <= MaxTurns
        BY <1>0, <2>3, ContinuedKept DEF FollowUp, AddTurn
      <3>2. Last(i) \in Nat /\ Last(i) + 1 \in 1..MaxTurns
        BY <1>0, <3>1, RowFacts, ConstantTypes DEF Last
      <3>3. <<i, Last(i) + 1>> \in asked
        BY <1>4, <3>1
      <3>4. QED BY <3>1, <3>2, <3>3 DEF AskInv
    <2>4. QED BY <1>0, <1>4, <2>1, <2>2, <2>3, SlotFrame
  <1>5. QED
    BY <1>0, <1>1, <1>2, <1>3, <1>4, AdmittedStep DEF AskInv

\* The worker's two looks at the event, and what it hands to the model.
THEOREM WorkerKeepsInStep == Spec => WorkerInStep
  <1>1. ServiceInit => AskInv
    BY AskInvInit
  <1>2. AskInv /\ [ServiceNext]_vars => AskInv'
    BY AskInvStep
  <1>3. AskInv => WorkerOnLastTurn /\ CancellingIsSignalled /\ AskedWithinAllowance
    BY DEF AskInv, JobInv, Jobs, AskedWithinAllowance
  <1>4. AskInv /\ [ServiceNext]_vars =>
          [At("answered") /\ worker'.pc = "finishing"
             /\ investigations[worker.id].state = "cancelling"
           => worker'.outcome = CancelledOutcome]_vars
    <2> SUFFICES ASSUME AskInv, [ServiceNext]_vars, At("answered"),
                        worker'.pc = "finishing",
                        investigations[worker.id].state = "cancelling"
                 PROVE  worker'.outcome = CancelledOutcome
      OBVIOUS
    <2>1. JobInv /\ SlotInv /\ ServiceInv
      BY DEF AskInv, JobInv, SlotInv
    <2>2. worker \in WorkerState /\ worker.pc = "answered" /\ InHand /\ Busy
      BY <2>1, SlotValues DEF At, InHand, Busy
    <2>3. PICK i \in Ids : i = worker.id
      BY <2>1, <2>2, SlotValues
    <2>4. Exists(worker.id) /\ worker.turn = Last(i) /\ Serving
      <3>1. Exists(worker.id)
        BY <2>3 DEF Exists, ACTIVE
      <3>2. worker.turn = Last(i)
        BY <2>1, <2>2, <2>3, <3>1 DEF JobInv, WorkerOnLastTurn
      <3>3. i \in pending
        BY <2>1, <2>2, <2>3 DEF SlotInv, SlotsAccounted
      <3>4. QED BY <2>1, <3>1, <3>2, <3>3 DEF SlotInv, Serving
    <2>5. MyEventSet
      BY <2>1, <2>3, <2>4 DEF JobInv, CancellingIsSignalled, MyEventSet
    <2>6. Recheck
      <3>1. worker' # worker
        BY <2>2
      <3>2. ~(Take \/ Claim \/ LoadSnapshot \/ Decide \/ RunnerReturns \/ Finish
              \/ Fail \/ Cleanup \/ Leave \/ StoreFails)
        BY <2>2 DEF Take, Claim, LoadSnapshot, Decide, RunnerReturns, Finish, Fail,
             Cleanup, Leave, StoreFails, At
      <3>3. ~(Terminate \/ Start)
        BY DEF Terminate, Start, Idle
      <3>4. (\/ Handlers \/ Maintain \/ CloseFlag \/ CloseSignal \/ TimePasses
             \/ UNCHANGED vars) => UNCHANGED worker
        BY DEF Handlers, Enqueue, Submit, FollowUp, Cancel, Delete, SaveAnalysis,
             Maintain, CloseFlag, CloseSignal, TimePasses, vars, serviceVars
      <3>5. QED BY <3>1, <3>2, <3>3, <3>4 DEF ServiceNext, WorkerStep, Process
    <2>7. QED BY <2>2, <2>5, <2>6 DEF Recheck, WorkerState
  <1>5. AskInv /\ [ServiceNext]_vars =>
          [At("loaded") /\ worker'.pc = "calling" =>
             <<worker.id, worker.turn>> \notin asked]_vars
    <2> SUFFICES ASSUME AskInv, [ServiceNext]_vars, At("loaded"),
                        worker'.pc = "calling"
                 PROVE  <<worker.id, worker.turn>> \notin asked
      OBVIOUS
    <2>1. JobInv /\ SlotInv
      BY DEF AskInv, JobInv
    <2>2. InHand /\ Busy /\ worker.pc \notin Late
      BY DEF At, InHand, Busy, Late
    <2>3. worker.id \in pending /\ events[worker.id] = worker.turn
      BY <2>1, <2>2 DEF JobInv, SlotInv, SlotsAccounted, WorkerOnLastTurn
    <2>4. QED BY <2>2, <2>3 DEF AskInv
  <1>6. QED
    BY <1>1, <1>2, <1>3, <1>4, <1>5, PTL DEF Spec, WorkerInStep, CancelObeyed, AskedOnce

-----------------------------------------------------------------------------
(* What the clients see: the service implements JobLifecycle *)

JobStates == [i \in Ids |-> investigations[i].state]
\* The investigations that go with the snapshots in gone.
TheirJobs(gone) == {i \in Ids : investigations[i].analysis \in gone}

\* The client's words for the states are the store's.
LEMMA LifecycleStates ==
  /\ Lifecycle!Unfinished = ACTIVE
  /\ Lifecycle!Ended = TERMINAL
  BY DEF Lifecycle!Unfinished, Lifecycle!Ended, ACTIVE, TERMINAL

\* The two modules mean the same by a cardinality.
LEMMA SameCardinality == \A S : Lifecycle!Cardinality(S) = Cardinality(S)
  BY DEF Lifecycle!Cardinality, Cardinality, Lifecycle!IsFiniteSet, IsFiniteSet

\* How one job, or the removal of some, is a step of the lifecycle.
LEMMA OneJobSteps ==
  ASSUME NEW i \in Ids,
         Lifecycle!Begin(i) \/ Lifecycle!AskToCancel(i) \/ Lifecycle!End(i)
  PROVE  Lifecycle!Next
  BY DEF Lifecycle!Next

\* The removal of some jobs, and an admission that removes them, are steps too.
LEMMA ManyJobsStep ==
  ASSUME NEW gone \in SUBSET {i \in Ids : JobStates[i] \notin {"free", "deleted"}},
         \/ Lifecycle!Remove(gone)
         \/ \E i \in Ids \ gone : Lifecycle!Accept(i, gone)
  PROVE  Lifecycle!Next
  <1>1. gone \in SUBSET {i \in Ids : [j \in Ids |-> investigations[j].state][i]
                                       \notin {"free", "deleted"}}
    BY DEF JobStates
  <1>2. QED BY <1>1 DEF Lifecycle!Next

\* What goes with a snapshot is there to go.
LEMMA TheirJobsExist ==
  ASSUME StoreInv, NEW gone \in SUBSET Analyses
  PROVE  /\ TheirJobs(gone) \in SUBSET {i \in Ids : JobStates[i] \notin {"free", "deleted"}}
         /\ \A i \in Ids : i \notin TheirJobs(gone) /\ gone = Expired /\ Active(i) => Visible(i)
  <1>1. ASSUME NEW i \in TheirJobs(gone)
        PROVE  i \in Ids /\ JobStates[i] \notin {"free", "deleted"}
    <2>1. i \in Ids /\ investigations[i].analysis # NONE
      BY ConstantTypes DEF TheirJobs
    <2>2. investigations[i].state \in STORED
      BY <2>1, RowFacts
    <2>3. QED BY <2>1, <2>2, StatesDisjoint DEF JobStates
  <1>2. \A i \in Ids : i \notin TheirJobs(gone) /\ gone = Expired /\ Active(i) => Visible(i)
    BY RowFacts DEF TheirJobs
  <1>3. QED BY <1>1, <1>2

\* Dropping snapshots removes their jobs and changes no other.
LEMMA RemovalStep ==
  ASSUME StoreInv, NEW gone \in SUBSET Analyses,
         investigations' = InvestigationsWithout(gone)
  PROVE  Lifecycle!Next
  <1>1. PICK g : g = TheirJobs(gone)
    OBVIOUS
  <1>2. JobStates' = [i \in Ids |-> IF i \in g THEN "deleted" ELSE JobStates[i]]
    BY <1>1 DEF JobStates, InvestigationsWithout, NoRow, TheirJobs
  <1>3. Lifecycle!Remove(g)
    BY <1>2 DEF Lifecycle!Remove, JobStates
  <1>4. g \in SUBSET {i \in Ids : JobStates[i] \notin {"free", "deleted"}}
    BY <1>1, TheirJobsExist
  <1>5. QED BY <1>3, <1>4, ManyJobsStep

\* A job is accepted only while the unfinished ones, all of them pending, are
\* fewer than the capacity.
LEMMA AcceptStep ==
  ASSUME JobInv, faults = 0, proc = "up", LockFree, Cardinality(pending) < Capacity,
         NEW i \in Ids, i \notin TheirJobs(Expired), JobStates[i] \in {"free"} \cup TERMINAL,
         JobStates' = [j \in Ids |-> IF j = i THEN "queued"
                                     ELSE IF j \in TheirJobs(Expired) THEN "deleted"
                                     ELSE JobStates[j]]
  PROVE  Lifecycle!Next
  <1>g. PICK gone : gone = TheirJobs(Expired)
    OBVIOUS
  <1> DEFINE unfinished == {j \in Ids \ gone : JobStates[j] \in ACTIVE}
  <1>0. StoreInv /\ SlotInv /\ ServiceInv
    BY DEF JobInv, SlotInv, ServiceInv
  <1>1. unfinished \subseteq pending
    <2> SUFFICES ASSUME NEW j \in Ids, j \notin gone, JobStates[j] \in ACTIVE
                 PROVE  j \in pending
      OBVIOUS
    <2>1. Active(j) /\ Visible(j)
      <3>1. Active(j)
        BY DEF JobStates, Active
      <3>2. Expired \in SUBSET Analyses
        BY DEF Expired
      <3>3. QED BY <1>0, <1>g, <3>1, <3>2, TheirJobsExist
    <2>2. Serving /\ admitting.id # j
      BY <1>0, SlotValues DEF Serving
    <2>3. QED BY <2>1, <2>2 DEF JobInv, NoJobForgotten
  <1>2. Cardinality(unfinished) < Capacity
    <2>1. IsFiniteSet(pending)
      BY <1>0 DEF SlotInv
    <2> HIDE DEF unfinished
    <2>2. /\ Cardinality(unfinished) <= Cardinality(pending)
          /\ IsFiniteSet(unfinished)
      BY <1>1, <2>1, FS_Subset
    <2>3. Cardinality(unfinished) \in Nat /\ Cardinality(pending) \in Nat
      BY <2>1, <2>2, FS_CardinalityType
    <2>4. QED BY <2>2, <2>3, ServiceAssumption
  <1>3. Lifecycle!Accept(i, gone)
    <2>1. {j \in Ids \ gone : JobStates[j] \in Lifecycle!Unfinished} = unfinished
      BY LifecycleStates
    <2>2. Lifecycle!Cardinality({j \in Ids \ gone : JobStates[j] \in Lifecycle!Unfinished})
            < Capacity
      BY <1>2, <2>1, SameCardinality
    <2> HIDE DEF unfinished
    <2>3. JobStates' = [j \in Ids |-> IF j = i THEN "queued"
                                     ELSE IF j \in gone THEN "deleted"
                                     ELSE JobStates[j]]
      BY <1>g
    <2>4. QED BY <1>2, <2>2, <2>3, LifecycleStates DEF Lifecycle!Accept, JobStates
  <1>4. gone \in SUBSET {j \in Ids : JobStates[j] \notin {"free", "deleted"}}
    <2>1. Expired \in SUBSET Analyses
      BY DEF Expired
    <2>2. QED BY <1>0, <1>g, <2>1, TheirJobsExist
  <1>5. i \in Ids \ gone
    BY <1>g
  <1>6. QED BY <1>3, <1>4, <1>5, ManyJobsStep

\* A move is one of one job.
LEMMA MovedStates ==
  ASSUME StoreInv, NEW i \in Ids, NEW expected \in SUBSET ACTIVE,
         NEW s \in STORED, NEW o \in Outcome, s # "queued",
         Transition(i, expected, s, o)
  PROVE  IF investigations[i].state \in expected
         THEN JobStates' = [JobStates EXCEPT ![i] = s] ELSE UNCHANGED JobStates
  <1>1. \A j \in Ids : j # i => investigations'[j].state = investigations[j].state
    BY MovedKept
  <1>2. investigations'[i].state = IF investigations[i].state \in expected
                                    THEN s ELSE investigations[i].state
    BY MovedKept
  <1>3. QED BY <1>1, <1>2 DEF JobStates

\* Every step of the service is one of the lifecycle, or none.
LEMMA LifecycleStep ==
  ASSUME JobInv, MaxFaults = 0, [ServiceNext]_vars
  PROVE  [Lifecycle!Next]_JobStates
  <1>0. StoreInv /\ SlotInv /\ ServiceInv /\ faults = 0
    BY DEF JobInv, SlotInv, ServiceInv, ServiceTypeOK
  <1>s. /\ ACTIVE = {"queued", "running", "cancelling"}
        /\ ACTIVE \in SUBSET ACTIVE
        /\ "running" \in STORED /\ "cancelling" \in STORED /\ "failed" \in STORED
        /\ NoOutcome \in Outcome /\ FailedOutcome \in Outcome
    BY AnswersAreOutcomes DEF ACTIVE, STORED, TERMINAL
  <1>w. worker.pc \in {"taken", "finishing", "failing"} => worker.id \in Ids
    BY <1>0 DEF ServiceInv, ServiceTypeOK, Busy
  <1>x. Expired \in SUBSET Analyses
    BY DEF Expired
  <1>1. CASE UNCHANGED investigations
    BY <1>1 DEF JobStates
  <1>2. ASSUME NEW i \in Ids, NEW a \in Analyses, NEW k \in Keys, NEW r \in Requests,
               Submit(i, a, k, r)
        PROVE  Lifecycle!Next
    <2>1. /\ CreateInvestigation(i, a, k, r)
          /\ proc = "up" /\ LockFree /\ Cardinality(pending) < Capacity
      BY <1>2 DEF Submit
    <2>2. /\ investigations[i].state = "free"
          /\ investigations' =
               [InvestigationsWithout(Expired) EXCEPT ![i] = QueuedRow(a, k, r)]
      BY <2>1 DEF CreateInvestigation
    <2>3. i \notin TheirJobs(Expired) /\ JobStates[i] = "free"
      <3>1. JobStates[i] = "free"
        BY <2>2 DEF JobStates
      <3>2. QED BY <1>0, <1>x, <3>1, TheirJobsExist
    <2>4. QueuedRow(a, k, r).state = "queued"
      BY DEF QueuedRow, NoRow
    <2>5. JobStates' = [j \in Ids |-> IF j = i THEN "queued"
                          ELSE IF j \in TheirJobs(Expired) THEN "deleted"
                          ELSE JobStates[j]]
      BY <2>2, <2>4 DEF JobStates, InvestigationsWithout, NoRow, TheirJobs
    <2>6. QED BY <1>0, <2>1, <2>3, <2>5, AcceptStep
  <1>3. ASSUME NEW i \in Ids, NEW k \in Keys, NEW r \in Requests, FollowUp(i, k, r)
        PROVE  Lifecycle!Next
    <2>1. /\ AddTurn(i, k, r)
          /\ proc = "up" /\ LockFree /\ Cardinality(pending) < Capacity
      BY <1>3 DEF FollowUp
    <2>2. /\ i \in Surviving /\ ~Active(i)
          /\ investigations' = [InvestigationsWithout(Expired) EXCEPT
                                  ![i] = Reopened(investigations[i])]
      BY <2>1 DEF AddTurn
    <2>3. i \notin TheirJobs(Expired) /\ JobStates[i] \in TERMINAL
      BY <2>2 DEF Surviving, Active, Exists, TheirJobs, JobStates
    <2>4. Reopened(investigations[i]).state = "queued"
      BY <1>0, RowFacts DEF Reopened, Row
    <2>5. JobStates' = [j \in Ids |-> IF j = i THEN "queued"
                          ELSE IF j \in TheirJobs(Expired) THEN "deleted"
                          ELSE JobStates[j]]
      BY <2>2, <2>4 DEF JobStates, InvestigationsWithout, NoRow, TheirJobs
    <2>6. QED BY <1>0, <2>1, <2>3, <2>5, AcceptStep
  <1>4. ASSUME NEW i \in Ids, Cancel(i) PROVE [Lifecycle!Next]_JobStates
    <2> DEFINE expected == {"queued", "running"}
               s == "cancelling"
    <2>1. /\ Transition(i, expected, s, NoOutcome) /\ expected \in SUBSET ACTIVE
          /\ s \in STORED /\ s # "queued"
      BY <1>4, <1>s DEF Cancel, CancelJob
    <2> HIDE DEF expected, s
    <2>2. IF investigations[i].state \in expected
          THEN JobStates' = [JobStates EXCEPT ![i] = s] ELSE UNCHANGED JobStates
      BY <1>0, <1>s, <2>1, MovedStates
    <2>3. investigations[i].state \in expected
            => Lifecycle!AskToCancel(i)
      BY <2>2 DEF Lifecycle!AskToCancel, JobStates, expected, s
    <2>4. QED BY <2>2, <2>3 DEF Lifecycle!Next
  <1>5. CASE \/ \E a \in Analyses :
                    Delete(a) \/ \E p \in Payloads : SaveAnalysis(a, p)
             \/ Maintain
    <2>1. \E gone \in SUBSET Analyses : investigations' = InvestigationsWithout(gone)
      BY <1>5, <1>x DEF Delete, DeleteSnapshot, SaveAnalysis, PutSnapshot, Maintain,
           PurgeExpired
    <2>2. QED BY <1>0, <2>1, RemovalStep
  <1>6. CASE Start
    <2>1. \A i \in Ids : JobStates'[i] = IF JobStates[i] \in ACTIVE THEN "interrupted"
                                         ELSE JobStates[i]
      <3> SUFFICES ASSUME NEW i \in Ids
                   PROVE  investigations'[i].state =
                            IF Active(i) THEN "interrupted" ELSE investigations[i].state
        BY DEF JobStates, Active
      <3>1. investigations[i] \in Row
        BY <1>0, RowFacts
      <3>2. investigations'[i] = IF Active(i) THEN Interrupted(investigations[i])
                                 ELSE investigations[i]
        BY <1>6 DEF Start, RecoverInterrupted
      <3>3. QED BY <3>1, <3>2 DEF Interrupted, Moved, Row
    <2>2. Lifecycle!Restart
      BY <2>1, LifecycleStates DEF Lifecycle!Restart, JobStates
    <2>3. QED BY <2>2 DEF Lifecycle!Next
  <1>7. CASE Claim
    <2>i. PICK i \in Ids : i = worker.id
      BY <1>7, <1>w DEF Claim, At
    <2> DEFINE expected == {"queued"}
               s == "running"
    <2>1. expected \in SUBSET ACTIVE /\ s \in STORED /\ s # "queued"
      BY <1>s
    <2>2. UNCHANGED investigations \/ Transition(i, expected, s, NoOutcome)
      BY <1>7, <2>i DEF Claim, ClaimJob, allStoreVars, storeVars
    <2> HIDE DEF expected, s
    <2>3. Transition(i, expected, s, NoOutcome) =>
            IF investigations[i].state \in expected
            THEN JobStates' = [JobStates EXCEPT ![i] = s] ELSE UNCHANGED JobStates
      BY <1>0, <1>s, <2>1, MovedStates
    <2>4. investigations[i].state \in expected /\ JobStates' = [JobStates EXCEPT ![i] = s]
            => Lifecycle!Begin(i)
      BY <2>1 DEF Lifecycle!Begin, JobStates, expected, s
    <2>5. UNCHANGED investigations => UNCHANGED JobStates
      BY DEF JobStates
    <2>6. QED BY <2>1, <2>2, <2>3, <2>4, <2>5, OneJobSteps
  <1>8. CASE Finish
    <2>i. PICK i \in Ids : i = worker.id
      BY <1>8, <1>w DEF Finish, At
    <2> DEFINE o == worker.outcome
               expected == {"running", "cancelling"}
               s == IF o.status = "other" THEN "failed" ELSE o.status
    <2>1. expected \in SUBSET ACTIVE /\ o \in JobOutcome
      BY <1>0, <1>8, <1>s DEF Finish, At, ServiceInv
    <2>2. o \in Outcome /\ s \in TERMINAL
      BY <2>1, EndingsAreFinal
    <2>3. s \in STORED /\ s # "queued"
      BY <2>2 DEF STORED, TERMINAL
    <2>4. s # "interrupted"
      <3>1. RunStatuses \subseteq {"completed", "partial", "failed", "cancelled", "other"}
        BY StoreAssumption
      <3>2. o.status \in {"completed", "partial", "failed", "cancelled", "other"}
        <4>1. CancelledOutcome.status = "cancelled"
          BY DEF CancelledOutcome
        <4>2. \A p \in RunOutcome :
                p.status \in {"completed", "partial", "failed", "cancelled", "other"}
          BY <3>1 DEF RunOutcome
        <4> HIDE DEF o
        <4>3. QED BY <2>1, <4>1, <4>2 DEF JobOutcome
      <3>3. QED BY <3>2
    <2>5. UNCHANGED investigations \/ Transition(i, expected, s, o)
      BY <1>8, <2>i DEF Finish, FinishJob, allStoreVars, storeVars
    <2> HIDE DEF o, expected, s
    <2>6. Transition(i, expected, s, o) =>
            IF investigations[i].state \in expected
            THEN JobStates' = [JobStates EXCEPT ![i] = s] ELSE UNCHANGED JobStates
      BY <1>0, <2>1, <2>2, <2>3, MovedStates
    <2>7. investigations[i].state \in expected /\ JobStates' = [JobStates EXCEPT ![i] = s]
            => Lifecycle!End(i)
      <3>1. s \in Lifecycle!Ended \ {"interrupted"}
        BY <2>2, <2>4, LifecycleStates
      <3>2. QED BY <2>1, <3>1 DEF Lifecycle!End, JobStates, expected
    <2>8. UNCHANGED investigations => UNCHANGED JobStates
      BY DEF JobStates
    <2>9. QED BY <2>1, <2>5, <2>6, <2>7, <2>8, OneJobSteps
  <1>9. CASE Fail
    <2>i. PICK i \in Ids : i = worker.id
      BY <1>9, <1>w DEF Fail, At
    <2> DEFINE s == "failed"
    <2>1. s \in STORED /\ s # "queued" /\ s \in TERMINAL \ {"interrupted"}
      BY <1>s DEF TERMINAL
    <2>2. Transition(i, ACTIVE, s, FailedOutcome)
      BY <1>9, <2>i DEF Fail, FailJob
    <2> HIDE DEF s
    <2>3. IF investigations[i].state \in ACTIVE
          THEN JobStates' = [JobStates EXCEPT ![i] = s] ELSE UNCHANGED JobStates
      BY <1>0, <1>s, <2>1, <2>2, MovedStates
    <2>4. investigations[i].state \in ACTIVE /\ JobStates' = [JobStates EXCEPT ![i] = s]
            => Lifecycle!End(i)
      <3>1. s \in Lifecycle!Ended \ {"interrupted"} /\ s = "failed"
        BY <2>1, LifecycleStates DEF s
      <3>2. QED BY <1>s, <2>1, <3>1 DEF Lifecycle!End, JobStates
    <2>5. QED BY <2>1, <2>3, <2>4, OneJobSteps
  <1>10. CASE \/ Enqueue \/ Take \/ LoadSnapshot \/ Decide \/ RunnerReturns
              \/ Recheck \/ Cleanup \/ Leave \/ StoreFails \/ TimePasses
              \/ CloseFlag \/ CloseSignal \/ Terminate \/ UNCHANGED vars
    <2>1. UNCHANGED investigations
      BY <1>10 DEF Enqueue, Take, LoadSnapshot, Decide, RunnerReturns, Recheck,
           Cleanup, Leave, StoreFails, CloseFlag, CloseSignal, Terminate, TimePasses,
           Tick, vars, allStoreVars, storeVars
    <2>2. QED BY <1>1, <2>1
  <1>11. QED
    BY <1>2, <1>3, <1>4, <1>5, <1>6, <1>7, <1>8, <1>9, <1>10
       DEF ServiceNext, Handlers, WorkerStep, Process

\* As long as the store does not fail the worker, clients see the job lifecycle.
THEOREM ServiceImplementsLifecycle ==
  ASSUME MaxFaults = 0
  PROVE  Spec => ImplementsLifecycle
  <1>1. Spec => []JobInv
    BY JobInvInit, JobInvStep, PTL DEF Spec
  <1>2. ServiceInit => Lifecycle!Init
    BY DEF ServiceInit, Init, Lifecycle!Init, NoRow
  <1>3. JobInv /\ [ServiceNext]_vars => [Lifecycle!Next]_JobStates
    BY LifecycleStep
  <1>4. QED
    BY <1>1, <1>2, <1>3, PTL
       DEF Spec, ImplementsLifecycle, Lifecycle!Spec, JobStates
=============================================================================
