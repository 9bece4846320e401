---------------------------- MODULE JobLifecycle ----------------------------
(***************************************************************************)
(* What a client of the investigation workspace is promised about jobs,    *)
(* with no queue, thread, lock or database in sight: a job is accepted     *)
(* while fewer than Capacity are unfinished, moves forward through its     *)
(* states, ends once per question, and may disappear with its snapshot.    *)
(* InvestigationService is shown to implement this specification.          *)
(***************************************************************************)
EXTENDS Integers, FiniteSets

CONSTANTS Ids, Capacity

VARIABLE job       \* the state of each investigation, as a client reads it

Unfinished == {"queued", "running", "cancelling"}
Ended == {"completed", "partial", "failed", "cancelled", "interrupted"}

Init == job = [i \in Ids |-> "free"]

\* The jobs in gone disappear in the transaction that accepts i.
Accept(i, gone) ==
    /\ job[i] \in {"free"} \cup Ended
    /\ Cardinality({j \in Ids \ gone : job[j] \in Unfinished}) < Capacity
    /\ job' = [j \in Ids |-> IF j = i THEN "queued"
                             ELSE IF j \in gone THEN "deleted" ELSE job[j]]

Begin(i) ==
    /\ job[i] = "queued"
    /\ job' = [job EXCEPT ![i] = "running"]

AskToCancel(i) ==
    /\ job[i] \in {"queued", "running"}
    /\ job' = [job EXCEPT ![i] = "cancelling"]

\* A job that was not begun can only be cancelled or failed, not completed.
End(i) ==
    /\ \/ /\ job[i] \in {"running", "cancelling"}
          /\ \E s \in Ended \ {"interrupted"} : job' = [job EXCEPT ![i] = s]
       \/ /\ job[i] = "queued"
          /\ job' = [job EXCEPT ![i] = "failed"]

Restart ==
    job' = [i \in Ids |-> IF job[i] \in Unfinished THEN "interrupted" ELSE job[i]]

Remove(gone) ==
    job' = [i \in Ids |-> IF i \in gone THEN "deleted" ELSE job[i]]

Next ==
    \/ Restart
    \/ \E i \in Ids : Begin(i) \/ AskToCancel(i) \/ End(i)
    \/ \E gone \in SUBSET {i \in Ids : job[i] \notin {"free", "deleted"}} :
         \/ Remove(gone)
         \/ \E i \in Ids \ gone : Accept(i, gone)

Spec == Init /\ [][Next]_job
=============================================================================
