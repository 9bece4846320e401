------------------------------ MODULE Supervisor ------------------------------
(***************************************************************************)
(* One assistant job in a private child process:                           *)
(* cmd/thesis_demo/assistant_supervisor.py (_run_child, _stop_group and    *)
(* the last check of run_in_worker) with assistant_worker.py as the child. *)
(*                                                                         *)
(* The parent writes the job into one pipe and reads the answer from the   *)
(* other, without blocking on either; it watches the cancel event and the  *)
(* deadline; whatever ends the loop, the child's process group is stopped  *)
(* before an outcome is returned.  Bytes are counted in blocks of 4096.    *)
(* The child may leave a helper process behind that holds its pipes.       *)
(***************************************************************************)
EXTENDS Naturals, FiniteSets

CONSTANTS
    JobSizes,      \* lengths a job may have
    MaxJob,        \* MAX_JOB_BYTES
    OutputSizes,   \* lengths of what the child prints
    MaxPipe,       \* MAX_PIPE_BYTES
    PipeSize,      \* what the kernel holds of one pipe
    Deadline,      \* limits.wall_seconds
    MaxClock       \* bound on the clock, for model checking

SupervisorAssumption ==
    /\ JobSizes \subseteq Nat \ {0} /\ OutputSizes \subseteq Nat \ {0}
    /\ {MaxJob, MaxPipe, Deadline, MaxClock} \subseteq Nat
    /\ PipeSize \in Nat \ {0}
    /\ Deadline < MaxClock

VARIABLES
    clock, cancel,      \* time since the start; the service's cancel event
    pc,                 \* where _run_child is
    ready,              \* pipes the selector reported in this round
    job, offset,        \* length of the payload, and how much is written
    stdin, stdout,      \* pipes still registered with the selector
    output,             \* blocks read
    reason,             \* why the loop was left, or "none"
    result,             \* what is returned
    child,              \* the worker process
    helper,             \* another process of its group is alive
    taken, printed,     \* blocks the child has read, and has written
    called              \* history: the child has asked the provider

parentVars == <<pc, ready, job, offset, stdin, stdout, output, reason, result>>
childVars == <<child, helper, taken, printed, called>>
vars == <<clock, cancel, parentVars, childVars>>

NoResult == [code |-> "none", started |-> FALSE]
\* _failure: what is not started has used nothing.
Failure(code, started) == [code |-> code, started |-> started]
FromChild == [code |-> "CHILD", started |-> TRUE]

\* state: the process; step: where its main() is; doc: what it prints.
NoChild == [state |-> "none", step |-> "read", doc |-> "none", length |-> 0,
            exit |-> 0]
Docs == {"report", "invalid", "failed", "garbage"}

GroupAlive == child.state = "alive" \/ helper

-----------------------------------------------------------------------------
(* The parent: _run_child *)

\* Before there is a process.
Refuse ==
    /\ pc = "start"
    /\ \E n \in JobSizes :
         /\ job' = n
         /\ \/ n > MaxJob /\ result' = Failure("JOB_BUDGET", FALSE)
            \/ n <= MaxJob /\ cancel /\ result' = Failure("CANCELLED", FALSE)
            \/ n <= MaxJob /\ ~cancel
                 /\ result' = Failure("WORKER_UNAVAILABLE", FALSE)
    /\ pc' = "done"
    /\ UNCHANGED <<clock, cancel, ready, offset, stdin, stdout, output, reason,
                   childVars>>

Spawn ==
    /\ pc = "start" /\ ~cancel
    /\ job' \in {n \in JobSizes : n <= MaxJob}
    /\ child' = [NoChild EXCEPT !.state = "alive"]
    /\ helper' \in BOOLEAN
    /\ stdin' = TRUE /\ stdout' = TRUE
    /\ pc' = "loop"
    /\ UNCHANGED <<clock, cancel, ready, offset, output, reason, result, taken,
                   printed, called>>

\* Mutant: the end of the child is awaited before its answer is read.
RoundWaitsFirst ==
    /\ pc = "loop"
    /\ IF ~stdin
       THEN pc' = "wait" /\ UNCHANGED <<ready, reason>>
       ELSE IF cancel
       THEN pc' = "term" /\ reason' = "CANCELLED" /\ UNCHANGED ready
       ELSE IF clock >= Deadline
       THEN pc' = "term" /\ reason' = "DEADLINE" /\ UNCHANGED ready
       ELSE pc' = "select" /\ UNCHANGED reason /\ ready' = {"stdin"}
    /\ UNCHANGED <<clock, cancel, job, offset, stdin, stdout, output, result,
                   childVars>>
\* The top of the loop: the event, then the clock, then the selector.
Round ==
    /\ pc = "loop"
    /\ IF ~stdin /\ ~stdout
       THEN pc' = "wait" /\ UNCHANGED <<ready, reason>>
       ELSE IF cancel
       THEN pc' = "term" /\ reason' = "CANCELLED" /\ UNCHANGED ready
       ELSE IF clock >= Deadline
       THEN pc' = "term" /\ reason' = "DEADLINE" /\ UNCHANGED ready
       ELSE pc' = "select" /\ UNCHANGED reason
            /\ ready' = (IF stdin /\ (offset - taken < PipeSize \/ ~GroupAlive)
                         THEN {"stdin"} ELSE {})
                        \cup (IF stdout /\ (printed > output \/ ~GroupAlive)
                              THEN {"stdout"} ELSE {})
    /\ UNCHANGED <<clock, cancel, job, offset, stdin, stdout, output, result,
                   childVars>>

\* One block into the child's stdin; a broken pipe ends the writing.
Write ==
    /\ pc = "select" /\ "stdin" \in ready
    /\ ready' = ready \ {"stdin"}
    /\ offset' = IF GroupAlive THEN offset + 1 ELSE job
    /\ stdin' = (offset' < job)
    /\ UNCHANGED <<clock, cancel, pc, job, stdout, output, reason, result,
                   childVars>>

\* One block from its stdout; nothing to read means nobody can write any more.
Read ==
    /\ pc = "select" /\ "stdout" \in ready
    /\ ready' = ready \ {"stdout"}
    /\ IF printed > output
       THEN /\ output' = output + 1
            /\ UNCHANGED stdout
            /\ IF output' > MaxPipe
               THEN pc' = "term" /\ reason' = "PIPE_BUDGET"
               ELSE UNCHANGED <<pc, reason>>
       ELSE stdout' = FALSE /\ UNCHANGED <<pc, reason, output>>
    /\ UNCHANGED <<clock, cancel, job, offset, stdin, result, childVars>>

\* Nothing is ready any more, or select() timed out.
NextRound ==
    /\ pc = "select" /\ ready = {}
    /\ pc' = "loop"
    /\ UNCHANGED <<clock, cancel, ready, job, offset, stdin, stdout, output,
                   reason, result, childVars>>

\* process.wait for what is left of the time.
WaitChild ==
    /\ pc = "wait"
    /\ \/ /\ child.state = "zombie"
          /\ child' = [child EXCEPT !.state = "reaped"]
          /\ pc' = "parse" /\ UNCHANGED reason
       \/ /\ child.state = "alive" /\ clock >= Deadline
          /\ pc' = "term" /\ reason' = "DEADLINE" /\ UNCHANGED child
    /\ UNCHANGED <<clock, cancel, ready, job, offset, stdin, stdout, output,
                   result, helper, taken, printed, called>>

Parseable == child.doc # "garbage" /\ output = child.length
\* json.loads, the status of the document, then the exit status.
Parse ==
    /\ pc = "parse"
    /\ result' = IF ~Parseable THEN Failure("PROTOCOL", TRUE)
                 ELSE IF child.exit # 0 THEN Failure("WORKER_FAILURE", TRUE)
                 ELSE FromChild
    /\ pc' = "term"
    /\ UNCHANGED <<clock, cancel, ready, job, offset, stdin, stdout, output,
                   reason, childVars>>

\* The value of the return statement under way.
Returned == IF reason = "none" THEN result ELSE Failure(reason, TRUE)

Killed == IF child.state = "alive"
          THEN [child EXCEPT !.state = "zombie", !.exit = 1] ELSE child

\* _stop_group: SIGTERM, which a process may ignore; a short wait; SIGKILL to
\* whatever is left of the group; reaping.  The pipes are closed after it.
Term ==
    /\ pc = "term"
    /\ result' = Returned
    /\ child' \in {child, Killed}
    /\ helper' \in {helper, FALSE}
    /\ pc' = "grace"
    /\ UNCHANGED <<clock, cancel, ready, job, offset, stdin, stdout, output,
                   reason, taken, printed, called>>

Grace ==
    /\ pc = "grace"
    /\ child' = IF child.state = "zombie"
                THEN [child EXCEPT !.state = "reaped"] ELSE child
    /\ pc' = "kill"
    /\ UNCHANGED <<clock, cancel, ready, job, offset, stdin, stdout, output,
                   reason, result, helper, taken, printed, called>>

\* Mutant: a child that is already reaped is not killed again.
KillLeaderOnly ==
    /\ pc = "kill"
    /\ child' = Killed
    /\ helper' = (helper /\ child.state = "reaped")
    /\ pc' = "reap"
    /\ UNCHANGED <<clock, cancel, ready, job, offset, stdin, stdout, output,
                   reason, result, taken, printed, called>>
Kill ==
    /\ pc = "kill"
    /\ child' = Killed
    /\ helper' = FALSE
    /\ pc' = "reap"
    /\ UNCHANGED <<clock, cancel, ready, job, offset, stdin, stdout, output,
                   reason, result, taken, printed, called>>

Reap ==
    /\ pc = "reap"
    /\ child' = [child EXCEPT !.state = "reaped"]
    /\ stdin' = FALSE /\ stdout' = FALSE
    /\ pc' = "done"
    /\ UNCHANGED <<clock, cancel, ready, job, offset, output, reason, result,
                   helper, taken, printed, called>>

\* run_in_worker: a completed report is validated again by the parent.
Revalidate ==
    /\ pc = "done"
    /\ result' = IF result = FromChild /\ child.doc = "invalid"
                 THEN Failure("REPORT_INVALID", TRUE) ELSE result
    /\ pc' = "returned"
    /\ UNCHANGED <<clock, cancel, ready, job, offset, stdin, stdout, output,
                   reason, childVars>>

-----------------------------------------------------------------------------
(* The child: assistant_worker.main *)

Alive == child.state = "alive"
At(step) == Alive /\ child.step = step

\* stdin.read(MAX_JOB_BYTES + 1): a block at a time, to the end of the pipe.
Take ==
    /\ At("read") /\ taken < offset
    /\ taken' = taken + 1
    /\ UNCHANGED <<clock, cancel, parentVars, child, helper, printed, called>>

\* The job is complete: the workflow runs, and asks the provider or fails.
Work ==
    /\ At("read") /\ ~stdin /\ taken = offset
    /\ \E doc \in Docs, n \in OutputSizes :
         child' = [child EXCEPT !.step = "print", !.doc = doc, !.length = n]
    /\ called' \in BOOLEAN
    /\ UNCHANGED <<clock, cancel, parentVars, helper, taken, printed>>

Emit ==
    /\ At("print") /\ printed < child.length /\ printed - output < PipeSize
    /\ printed' = printed + 1
    /\ UNCHANGED <<clock, cancel, parentVars, child, helper, taken, called>>

\* The end of main().  The workflow reports a failure and ends well; an
\* exception prints a failure too, and exit status 1 follows.
Exit ==
    /\ At("print") /\ printed = child.length
    /\ \E exit \in {0, 1} :
         /\ exit = 1 => child.doc = "failed"
         /\ child' = [child EXCEPT !.state = "zombie", !.exit = exit]
    /\ UNCHANGED <<clock, cancel, parentVars, helper, taken, printed, called>>

\* The child dies at any point: out of memory, a signal.
Crash ==
    /\ Alive
    /\ child' = [child EXCEPT !.state = "zombie", !.exit = 1]
    /\ UNCHANGED <<clock, cancel, parentVars, helper, taken, printed, called>>

HelperEnds ==
    /\ helper
    /\ helper' = FALSE
    /\ UNCHANGED <<clock, cancel, parentVars, child, taken, printed, called>>

-----------------------------------------------------------------------------
\* The event is set by cancel() or close(); time.monotonic() goes on.
Cancel ==
    /\ ~cancel /\ cancel' = TRUE
    /\ UNCHANGED <<clock, parentVars, childVars>>

Tick ==
    /\ pc # "start" /\ clock < MaxClock
    /\ clock' = clock + 1
    /\ UNCHANGED <<cancel, parentVars, childVars>>

Init ==
    /\ clock = 0 /\ cancel \in BOOLEAN
    /\ pc = "start" /\ ready = {} /\ job = 0 /\ offset = 0
    /\ stdin = FALSE /\ stdout = FALSE /\ output = 0
    /\ reason = "none" /\ result = NoResult
    /\ child = NoChild /\ helper = FALSE
    /\ taken = 0 /\ printed = 0 /\ called = FALSE

Parent == Refuse \/ Spawn \/ Round \/ Write \/ Read \/ NextRound \/ WaitChild
          \/ Parse \/ Term \/ Grace \/ Kill \/ Reap \/ Revalidate
Worker == Take \/ Work \/ Emit \/ Exit

Next == Parent \/ Worker \/ Crash \/ HelperEnds \/ Cancel \/ Tick

Spec == Init /\ [][Next]_vars

\* The parent's thread runs and time passes; the child may hang for ever.
DeadlineSpec == Spec /\ WF_vars(Parent) /\ WF_vars(Tick)
\* Both processes run, helpers end, and time may stand still.
HealthySpec == Spec /\ WF_vars(Parent) /\ WF_vars(Worker) /\ WF_vars(HelperEnds)

-----------------------------------------------------------------------------
(* Properties *)

SupervisorTypeOK ==
    /\ clock \in 0..MaxClock /\ cancel \in BOOLEAN
    /\ pc \in {"start", "loop", "select", "wait", "parse", "term", "grace",
               "kill", "reap", "done", "returned"}
    /\ ready \subseteq {"stdin", "stdout"}
    /\ job \in JobSizes \cup {0} /\ offset \in 0..job
    /\ stdin \in BOOLEAN /\ stdout \in BOOLEAN
    /\ output \in Nat /\ printed \in Nat /\ taken \in Nat
    /\ output <= printed /\ taken <= offset
    /\ child.state \in {"none", "alive", "zombie", "reaped"}
    /\ helper \in BOOLEAN /\ called \in BOOLEAN

\* When an outcome is returned no process of the job's group is left, whoever
\* won the race: _stop_group reaches a helper that outlived its parent.
NothingLeftBehind ==
    pc \in {"done", "returned"} =>
        child.state \in {"none", "reaped"} /\ ~helper

\* What the child printed is returned only when it was read to the end, by a
\* child that ended well; a report is returned only when it is valid.
OnlyWholeReports ==
    pc = "returned" /\ result = FromChild =>
        /\ output = printed /\ printed = child.length /\ child.exit = 0
        /\ child.doc \in {"report", "failed"}

\* An outcome that claims complete accounting without a report of the child
\* comes from a job that never reached the provider.
AccountingHonest == pc = "returned" /\ ~result.started => ~called

\* Every job returns, also with a child that hangs, floods its pipe, ignores
\* SIGTERM or leaves a helper with its pipes behind.
Returns == <>(pc = "returned")

\* The two pipes cannot block each other: between a parent and a child that
\* both run, a job ends without any help of the deadline.
PipesDrain == <>(pc = "returned")

-----------------------------------------------------------------------------
(* What every step keeps, and the safety properties follow from. *)

Children == [state : {"none", "alive", "zombie", "reaped"}, step : {"read", "print"},
             doc : Docs \cup {"none"}, length : Nat, exit : {0, 1}]
Reasons == {"none", "CANCELLED", "DEADLINE", "PIPE_BUDGET"}
Codes == Reasons \cup {"JOB_BUDGET", "WORKER_UNAVAILABLE", "PROTOCOL",
                       "WORKER_FAILURE", "REPORT_INVALID", "CHILD"}

\* Nothing has happened before there is a process, and what is registered for
\* writing still has something to write.
BeforeSpawn ==
    /\ pc = "start" => /\ child = NoChild /\ ~helper /\ ~called
                       /\ offset = 0 /\ taken = 0 /\ printed = 0 /\ output = 0
    /\ stdin => offset < job
    /\ pc = "select" /\ "stdin" \in ready => stdin

\* The state of the child at each place of the parent after the loop.
ChildFollowed ==
    /\ pc \in {"reap", "done", "returned"} => ~helper
    /\ pc \notin {"start", "done", "returned"} => child.state # "none"
    /\ pc = "reap" => child.state \in {"zombie", "reaped"}
    /\ pc \in {"parse", "done", "returned"} => child.state \in {"none", "reaped"}
    /\ called => child.state # "none"
    /\ child.step = "print" => child.doc \in Docs
    /\ child.state \in {"zombie", "reaped"} /\ child.exit = 0 =>
         child.doc \in Docs /\ printed = child.length

\* A result is there once the loop was left for no other reason, and is the
\* child's only when all was read of one that ended well.
ResultEarned ==
    /\ pc \in {"start", "loop", "select", "wait", "parse"} => result = NoResult
    /\ pc = "term" /\ reason = "none" => result.started
    /\ pc \in {"grace", "kill", "reap"} => result.started
    /\ pc \in {"done", "returned"} /\ ~result.started => ~called
    /\ result = FromChild =>
         /\ child.state = "reaped" /\ child.exit = 0
         /\ child.doc # "garbage" /\ output = child.length
         /\ pc = "returned" => child.doc # "invalid"

SupervisorInv ==
    /\ SupervisorTypeOK /\ child \in Children /\ reason \in Reasons
    /\ result \in [code : Codes, started : BOOLEAN]
    /\ BeforeSpawn /\ ChildFollowed /\ ResultEarned
=============================================================================
