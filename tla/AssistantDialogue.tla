--------------------------- MODULE AssistantDialogue ---------------------------
(***************************************************************************)
(* The conversation with the model inside one assistant job:               *)
(* run_with_tools of cmd/thesis_demo/assistant_workflow.py and, with mode  *)
(* "snapshot", run_snapshot of assistant_runner.py, over the tool gateway  *)
(* of assistant_tools.py.  Both ask, read the answer, and go on until a    *)
(* report is accepted or a limit is met.                                   *)
(*                                                                         *)
(* The provider is outside: it answers with any report or any batch of     *)
(* tool calls, with any token usage, or fails.  The estimate of a request  *)
(* (assistant_budget.py) is any number of a small set: with or without a   *)
(* verified tokenizer it only bounds what is asked.                        *)
(***************************************************************************)
EXTENDS Naturals, Sequences, FiniteSets, SequencesExt

CONSTANTS
    ModelCalls, ToolCalls, ToolSteps, InputTokens, OutputTokens, WallSeconds,
                    \* AssistantLimits
    FinalReserve,   \* the 2000 tokens kept for a final report
    Estimates,      \* what reserve_input may return
    Inputs, Outputs,\* tokens a reply may report
    CallIds,        \* identifiers the model gives its calls
    Requests,       \* tool name with arguments, by their fingerprint
    Rejected,       \* requests the gateway refuses
    Runbooks,       \* requests that read a runbook section
    MaxBatch        \* calls in one reply; at most 16 output items in the code

DialogueAssumption ==
    /\ {ModelCalls, ToolCalls, ToolSteps, InputTokens, OutputTokens,
        WallSeconds, MaxBatch} \subseteq Nat \ {0}
    /\ FinalReserve \in Nat
    /\ Estimates \subseteq Nat /\ Inputs \subseteq Nat /\ Outputs \subseteq Nat
    /\ Rejected \subseteq Requests /\ Runbooks \subseteq Requests \ Rejected

VARIABLES
    mode,        \* "snapshot" or "tools"
    followUp,    \* there is a prior discussion
    clock, cancel,
    pc,
    step,        \* iterations begun
    finalOnly,   \* tools are closed for the request under way
    repaired,    \* a structural repair has been asked for
    usage,       \* result["usage"]
    history,     \* calls and outputs replayed to the model, in order
    answered,    \* seen_requests, in the order their outputs were recorded
    consulted,   \* runbook sections the model was given
    batch,       \* calls of the reply whose outputs are not recorded yet
    cites,       \* the runbooks cited by the accepted report
    result,      \* stop_reason
    spent        \* history: tokens the provider has really consumed

vars == <<mode, followUp, clock, cancel, pc, step, finalOnly, repaired, usage,
          history, answered, consulted, batch, cites, result, spent>>
dialogue == <<history, answered, consulted, batch>>

Calls == [id : CallIds, request : Requests]
Zero == [model |-> 0, tools |-> 0, steps |-> 0, input |-> 0, output |-> 0,
         complete |-> TRUE]
\* The loop of run_snapshot: one answer and at most one repair.
SnapshotCalls == IF ModelCalls < 2 THEN ModelCalls ELSE 2

Interrupted == cancel \/ clock >= WallSeconds
\* active() and stop()
InterruptCode == IF cancel THEN "CANCELLED" ELSE "DEADLINE"
Stop(code) == pc' = "done" /\ result' = code

-----------------------------------------------------------------------------
(* One iteration *)

\* The decision to close the tools, before a request is built; p is the
\* estimate of a planning turn, f of a final one.
Closed(p, f) ==
    \/ step = ModelCalls - 1
    \/ usage.steps >= ToolSteps
    \/ usage.tools >= ToolCalls
    \/ repaired
    \/ step = 0 /\ followUp /\ p + f > InputTokens
    \/ step > 0 /\ usage.input + 2 * p + FinalReserve > InputTokens
\* What reserve_input says of the request that is built.
Estimate(p, f) == IF finalOnly' THEN f ELSE p
Request(p, f) ==
    IF Estimate(p, f) + usage.input > InputTokens
    THEN Stop("INPUT_BUDGET") /\ UNCHANGED usage
    ELSE /\ usage' = [usage EXCEPT !.model = @ + 1]
         /\ pc' = "ask" /\ UNCHANGED result

\* From the top of the loop of run_with_tools to the request.
Begin ==
    /\ pc = "top" /\ mode = "tools"
    /\ IF step = ModelCalls
       THEN Stop("MODEL_BUDGET") /\ UNCHANGED <<finalOnly, usage>>
       ELSE IF Interrupted
       THEN Stop(InterruptCode) /\ UNCHANGED <<finalOnly, usage>>
       ELSE \E p \in Estimates, f \in Estimates :
              finalOnly' = Closed(p, f) /\ Request(p, f)
    /\ UNCHANGED <<mode, followUp, clock, cancel, step, repaired, dialogue,
                   cites, spent>>
\* The same for run_snapshot, which has no tools.
BeginSnapshot ==
    /\ pc = "top" /\ mode = "snapshot"
    /\ IF step = SnapshotCalls
       THEN Stop("INVALID_REPORT") /\ UNCHANGED <<finalOnly, usage>>
       ELSE IF Interrupted
       THEN Stop(InterruptCode) /\ UNCHANGED <<finalOnly, usage>>
       ELSE \E f \in Estimates : finalOnly' = TRUE /\ Request(f, f)
    /\ UNCHANGED <<mode, followUp, clock, cancel, step, repaired, dialogue,
                   cites, spent>>

\* Mutant: a failed call is not noted as unaccounted.
FailUnnoted ==
    /\ pc = "ask"
    /\ Stop("PROVIDER_FAILURE")
    /\ spent' \in {spent} \cup {spent + n : n \in Inputs}
    /\ UNCHANGED <<mode, followUp, clock, cancel, step, finalOnly, repaired,
                   usage, dialogue, cites>>
\* complete() raises, or reports a usage that is none: it may have sent
\* nothing, or have used tokens nobody can count.
Fail ==
    /\ pc = "ask"
    /\ Stop("PROVIDER_FAILURE")
    /\ usage' = [usage EXCEPT !.complete = FALSE]
    /\ spent' \in {spent} \cup {spent + n : n \in Inputs}
    /\ UNCHANGED <<mode, followUp, clock, cancel, step, finalOnly, repaired,
                   dialogue, cites>>

\* A reply with its usage.  Nothing is sent once the job is cancelled or no
\* time is left.
Reply ==
    /\ pc = "ask" /\ ~Interrupted
    /\ \E in \in Inputs, out \in Outputs :
         /\ usage' = [usage EXCEPT !.input = @ + in, !.output = @ + out]
         /\ spent' = spent + in + out
    /\ pc' = "replied"
    /\ UNCHANGED <<mode, followUp, clock, cancel, step, finalOnly, repaired,
                   dialogue, cites, result>>

OverBudget == usage.input > InputTokens \/ usage.output > OutputTokens
Examine ==
    /\ pc = "replied"
    /\ IF Interrupted THEN Stop(InterruptCode)
       ELSE IF OverBudget THEN Stop("USAGE_BUDGET")
       ELSE /\ pc' \in IF mode = "tools" THEN {"tools", "report"} ELSE {"report"}
            /\ UNCHANGED result
    /\ UNCHANGED <<mode, followUp, clock, cancel, step, finalOnly, repaired,
                   usage, dialogue, cites, spent>>

\* What a batch repeats: its own calls, or one already answered.
Distinct(calls) ==
    \A m, n \in DOMAIN calls : m # n =>
        calls[m].id # calls[n].id /\ calls[m].request # calls[n].request
Repeats(calls) ==
    \/ ~Distinct(calls)
    \/ \E n \in DOMAIN calls :
         \/ calls[n].request \in ToSet(answered)
         \/ \E h \in DOMAIN history : history[h].id = calls[n].id
Call(c) == [kind |-> "call", id |-> c.id, request |-> c.request]
Output(c) == [kind |-> "output", id |-> c.id, request |-> c.request]

\* SnapshotTools.execute on each call: what it refuses, by name, arguments,
\* scope or size, is a request of Rejected.
Refused(calls) == \E n \in DOMAIN calls : calls[n].request \in Rejected

\* A reply with tool calls: the whole batch is checked and read before the
\* model's items are added to the history.  Which of several faults is found
\* first only decides the code.
TakeBatch ==
    /\ pc = "tools"
    /\ \E n \in 1..MaxBatch : \E calls \in [1..n -> Calls] :
         IF finalOnly THEN Stop("UNEXPECTED_TOOL_CALL")
                           /\ UNCHANGED <<usage, history, batch>>
         ELSE IF usage.tools + n > ToolCalls
         THEN Stop("TOOL_BUDGET") /\ UNCHANGED <<usage, history, batch>>
         ELSE IF Repeats(calls)
         THEN Stop("REPEATED_TOOL_CALL") /\ UNCHANGED <<usage, history, batch>>
         ELSE IF Refused(calls)
         THEN Stop("TOOL_REJECTED") /\ UNCHANGED <<usage, history, batch>>
         ELSE /\ history' = history \o [m \in 1..n |-> Call(calls[m])]
              /\ usage' = [usage EXCEPT !.steps = @ + 1]
              /\ batch' = calls
              /\ pc' = "record" /\ UNCHANGED result
    /\ UNCHANGED <<mode, followUp, clock, cancel, step, finalOnly, repaired,
                   answered, consulted, cites, spent>>

\* The outputs are recorded one by one.
Record ==
    /\ pc = "record"
    /\ IF batch = <<>>
       THEN /\ pc' = "top" /\ step' = step + 1
            /\ UNCHANGED <<usage, dialogue, result>>
       ELSE IF Interrupted
       THEN Stop(InterruptCode) /\ UNCHANGED <<step, usage, dialogue>>
       ELSE LET c == Head(batch) IN
            /\ answered' = Append(answered, c.request)
            /\ consulted' = consulted \cup ({c.request} \cap Runbooks)
            /\ usage' = [usage EXCEPT !.tools = @ + 1]
            /\ history' = Append(history, Output(c))
            /\ batch' = Tail(batch)
            /\ UNCHANGED <<pc, step, result>>
    /\ UNCHANGED <<mode, followUp, clock, cancel, finalOnly, repaired, cites,
                   spent>>

\* A rejected report is answered with its code, once.
Repair ==
    /\ repaired' = TRUE /\ step' = step + 1
    /\ pc' = "top" /\ UNCHANGED result
\* parse_report accepts or rejects; a report that cites a runbook nobody read
\* is rejected as well.
Report ==
    /\ pc = "report" /\ mode = "tools"
    /\ \/ /\ cites' \in SUBSET consulted
          /\ Stop("REPORT_VALIDATED") /\ UNCHANGED <<step, repaired>>
       \/ /\ UNCHANGED cites
          /\ IF repaired
             THEN Stop("INVALID_REPORT") /\ UNCHANGED <<step, repaired>>
             ELSE Repair
    /\ UNCHANGED <<mode, followUp, clock, cancel, finalOnly, usage, dialogue,
                   spent>>
\* run_snapshot leaves the end of its attempts to the loop.
ReportSnapshot ==
    /\ pc = "report" /\ mode = "snapshot"
    /\ \/ Stop("REPORT_VALIDATED") /\ UNCHANGED <<step, repaired>>
       \/ Repair
    /\ UNCHANGED <<mode, followUp, clock, cancel, finalOnly, usage, dialogue,
                   cites, spent>>

-----------------------------------------------------------------------------
Tick ==
    /\ clock < WallSeconds /\ clock' = clock + 1 /\ pc # "done"
    /\ UNCHANGED <<mode, followUp, cancel, pc, step, finalOnly, repaired, usage,
                   dialogue, cites, result, spent>>
Cancel ==
    /\ ~cancel /\ cancel' = TRUE /\ pc # "done"
    /\ UNCHANGED <<mode, followUp, clock, pc, step, finalOnly, repaired, usage,
                   dialogue, cites, result, spent>>

Init ==
    /\ mode \in {"snapshot", "tools"} /\ followUp \in BOOLEAN
    /\ clock = 0 /\ cancel = FALSE /\ pc = "top" /\ step = 0
    /\ finalOnly = FALSE /\ repaired = FALSE /\ usage = Zero
    /\ history = <<>> /\ answered = <<>> /\ consulted = {} /\ batch = <<>>
    /\ cites = {} /\ result = "none" /\ spent = 0

Progress == Begin \/ BeginSnapshot \/ Fail \/ Reply \/ Examine \/ TakeBatch
            \/ Record \/ Report \/ ReportSnapshot
Next == Progress \/ Tick \/ Cancel
Spec == Init /\ [][Next]_vars
\* The worker process runs; every request to the provider has a timeout.
FairSpec == Spec /\ WF_vars(Progress)

-----------------------------------------------------------------------------
(* Properties *)

Entries == [kind : {"call", "output"}, id : CallIds, request : Requests]
DialogueTypeOK ==
    /\ pc \in {"top", "ask", "replied", "tools", "record", "report", "done"}
    /\ usage.model \in 0..ModelCalls /\ usage.tools \in 0..ToolCalls
    /\ usage.steps \in 0..ToolSteps
    /\ history \in Seq(Entries)
    /\ answered \in Seq(Requests) /\ batch \in Seq(Calls)
    /\ consulted \subseteq Runbooks /\ cites \subseteq Runbooks

\* Whatever path the conversation took, an accepted report has cost no more
\* tokens than allowed, all of them counted.
ReportWithinLimits ==
    pc = "done" /\ result = "REPORT_VALIDATED" =>
        /\ usage.input <= InputTokens /\ usage.output <= OutputTokens
        /\ spent = usage.input + usage.output

\* No request is answered twice, across batches and inside one.
NoRepeatedRead == IsInjective(answered)

\* Whenever the model is asked again, every call in the history it is sent has
\* exactly one output: a store=false continuation is refused otherwise.
ContinuationPaired ==
    pc = "ask" =>
        \A h \in DOMAIN history : history[h].kind = "call" =>
            Cardinality({o \in DOMAIN history :
                history[o] = [history[h] EXCEPT !.kind = "output"]}) = 1

\* A repair does not reopen the tools: nothing more is read after it.
RepairIsLast == [][repaired => answered' = answered /\ history' = history]_vars

\* A report cites only sections that the model was shown before it was asked.
CitesOnlyRead ==
    \A c \in cites : \E h \in DOMAIN history :
        history[h].kind = "output" /\ history[h].request = c

\* What is called complete accounting is what the provider consumed, also
\* after failures, repairs and interruptions.
AccountingComplete ==
    pc = "done" /\ usage.complete => spent = usage.input + usage.output

\* Every conversation ends, whatever the model keeps asking for.
DialogueEnds == <>(pc = "done")

-----------------------------------------------------------------------------
(* What every step keeps, and the safety properties follow from. *)

Usages == [model : Nat, tools : Nat, steps : Nat, input : Nat, output : Nat,
           complete : BOOLEAN]
IsOutput(h) == history[h].kind = "output"

\* How far an iteration is, and what its place allows.
TurnFollowed ==
    /\ mode = "snapshot" =>
         step <= SnapshotCalls /\ (pc \notin {"top", "done"} => step < SnapshotCalls)
    /\ pc = "top" => usage.model = step
    /\ pc \notin {"top", "done"} => usage.model = step + 1
    /\ pc # "done" => result = "none" /\ usage.complete
    /\ pc \in {"tools", "record"} => mode = "tools"
    /\ repaired => pc # "record"
    /\ mode = "tools" /\ pc \in {"ask", "replied", "tools"} /\ ~finalOnly =>
         usage.steps < ToolSteps /\ ~repaired
    /\ pc # "done" => usage.tools + Len(batch) <= ToolCalls
    /\ pc \notin {"record", "done"} => batch = <<>>

\* What is counted is what was spent, and a report is accepted within the limits.
TokensCounted ==
    /\ usage.complete => spent = usage.input + usage.output
    /\ result = "REPORT_VALIDATED" => usage.complete
    /\ pc \in {"tools", "report"} \/ result = "REPORT_VALIDATED" => ~OverBudget

\* What is still to be recorded was neither answered before nor is it in the
\* batch twice; every other call has its output, and outputs differ.
CallsAnswered ==
    /\ \A m, n \in DOMAIN batch : m # n =>
         batch[m].id # batch[n].id /\ batch[m].request # batch[n].request
    /\ \A m, n \in DOMAIN answered : answered[m] = answered[n] => m = n
    /\ \A m \in DOMAIN answered, n \in DOMAIN batch : answered[m] # batch[n].request
    /\ \A o \in DOMAIN history, n \in DOMAIN batch :
         IsOutput(o) => history[o].id # batch[n].id
    /\ \A o, u \in DOMAIN history :
         IsOutput(o) /\ IsOutput(u) /\ history[o].id = history[u].id => o = u
    /\ \A h \in DOMAIN history : ~IsOutput(h) =>
         \/ \E n \in DOMAIN batch :
              batch[n].id = history[h].id /\ batch[n].request = history[h].request
         \/ \E o \in DOMAIN history :
              /\ IsOutput(o) /\ history[o].id = history[h].id
              /\ history[o].request = history[h].request

\* What may be cited was an output.
ConsultedShown ==
    /\ cites \subseteq consulted
    /\ \A c \in consulted : \E h \in DOMAIN history :
         IsOutput(h) /\ history[h].request = c

DialogueTypes ==
    /\ DialogueTypeOK
    /\ mode \in {"snapshot", "tools"} /\ clock \in Nat /\ step \in 0..ModelCalls
    /\ finalOnly \in BOOLEAN /\ repaired \in BOOLEAN /\ spent \in Nat
    /\ usage \in Usages

DialogueInv == DialogueTypes /\ TurnFollowed /\ TokensCounted /\ CallsAnswered
               /\ ConsultedShown
=============================================================================
