-------------------------- MODULE MCAssistant --------------------------------
(****************************************************************************)
(* The assistant: the supervisor of its worker process, the conversation    *)
(* with the model, the stream of one answer and the provider connection;    *)
(* and the page of the workspace. A behaviour is one of a part; the         *)
(* variables of the others keep initial values.                             *)
(****************************************************************************)
EXTENDS Naturals, TLC

CONSTANTS NONE, i1, i2, w1, t1, a1, a2, k1, k2

\* What the parts are checked with, and may be anything their modules assume.
CONSTANTS JobSizes, MaxJob, OutputSizes, MaxPipe, PipeSize, Deadline, MaxClock,
     ModelCalls, ToolCalls, ToolSteps, InputTokens, OutputTokens, WallSeconds,
     FinalReserve, Estimates, Inputs, Outputs, CallIds, Requests, Rejected,
     Runbooks, MaxBatch, StreamCalls, MaxItems, MaxText, Pieces, Workers,
     Threads, Accounts, Clients, MaxAttempts, MaxToken
CONSTANTS Ids, Analyses, AnalysisOf, Slots, Uses

\* A page where records are edited here and elsewhere, one that is left while its
\* requests are under way and may fail, and one where investigations come and go.
PageAnalysisOf == (i1 :> a1) @@ (i2 :> a2)
PageUses ==
    {[fresh |-> {}, kinds |-> {"open", "save", "review", "export"}, acts |-> 3,
      typed |-> 1, others |-> 1, revisions |-> 2, failures |-> 0],
     [fresh |-> {}, kinds |-> {"open", "save", "change"}, acts |-> 3,
      typed |-> 1, others |-> 0, revisions |-> 1, failures |-> 1],
     [fresh |-> {i2}, kinds |-> {"open", "cancel", "start", "delete", "analyze", "change"},
      acts |-> 3, typed |-> 0, others |-> 0, revisions |-> 0, failures |-> 1]}

VARIABLES part, supervisorClock, cancel, supervisorPc, ready, job, offset,
     stdin, stdout, printout, reason, supervisorResult, child, helper, taken,
     printed, called, mode, followUp, dialogueClock, dialogueCancel, pc, step,
     finalOnly, repaired, usage, history, answered, consulted, batch, cites,
     result, spent, answer, sent, pieces, items, text, streamPc, late,
     streamOutput, reply, registration, connection, attempt, attempts, thread,
     holder, worker, issued, redeemed, torn, deadSent, crossed, use, server, calls,
     analysis, catalog, busy, session, snapshot, form, drafts, timer, blocked,
     exported, typed, acts, failures, unsaved, accepted, overtaken, unwatched

-----------------------------------------------------------------------------
Hanging == INSTANCE Supervisor WITH clock <- supervisorClock,
     pc <- supervisorPc, result <- supervisorResult, output <- printout
Healthy == INSTANCE Supervisor WITH clock <- supervisorClock,
     pc <- supervisorPc, result <- supervisorResult, output <- printout,
     JobSizes <- {3}, MaxJob <- 3, OutputSizes <- {3}, MaxPipe <- 3,
     PipeSize <- 1, Deadline <- 1, MaxClock <- 2
Dialogue == INSTANCE AssistantDialogue WITH clock <- dialogueClock,
     cancel <- dialogueCancel
Stream == INSTANCE ResponseStream WITH pc <- streamPc, output <- streamOutput,
     CallIds <- StreamCalls
Session == INSTANCE AssistantConnection
Account == INSTANCE AssistantConnection WITH Workers <- {w1}, Threads <- {t1},
     Accounts <- {a1, a2}, Clients <- {k1, k2}, MaxAttempts <- 3,
     MaxToken <- 1
Page == INSTANCE WorkspacePage
ASSUME InstancesAssumption ==
    /\ Hanging!SupervisorAssumption /\ Healthy!SupervisorAssumption
    /\ Dialogue!DialogueAssumption /\ Stream!StreamAssumption
    /\ Session!ConnectionAssumption /\ Account!ConnectionAssumption
    /\ Page!PageAssumption

-----------------------------------------------------------------------------
hangingVars == <<supervisorClock, cancel, supervisorPc, ready, job, offset,
     stdin, stdout, printout, reason, supervisorResult, child, helper, taken,
     printed, called>>
dialogueVars == <<mode, followUp, dialogueClock, dialogueCancel, pc, step,
     finalOnly, repaired, usage, history, answered, consulted, batch, cites,
     result, spent>>
streamVars == <<answer, sent, pieces, items, text, streamPc, late,
     streamOutput, reply>>
sessionVars == <<registration, connection, attempt, attempts, thread, holder,
     worker, issued, redeemed, torn, deadSent, crossed>>
pageVars == <<use, server, calls, analysis, catalog, busy, session, snapshot,
     form, drafts, timer, blocked, exported, typed, acts, failures, unsaved,
     accepted, overtaken, unwatched>>

Parts == {"deadline", "pipes", "dialogue", "stream", "session", "account",
     "page"}
SuiteInit ==
    /\ part \in Parts
    /\ IF part \in {"deadline", "pipes"} THEN TRUE
       ELSE cancel = FALSE
    /\ Hanging!Init
    /\ IF part = "dialogue" THEN TRUE
       ELSE mode = "tools" /\ followUp = FALSE
    /\ Dialogue!Init
    /\ IF part = "stream" THEN TRUE
       ELSE answer = <<>>
    /\ Stream!Init
    /\ IF part = "account" THEN Account!Init
       ELSE Session!Init
    /\ IF part = "page" THEN TRUE
       ELSE use = CHOOSE u \in Uses : TRUE
    /\ Page!Init

SuiteNext ==
    /\ UNCHANGED part
    /\ \/ part = "deadline" /\ Hanging!Next
       \/ part = "pipes" /\ Healthy!Next
       \/ part = "dialogue" /\ Dialogue!Next
       \/ part = "stream" /\ Stream!Next
       \/ part = "session" /\ Session!Next
       \/ part = "account" /\ Account!Next
       \/ part = "page" /\ Page!Next
    /\ IF part \in {"deadline", "pipes"} THEN TRUE ELSE UNCHANGED hangingVars
    /\ IF part = "dialogue" THEN TRUE ELSE UNCHANGED dialogueVars
    /\ IF part = "stream" THEN TRUE ELSE UNCHANGED streamVars
    /\ IF part \in {"session", "account"} THEN TRUE ELSE UNCHANGED sessionVars
    /\ IF part = "page" THEN TRUE ELSE UNCHANGED pageVars

suiteVars == <<part, hangingVars, dialogueVars, streamVars, sessionVars,
     pageVars>>
SuiteSpec ==
    /\ SuiteInit /\ [][SuiteNext]_suiteVars
    /\ WF_hangingVars(part = "deadline" /\ Hanging!Parent)
    /\ WF_hangingVars(part = "deadline" /\ Hanging!Tick)
    /\ WF_hangingVars(part = "pipes" /\ Healthy!Parent)
    /\ WF_hangingVars(part = "pipes" /\ Healthy!Worker)
    /\ WF_hangingVars(part = "pipes" /\ Healthy!HelperEnds)
    /\ WF_dialogueVars(part = "dialogue" /\ Dialogue!Progress)

-----------------------------------------------------------------------------
(* Properties *)

\* However a job of the supervisor ends, and whoever won the race of
\* cancellation, deadline, broken pipe and exit: no process of its group is
\* left, what the child printed is returned only when it was read to the end of
\* a child that ended well, and accounting is called complete only when nothing
\* reached the provider or the child itself reported.
JobLeavesNothing ==
    part = "deadline" =>
        /\ Hanging!SupervisorTypeOK
        /\ Hanging!NothingLeftBehind
        /\ Hanging!OnlyWholeReports
        /\ Hanging!AccountingHonest

\* Whatever path a conversation takes through batches, refusals, repairs and
\* failures: an accepted report is within its budget of tokens, all of them
\* counted, and cites only what the model was shown; no request is read twice;
\* each time the model is asked again every call has exactly one output; and
\* accounting called complete is what the provider consumed.
ConversationSound ==
    part = "dialogue" =>
        /\ Dialogue!DialogueTypeOK
        /\ Dialogue!ReportWithinLimits
        /\ Dialogue!NoRepeatedRead
        /\ Dialogue!ContinuationPaired
        /\ Dialogue!CitesOnlyRead
        /\ Dialogue!AccountingComplete

\* A reply is the whole answer in the order of the provider, whatever the order
\* in which its items were finished and wherever the stream broke off, and its
\* calls can be told apart.
ReplyIsWhole ==
    part = "stream" =>
        /\ Stream!StreamTypeOK
        /\ Stream!WholeAnswer
        /\ Stream!CallsDistinct

\* The code of a sign-in is exchanged at most once, and a rotated token is sent
\* again, or missing from the file, only where a worker was killed or an answer
\* lost between the provider and the file: workers and sign-ins beside one
\* another never cause it.
TokensSpentOnce ==
    part = "session" =>
        /\ Session!ConnectionTypeOK
        /\ Session!CodeExchangedOnce
        /\ Session!NoTokenSpentTwice
        /\ Session!ConnectionUsable

\* What the page shows belongs together, whatever order its requests are
\* answered in: ranking, session, snapshot and observations are of one analysis;
\* a typed text is in the fields, among the drafts or at the server; an
\* investigation under way is watched by one chain of polls; an export holds one
\* investigation with its own snapshot.
PageTogether ==
    part = "page" =>
        /\ Page!PageTypeOK
        /\ Page!OneAnalysisShown
        /\ Page!EvidenceOfShown
        /\ Page!TypedIsKept
        /\ Page!OnePollChain
        /\ Page!ExportIsWhole

\* Steps that may never be taken: a refresh neither changes the account of a
\* directory nor undoes a later sign-in, a conversation reads nothing after its
\* repair, and a review marks the text that was on the screen when it was asked
\* for.
AccountKept ==
    /\ [][part = "account" => Account!OneAccount /\ Account!SignInKept]_sessionVars
    /\ [][part = "session" => Session!SignInKept]_sessionVars
    /\ Dialogue!RepairIsLast
    /\ Page!ReviewMarksShown

\* Every job of the supervisor returns, with any child; a parent and a child
\* that both run need no deadline for it, so their two pipes cannot block each
\* other; and every conversation ends, whatever the model asks for.
AssistantEnds ==
    /\ part = "deadline" => Hanging!Returns
    /\ part = "pipes" => Healthy!PipesDrain
    /\ part = "dialogue" => Dialogue!DialogueEnds
=============================================================================
