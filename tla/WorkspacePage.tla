----------------------------- MODULE WorkspacePage -----------------------------
(***************************************************************************)
(* The page of the workspace: static/workspace.js with the parts of        *)
(* static/app.js it works with.  A person opens investigations, edits,     *)
(* saves, reviews, exports and deletes them, asks the assistant and starts *)
(* new analyses; every request is answered when it is, in any order, while *)
(* the person goes on.  The page numbers what it shows (generation); an    *)
(* answer is "current" while the number is the one its request was made    *)
(* under.  The server is what the page can tell of it, and another browser *)
(* edits the same records.                                                 *)
(***************************************************************************)
EXTENDS Naturals, FiniteSets

CONSTANTS
    Ids,                    \* investigations, no more than the 20 drafts kept
    Analyses,
    AnalysisOf,             \* investigation -> its analysis
    Slots,                  \* bound: requests under way
    Uses,                   \* bounds, one for each way to use the page: the investigations
                            \* that do not exist yet, what the person does and how often,
                            \* texts typed here and in the other browser, revisions, failures
    NONE

\* A record is the text of its fields: the first one, or one typed here or elsewhere.
Texts == {<<"first", 0>>} \cup ({"typed", "other"} \X Nat)
STATES == {"new", "running", "cancelling", "ended", "gone"}
Values == [id : Ids, state : STATES, revision : Nat, record : Texts]
KINDS == {"get", "poll", "export", "snapshot", "save", "review", "cancel", "start",
          "delete", "analyze", "evidence"}
PageRequests ==
    [kind : KINDS, id : Ids \cup {NONE}, current : BOOLEAN,
     answer : Values \cup Ids \cup Analyses \cup {NONE}, failed : BOOLEAN,
     text : Texts \cup Analyses \cup {NONE}, value : Values \cup {NONE},
     revision : Nat, starting : BOOLEAN]

PageAssumption ==
    /\ AnalysisOf \in [Ids -> Analyses]
    /\ \A u \in Uses : u.others \in Nat
    /\ NONE \notin Texts \cup Values \cup Ids \cup Analyses \cup PageRequests

VARIABLES
    use,        \* a member of Uses
    server,     \* investigation -> [state, revision, record]
    calls,      \* slot -> request under way, or NONE
    analysis,   \* analysis and state.current
    catalog,    \* state.catalog: the analysis it is of
    busy,       \* state.busy
    session, snapshot,
    form,       \* what the fields hold, NONE while they are hidden
    drafts, timer,
    blocked,    \* start() has disabled its buttons
    exported,
    typed, acts, failures,   \* bounds: number of texts, of other acts, of failures
    unsaved,    \* history: last text typed while nothing under way would render the form
    accepted,   \* history: texts the server has taken
    overtaken,  \* history: an answer that became the session was of another one, or of
                \* one that had ended meanwhile
    unwatched   \* history: a poll of this session failed, or what was to replace it

serverVars == <<server, accepted>>
shownVars == <<analysis, catalog, session, snapshot, form, drafts, timer>>
historyVars == <<unsaved, overtaken, unwatched>>
boundVars == <<typed, acts, failures>>
vars == <<use, serverVars, shownVars, calls, busy, blocked, exported, historyVars, boundVars>>

ACTIVE == {"running", "cancelling"}
Value(i) == [id |-> i, state |-> server[i].state, revision |-> server[i].revision,
             record |-> server[i].record]

-----------------------------------------------------------------------------
(* Requests: made, handled by the server, failed *)

Call(kind, i) == [kind |-> kind, id |-> i, current |-> TRUE, answer |-> NONE,
                  failed |-> FALSE, text |-> NONE, value |-> NONE, revision |-> 0, starting |-> FALSE]
With(cs, c) == [cs EXCEPT ![CHOOSE s \in Slots : cs[s] = NONE] = c]
HasRoom(cs) == \E s \in Slots : cs[s] = NONE
\* generation++
Outdated(cs) ==
    [s \in Slots |-> IF cs[s] = NONE THEN NONE ELSE [cs[s] EXCEPT !.current = FALSE]]
Done(s) == [calls EXCEPT ![s] = NONE]
Make(c) == HasRoom(calls) /\ calls' = With(calls, c)

\* A request that is under way and would, when answered, replace the text of i.
Rendering(i) ==
    \E s \in Slots : /\ calls[s] # NONE
                     /\ \/ calls[s].kind = "save" /\ calls[s].id = i
                        \/ calls[s].kind \in {"snapshot", "review"} /\ calls[s].current

\* What the server does with a request: the answer, and what it leaves behind.
Handle(s) ==
    LET c == calls[s]
        i == c.id
        answered(a) == calls' = [calls EXCEPT ![s].answer = a]
        refused == calls' = [calls EXCEPT ![s].failed = TRUE]
        there == server[i].state # "gone"
    IN /\ c # NONE /\ c.answer = NONE /\ ~c.failed
       /\ \/ /\ c.kind \in {"get", "poll", "export"}
             /\ IF there THEN answered(Value(i)) ELSE refused
             /\ UNCHANGED serverVars
          \/ /\ c.kind = "snapshot"
             /\ IF there THEN answered(AnalysisOf[i]) ELSE refused
             /\ UNCHANGED serverVars
          \/ /\ c.kind \in {"save", "review"}
             /\ IF there /\ c.revision = server[i].revision
                THEN LET written == IF c.kind = "save" THEN c.text ELSE server[i].record
                     IN /\ server[i].revision < use.revisions
                        /\ server' = [server EXCEPT ![i].revision = @ + 1, ![i].record = written]
                        /\ answered([Value(i) EXCEPT !.revision = @ + 1, !.record = written])
                        /\ accepted' = accepted \cup {written}
                ELSE refused /\ UNCHANGED serverVars
          \/ /\ c.kind = "cancel"
             /\ IF server[i].state = "running"
                THEN server' = [server EXCEPT ![i].state = "cancelling"] ELSE UNCHANGED server
             /\ IF there THEN answered([Value(i) EXCEPT !.state =
                                  IF @ = "running" THEN "cancelling" ELSE @])
                ELSE refused
             /\ UNCHANGED accepted
          \/ /\ c.kind = "start"
             /\ IF server[i].state \in {"new", "ended"}
                THEN /\ server' = [server EXCEPT ![i].state = "running"]
                     /\ answered([Value(i) EXCEPT !.state = "running"])
                ELSE refused /\ UNCHANGED server
             /\ UNCHANGED accepted
          \/ /\ c.kind = "delete" /\ answered(i)
             /\ server' = [j \in Ids |-> IF AnalysisOf[j] = AnalysisOf[i]
                                         THEN [server[j] EXCEPT !.state = "gone"] ELSE server[j]]
             /\ UNCHANGED accepted
          \/ /\ c.kind = "analyze" /\ \E a \in Analyses : answered(a)
             /\ UNCHANGED serverVars
          \/ /\ c.kind = "evidence" /\ answered(c.text)
             /\ UNCHANGED serverVars
       /\ UNCHANGED <<shownVars, busy, blocked, exported, historyVars, boundVars>>

\* The connection breaks, before or after the server has done what was asked.
Fail(s) ==
    /\ failures < use.failures /\ failures' = failures + 1
    /\ calls[s] # NONE /\ calls' = [calls EXCEPT ![s].failed = TRUE]
    /\ UNCHANGED <<serverVars, shownVars, busy, blocked, exported, historyVars, typed, acts>>

\* The worker ends a job; another browser saves a record.
Works ==
    /\ \E i \in Ids :
         \/ /\ server[i].state \in ACTIVE /\ server' = [server EXCEPT ![i].state = "ended"]
            /\ UNCHANGED accepted
         \/ /\ server[i].state \notin {"new", "gone"} /\ server[i].revision < use.revisions
            /\ \E n \in 1..use.others :
                 /\ <<"other", n>> \notin accepted
                 /\ server' = [server EXCEPT ![i].record = <<"other", n>>, ![i].revision = @ + 1]
                 /\ accepted' = accepted \cup {<<"other", n>>}
    /\ UNCHANGED <<calls, shownVars, busy, blocked, exported, historyVars, boundVars>>

-----------------------------------------------------------------------------
(* What several handlers of the page do *)

\* rememberDraft: what is on the screen and not what was saved is kept.
Remembered ==
    IF session = NONE \/ form = NONE THEN drafts
    ELSE [drafts EXCEPT ![session.id] = IF form = session.record THEN NONE ELSE form]

Evidence(a) == [Call("evidence", NONE) EXCEPT !.text = a]

\* onAnalysis outside choose, which clearResult and renderRanking call; cs are the
\* requests that stay, and one for the evidence where there is an analysis.
ShowAnalysis(a, cs) ==
    /\ drafts' = Remembered /\ timer' = FALSE
    /\ session' = NONE /\ snapshot' = NONE /\ form' = NONE
    /\ analysis' = a /\ catalog' = NONE /\ blocked' = FALSE
    /\ calls' = IF a = NONE THEN Outdated(cs) ELSE With(Outdated(cs), Evidence(a))
    /\ unwatched' = FALSE /\ UNCHANGED <<unsaved, overtaken>>

\* renderRecord: the draft of the session, or else its record, fills the fields.
RenderRecord(v, ds) ==
    form' = IF ds[v.id] # NONE THEN ds[v.id] ELSE v.record

\* Mutant: the timer of the investigation left behind goes on.
ChooseKeepsTimer(v, cs, starting) ==
    /\ drafts' = Remembered /\ UNCHANGED timer
    /\ calls' = With(Outdated(cs), [Call("snapshot", v.id) EXCEPT !.value = v, !.starting = starting])
    /\ UNCHANGED <<analysis, catalog, session, snapshot, form, blocked, historyVars>>

\* choose: the first half, up to the request for the snapshot.
Choose(v, cs, starting) ==
    /\ drafts' = Remembered /\ timer' = FALSE
    /\ calls' = With(Outdated(cs), [Call("snapshot", v.id) EXCEPT !.value = v, !.starting = starting])
    /\ UNCHANGED <<analysis, catalog, session, snapshot, form, blocked, historyVars>>

-----------------------------------------------------------------------------
(* The person *)

Act(kind) == /\ kind \in use.kinds /\ acts < use.acts /\ acts' = acts + 1
             /\ UNCHANGED <<typed, failures>>
Idle(kind) == Act(kind) /\ UNCHANGED <<serverVars, shownVars, busy, exported, historyVars>>

\* A line of the history is clicked: the investigation is read, then chosen.
Open(i) ==
    /\ server[i].state # "new" /\ Make(Call("get", i))
    /\ Idle("open") /\ UNCHANGED blocked

Type ==
    /\ form # NONE /\ typed < use.typed /\ typed' = typed + 1
    /\ form' = <<"typed", typed + 1>>
    /\ unsaved' = [unsaved EXCEPT ![session.id] = IF Rendering(session.id) THEN NONE ELSE form']
    /\ UNCHANGED <<serverVars, calls, analysis, catalog, session, snapshot, drafts, timer,
                   busy, blocked, exported, overtaken, unwatched, acts, failures>>

\* submit of the record's form
Submit ==
    /\ form # NONE
    /\ Make([Call("save", session.id) EXCEPT !.revision = session.revision, !.text = form])
    /\ Idle("save") /\ UNCHANGED blocked

\* The button "review": only what is saved.
Review ==
    /\ form # NONE /\ form = session.record
    /\ Make([Call("review", session.id) EXCEPT !.revision = session.revision, !.text = form])
    /\ Idle("review") /\ UNCHANGED blocked

\* exportInvestigation, up to the request
Export ==
    /\ form # NONE /\ form = session.record
    /\ Make([Call("export", session.id) EXCEPT !.text = snapshot])
    /\ Idle("export") /\ UNCHANGED blocked

Cancel ==
    /\ session # NONE /\ session.state \in ACTIVE
    /\ Make(Call("cancel", session.id))
    /\ Idle("cancel") /\ UNCHANGED blocked

\* start: a new investigation of the analysis shown, or a question more.
Start ==
    /\ analysis # NONE /\ ~blocked
    /\ \E i \in Ids :
         /\ AnalysisOf[i] = analysis
         /\ IF session = NONE THEN server[i].state = "new"
            ELSE i = session.id /\ session.state \notin ACTIVE
         /\ Make([Call("start", i) EXCEPT !.text = analysis])
    /\ blocked' = TRUE /\ Idle("start")

\* A line's other button: the analysis is deleted with all that belongs to it.
Delete(i) ==
    /\ server[i].state # "new" /\ Make(Call("delete", i))
    /\ Idle("delete") /\ UNCHANGED blocked

\* analyzeLive and analyzeReplay, up to the request
Analyze ==
    /\ ~busy /\ busy' = TRUE /\ HasRoom(calls)
    /\ ShowAnalysis(NONE, With(calls, Call("analyze", NONE)))
    /\ Act("analyze") /\ UNCHANGED <<serverVars, exported>>

\* A field of the request is changed.
ChangeInput ==
    /\ ~busy /\ ShowAnalysis(NONE, calls)
    /\ Act("change") /\ UNCHANGED <<serverVars, busy, exported>>

\* The second after a poll is over.
TimerFires ==
    /\ timer /\ timer' = FALSE
    /\ Make(Call("poll", session.id))
    /\ UNCHANGED <<serverVars, analysis, catalog, session, snapshot, form, drafts,
                   busy, blocked, exported, historyVars, boundVars>>

-----------------------------------------------------------------------------
(* Answers reach the page *)

Failed(s) == calls[s].failed
Answer(s, kind) == /\ calls[s] # NONE /\ calls[s].kind = kind
                   /\ calls[s].answer # NONE \/ Failed(s)
Ignored(s) == calls' = Done(s) /\ UNCHANGED <<shownVars, historyVars>>
\* The continuations compare the generation, and the session that is open.
Applies(s) == calls[s].current /\ session # NONE /\ session.id = calls[s].id

GetAnswered(s) ==
    /\ Answer(s, "get") /\ UNCHANGED <<busy, exported>>
    /\ IF ~Failed(s) /\ calls[s].current THEN Choose(calls[s].answer, Done(s), FALSE)
       ELSE Ignored(s) /\ UNCHANGED blocked

StartAnswered(s) ==
    /\ Answer(s, "start") /\ UNCHANGED <<busy, exported>>
    /\ IF ~Failed(s) /\ calls[s].current /\ analysis = calls[s].text
       THEN Choose(calls[s].answer, Done(s), TRUE)
       ELSE /\ calls' = Done(s) /\ blocked' = FALSE
            /\ unwatched' = (unwatched \/ calls[s].current)
            /\ UNCHANGED <<shownVars, unsaved, overtaken>>

\* choose: the second half.
SnapshotAnswered(s) ==
    LET v == calls[s].value
        active == v.state \in ACTIVE
        shown == With(Done(s), Evidence(calls[s].answer))
    IN /\ Answer(s, "snapshot") /\ UNCHANGED <<busy, exported>>
       /\ IF ~Failed(s) /\ calls[s].current
          THEN /\ active => HasRoom(shown)
               /\ snapshot' = calls[s].answer /\ analysis' = snapshot' /\ catalog' = NONE
               /\ session' = v /\ RenderRecord(v, drafts) /\ blocked' = FALSE
               /\ calls' = IF active THEN With(shown, Call("poll", v.id)) ELSE shown
               /\ unwatched' = FALSE /\ UNCHANGED <<drafts, timer, unsaved, overtaken>>
          ELSE /\ calls' = Done(s) /\ blocked' = (blocked /\ ~calls[s].starting)
               /\ unwatched' = (unwatched \/ calls[s].current)
               /\ UNCHANGED <<shownVars, unsaved, overtaken>>

\* A poll never takes the record back to an earlier revision.
Merged(v) == IF v.revision < session.revision
             THEN [v EXCEPT !.record = session.record, !.revision = session.revision] ELSE v
PollAnswered(s) ==
    LET v == calls[s].answer
    IN /\ Answer(s, "poll") /\ UNCHANGED <<busy, exported>>
       /\ IF Failed(s)
          THEN /\ calls' = Done(s) /\ unwatched' = (unwatched \/ calls[s].current)
               /\ UNCHANGED <<shownVars, blocked, unsaved, overtaken>>
          ELSE IF ~Applies(s) THEN Ignored(s) /\ UNCHANGED blocked
          ELSE /\ session' = Merged(v) /\ timer' = (v.state \in ACTIVE) /\ calls' = Done(s)
               /\ blocked' = FALSE
               /\ UNCHANGED <<analysis, catalog, snapshot, form, drafts, historyVars>>

\* session = value, and whether it meets what it was asked for.
Becomes(v) ==
    /\ session' = v
    /\ overtaken' = \/ overtaken \/ session = NONE \/ session.id # v.id
                    \/ session.state \notin ACTIVE /\ v.state \in ACTIVE

SaveAnswered(s) ==
    LET c == calls[s]
        kept == [drafts EXCEPT ![c.id] = NONE]
    IN /\ Answer(s, "save") /\ UNCHANGED <<busy, blocked, exported>>
       /\ IF Failed(s) THEN Ignored(s)
          ELSE /\ drafts' = kept /\ calls' = Done(s)
               /\ IF Applies(s) THEN Becomes(c.answer) /\ RenderRecord(c.answer, kept)
                  ELSE UNCHANGED <<session, form, overtaken>>
               /\ UNCHANGED <<analysis, catalog, snapshot, timer, unsaved, unwatched>>

ReviewAnswered(s) ==
    /\ Answer(s, "review") /\ UNCHANGED <<busy, blocked, exported>>
    /\ IF Failed(s) \/ ~Applies(s) THEN Ignored(s)
       ELSE /\ Becomes(calls[s].answer) /\ RenderRecord(calls[s].answer, drafts)
            /\ calls' = Done(s)
            /\ UNCHANGED <<analysis, catalog, snapshot, drafts, timer, unsaved, unwatched>>

\* No comparison here: the answer becomes the session, whatever is open by now.
CancelAnswered(s) ==
    LET v == calls[s].answer
    IN /\ Answer(s, "cancel") /\ UNCHANGED <<busy, exported>>
       /\ IF Failed(s) THEN Ignored(s) /\ UNCHANGED blocked
          ELSE /\ Becomes(v) /\ calls' = Done(s) /\ blocked' = FALSE
               /\ UNCHANGED <<analysis, catalog, snapshot, form, drafts, timer,
                              unsaved, unwatched>>

ExportAnswered(s) ==
    LET v == calls[s].answer
    IN /\ Answer(s, "export") /\ Ignored(s) /\ UNCHANGED <<busy, blocked>>
       /\ exported' = IF ~Failed(s) /\ Applies(s) /\ v.revision = session.revision
                         /\ form = v.record
                      THEN [id |-> v.id, record |-> v.record, snapshot |-> calls[s].text]
                      ELSE exported

DeleteAnswered(s) ==
    /\ Answer(s, "delete") /\ UNCHANGED <<busy, exported>>
    /\ IF ~Failed(s) /\ session # NONE /\ AnalysisOf[session.id] = AnalysisOf[calls[s].id]
       THEN ShowAnalysis(NONE, Done(s))
       ELSE Ignored(s) /\ UNCHANGED blocked

AnalyzeAnswered(s) ==
    /\ Answer(s, "analyze") /\ busy' = FALSE /\ UNCHANGED exported
    /\ ShowAnalysis(IF Failed(s) THEN NONE ELSE calls[s].answer, Done(s))

\* loadEvidence
EvidenceAnswered(s) ==
    /\ Answer(s, "evidence") /\ calls' = Done(s)
    /\ catalog' = IF ~Failed(s) /\ analysis = calls[s].text THEN calls[s].answer ELSE catalog
    /\ UNCHANGED <<analysis, session, snapshot, form, drafts, timer, historyVars,
                   busy, blocked, exported>>

-----------------------------------------------------------------------------

Init ==
    /\ use \in Uses
    /\ server = [i \in Ids |-> [state |-> IF i \in use.fresh THEN "new" ELSE "running",
                                revision |-> 0, record |-> <<"first", 0>>]]
    /\ calls = [s \in Slots |-> NONE] /\ analysis = NONE /\ catalog = NONE /\ busy = FALSE
    /\ session = NONE /\ snapshot = NONE /\ form = NONE /\ drafts = [i \in Ids |-> NONE]
    /\ timer = FALSE /\ blocked = FALSE /\ exported = NONE
    /\ typed = 0 /\ acts = 0 /\ failures = 0
    /\ unsaved = [i \in Ids |-> NONE] /\ accepted = {<<"first", 0>>}
    /\ overtaken = FALSE /\ unwatched = FALSE

Answered(s) ==
    /\ \/ GetAnswered(s) \/ StartAnswered(s) \/ SnapshotAnswered(s) \/ PollAnswered(s)
       \/ SaveAnswered(s) \/ ReviewAnswered(s) \/ CancelAnswered(s) \/ ExportAnswered(s)
       \/ DeleteAnswered(s) \/ AnalyzeAnswered(s) \/ EvidenceAnswered(s)
    /\ UNCHANGED <<serverVars, boundVars>>

Step ==
    \/ Works \/ Type \/ Submit \/ Review \/ Export \/ Cancel \/ Start
    \/ Analyze \/ ChangeInput \/ TimerFires
    \/ \E i \in Ids : Open(i) \/ Delete(i)
    \/ \E s \in Slots : Handle(s) \/ Fail(s) \/ Answered(s)
Next == Step /\ UNCHANGED use
Spec == Init /\ [][Next]_vars

-----------------------------------------------------------------------------
(* Properties *)

PageTypeOK ==
    /\ use \in Uses
    /\ server \in [Ids -> [state : STATES, revision : Nat, record : Texts]]
    /\ accepted \subseteq Texts
    /\ calls \in [Slots -> PageRequests \cup {NONE}]
    /\ {analysis, catalog, snapshot} \subseteq Analyses \cup {NONE}
    /\ session \in Values \cup {NONE} /\ form \in Texts \cup {NONE}
    /\ drafts \in [Ids -> Texts \cup {NONE}] /\ unsaved \in [Ids -> Texts \cup {NONE}]
    /\ {busy, timer, blocked, overtaken, unwatched} \subseteq BOOLEAN
    /\ typed \in Nat

\* What is open belongs together: the investigation, the snapshot it was made
\* from and the ranking on the screen are of one analysis, and its fields are
\* there, whatever was opened, deleted or analysed meanwhile.
OneAnalysisShown ==
    ~overtaken /\ session # NONE =>
        /\ snapshot = AnalysisOf[session.id] /\ analysis = snapshot /\ form # NONE

\* The observations beside a ranking are those of its analysis.
EvidenceOfShown == catalog # NONE => catalog = analysis

\* A text that was typed while no request under way could replace it is in the
\* fields, among the drafts, or has reached the server: also when something else
\* is opened or analysed, when a save is refused, or when it fails.
TypedIsKept ==
    ~overtaken => \A i \in Ids : unsaved[i] # NONE =>
        \/ unsaved[i] \in accepted \/ unsaved[i] = drafts[i]
        \/ session # NONE /\ session.id = i /\ unsaved[i] = form

Chains == {s \in Slots : calls[s] # NONE /\ calls[s].kind = "poll" /\ calls[s].current}

\* An investigation that is under way is watched by one chain of polls, never by
\* two, until a poll of it fails.
OnePollChain ==
    /\ Cardinality(Chains) + (IF timer THEN 1 ELSE 0) <= 1
    /\ session # NONE /\ session.state \in ACTIVE /\ ~overtaken /\ ~unwatched =>
          \/ timer \/ Chains # {}
          \/ \E s \in Slots : /\ calls[s] # NONE /\ calls[s].current
                             /\ calls[s].kind \in {"start", "snapshot"}

\* A file that was made holds one investigation with its own snapshot.
ExportIsWhole ==
    ~overtaken /\ exported # NONE => exported.snapshot = AnalysisOf[exported.id]

\* What a review marks is the text that was on the screen when it was asked for.
ReviewMarksShown ==
    [][\A s \in Slots :
          /\ calls[s] # NONE /\ calls[s].kind = "review" /\ calls[s].answer = NONE
          /\ server' # server /\ calls'[s] # calls[s]
          => calls[s].text = server[calls[s].id].record]_vars
=============================================================================
