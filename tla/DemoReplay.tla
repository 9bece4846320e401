------------------------------- MODULE DemoReplay -------------------------------
(***************************************************************************)
(* The replay half of the controlled demonstration: the preparation of the *)
(* cases (ml/rca_ml/demo_prepare.py), which writes a prediction and the    *)
(* truth of every case and then a manifest with the predictions' hashes;   *)
(* the server that serves them (internal/demo/server.go) and the tabs of a *)
(* browser (cmd/demo/static/app.js).  A preparation may stop at any point, *)
(* in the midst of a file too, and leaves what it had written.             *)
(***************************************************************************)
EXTENDS Naturals, Sequences, FiniteSets

CONSTANTS
    Cases, Tabs, NONE, TORN,
    MaxRuns, MaxServers, MaxRequests   \* bounds

VARIABLES
    prediction,  \* on disk: the run that wrote each case's prediction, 0 or TORN
    truth,       \* on disk: the prediction each case's truth was judged against
    manifest,    \* on disk: the hashes of the predictions of this run
    prep,        \* a preparation: its run and the files still to be written
    runs,        \* preparations begun
    up, servers, \* the server runs; starts of it
    replay,      \* replayState
    served,      \* the prediction last served for each case since the start
    request,     \* the analysis that holds the mutation lock, or NONE
    tab,         \* per tab: selected case, what it shows, what it waits for
    revealed,    \* the last truth revealed, with what had been served
    requests

files == <<prediction, truth, manifest>>
preparing == <<files, prep, runs>>
vars == <<preparing, up, servers, replay, served, request, tab, revealed, requests>>

NothingServed == [c \in Cases |-> 0]
IdleReplay == [state |-> "idle", case |-> NONE]

-----------------------------------------------------------------------------
(* prepare(): every input and prediction, then every truth, then the manifest *)

File(kind, c) == [kind |-> kind, case |-> c]
InOrder == CHOOSE seq \in [1..Cardinality(Cases) -> Cases] :
               {seq[n] : n \in DOMAIN seq} = Cases
Each(kind) == [n \in DOMAIN InOrder |-> File(kind, InOrder[n])]

\* Mutant: the manifest is written with the predictions.
ManifestEarly == Each("prediction") \o <<File("manifest", NONE)>> \o Each("truth")
FilesToWrite == Each("prediction") \o Each("truth") \o <<File("manifest", NONE)>>

\* make demo: the preparation ends before the server is started.  It writes the
\* same predictions again, or others where the selection or a model was changed.
Prepare ==
    /\ prep = NONE /\ ~up /\ runs < MaxRuns
    /\ runs' = runs + 1
    /\ \E run \in {runs + 1} \cup ({manifest} \cap 1..MaxRuns) :
          prep' = [run |-> run, todo |-> FilesToWrite]
    /\ UNCHANGED <<files, up, servers, replay, served, request, tab, revealed, requests>>

\* The truth is judged against the prediction read back from the disk.
Save(file, torn) ==
    /\ prediction' = IF file.kind = "prediction"
                     THEN [prediction EXCEPT ![file.case] = IF torn THEN TORN ELSE prep.run]
                     ELSE prediction
    /\ truth' = IF file.kind = "truth"
                THEN [truth EXCEPT ![file.case] = IF torn THEN TORN ELSE prediction[file.case]]
                ELSE truth
    /\ manifest' = IF file.kind = "manifest" THEN IF torn THEN TORN ELSE prep.run
                   ELSE manifest

WriteFile ==
    /\ prep # NONE /\ prep.todo # <<>>
    /\ Save(Head(prep.todo), FALSE)
    /\ prep' = [prep EXCEPT !.todo = Tail(@)]
    /\ UNCHANGED <<runs, up, servers, replay, served, request, tab, revealed, requests>>

\* A pin, hash, route, rank or schema is not what the selection expects, or the
\* process dies, perhaps while it writes a file.
PrepareStops ==
    /\ prep # NONE
    /\ prep' = NONE
    /\ IF prep.todo # <<>> THEN Save(Head(prep.todo), TRUE) \/ UNCHANGED files
       ELSE UNCHANGED files
    /\ UNCHANGED <<runs, up, servers, replay, served, request, tab, revealed, requests>>

-----------------------------------------------------------------------------
(* The server *)

StartServer ==
    /\ ~up /\ prep = NONE /\ manifest # 0 /\ servers < MaxServers
    /\ up' = TRUE /\ servers' = servers + 1
    /\ replay' = IdleReplay /\ served' = NothingServed
    /\ UNCHANGED <<preparing, request, tab, revealed, requests>>

\* The tabs' open requests fail; their pages stay open.
StopServer ==
    /\ up /\ up' = FALSE /\ request' = NONE
    /\ tab' = [t \in Tabs |-> [tab[t] EXCEPT !.busy = FALSE]]
    /\ UNCHANGED <<preparing, servers, replay, served, revealed, requests>>

Fails == replay' = [state |-> "error", case |-> NONE]
Free == request = NONE /\ up        \* else 409 or no answer, and nothing changes

HashMatches(c) == prediction[c] = manifest

\* handleReplayAnalyze: a click of a tab that is not busy, the hash, ...
Analyze(t) ==
    /\ Free /\ ~tab[t].busy /\ manifest # TORN /\ requests < MaxRequests
    /\ requests' = requests + 1
    /\ LET c == tab[t].selected
       IN IF HashMatches(c)
          THEN /\ request' = [tab |-> t, case |-> c]
               /\ replay' = [state |-> "analyzing", case |-> c]
               /\ tab' = [tab EXCEPT ![t].busy = TRUE]
          ELSE Fails /\ UNCHANGED <<request, tab>>
    /\ UNCHANGED <<preparing, up, servers, served, revealed>>

\* ... then the prediction, which the tab shows if it still waits.
Served ==
    /\ request # NONE /\ request' = NONE
    /\ LET c == request.case
           t == request.tab
       IN /\ replay' = [state |-> "complete", case |-> c]
          /\ served' = [served EXCEPT ![c] = prediction[c]]
          /\ tab' = IF tab[t].busy
                    THEN [tab EXCEPT ![t].shown = [case |-> c, run |-> prediction[c]],
                                     ![t].busy = FALSE]
                    ELSE tab
    /\ UNCHANGED <<preparing, up, servers, revealed, requests>>

\* The fetch is aborted after its 12 seconds; the server goes on.
GiveUp(t) ==
    /\ tab[t].busy
    /\ tab' = [tab EXCEPT ![t].busy = FALSE]
    /\ UNCHANGED <<preparing, up, servers, replay, served, request, revealed, requests>>

Analyzed(c) == replay.state = "complete" /\ replay.case = c

\* handleReplayReveal; the button is enabled once a prediction is shown.
Reveal(t) ==
    /\ Free /\ ~tab[t].busy /\ tab[t].shown # NONE
    /\ LET c == tab[t].selected
       IN /\ Analyzed(c)
          /\ IF truth[c] = TORN THEN Fails /\ UNCHANGED <<revealed, tab>>
             ELSE /\ revealed' = [case |-> c, judged |-> truth[c], served |-> served[c]]
                  /\ tab' = [tab EXCEPT ![t].revealed = c]
                  /\ UNCHANGED replay
    /\ UNCHANGED <<preparing, up, servers, served, request, requests>>

SelectEnabled(t) == ~tab[t].busy
Select(t) ==
    /\ SelectEnabled(t)
    /\ \E c \in Cases \ {tab[t].selected} :
          tab' = [tab EXCEPT ![t].selected = c, ![t].shown = NONE, ![t].revealed = NONE]
    /\ UNCHANGED <<preparing, up, servers, replay, served, request, revealed, requests>>

-----------------------------------------------------------------------------
Init ==
    /\ prediction = [c \in Cases |-> 0] /\ truth = [c \in Cases |-> 0] /\ manifest = 0
    /\ prep = NONE /\ runs = 0 /\ up = FALSE /\ servers = 0
    /\ replay = IdleReplay /\ served = NothingServed /\ request = NONE
    /\ tab = [t \in Tabs |-> [selected |-> InOrder[1], shown |-> NONE,
                              revealed |-> NONE, busy |-> FALSE]]
    /\ revealed = NONE /\ requests = 0

Next ==
    \/ Prepare \/ WriteFile \/ PrepareStops \/ StartServer \/ StopServer \/ Served
    \/ \E t \in Tabs : Analyze(t) \/ GiveUp(t) \/ Reveal(t) \/ Select(t)

Spec == Init /\ [][Next]_vars

-----------------------------------------------------------------------------
(* Properties *)

\* The truth that is revealed judges the very prediction this server had served
\* for that case before: also after a preparation that stopped half-way and left
\* predictions, truths and manifest of different runs.
RevealJudgesServed ==
    revealed # NONE => revealed.judged = revealed.served /\ revealed.served # 0

\* A tab shows the prediction and the truth of the case that is selected in it,
\* whatever was chosen while an analysis was under way or after it was given up.
TabShowsSelected ==
    \A t \in Tabs :
        /\ tab[t].shown # NONE => tab[t].shown.case = tab[t].selected
        /\ tab[t].revealed # NONE => /\ tab[t].revealed = tab[t].selected
                                     /\ tab[t].shown # NONE
=============================================================================
