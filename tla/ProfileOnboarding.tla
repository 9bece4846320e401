-------------------------- MODULE ProfileOnboarding --------------------------
(***************************************************************************)
(* How a telemetry profile gets its baseline and comes into use:           *)
(* profile_setup.py fits a baseline, profile_onboarding.py activates a     *)
(* draft or takes an earlier profile back, the server loads what is        *)
(* active when it starts and answers with it, while operators run their    *)
(* commands side by side, may be killed between any two steps, and people  *)
(* edit drafts and remove baselines.                                       *)
(***************************************************************************)
EXTENDS Integers, Sequences, FiniteSets

CONSTANTS
    Docs,        \* contents a profile file may have: [id, contract, universe, map, dir]
    Shipped,     \* the one that came with the installation, its baseline without provenance
    Dirs, ID, Operators,
    MaxPreparations, MaxKills,            \* bounds
    NONE

OnboardingAssumption ==
    /\ Shipped \in Docs /\ \A d \in Docs : d.dir \in Dirs
    /\ MaxPreparations \in Nat /\ MaxKills \in Nat
    /\ NONE \notin Docs \cup Operators \cup Nat

VARIABLES
    draft, active,   \* contents of the two files; active may be NONE
    history,         \* .profile-history: content -> "none", "partial" or "whole"
    lock,            \* holder of .profile-activation.lock
    baseline,        \* directory -> whether it exists, and its three files
    made,            \* what the profile was that each preparation was made for
    op,              \* what each operator's command has in memory
    server,          \* what the server has in memory
    past,            \* history: contents that were active and replaced
    kills

onboardingVars == <<draft, active, history, lock, baseline, made, op, server, past, kills>>

ABSENT == 0
TORN == -1
FILES == <<"healthy", "legacy", "provenance">>
Idle == [pc |-> "idle", step |-> 0, source |-> "none", profile |-> NONE,
         expected |-> NONE, preparation |-> 0]
NoBaseline == [exists |-> FALSE, healthy |-> ABSENT, legacy |-> ABSENT, provenance |-> ABSENT]
NoFiles == [healthy |-> ABSENT, legacy |-> ABSENT]
Down == [pc |-> "down", profile |-> NONE, runtime |-> NoFiles, hashes |-> NoFiles]

-----------------------------------------------------------------------------
(* Profiles and their baselines.  A file holds the number of its preparation. *)

\* load without artifacts: also the semantic map is right where there is one.
Loads(doc) == doc.map # "wrong"

\* baseline_binding
Binding(doc) ==
    LET b == baseline[doc.dir] IN
    CASE b.provenance = ABSENT -> "needs_review"
      [] /\ b.provenance > 0 /\ made[b.provenance].contract = doc.contract
         /\ b.healthy = b.provenance /\ b.legacy = b.provenance -> "active"
      [] OTHER -> "refused"

LoadsBound(doc) ==
    LET b == baseline[doc.dir] IN
    /\ Loads(doc) /\ b.legacy # ABSENT
    /\ b.healthy > 0 /\ made[b.healthy].universe = doc.universe
    /\ Binding(doc) # "refused"

-----------------------------------------------------------------------------
(* What an interval shows: profile_check.py and baseline_issues *)

Observations ==
    [long : BOOLEAN, points : {"none", "sparse", "enough"}, source : {"available", "failed"},
     spans : {"none", "of some", "of all"}, annotations : SUBSET {"warnings", "infos"}]

When(condition, issue) == IF condition THEN {issue} ELSE {}
NoTraces(o) == o.source # "available" \/ o.spans = "none"
BaselineIssues(o) ==
    When(~o.long, "interval") \cup When(o.points # "enough", "coverage")
    \cup When(NoTraces(o), "traces") \cup When(o.spans # "of all", "services")
    \cup When("warnings" \in o.annotations, "warnings")

\* prepare goes on
Acceptable(o) == o.long /\ BaselineIssues(o) = {} /\ ~NoTraces(o) /\ o.points # "none"

\* check_profile, with or without --baseline
Verdict(o, forBaseline) ==
    LET issues == When(o.points = "none", "metrics") \cup When(NoTraces(o), "traces")
                  \cup IF forBaseline THEN BaselineIssues(o)
                       ELSE When(o.annotations # {}, "annotations")
    IN  IF issues = {} THEN "ready"
        ELSE IF forBaseline THEN "not_ready_for_baseline" ELSE "degraded_incident_input"

-----------------------------------------------------------------------------
(* Commands of the operators *)

Becomes(o, new) == op' = [op EXCEPT ![o] = new]
Ends(o) == Becomes(o, Idle)
Goes(o, pc) == Becomes(o, [op[o] EXCEPT !.pc = pc])

EditDraft ==
    /\ draft' \in Docs \ {draft}
    /\ UNCHANGED <<active, history, lock, baseline, made, op, server, past, kills>>

\* prepare loads the profile and collects, as long as there is no baseline yet.
Prepare(o) ==
    /\ op[o].pc = "idle" /\ Loads(draft) /\ ~baseline[draft.dir].exists
    /\ \E seen \in Observations : Acceptable(seen)
    /\ Becomes(o, [Idle EXCEPT !.pc = "collected", !.profile = draft])
    /\ UNCHANGED <<draft, active, history, lock, baseline, made, server, past, kills>>

\* Mutant: the directory may exist by now.
MkdirAnyway(o) ==
    /\ baseline' = [baseline EXCEPT ![op[o].profile.dir].exists = TRUE]
    /\ made' = Append(made, op[o].profile)
    /\ Becomes(o, [op[o] EXCEPT !.pc = "writing", !.step = 1, !.preparation = Len(made) + 1])
Mkdir(o) ==
    IF baseline[op[o].profile.dir].exists THEN Ends(o) /\ UNCHANGED <<baseline, made>>
    ELSE /\ baseline' = [baseline EXCEPT ![op[o].profile.dir].exists = TRUE]
         /\ made' = Append(made, op[o].profile)
         /\ Becomes(o, [op[o] EXCEPT !.pc = "writing", !.step = 1, !.preparation = Len(made) + 1])
Fitted(o) ==
    /\ op[o].pc = "collected" /\ Len(made) <= MaxPreparations /\ Mkdir(o)
    /\ UNCHANGED <<draft, active, history, lock, server, past, kills>>

\* write_text: a file is opened, which empties it, then it has its content.
Write(o) ==
    LET n == op[o].step  file == FILES[(n + 1) \div 2] IN
    /\ op[o].pc = "writing"
    /\ baseline' = [baseline EXCEPT ![op[o].profile.dir][file] =
                        IF n % 2 = 1 THEN TORN ELSE op[o].preparation]
    /\ IF n = 6 THEN Ends(o) ELSE Becomes(o, [op[o] EXCEPT !.step = n + 1])
    /\ UNCHANGED <<draft, active, history, lock, made, server, past, kills>>

\* activate validates the draft, or a profile of the history, for an operator who
\* has seen what is active.  The file is read three times: it must stay the same.
Activate(o) ==
    /\ op[o].pc = "idle"
    /\ \E source \in {"draft", "history"} :
         \E doc \in IF source = "draft" THEN {draft} ELSE {d \in Docs : history[d] = "whole"} :
             /\ LoadsBound(doc) /\ doc.map = "reviewed" /\ Binding(doc) = "active" /\ doc.id = ID
             /\ Becomes(o, [Idle EXCEPT !.pc = "lock", !.source = source, !.profile = doc,
                                        !.expected = active])
    /\ UNCHANGED <<draft, active, history, lock, baseline, made, server, past, kills>>

\* Under the lock: what is active is what the operator has seen, of the same
\* identity, and the draft still what was validated.
Compare(o) ==
    /\ active = op[o].expected /\ (active # NONE => active.id = op[o].profile.id)
    /\ op[o].source = "draft" => draft = op[o].profile
Lock(o) ==
    /\ op[o].pc = "lock" /\ lock = NONE
    /\ IF Compare(o) THEN lock' = o /\ Goes(o, "backup") ELSE Ends(o) /\ UNCHANGED lock
    /\ UNCHANGED <<draft, active, history, baseline, made, server, past, kills>>

\* The backup of what is active: one of that name is either it or a conflict.
Backup(o) ==
    LET old == op[o].expected IN
    /\ op[o].pc = "backup"
    /\ IF old = NONE THEN Goes(o, "replace") /\ UNCHANGED <<history, lock>>
       ELSE CASE history[old] = "whole"   -> Goes(o, "replace") /\ UNCHANGED <<history, lock>>
              [] history[old] = "partial" -> Ends(o) /\ lock' = NONE /\ UNCHANGED history
              [] OTHER -> /\ history' = [history EXCEPT ![old] = "partial"]
                          /\ Goes(o, "copy") /\ UNCHANGED lock
    /\ UNCHANGED <<draft, active, baseline, made, server, past, kills>>
Copy(o) ==
    /\ op[o].pc = "copy" /\ history' = [history EXCEPT ![op[o].expected] = "whole"]
    /\ Goes(o, "replace")
    /\ UNCHANGED <<draft, active, lock, baseline, made, server, past, kills>>

\* os.replace is one step, whatever becomes of the process.
Replace(o) ==
    /\ op[o].pc = "replace" /\ active' = op[o].profile /\ lock' = NONE /\ Ends(o)
    /\ past' = IF active = NONE THEN past ELSE past \cup {active}
    /\ UNCHANGED <<draft, history, baseline, made, server, kills>>

\* The command is killed: its lock goes with it, files stay as they are.
Kill(o) ==
    /\ op[o].pc # "idle" /\ kills < MaxKills /\ kills' = kills + 1 /\ Ends(o)
    /\ lock' = IF lock = o THEN NONE ELSE lock
    /\ UNCHANGED <<draft, active, history, baseline, made, server, past>>

\* Somebody removes a baseline, to prepare it anew, while nobody is writing one
\* and the server is not starting.
Remove(dir) ==
    /\ baseline[dir].exists /\ baseline' = [baseline EXCEPT ![dir] = NoBaseline]
    /\ server.pc \notin {"runtime", "hashes"} /\ \A o \in Operators : op[o].pc # "writing"
    /\ UNCHANGED <<draft, active, history, lock, made, op, server, past, kills>>

-----------------------------------------------------------------------------
(* The server *)

FilesOf(doc) == [healthy |-> baseline[doc.dir].healthy, legacy |-> baseline[doc.dir].legacy]

\* A profile that cannot be loaded is reported and left out.
Serve ==
    /\ server.pc = "down" /\ active # NONE
    /\ server' = IF LoadsBound(active) THEN [Down EXCEPT !.pc = "runtime", !.profile = active]
                 ELSE [Down EXCEPT !.pc = "error"]
    /\ UNCHANGED <<draft, active, history, lock, baseline, made, op, past, kills>>

\* ProfileTransferRuntime reads the files again, and checks them by themselves.
Runtime ==
    LET b == baseline[server.profile.dir] IN
    /\ server.pc = "runtime"
    /\ server' = IF /\ b.provenance = ABSENT \/ (b.healthy = b.provenance /\ b.legacy = b.provenance)
                    /\ b.healthy > 0 /\ b.legacy > 0
                    /\ made[b.healthy].universe = server.profile.universe
                 THEN [server EXCEPT !.pc = "hashes", !.runtime = FilesOf(server.profile)]
                 ELSE [Down EXCEPT !.pc = "error"]
    /\ UNCHANGED <<draft, active, history, lock, baseline, made, op, past, kills>>
Hashes ==
    /\ server.pc = "hashes"
    /\ server' = [server EXCEPT !.pc = "up", !.hashes = FilesOf(server.profile)]
    /\ UNCHANGED <<draft, active, history, lock, baseline, made, op, past, kills>>
Stop ==
    /\ server.pc \in {"up", "error"} /\ server' = Down
    /\ UNCHANGED <<draft, active, history, lock, baseline, made, op, past, kills>>

\* analyze_live goes on to collect and rank: the binding holds and the files are
\* those the server has in memory.
Analyzes ==
    /\ server.pc = "up" /\ Binding(server.profile) # "refused"
    /\ FilesOf(server.profile) = server.hashes

-----------------------------------------------------------------------------
(* Which services a source names: inspect_profile, before there is a baseline, and *)
(* LiveProfile.service, in every collection                                        *)

Labels == {"orders", "pay", "pay-1", "proxy"}
\* What a profile may say of them; an alias is of a configured service.
Naming ==
    UNION {[services : {S}, ignored : SUBSET Labels, aliases : UNION {[A -> S] : A \in SUBSET Labels}] :
             S \in SUBSET {"orders", "pay"} \ {{}}}

Logical(m, label) == IF label \in DOMAIN m.aliases THEN m.aliases[label] ELSE label
Inspection(m, seen) ==
    LET observed == {Logical(m, l) : l \in seen \ m.ignored} IN
    [proposed |-> m.services \cup observed, unmapped |-> observed \ m.services,
     unseen |-> m.services \ observed]

Service(m, label) ==
    CASE label \in m.ignored -> "none"
      [] label \notin m.ignored /\ Logical(m, label) \in m.services -> Logical(m, label)
      [] OTHER -> "unmapped"

-----------------------------------------------------------------------------
(* How a baseline applies to a window: baseline_applicability.py *)

SOURCES == {"profile_constant", "measured_interval_mean"}
Numbers == {NONE, 1, 2, 3}
Provenances ==
    [start : Numbers, end : Numbers, version : {1, 2}, rps : Numbers, source : SOURCES \cup {"other"}]
Windows ==
    {w \in [start : 1..2, end : 2..3, rps : Numbers, source : SOURCES \cup {"other"}] : w.start < w.end}

Assess(p, w) ==
    LET healthy == IF p.start # NONE /\ p.end # NONE THEN p.start < p.end ELSE FALSE
        temporal == IF ~healthy THEN "UNKNOWN" ELSE IF p.end < w.start THEN "PRECEDES"
                    ELSE IF p.start > w.end THEN "AFTER" ELSE "OVERLAPS"
        known == p.version = 1 /\ p.source \in SOURCES /\ p.rps # NONE
        source == IF known THEN p.source ELSE "unknown"
        current == IF w.source \in SOURCES THEN w.source ELSE "unknown"
        relation == IF ~known \/ w.rps = NONE THEN "UNKNOWN" ELSE IF w.rps = p.rps THEN "SAME" ELSE "DIFFERENT"
        reasons == When(temporal # "PRECEDES", <<"healthy", temporal>>)
                   \cup When(source # "measured_interval_mean", <<"reference", source>>)
                   \cup When(current # "measured_interval_mean", <<"current", current>>)
                   \cup When(relation = "DIFFERENT", <<"load", "differs">>) \cup When(w.rps = NONE, <<"load", "unknown">>)
    IN  [start |-> IF healthy THEN p.start ELSE NONE, end |-> IF healthy THEN p.end ELSE NONE,
         temporal |-> temporal, rps |-> IF known THEN p.rps ELSE NONE, source |-> source,
         current |-> current, relation |-> relation, reasons |-> reasons]

\* context_projection puts together anew what a provider may see.
Projection(a, w) ==
    Assess([start |-> a.start, end |-> a.end, version |-> 1, rps |-> a.rps, source |-> a.source],
           [w EXCEPT !.source = a.current])

-----------------------------------------------------------------------------

Init ==
    /\ draft \in Docs /\ active \in {Shipped, NONE} /\ history = [d \in Docs |-> "none"]
    /\ lock = NONE /\ op = [o \in Operators |-> Idle] /\ server = Down /\ past = {} /\ kills = 0
    /\ made = <<Shipped>>
    /\ baseline = [d \in Dirs |-> IF d # Shipped.dir THEN NoBaseline
                     ELSE [exists |-> TRUE, healthy |-> 1, legacy |-> 1, provenance |-> ABSENT]]

Next ==
    \/ EditDraft \/ Serve \/ Runtime \/ Hashes \/ Stop
    \/ \E d \in Dirs : Remove(d)
    \/ \E o \in Operators :
         \/ Prepare(o) \/ Fitted(o) \/ Write(o) \/ Kill(o)
         \/ Activate(o) \/ Lock(o) \/ Backup(o) \/ Copy(o) \/ Replace(o)
Spec == Init /\ [][Next]_onboardingVars

-----------------------------------------------------------------------------
(* Properties *)

\* Every profile that was in use and is no longer can be taken back: a backup
\* that a kill left incomplete never stands for one.
HistoryWhole == \A d \in past : d = active \/ history[d] = "whole"

\* Nobody replaces a profile they have not seen: until the replacement, what is
\* active is what the operator expected, whoever else activates at the time.
NothingLost ==
    \A o \in Operators :
        op[o].pc \in {"backup", "copy", "replace"} => lock = o /\ active = op[o].expected

\* A baseline that has its provenance is of one preparation, though two of them
\* may have been under way for the same directory.
BaselineOfOne ==
    \A dir \in Dirs : baseline[dir].provenance > 0 =>
        FilesOf([dir |-> dir]) = [healthy |-> baseline[dir].provenance, legacy |-> baseline[dir].provenance]

\* An answer comes from the expectations of one preparation, for the services of
\* the profile, and for its very contract where the baseline is bound, though
\* the files may have been replaced since the server read them.
AnswersBound ==
    Analyzes =>
        LET p == server.runtime.healthy IN
        /\ server.runtime.legacy = p /\ made[p].universe = server.profile.universe
        /\ Binding(server.profile) = "active" => made[p].contract = server.profile.contract

\* What the check calls ready for a baseline is what the preparation accepts,
\* and is ready for an incident too unless the source only had remarks.
ReadyPrepares ==
    \A o \in Observations :
        /\ Verdict(o, TRUE) = "ready" <=> Acceptable(o)
        /\ Verdict(o, TRUE) = "ready" /\ o.annotations = {} => Verdict(o, FALSE) = "ready"

\* What a provider is told of the baseline is what the operator is shown.
ProjectionFaithful ==
    \A p \in Provenances, w \in Windows : Projection(Assess(p, w), w) = Assess(p, w)


\* What an inspection reports is what a collection will meet: it raises for a label
\* exactly when a service was reported as unmapped, covers the configured services
\* not reported as missing, and takes every label once the proposed are configured.
InspectionTells ==
    \A m \in Naming : \A seen \in SUBSET Labels :
        LET report == Inspection(m, seen)
            met == {Service(m, l) : l \in seen}
        IN /\ "unmapped" \in met <=> report.unmapped # {}
           /\ met \ {"none", "unmapped"} = m.services \ report.unseen
           /\ \A l \in seen : Service([m EXCEPT !.services = report.proposed], l) # "unmapped"
=============================================================================
