---------------------------- MODULE RecordEditing ----------------------------
(***************************************************************************)
(* People editing and reviewing the human record of an investigation while *)
(* its jobs run: the requests GET investigation, POST record and POST      *)
(* review of cmd/thesis_demo/workspace_http.py on the workspace store.     *)
(* What an editor has on the screen is what it read last; a write carries  *)
(* the revision that was read with it (expected_revision).                 *)
(***************************************************************************)
EXTENDS WorkspaceStore

CONSTANT Editors

VARIABLE screen        \* what each editor has read

NothingRead == [id |-> NONE, revision |-> 0, body |-> Blank, approval |-> NONE]

editingVars == <<allStoreVars, screen>>

\* get_investigation
Open(e, i) ==
    /\ Visible(i)
    /\ screen' = [screen EXCEPT ![e] =
         [id |-> i, revision |-> investigations[i].revision,
          body |-> investigations[i].body,
          approval |-> investigations[i].approval]]
    /\ UNCHANGED allStoreVars

\* The operation "record"; the answer is a read of its own.
Save(e, b) ==
    /\ screen[e].id # NONE
    /\ SaveRecord(screen[e].id, screen[e].revision, b)
    /\ UNCHANGED screen

\* The operation "review".
Review(e) ==
    /\ screen[e].id # NONE
    /\ ReviewRecord(screen[e].id, screen[e].revision)
    /\ UNCHANGED screen

\* What happens to the same rows meanwhile.
Meanwhile ==
    /\ \/ Tick \/ PurgeExpired
       \/ \E a \in Analyses :
            \/ DeleteSnapshot(a)
            \/ \E p \in Payloads : PutSnapshot(a, p)
            \/ \E i \in Ids, k \in Keys, r \in Requests :
                 CreateInvestigation(i, a, k, r)
       \/ \E i \in Ids :
            \/ ClaimJob(i)
            \/ \E o \in JobOutcome : FinishJob(i, o)
            \/ \E k \in Keys, r \in Requests : AddTurn(i, k, r)
    /\ UNCHANGED screen

EditingInit == Init /\ screen = [e \in Editors |-> NothingRead]

EditingNext ==
    \/ Meanwhile
    \/ \E e \in Editors :
         \/ Review(e)
         \/ \E i \in Ids : Open(e, i)
         \/ \E b \in Bodies : Save(e, b)

EditingSpec == EditingInit /\ [][EditingNext]_editingVars

-----------------------------------------------------------------------------
(* Properties *)

\* Who still has the current revision has the current record: neither a job
\* nor another editor changes the record and leaves the revision.
RevisionIdentifiesRecord ==
    \A e \in Editors : \A i \in Ids :
        /\ Exists(i) /\ screen[e].id = i
        /\ screen[e].revision = investigations[i].revision
        => /\ screen[e].body = investigations[i].body
           /\ screen[e].approval = investigations[i].approval

\* The tables hold together under every history of jobs, follow-ups, deletions,
\* restarts and edits: cascades are complete; a turn has its answer exactly when
\* it has ended, and only the last is open; who has the current revision has the
\* current record; the bytes in use never exceed the quota, though an answer is
\* written long after its room was checked; and no window of a day sees more jobs
\* than its allowance, whatever is deleted in between.  What the reads tell of
\* keys and of the allowance is what the writes go by.
RowsAndLimits ==
    /\ TypeOK /\ NoOrphans /\ AnsweredIffEnded /\ ReadsAgree
    /\ RevisionIdentifiesRecord
    /\ WithinQuota /\ RollingAllowance

\* No lost update: an editor only ever replaces the record it has read, and
\* its approval is given to the very text on its screen.
OverwritesOnlyWhatWasRead ==
    \A e \in Editors :
        LET i == screen[e].id IN
        /\ \A b \in Bodies : Save(e, b) =>
             /\ investigations[i].body = screen[e].body
             /\ investigations[i].approval = screen[e].approval
        /\ Review(e) => investigations'[i].approval = screen[e].body
NoLostUpdate == [][OverwritesOnlyWhatWasRead]_editingVars
=============================================================================
