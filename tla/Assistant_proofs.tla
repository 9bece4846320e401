---------------------------- MODULE Assistant_proofs ---------------------------
(****************************************************************************)
(* Proofs about the assistant, for every value of the constants: the        *)
(* supervisor of its worker, the conversation, the stream of one answer,    *)
(* the provider connection and the page of the workspace each keep an       *)
(* invariant, from which what the run of MCAssistant checks follows.        *)
(*                                                                          *)
(* The state of a job is followed along the places of the parent; the       *)
(* outputs of a conversation are those of the calls that are no longer to   *)
(* be recorded; a stream is whole as long as nothing that was sent is       *)
(* missing; a grant of the provider is used by one sign-in, then by the     *)
(* file and by whoever has the lock; and no request of the page that is     *)
(* under way would replace a text that the server has not taken.            *)
(****************************************************************************)
EXTENDS MCAssistant, Integers, SequenceTheorems, FiniteSetTheorems,
        WellFoundedInduction, TLAPS


-----------------------------------------------------------------------------
(* The supervisor *)

\* A child that is killed is no longer alive, and never ends well by it.
LEMMA KilledChild ==
    ASSUME child \in Hanging!Children
    PROVE  /\ Hanging!Killed \in Hanging!Children
           /\ child.state # "alive" => Hanging!Killed = child
           /\ child.state = "alive" => Hanging!Killed.state = "zombie"
           /\ Hanging!Killed.exit = 0 => child.exit = 0 /\ child.state # "alive"
           /\ Hanging!Killed.step = child.step /\ Hanging!Killed.doc = child.doc
           /\ Hanging!Killed.length = child.length
<1>1. CASE child.state = "alive"
  <2>1. Hanging!Killed = [child EXCEPT !.state = "zombie", !.exit = 1]
    BY <1>1 DEF Hanging!Killed
  <2> HIDE DEF Hanging!Killed
  <2>2. Hanging!Killed \in Hanging!Children
    BY <2>1 DEF Hanging!Children
  <2>3. /\ Hanging!Killed.state = "zombie" /\ Hanging!Killed.exit = 1
        /\ Hanging!Killed.step = child.step /\ Hanging!Killed.doc = child.doc
        /\ Hanging!Killed.length = child.length
    BY <2>1 DEF Hanging!Children
  <2> QED
    BY <1>1, <2>2, <2>3
<1>2. CASE child.state # "alive"
  BY <1>2 DEF Hanging!Killed
<1> QED
  BY <1>1, <1>2

\* A failure of the parent is not a report of the child.
LEMMA FailureCodes ==
    ASSUME NEW code \in Hanging!Codes \ {"CHILD"}, NEW started \in BOOLEAN
    PROVE  /\ Hanging!Failure(code, started) \in [code : Hanging!Codes, started : BOOLEAN]
           /\ Hanging!Failure(code, started).started = started
           /\ Hanging!Failure(code, started) # Hanging!FromChild
<1>1. Hanging!Failure(code, started).code = code
  BY DEF Hanging!Failure
<1>2. Hanging!FromChild.code = "CHILD"
  BY DEF Hanging!FromChild
<1> QED
  BY <1>1, <1>2 DEF Hanging!Failure

\* Every step of the parent, of the child and of time keeps the invariant.
LEMMA SupervisorStep ==
    ASSUME Hanging!SupervisorInv, Hanging!Next
    PROVE  Hanging!SupervisorInv'
<1> USE DEF Hanging!Codes, Hanging!parentVars, Hanging!childVars, Hanging!NoResult, Hanging!NoChild,
        Hanging!FromChild, Hanging!Docs, Hanging!SupervisorTypeOK, Hanging!BeforeSpawn,
        Hanging!ChildFollowed, Hanging!ResultEarned, Hanging!Children, Hanging!Reasons
<1>c. /\ JobSizes \subseteq Nat \ {0} /\ OutputSizes \subseteq Nat \ {0}
      /\ MaxClock \in Nat
  BY InstancesAssumption DEF InstancesAssumption, Hanging!SupervisorAssumption
<1>i. /\ Hanging!SupervisorTypeOK /\ child \in Hanging!Children /\ reason \in Hanging!Reasons
      /\ supervisorResult \in [code : Hanging!Codes, started : BOOLEAN]
      /\ Hanging!BeforeSpawn /\ Hanging!ChildFollowed /\ Hanging!ResultEarned
  BY DEF Hanging!SupervisorInv
<1>1. CASE Hanging!Refuse
  <2>1. /\ supervisorPc = "start" /\ supervisorPc' = "done" /\ job' \in JobSizes
        /\ UNCHANGED <<supervisorClock, cancel, ready, offset, stdin, stdout, printout,
                       reason, child, helper, taken, printed, called>>
    BY <1>1 DEF Hanging!Refuse
  <2>2. supervisorResult' \in {Hanging!Failure("JOB_BUDGET", FALSE),
           Hanging!Failure("CANCELLED", FALSE), Hanging!Failure("WORKER_UNAVAILABLE", FALSE)}
    BY <1>1 DEF Hanging!Refuse
  <2>3. /\ supervisorResult' \in [code : Hanging!Codes, started : BOOLEAN]
        /\ ~supervisorResult'.started /\ supervisorResult' # Hanging!FromChild
    <3>1. /\ "JOB_BUDGET" \in Hanging!Codes \ {"CHILD"} /\ "CANCELLED" \in Hanging!Codes \ {"CHILD"}
          /\ "WORKER_UNAVAILABLE" \in Hanging!Codes \ {"CHILD"}
      OBVIOUS
    <3> QED
      BY <2>2, <3>1, FailureCodes
  <2> QED
    BY <1>c, <1>i, <2>1, <2>3 DEF Hanging!SupervisorInv
<1>2. CASE Hanging!Spawn
  BY <1>c, <1>i, <1>2 DEF Hanging!SupervisorInv, Hanging!Spawn
<1>3. CASE Hanging!Round
  <2>1. (Hanging!SupervisorTypeOK)'
    BY ZenonT(60), <1>c, <1>i, <1>3 DEF Hanging!Round
  <2>2. (child \in Hanging!Children /\ reason \in Hanging!Reasons /\ supervisorResult \in [code : Hanging!Codes, started : BOOLEAN])'
    BY <1>c, <1>i, <1>3 DEF Hanging!Round
  <2>3. (Hanging!BeforeSpawn /\ Hanging!ChildFollowed)'
    BY <1>c, <1>i, <1>3 DEF Hanging!Round
  <2>4. (Hanging!ResultEarned)'
    BY <1>c, <1>i, <1>3 DEF Hanging!Round
  <2> QED
    BY <2>1, <2>2, <2>3, <2>4 DEF Hanging!SupervisorInv
<1>4. CASE Hanging!Write
  BY <1>c, <1>i, <1>4 DEF Hanging!SupervisorInv, Hanging!Write
<1>5. CASE Hanging!Read
  <2>1. CASE printed > printout
    BY <1>c, <1>i, <1>5, <2>1 DEF Hanging!SupervisorInv, Hanging!Read
  <2>2. CASE ~(printed > printout)
    <3>1. /\ supervisorPc = "select" /\ stdout' = FALSE /\ ready' = ready \ {"stdout"}
          /\ UNCHANGED <<supervisorClock, cancel, supervisorPc, job, offset, stdin,
                 printout, reason, supervisorResult, child, helper, taken, printed, called>>
      BY <1>5, <2>2 DEF Hanging!Read
    <3>2. Hanging!SupervisorTypeOK'
      BY <1>i, <3>1
    <3>3. (Hanging!BeforeSpawn /\ Hanging!ChildFollowed /\ Hanging!ResultEarned)'
      BY <1>i, <3>1
    <3> QED
      BY <1>i, <3>1, <3>2, <3>3 DEF Hanging!SupervisorInv
  <2> QED
    BY <2>1, <2>2
<1>6. CASE Hanging!NextRound
  BY <1>c, <1>i, <1>6 DEF Hanging!SupervisorInv, Hanging!NextRound
<1>7. CASE Hanging!WaitChild
  BY <1>c, <1>i, <1>7 DEF Hanging!SupervisorInv, Hanging!WaitChild
<1>8. CASE Hanging!Parse
  BY <1>c, <1>i, <1>8 DEF Hanging!SupervisorInv, Hanging!Parse, Hanging!Parseable, Hanging!Failure
<1>9. CASE Hanging!Term
  <2>1. /\ supervisorPc = "term" /\ supervisorPc' = "grace"
        /\ child' \in {child, Hanging!Killed} /\ helper' \in {helper, FALSE}
        /\ supervisorResult' = Hanging!Returned
        /\ UNCHANGED <<supervisorClock, cancel, ready, job, offset, stdin, stdout,
                       printout, reason, taken, printed, called>>
    BY <1>9 DEF Hanging!Term
  <2>2. /\ Hanging!Returned \in [code : Hanging!Codes, started : BOOLEAN]
        /\ Hanging!Returned.started
        /\ Hanging!Returned = Hanging!FromChild => supervisorResult = Hanging!FromChild
    BY <1>i, <2>1 DEF Hanging!Returned, Hanging!Failure
  <2>3. child' \in Hanging!Children
    BY <1>i, <2>1, KilledChild
  <2>4. Hanging!SupervisorTypeOK' /\ (reason \in Hanging!Reasons)'
    BY <1>i, <2>1, <2>3
  <2>5. Hanging!BeforeSpawn'
    BY <1>i, <2>1
  <2>6. Hanging!ChildFollowed'
    BY <1>i, <2>1, KilledChild
  <2>7. Hanging!ResultEarned'
    BY <1>i, <2>1, <2>2, KilledChild
  <2> QED
    BY <2>1, <2>2, <2>3, <2>4, <2>5, <2>6, <2>7 DEF Hanging!SupervisorInv
<1>10. CASE Hanging!Grace
  BY <1>c, <1>i, <1>10 DEF Hanging!SupervisorInv, Hanging!Grace
<1>11. CASE Hanging!Kill
  <2>1. (Hanging!SupervisorTypeOK)'
    BY <1>c, <1>i, <1>11 DEF Hanging!Kill, Hanging!Killed
  <2>2. (child \in Hanging!Children /\ reason \in Hanging!Reasons /\ supervisorResult \in [code : Hanging!Codes, started : BOOLEAN])'
    BY <1>c, <1>i, <1>11 DEF Hanging!Kill, Hanging!Killed
  <2>3. (Hanging!BeforeSpawn /\ Hanging!ChildFollowed)'
    BY <1>c, <1>i, <1>11 DEF Hanging!Kill, Hanging!Killed
  <2>4. (Hanging!ResultEarned)'
    BY <1>c, <1>i, <1>11 DEF Hanging!Kill, Hanging!Killed
  <2> QED
    BY <2>1, <2>2, <2>3, <2>4 DEF Hanging!SupervisorInv
<1>12. CASE Hanging!Reap
  <2>1. (Hanging!SupervisorTypeOK)'
    BY <1>c, <1>i, <1>12 DEF Hanging!Reap
  <2>2. (child \in Hanging!Children /\ reason \in Hanging!Reasons /\ supervisorResult \in [code : Hanging!Codes, started : BOOLEAN])'
    BY <1>c, <1>i, <1>12 DEF Hanging!Reap
  <2>3. (Hanging!BeforeSpawn /\ Hanging!ChildFollowed)'
    BY <1>c, <1>i, <1>12 DEF Hanging!Reap
  <2>4. (Hanging!ResultEarned)'
    BY <1>c, <1>i, <1>12 DEF Hanging!Reap
  <2> QED
    BY <2>1, <2>2, <2>3, <2>4 DEF Hanging!SupervisorInv
<1>13. CASE Hanging!Revalidate
  BY <1>c, <1>i, <1>13 DEF Hanging!SupervisorInv, Hanging!Revalidate, Hanging!Failure
<1>14. CASE Hanging!Take
  BY <1>c, <1>i, <1>14 DEF Hanging!SupervisorInv, Hanging!Take, Hanging!At, Hanging!Alive
<1>15. CASE Hanging!Work
  <2>1. (Hanging!SupervisorTypeOK)'
    BY <1>c, <1>i, <1>15 DEF Hanging!Work, Hanging!At, Hanging!Alive
  <2>2. (child \in Hanging!Children /\ reason \in Hanging!Reasons /\ supervisorResult \in [code : Hanging!Codes, started : BOOLEAN])'
    BY ZenonT(60), <1>c, <1>i, <1>15 DEF Hanging!Work, Hanging!At, Hanging!Alive
  <2>3. (Hanging!BeforeSpawn /\ Hanging!ChildFollowed)'
    BY <1>c, <1>i, <1>15 DEF Hanging!Work, Hanging!At, Hanging!Alive
  <2>4. (Hanging!ResultEarned)'
    BY <1>c, <1>i, <1>15 DEF Hanging!Work, Hanging!At, Hanging!Alive
  <2> QED
    BY <2>1, <2>2, <2>3, <2>4 DEF Hanging!SupervisorInv
<1>16. CASE Hanging!Emit
  BY <1>c, <1>i, <1>16 DEF Hanging!SupervisorInv, Hanging!Emit, Hanging!At, Hanging!Alive
<1>17. CASE Hanging!Exit
  <2>1. (Hanging!SupervisorTypeOK)'
    BY <1>c, <1>i, <1>17 DEF Hanging!Exit, Hanging!At, Hanging!Alive
  <2>2. (child \in Hanging!Children /\ reason \in Hanging!Reasons /\ supervisorResult \in [code : Hanging!Codes, started : BOOLEAN])'
    BY <1>c, <1>i, <1>17 DEF Hanging!Exit, Hanging!At, Hanging!Alive
  <2>3. (Hanging!BeforeSpawn /\ Hanging!ChildFollowed)'
    BY <1>c, <1>i, <1>17 DEF Hanging!Exit, Hanging!At, Hanging!Alive
  <2>4. (Hanging!ResultEarned)'
    BY <1>c, <1>i, <1>17 DEF Hanging!Exit, Hanging!At, Hanging!Alive
  <2> QED
    BY <2>1, <2>2, <2>3, <2>4 DEF Hanging!SupervisorInv
<1>18. CASE Hanging!Crash
  <2>1. (Hanging!SupervisorTypeOK)'
    BY <1>c, <1>i, <1>18 DEF Hanging!Crash, Hanging!Alive
  <2>2. (child \in Hanging!Children /\ reason \in Hanging!Reasons /\ supervisorResult \in [code : Hanging!Codes, started : BOOLEAN])'
    BY <1>c, <1>i, <1>18 DEF Hanging!Crash, Hanging!Alive
  <2>3. (Hanging!BeforeSpawn /\ Hanging!ChildFollowed)'
    BY <1>c, <1>i, <1>18 DEF Hanging!Crash, Hanging!Alive
  <2>4. (Hanging!ResultEarned)'
    BY <1>c, <1>i, <1>18 DEF Hanging!Crash, Hanging!Alive
  <2> QED
    BY <2>1, <2>2, <2>3, <2>4 DEF Hanging!SupervisorInv
<1>19. CASE Hanging!HelperEnds
  <2>1. (Hanging!SupervisorTypeOK)'
    BY <1>c, <1>i, <1>19 DEF Hanging!HelperEnds
  <2>2. (child \in Hanging!Children /\ reason \in Hanging!Reasons /\ supervisorResult \in [code : Hanging!Codes, started : BOOLEAN])'
    BY <1>c, <1>i, <1>19 DEF Hanging!HelperEnds
  <2>3. (Hanging!BeforeSpawn /\ Hanging!ChildFollowed)'
    BY <1>c, <1>i, <1>19 DEF Hanging!HelperEnds
  <2>4. (Hanging!ResultEarned)'
    BY <1>c, <1>i, <1>19 DEF Hanging!HelperEnds
  <2> QED
    BY <2>1, <2>2, <2>3, <2>4 DEF Hanging!SupervisorInv
<1>20. CASE Hanging!Cancel
  BY <1>c, <1>i, <1>20 DEF Hanging!SupervisorInv, Hanging!Cancel
<1>21. CASE Hanging!Tick
  BY <1>c, <1>i, <1>21 DEF Hanging!SupervisorInv, Hanging!Tick
<1> QED
  BY <1>1, <1>2, <1>3, <1>4, <1>5, <1>6, <1>7, <1>8, <1>9, <1>10, <1>11, <1>12, <1>13, <1>14, <1>15, <1>16, <1>17, <1>18, <1>19, <1>20, <1>21 DEF Hanging!Next, Hanging!Parent, Hanging!Worker

-----------------------------------------------------------------------------
(* The provider connection *)

\* What a request thread, a worker and a record carry, and keep when one field is
\* replaced.
LEMMA CallbackShape ==
    ASSUME NEW x \in Session!Callbacks, x.pc # "idle",
           NEW p \in {"exchange", "redeem", "compare", "save"}
    PROVE  /\ x.id \in Session!Attempts /\ x.subject \in Accounts /\ x.client \in Clients
           /\ x.pc \in {"exchange", "redeem", "compare", "save"}
           /\ [x EXCEPT !.pc = p] \in Session!Callbacks
           /\ [x EXCEPT !.pc = p].pc = p
           /\ [x EXCEPT !.pc = p].id = x.id
           /\ [x EXCEPT !.pc = p].client = x.client
           /\ [x EXCEPT !.pc = p].subject = x.subject
<1>1. x \in [pc : {"exchange", "redeem", "compare", "save"}, id : Session!Attempts,
             subject : Accounts, client : Clients]
  BY DEF Session!Callbacks, Session!Idle
<1>2. [x EXCEPT !.pc = p] \in [pc : {"exchange", "redeem", "compare", "save"},
             id : Session!Attempts, subject : Accounts, client : Clients]
  BY <1>1
<1> QED
  BY <1>1, <1>2 DEF Session!Callbacks

\* The threads that are busy with an attempt carry its number.
LEMMA CallbackIds ==
    \A x \in Session!Callbacks : x.pc # "idle" => x.id \in Session!Attempts
  BY DEF Session!Callbacks, Session!Idle

\* A worker at a step has the record of that step.
LEMMA SessionShape ==
    ASSUME NEW x \in Session!Sessions
    PROVE  /\ x.pc \in {"idle", "waiting", "refresh", "save"}
           /\ x.pc = "waiting" => x.record = NONE
           /\ x.pc \in {"refresh", "save"} => x.record \in Session!Record
  BY DEF Session!Sessions, Session!Idle

\* A record keeps its other fields when its token or its freshness changes.
LEMMA RecordShape ==
    ASSUME NEW r \in Session!Record, NEW next \in 0..MaxToken, NEW fresh \in BOOLEAN
    PROVE  /\ r.grant \in Session!Attempts /\ r.token \in 0..MaxToken
           /\ [r EXCEPT !.fresh = fresh] \in Session!Record
           /\ [r EXCEPT !.fresh = fresh].grant = r.grant
           /\ [r EXCEPT !.fresh = fresh].token = r.token
           /\ [r EXCEPT !.token = next, !.fresh = TRUE] \in Session!Record
           /\ [r EXCEPT !.token = next, !.fresh = TRUE].grant = r.grant
           /\ [r EXCEPT !.token = next, !.fresh = TRUE].token = next
  BY DEF Session!Record

\* Whoever is idle carries nothing.
LEMMA IdleShape ==
    /\ Session!Idle \in Session!Callbacks /\ Session!Idle \in Session!Sessions
    /\ Session!Idle.pc = "idle"
  BY DEF Session!Callbacks, Session!Sessions, Session!Idle

\* Every step of the sign-in, of a worker and of time keeps the invariant.
LEMMA ConnectionStep ==
    ASSUME Session!ConnectionInv, Session!Next
    PROVE  Session!ConnectionInv'
<1> USE DEF Session!disk, Session!login, Session!session, Session!provider, Session!ghosts,
            Session!Attempts, Session!Busied, Session!Holds
<1>c. MaxAttempts \in Nat /\ MaxToken \in Nat /\ NONE \notin Accounts \cup Clients \cup Workers
  BY InstancesAssumption DEF InstancesAssumption, Session!ConnectionAssumption
<1>i. Session!SessionTypes /\ Session!AttemptsFollowed /\ Session!TokensFollowed
  BY DEF Session!ConnectionInv
<1>1. CASE Session!Connect
  <2>1. Session!SessionTypes'
    BY <1>c, <1>i, <1>1 DEF Session!Connect, Session!Idle, Session!Record, Session!Callbacks, Session!Sessions, Session!SessionTypes, Session!AttemptsFollowed, Session!TokensFollowed, Session!Unused
  <2>2. Session!AttemptsFollowed'
    BY <1>c, <1>i, <1>1 DEF Session!Connect, Session!Idle, Session!Record, Session!Callbacks, Session!Sessions, Session!SessionTypes, Session!AttemptsFollowed, Session!TokensFollowed, Session!Unused
  <2>3. Session!TokensFollowed'
    BY <1>c, <1>i, <1>1 DEF Session!Connect, Session!Idle, Session!Record, Session!Callbacks, Session!Sessions, Session!SessionTypes, Session!AttemptsFollowed, Session!TokensFollowed, Session!Unused
  <2> QED
    BY <2>1, <2>2, <2>3 DEF Session!ConnectionInv
<1>2. CASE Session!Expire
  <2>1. Session!SessionTypes'
    BY <1>c, <1>i, <1>2 DEF Session!Expire, Session!Idle, Session!Record, Session!Callbacks, Session!Sessions, Session!SessionTypes, Session!AttemptsFollowed, Session!TokensFollowed, Session!Unused
  <2>2. Session!AttemptsFollowed'
    BY <1>c, <1>i, <1>2 DEF Session!Expire, Session!Idle, Session!Record, Session!Callbacks, Session!Sessions, Session!SessionTypes, Session!AttemptsFollowed, Session!TokensFollowed, Session!Unused
  <2>3. Session!TokensFollowed'
    BY <1>c, <1>i, <1>2 DEF Session!Expire, Session!Idle, Session!Record, Session!Callbacks, Session!Sessions, Session!SessionTypes, Session!AttemptsFollowed, Session!TokensFollowed, Session!Unused
  <2> QED
    BY <2>1, <2>2, <2>3 DEF Session!ConnectionInv
<1>3. ASSUME NEW t \in Threads, Session!Callback(t)
      PROVE  Session!ConnectionInv'
  <2>1. /\ thread[t].pc = "idle" /\ attempt # NONE
        /\ UNCHANGED <<attempts, registration, connection, holder, worker, issued,
                       redeemed, torn, deadSent, crossed>>
    BY <1>3 DEF Session!Callback
  <2>2. CASE UNCHANGED <<attempt, thread>>
    <3>1. Session!SessionTypes'
      BY <1>i, <2>1, <2>2 DEF Session!SessionTypes
    <3> QED
      BY <1>i, <2>1, <2>2, <3>1
         DEF Session!ConnectionInv, Session!AttemptsFollowed, Session!TokensFollowed, Session!Unused
  <2>3. CASE attempt' = NONE /\ UNCHANGED thread
    <3>1. Session!SessionTypes'
      BY <1>i, <2>1, <2>3 DEF Session!SessionTypes
    <3> QED
      BY <1>i, <2>1, <2>3, <3>1
         DEF Session!ConnectionInv, Session!AttemptsFollowed, Session!TokensFollowed, Session!Unused
  <2>4. ASSUME NEW x \in Session!Callbacks, x.pc = "exchange", x.id = attempt.id, attempt' = NONE,
               thread' = [thread EXCEPT ![t] = x]
        PROVE  Session!ConnectionInv'
    <3>1. Session!SessionTypes'
      BY <1>i, <2>1, <2>4 DEF Session!SessionTypes
    <3>2. attempt.id \in Session!Attempts /\ thread'[t] = x /\ \A u \in Threads \ {t} : thread'[u] = thread[u]
      BY <1>i, <2>1, <2>4 DEF Session!SessionTypes
    <3>3. Session!AttemptsFollowed'
      BY <1>c, <1>i, <2>1, <2>4, <3>2 DEF Session!AttemptsFollowed, Session!Unused
    <3>4. Session!TokensFollowed'
      BY <1>i, <2>1, <2>4 DEF Session!TokensFollowed
    <3> QED
      BY <3>1, <3>3, <3>4 DEF Session!ConnectionInv
  <2>5. CASE \E subject \in Accounts, client \in Clients :
               /\ attempt' = NONE
               /\ thread' = [thread EXCEPT ![t] = [pc |-> "exchange", id |-> attempt.id,
                                                 subject |-> subject, client |-> client]]
    <3>1. PICK subject \in Accounts, client \in Clients :
               /\ attempt' = NONE
               /\ thread' = [thread EXCEPT ![t] = [pc |-> "exchange", id |-> attempt.id,
                                                 subject |-> subject, client |-> client]]
      BY <2>5
    <3>2. attempt.id \in Session!Attempts
      BY <1>i, <2>1 DEF Session!SessionTypes
    <3>3. [pc |-> "exchange", id |-> attempt.id, subject |-> subject, client |-> client]
            \in Session!Callbacks
      BY <3>2 DEF Session!Callbacks
    <3> QED
      BY <2>4, <3>1, <3>3
  <2> QED
    <3>1. attempt.client \in Clients \cup {NONE}
      BY <1>i, <2>1 DEF Session!SessionTypes
    <3>2. \A supplied \in Clients \cup {NONE} :
            Session!ClientAccepted(attempt, supplied) => Session!ClientOf(attempt, supplied) \in Clients
      BY <3>1 DEF Session!ClientAccepted, Session!ClientOf
    <3> QED
      BY <1>3, <2>2, <2>3, <2>5, <3>2 DEF Session!Callback
<1>4. ASSUME NEW t \in Threads, Session!Register(t)
      PROVE  Session!ConnectionInv'
  <2> DEFINE x == [thread[t] EXCEPT !.pc = "redeem"]
  <2>1. /\ thread[t].pc = "exchange" /\ registration' = thread[t].client
        /\ thread' = [thread EXCEPT ![t] = x]
        /\ UNCHANGED <<connection, attempt, attempts, holder, worker, issued, redeemed,
                       torn, deadSent, crossed>>
    BY <1>4 DEF Session!Register
  <2>2. thread[t].client \in Clients /\ x \in Session!Callbacks /\ x.pc = "redeem" /\ x.id = thread[t].id
    <3>1. thread[t] \in Session!Callbacks
      BY <1>i DEF Session!SessionTypes
    <3> QED
      BY <2>1, <3>1, CallbackShape
  <2> HIDE DEF x
  <2>3. Session!SessionTypes'
    BY <1>i, <2>1, <2>2 DEF Session!SessionTypes
  <2>4. thread'[t] = x /\ \A u \in Threads \ {t} : thread'[u] = thread[u]
    BY <1>i, <2>1 DEF Session!SessionTypes
  <2>5. Session!AttemptsFollowed'
    BY <1>i, <2>1, <2>2, <2>4 DEF Session!AttemptsFollowed, Session!Unused
  <2>6. Session!TokensFollowed'
    BY <1>i, <2>1 DEF Session!TokensFollowed
  <2> QED
    BY <2>3, <2>5, <2>6 DEF Session!ConnectionInv
<1>5. ASSUME NEW t \in Threads, Session!Redeem(t)
      PROVE  Session!ConnectionInv'
  <2> DEFINE x == [thread[t] EXCEPT !.pc = "compare"]
  <2> DEFINE id == thread[t].id
  <2>1. /\ thread[t].pc = "redeem"
        /\ redeemed' = [redeemed EXCEPT ![id] = @ + 1]
        /\ thread' = [thread EXCEPT ![t] = x] \/ thread' = [thread EXCEPT ![t] = Session!Idle]
        /\ UNCHANGED <<registration, connection, attempt, attempts, holder, worker, issued,
                       torn, deadSent, crossed>>
    BY <1>5 DEF Session!Redeem
  <2>2. id \in Session!Attempts /\ x \in Session!Callbacks /\ x.pc = "compare" /\ x.id = id
    <3>1. thread[t] \in Session!Callbacks
      BY <1>i DEF Session!SessionTypes
    <3> QED
      BY <2>1, <3>1, CallbackShape
  <2> HIDE DEF x, id
  <2>3. Session!SessionTypes'
    <3>1. redeemed' \in [Session!Attempts -> Nat]
      BY <1>i, <2>1, <2>2 DEF Session!SessionTypes
    <3>2. thread' \in [Threads -> Session!Callbacks]
      BY <1>i, <2>1, <2>2, IdleShape DEF Session!SessionTypes
    <3> QED
      BY <1>i, <2>1, <3>1, <3>2 DEF Session!SessionTypes
  <2>4. /\ thread'[t] = x \/ thread'[t] = Session!Idle
        /\ \A u \in Threads \ {t} : thread'[u] = thread[u]
        /\ redeemed'[id] = redeemed[id] + 1 /\ \A a \in Session!Attempts \ {id} : redeemed'[a] = redeemed[a]
    BY <1>i, <2>1, <2>2 DEF Session!SessionTypes
  <2>5. redeemed[id] = 0 /\ id <= attempts /\ (attempt # NONE => id # attempt.id)
    BY <1>i, <2>1 DEF Session!AttemptsFollowed, id
  <2>6. \A u \in Threads \ {t} : Session!Busied(u) => thread[u].id # id
    BY <1>i, <2>1 DEF Session!AttemptsFollowed, id
  <2>7. Session!AttemptsFollowed'
    <3>1. \A u \in Threads : Session!Busied(u)' =>
             Session!Busied(u) /\ thread'[u].id = thread[u].id
      BY <2>1, <2>2, <2>4, IdleShape DEF id
    <3>2. \A a \in Session!Attempts : redeemed'[a] <= 1
      BY <1>i, <2>4, <2>5 DEF Session!AttemptsFollowed
    <3>3. \A a \in Session!Attempts : a # id => redeemed'[a] = redeemed[a]
      BY <2>4
    <3>4. \A u \in Threads : Session!Busied(u)' /\ thread'[u].pc \in {"exchange", "redeem"} =>
            u # t /\ thread[u].pc = thread'[u].pc /\ thread[u].id # id
      BY <2>1, <2>2, <2>4, <2>6, IdleShape
    <3>5. \A a \in Session!Attempts : Session!Unused(a) => Session!Unused(a)'
      BY <2>1 DEF Session!Unused
    <3>6. \A u \in Threads : Session!Busied(u) => thread[u].id \in Session!Attempts
      BY <1>i, CallbackIds DEF Session!SessionTypes
    <3>7. attempt # NONE => attempt.id \in Session!Attempts
      BY <1>i DEF Session!SessionTypes
    <3>8. attempts \in Nat /\ id \in Int
      BY <1>c, <1>i, <2>2 DEF Session!SessionTypes
    <3> QED
      BY <1>i, <2>1, <2>5, <3>1, <3>2, <3>3, <3>4, <3>5, <3>6, <3>7, <3>8 DEF Session!AttemptsFollowed
  <2>8. Session!TokensFollowed'
    BY <1>i, <2>1 DEF Session!TokensFollowed
  <2> QED
    BY <2>3, <2>7, <2>8 DEF Session!ConnectionInv
<1>6. ASSUME NEW t \in Threads, Session!Compare(t)
      PROVE  Session!ConnectionInv'
  <2> DEFINE x == [thread[t] EXCEPT !.pc = "save"]
  <2>1. /\ thread[t].pc = "compare"
        /\ thread' = [thread EXCEPT ![t] = x] \/ thread' = [thread EXCEPT ![t] = Session!Idle]
        /\ UNCHANGED <<registration, connection, attempt, attempts, holder, worker, issued,
                       redeemed, torn, deadSent, crossed>>
    BY <1>6 DEF Session!Compare
  <2>2. x \in Session!Callbacks /\ x.pc = "save" /\ x.id = thread[t].id
    <3>1. thread[t] \in Session!Callbacks
      BY <1>i DEF Session!SessionTypes
    <3> QED
      BY <2>1, <3>1, CallbackShape
  <2> HIDE DEF x
  <2>3. Session!SessionTypes'
    BY <1>i, <2>1, <2>2, IdleShape DEF Session!SessionTypes
  <2>4. /\ thread'[t] = x \/ thread'[t] = Session!Idle
        /\ \A u \in Threads \ {t} : thread'[u] = thread[u]
    BY <1>i, <2>1 DEF Session!SessionTypes
  <2>5. Session!AttemptsFollowed'
    <3>1. \A u \in Threads : Session!Busied(u)' =>
             Session!Busied(u) /\ thread'[u].id = thread[u].id
      BY <2>1, <2>2, <2>4, IdleShape
    <3>2. \A u \in Threads : Session!Busied(u)' /\ thread'[u].pc \in {"exchange", "redeem"} =>
            thread[u].pc = thread'[u].pc
      BY <2>1, <2>2, <2>4, IdleShape
    <3>3. \A a : Session!Unused(a)' = Session!Unused(a)
      BY <2>1 DEF Session!Unused
    <3> QED
      BY <1>i, <2>1, <3>1, <3>2, <3>3 DEF Session!AttemptsFollowed
  <2>6. Session!TokensFollowed'
    BY <1>i, <2>1 DEF Session!TokensFollowed
  <2> QED
    BY <2>3, <2>5, <2>6 DEF Session!ConnectionInv
<1>7. ASSUME NEW t \in Threads, Session!SaveSignIn(t)
      PROVE  Session!ConnectionInv'
  <2>1. Session!SessionTypes'
    BY SMTT(30), <1>c, <1>i, <1>7 DEF Session!SaveSignIn, Session!Idle, Session!Record, Session!Callbacks, Session!Sessions, Session!SessionTypes, Session!AttemptsFollowed, Session!TokensFollowed, Session!Unused
  <2>2. Session!AttemptsFollowed'
    BY <1>c, <1>i, <1>7 DEF Session!SaveSignIn, Session!Idle, Session!Record, Session!Callbacks, Session!Sessions, Session!SessionTypes, Session!AttemptsFollowed, Session!TokensFollowed, Session!Unused
  <2>3. Session!TokensFollowed'
    <3>1. Session!Busied(t) /\ thread[t].id \in Session!Attempts
      BY <1>i, <1>7, CallbackIds DEF Session!SaveSignIn, Session!SessionTypes
    <3>2. /\ connection'.grant = thread[t].id /\ connection'.token = 0
          /\ crossed' = (crossed \/ holder # NONE)
          /\ UNCHANGED <<holder, worker, issued, torn, deadSent>>
      BY <1>7 DEF Session!SaveSignIn
    <3>3. issued[thread[t].id] = 0
      BY <1>i, <3>1 DEF Session!AttemptsFollowed, Session!Unused
    <3>4. \A w \in Workers : Session!Holds(w) => crossed'
      BY <1>c, <1>i, <3>2 DEF Session!TokensFollowed
    <3>5. issued'[connection'.grant] = 0 /\ connection'.token <= issued'[connection'.grant]
      BY <3>2, <3>3
    <3> QED
      BY <1>i, <3>2, <3>4, <3>5 DEF Session!TokensFollowed
  <2> QED
    BY <2>1, <2>2, <2>3 DEF Session!ConnectionInv
<1>8. ASSUME NEW w \in Workers, Session!Ask(w)
      PROVE  Session!ConnectionInv'
  <2>1. Session!SessionTypes'
    BY <1>c, <1>i, <1>8 DEF Session!Ask, Session!Idle, Session!Record, Session!Callbacks, Session!Sessions, Session!SessionTypes, Session!AttemptsFollowed, Session!TokensFollowed, Session!Unused
  <2>2. Session!AttemptsFollowed'
    BY <1>c, <1>i, <1>8 DEF Session!Ask, Session!Idle, Session!Record, Session!Callbacks, Session!Sessions, Session!SessionTypes, Session!AttemptsFollowed, Session!TokensFollowed, Session!Unused
  <2>3. Session!TokensFollowed'
    BY <1>c, <1>i, <1>8 DEF Session!Ask, Session!Idle, Session!Record, Session!Callbacks, Session!Sessions, Session!SessionTypes, Session!AttemptsFollowed, Session!TokensFollowed, Session!Unused
  <2> QED
    BY <2>1, <2>2, <2>3 DEF Session!ConnectionInv
<1>9. ASSUME NEW w \in Workers, Session!Busy(w)
      PROVE  Session!ConnectionInv'
  <2>1. Session!SessionTypes'
    BY <1>c, <1>i, <1>9 DEF Session!Busy, Session!Idle, Session!Record, Session!Callbacks, Session!Sessions, Session!SessionTypes, Session!AttemptsFollowed, Session!TokensFollowed, Session!Unused
  <2>2. Session!AttemptsFollowed'
    BY <1>c, <1>i, <1>9 DEF Session!Busy, Session!Idle, Session!Record, Session!Callbacks, Session!Sessions, Session!SessionTypes, Session!AttemptsFollowed, Session!TokensFollowed, Session!Unused
  <2>3. Session!TokensFollowed'
    BY <1>c, <1>i, <1>9 DEF Session!Busy, Session!Idle, Session!Record, Session!Callbacks, Session!Sessions, Session!SessionTypes, Session!AttemptsFollowed, Session!TokensFollowed, Session!Unused
  <2> QED
    BY <2>1, <2>2, <2>3 DEF Session!ConnectionInv
<1>10. ASSUME NEW w \in Workers, Session!Enter(w)
      PROVE  Session!ConnectionInv'
  <2>1. /\ worker[w].pc = "waiting" /\ holder = NONE /\ worker[w].record = NONE
        /\ UNCHANGED <<registration, connection, attempt, attempts, thread, issued,
                       redeemed, torn, deadSent, crossed>>
    <3>1. worker[w] \in Session!Sessions
      BY <1>i DEF Session!SessionTypes
    <3> QED
      BY <1>10, <3>1, SessionShape DEF Session!Enter
  <2>2. \A v \in Workers : ~Session!Holds(v)
    BY <1>c, <1>i, <2>1 DEF Session!TokensFollowed
  <2>3. CASE holder' = NONE /\ worker' = [worker EXCEPT ![w] = Session!Idle]
    <3>1. /\ worker' \in [Workers -> Session!Sessions] /\ worker'[w].pc = "idle"
          /\ \A v \in Workers \ {w} : worker'[v] = worker[v]
      BY <1>i, <2>3, IdleShape DEF Session!SessionTypes
    <3>2. Session!SessionTypes'
      BY <1>i, <2>1, <2>3, <3>1 DEF Session!SessionTypes
    <3>3. Session!AttemptsFollowed'
      BY <1>i, <2>1, <2>2, <3>1 DEF Session!AttemptsFollowed, Session!Unused
    <3>4. Session!TokensFollowed'
      BY <1>c, <1>i, <2>1, <2>2, <2>3, <3>1 DEF Session!TokensFollowed
    <3> QED
      BY <3>2, <3>3, <3>4 DEF Session!ConnectionInv
  <2>4. CASE /\ connection # NONE /\ holder' = w
             /\ worker' = [worker EXCEPT ![w] = [pc |-> "refresh", record |-> connection]]
    <3>1. connection \in Session!Record
      BY <1>i, <2>4 DEF Session!SessionTypes
    <3>2. [pc |-> "refresh", record |-> connection] \in Session!Sessions
      BY <3>1 DEF Session!Sessions
    <3>3. /\ worker' \in [Workers -> Session!Sessions]
          /\ worker'[w].pc = "refresh" /\ worker'[w].record = connection
          /\ \A v \in Workers \ {w} : worker'[v] = worker[v]
      BY <1>i, <2>4, <3>2 DEF Session!SessionTypes
    <3>4. Session!SessionTypes'
      BY <1>i, <2>1, <2>4, <3>3 DEF Session!SessionTypes
    <3>5. \A a \in Session!Attempts : Session!Unused(a) => Session!Unused(a)'
      BY <2>1, <2>2, <2>4, <3>3 DEF Session!Unused
    <3>6. Session!AttemptsFollowed'
      BY <1>i, <2>1, <3>5, CallbackIds DEF Session!AttemptsFollowed, Session!SessionTypes
    <3>7. Session!TokensFollowed'
      BY <1>c, <1>i, <2>1, <2>2, <2>4, <3>3 DEF Session!TokensFollowed
    <3> QED
      BY <3>4, <3>6, <3>7 DEF Session!ConnectionInv
  <2> QED
    BY <1>10, <2>1, <2>3, <2>4 DEF Session!Enter, Session!Leave
<1>11. ASSUME NEW w \in Workers, Session!Refresh(w)
      PROVE  Session!ConnectionInv'
  <2> DEFINE record == worker[w].record
  <2> DEFINE grant == record.grant
  <2> DEFINE last == issued[grant]
  <2>1. /\ worker[w].pc = "refresh" /\ holder = w
        /\ UNCHANGED <<registration, connection, attempt, attempts, thread, redeemed, crossed>>
    BY <1>i, <1>11 DEF Session!Refresh, Session!TokensFollowed
  <2>2. /\ record \in Session!Record /\ grant \in Session!Attempts
        /\ last \in 0..MaxToken /\ record.token \in 0..MaxToken
    <3>1. worker[w] \in Session!Sessions
      BY <1>i DEF Session!SessionTypes
    <3>2. record \in Session!Record
      BY <2>1, <3>1, SessionShape
    <3> QED
      BY <1>i, <3>2 DEF Session!SessionTypes, Session!Record
  <2>3. /\ \A v \in Workers \ {w} : ~Session!Holds(v)
        /\ \A a \in Session!Attempts : Session!Unused(a) => a # grant
        /\ record.token <= last /\ (grant \in torn \/ record.token = last)
        /\ crossed \/ connection.grant = grant
    BY <1>i, <2>1 DEF Session!TokensFollowed, Session!Unused
  <2>4. CASE /\ record.token # last /\ deadSent' = deadSent \cup {grant}
             /\ holder' = NONE /\ worker' = [worker EXCEPT ![w] = Session!Idle]
             /\ UNCHANGED <<issued, torn>>
    <3> HIDE DEF record, grant, last
    <3>1. /\ worker' \in [Workers -> Session!Sessions] /\ worker'[w].pc = "idle"
          /\ \A v \in Workers \ {w} : worker'[v] = worker[v]
      BY <1>i, <2>4, IdleShape DEF Session!SessionTypes
    <3>2. Session!SessionTypes'
      BY <1>i, <2>1, <2>2, <2>4, <3>1 DEF Session!SessionTypes
    <3>3. \A a \in Session!Attempts : Session!Unused(a) => Session!Unused(a)'
      BY <2>1, <2>4, <3>1 DEF Session!Unused
    <3>4. Session!AttemptsFollowed'
      BY <1>i, <2>1, <3>3, CallbackIds DEF Session!AttemptsFollowed, Session!SessionTypes
    <3>5. Session!TokensFollowed'
      BY <1>c, <1>i, <2>1, <2>3, <2>4, <3>1 DEF Session!TokensFollowed
    <3> QED
      BY <3>2, <3>4, <3>5 DEF Session!ConnectionInv
  <2>5. ASSUME NEW next \in 0..MaxToken, next \in {last, last + 1}, record.token = last,
               issued' = [issued EXCEPT ![grant] = next], UNCHANGED deadSent,
               worker' = [worker EXCEPT ![w] =
                 [pc |-> "save", record |-> [record EXCEPT !.token = next, !.fresh = TRUE]]],
               UNCHANGED <<holder, torn>>
        PROVE  Session!ConnectionInv'
    <3> DEFINE new == [record EXCEPT !.token = next, !.fresh = TRUE]
    <3>1. new \in Session!Record /\ new.grant = grant /\ new.token = next
      BY <2>2, RecordShape
    <3> HIDE DEF new
    <3>2. [pc |-> "save", record |-> new] \in Session!Sessions
      BY <3>1 DEF Session!Sessions
    <3>3. /\ worker' \in [Workers -> Session!Sessions]
          /\ worker'[w].pc = "save" /\ worker'[w].record = new
          /\ \A v \in Workers \ {w} : worker'[v] = worker[v]
      BY <1>i, <2>5, <3>2 DEF Session!SessionTypes, new
    <3> HIDE DEF record, grant, last
    <3>4. /\ issued' \in [Session!Attempts -> 0..MaxToken] /\ issued'[grant] = next
          /\ \A a \in Session!Attempts \ {grant} : issued'[a] = issued[a]
          /\ last <= next /\ next \in Int /\ last = issued[grant]
      BY <1>c, <1>i, <2>2, <2>5 DEF Session!SessionTypes, last
    <3>5. Session!SessionTypes'
      BY <1>i, <2>1, <2>5, <3>3, <3>4 DEF Session!SessionTypes
    <3>6. \A a \in Session!Attempts : Session!Unused(a) => Session!Unused(a)'
      BY ZenonT(60), <2>1, <2>3, <2>5, <3>1, <3>3, <3>4 DEF Session!Unused
    <3>7. Session!AttemptsFollowed'
      BY <1>i, <2>1, <3>6, CallbackIds DEF Session!AttemptsFollowed, Session!SessionTypes
    <3>8. connection # NONE => connection.grant \in Session!Attempts /\ connection.token \in Int
                               /\ issued[connection.grant] \in Int
      BY <1>c, <1>i DEF Session!SessionTypes, Session!Record
    <3>9. \A v \in Workers : Session!Holds(v)' <=> holder' = v
      BY <1>i, <2>1, <2>3, <2>5, <3>3 DEF Session!TokensFollowed
    <3>10. \A v \in Workers : Session!Holds(v)' => v = w
      BY <2>3, <3>3
    <3>11. new.token <= issued'[new.grant] /\ new.token = issued'[new.grant]
      BY <3>1, <3>4
    <3>12. crossed' \/ connection'.grant = new.grant
      BY <2>1, <2>3, <3>1
    <3>13. connection' # NONE =>
             /\ connection'.token <= issued'[connection'.grant]
             /\ \/ connection'.grant \in torn'
                \/ connection'.token = issued'[connection'.grant]
                \/ worker'[w].pc = "save" /\ worker'[w].record.grant = connection'.grant
      <4>1. connection # NONE => connection.token <= issued[connection.grant]
        BY <1>i DEF Session!TokensFollowed
      <4>2. CASE connection.grant = grant
        BY <2>1, <3>1, <3>3, <3>4, <3>8, <4>1, <4>2
      <4>3. CASE connection.grant # grant
        <5>1. \A v \in Workers : worker[v].pc # "save"
          BY <2>1, <2>3
        <5> QED
          BY <1>i, <2>1, <2>5, <3>4, <3>8, <4>1, <4>3, <5>1 DEF Session!TokensFollowed
      <4> QED
        BY <4>2, <4>3
    <3>14. Session!TokensFollowed'
      BY <1>i, <2>5, <3>3, <3>9, <3>10, <3>11, <3>12, <3>13 DEF Session!TokensFollowed
    <3> QED
      BY <3>5, <3>7, <3>14 DEF Session!ConnectionInv
  <2>6. ASSUME NEW next \in 0..MaxToken, next \in {last, last + 1}, record.token = last,
               issued' = [issued EXCEPT ![grant] = next], UNCHANGED deadSent,
               torn' = (IF next = last THEN torn ELSE torn \cup {grant}),
               holder' = NONE, worker' = [worker EXCEPT ![w] = Session!Idle]
        PROVE  Session!ConnectionInv'
    <3> HIDE DEF record, grant
    <3>1. /\ worker' \in [Workers -> Session!Sessions] /\ worker'[w].pc = "idle"
          /\ \A v \in Workers \ {w} : worker'[v] = worker[v]
      BY <1>i, <2>6, IdleShape DEF Session!SessionTypes
    <3> HIDE DEF last
    <3>4. /\ issued' \in [Session!Attempts -> 0..MaxToken] /\ issued'[grant] = next
          /\ \A a \in Session!Attempts \ {grant} : issued'[a] = issued[a]
          /\ last <= next /\ next \in Int /\ last = issued[grant]
      BY <1>c, <1>i, <2>2, <2>6 DEF Session!SessionTypes, last
    <3>5. Session!SessionTypes'
      BY <1>i, <2>1, <2>2, <2>6, <3>1, <3>4 DEF Session!SessionTypes
    <3>6. \A a \in Session!Attempts : Session!Unused(a) => Session!Unused(a)'
      BY <2>1, <2>3, <2>6, <3>1, <3>4 DEF Session!Unused
    <3>7. Session!AttemptsFollowed'
      BY <1>i, <2>1, <3>6, CallbackIds DEF Session!AttemptsFollowed, Session!SessionTypes
    <3>8. connection # NONE => connection.grant \in Session!Attempts /\ connection.token \in Int
                               /\ issued[connection.grant] \in Int
      BY <1>c, <1>i DEF Session!SessionTypes, Session!Record
    <3>9. Session!TokensFollowed'
      BY <1>c, <1>i, <2>1, <2>2, <2>3, <2>6, <3>1, <3>4, <3>8 DEF Session!TokensFollowed
    <3> QED
      BY <3>5, <3>7, <3>9 DEF Session!ConnectionInv
  <2> QED
    BY <1>11, <2>4, <2>5, <2>6 DEF Session!Refresh, Session!Leave
<1>12. ASSUME NEW w \in Workers, Session!SaveRefresh(w)
      PROVE  Session!ConnectionInv'
  <2> DEFINE record == worker[w].record
  <2>1. /\ worker[w].pc = "save" /\ connection' = record
        /\ worker' = [worker EXCEPT ![w] = Session!Idle] /\ holder' = NONE
        /\ UNCHANGED <<registration, attempt, attempts, thread, issued, redeemed,
                       torn, deadSent, crossed>>
    BY <1>12 DEF Session!SaveRefresh, Session!Leave
  <2>2. /\ worker' \in [Workers -> Session!Sessions] /\ worker'[w].pc = "idle"
        /\ \A v \in Workers \ {w} : worker'[v] = worker[v]
    BY <1>i, <2>1, IdleShape DEF Session!SessionTypes
  <2>3. record \in Session!Record
    <3>1. worker[w] \in Session!Sessions
      BY <1>i DEF Session!SessionTypes
    <3> QED
      BY <2>1, <3>1, SessionShape
  <2>4. Session!SessionTypes'
    BY <1>i, <2>1, <2>2, <2>3 DEF Session!SessionTypes
  <2>5. \A a \in Session!Attempts :
          Session!Unused(a) => Session!Unused(a)'
    BY <1>i, <2>1, <2>2 DEF Session!Unused
  <2>6. Session!AttemptsFollowed'
    BY <1>i, <2>1, <2>5, CallbackIds DEF Session!AttemptsFollowed, Session!SessionTypes
  <2>7. Session!TokensFollowed'
    BY <1>c, <1>i, <2>1, <2>2 DEF Session!TokensFollowed
  <2> QED
    BY <2>4, <2>6, <2>7 DEF Session!ConnectionInv
<1>13. ASSUME NEW w \in Workers, Session!Kill(w)
      PROVE  Session!ConnectionInv'
  <2>1. /\ worker' = [worker EXCEPT ![w] = Session!Idle]
        /\ holder' = IF holder = w THEN NONE ELSE holder
        /\ torn' = IF worker[w].pc = "save" THEN torn \cup {worker[w].record.grant} ELSE torn
        /\ UNCHANGED <<registration, connection, attempt, attempts, thread, issued,
                       redeemed, deadSent, crossed>>
    BY <1>13 DEF Session!Kill
  <2>2. /\ worker' \in [Workers -> Session!Sessions] /\ worker'[w].pc = "idle"
        /\ \A v \in Workers \ {w} : worker'[v] = worker[v]
    BY <1>i, <2>1, IdleShape DEF Session!SessionTypes
  <2>3. worker[w].pc = "save" => worker[w].record \in Session!Record
                                 /\ worker[w].record.grant \in Session!Attempts
    <3>1. worker[w] \in Session!Sessions
      BY <1>i DEF Session!SessionTypes
    <3> QED
      BY <3>1, SessionShape DEF Session!Record
  <2>4. Session!SessionTypes'
    BY <1>i, <2>1, <2>2, <2>3 DEF Session!SessionTypes
  <2>5. \A a \in Session!Attempts :
          Session!Unused(a) => Session!Unused(a)'
    BY <1>i, <2>1, <2>2 DEF Session!Unused
  <2>6. Session!AttemptsFollowed'
    BY <1>i, <2>1, <2>5, CallbackIds DEF Session!AttemptsFollowed, Session!SessionTypes
  <2>7. Session!TokensFollowed'
    BY <1>c, <1>i, <2>1, <2>2 DEF Session!TokensFollowed
  <2> QED
    BY <2>4, <2>6, <2>7 DEF Session!ConnectionInv
<1> QED
  BY <1>1, <1>2, <1>3, <1>4, <1>5, <1>6, <1>7, <1>8, <1>9, <1>10, <1>11, <1>12, <1>13 DEF Session!Next

-----------------------------------------------------------------------------
(* The account of a directory: one thread, one worker, two accounts *)

\* What a request thread, a worker and a record carry, as above.
LEMMA AccountCallback ==
    ASSUME NEW x \in Account!Callbacks, x.pc # "idle",
           NEW p \in {"exchange", "redeem", "compare", "save"}
    PROVE  /\ x.id \in Account!Attempts /\ x.subject \in {a1, a2} /\ x.client \in {k1, k2}
           /\ [x EXCEPT !.pc = p] \in Account!Callbacks
           /\ [x EXCEPT !.pc = p].pc = p
           /\ Account!AccountOf([x EXCEPT !.pc = p]) = Account!AccountOf(x)
<1>1. x \in [pc : {"exchange", "redeem", "compare", "save"}, id : Account!Attempts,
             subject : {a1, a2}, client : {k1, k2}]
  BY DEF Account!Callbacks, Account!Idle
<1>2. [x EXCEPT !.pc = p] \in [pc : {"exchange", "redeem", "compare", "save"},
             id : Account!Attempts, subject : {a1, a2}, client : {k1, k2}]
  BY <1>1
<1>3. /\ [x EXCEPT !.pc = p].pc = p /\ [x EXCEPT !.pc = p].client = x.client
      /\ [x EXCEPT !.pc = p].subject = x.subject
  BY <1>1
<1> QED
  BY <1>1, <1>2, <1>3 DEF Account!Callbacks, Account!AccountOf

LEMMA AccountWorker ==
    ASSUME NEW x \in Account!Sessions
    PROVE  /\ x.pc \in {"idle", "waiting", "refresh", "save"}
           /\ x.pc = "waiting" => x.record = NONE
           /\ x.pc \in {"refresh", "save"} => x.record \in Account!Record
  BY DEF Account!Sessions, Account!Idle

LEMMA AccountRecord ==
    ASSUME NEW r \in Account!Record, NEW next \in 0..1
    PROVE  /\ r.grant \in Account!Attempts
           /\ [r EXCEPT !.token = next, !.fresh = TRUE] \in Account!Record
           /\ [r EXCEPT !.token = next, !.fresh = TRUE].grant = r.grant
           /\ Account!AccountOf([r EXCEPT !.token = next, !.fresh = TRUE]) = Account!AccountOf(r)
  BY DEF Account!Record, Account!AccountOf

LEMMA AccountStale ==
    ASSUME NEW r \in Account!Record
    PROVE  /\ [r EXCEPT !.fresh = FALSE] \in Account!Record
           /\ [r EXCEPT !.fresh = FALSE].grant = r.grant
           /\ Account!AccountOf([r EXCEPT !.fresh = FALSE]) = Account!AccountOf(r)
  BY DEF Account!Record, Account!AccountOf

LEMMA AccountIdle ==
    /\ Account!Idle \in Account!Callbacks /\ Account!Idle \in Account!Sessions
    /\ Account!Idle.pc = "idle"
  BY DEF Account!Callbacks, Account!Sessions, Account!Idle

\* Every step of the sign-in, of the worker and of time keeps the account's invariant.
LEMMA AccountStep ==
    ASSUME Account!AccountInv, Account!Next
    PROVE  Account!AccountInv'
<1> USE DEF Account!disk, Account!login, Account!session, Account!provider, Account!ghosts,
            Account!Attempts, Account!Holds
<1>c. NONE \notin {w1} /\ NONE \notin Account!Record
  BY InstancesAssumption DEF InstancesAssumption, Account!ConnectionAssumption
<1>i. Account!SessionTypes /\ Account!AccountFollowed
  BY DEF Account!AccountInv
<1>1. CASE Account!Connect
  <2>1. Account!SessionTypes'
    BY <1>i, <1>1 DEF Account!Connect, Account!SessionTypes
  <2>2. Account!AccountFollowed'
    BY <1>i, <1>1 DEF Account!Connect, Account!AccountFollowed
  <2> QED
    BY <2>1, <2>2 DEF Account!AccountInv
<1>2. CASE Account!Expire
  <2>1. /\ connection \in Account!Record /\ connection # NONE
        /\ connection' = [connection EXCEPT !.fresh = FALSE]
        /\ UNCHANGED <<registration, attempt, attempts, thread, holder, worker, issued,
                       redeemed, torn, deadSent, crossed>>
    BY <1>i, <1>2 DEF Account!Expire, Account!SessionTypes
  <2>2. /\ connection' \in Account!Record /\ connection'.grant = connection.grant
        /\ Account!AccountOf(connection') = Account!AccountOf(connection)
    BY <2>1, AccountStale
  <2>3. Account!SessionTypes'
    BY <1>i, <2>1, <2>2 DEF Account!SessionTypes
  <2>4. Account!AccountFollowed'
    BY <1>c, <1>i, <2>1, <2>2 DEF Account!AccountFollowed
  <2> QED
    BY <2>3, <2>4 DEF Account!AccountInv
<1>3. ASSUME NEW t \in {t1}, Account!Callback(t)
      PROVE  Account!AccountInv'
  <2>1. /\ thread[t].pc = "idle" /\ attempt # NONE
        /\ UNCHANGED <<attempts, registration, connection, holder, worker, issued,
                       redeemed, torn, deadSent, crossed>>
    BY <1>3 DEF Account!Callback
  <2>2. attempt' \in {attempt, NONE}
    BY <1>3 DEF Account!Callback
  <2>3. \/ thread' = thread
        \/ \E x \in Account!Callbacks : x.pc = "exchange" /\ thread' = [thread EXCEPT ![t] = x]
    <3>1. attempt.client \in {k1, k2} \cup {NONE} /\ attempt.id \in Account!Attempts
      BY <1>i, <2>1 DEF Account!SessionTypes
    <3>2. \A supplied \in {k1, k2} \cup {NONE} :
            Account!ClientAccepted(attempt, supplied)
              => Account!ClientOf(attempt, supplied) \in {k1, k2}
      BY <3>1 DEF Account!ClientAccepted, Account!ClientOf
    <3>3. \A subject \in {a1, a2}, client \in {k1, k2} :
            [pc |-> "exchange", id |-> attempt.id, subject |-> subject, client |-> client]
              \in Account!Callbacks
      BY <3>1 DEF Account!Callbacks
    <3> QED
      BY <1>3, <3>2, <3>3 DEF Account!Callback
  <2>4. /\ thread' \in [{t1} -> Account!Callbacks]
        /\ \A u \in {t1} : thread'[u].pc # "save" \/ thread'[u] = thread[u]
    BY <1>i, <2>3 DEF Account!SessionTypes
  <2>5. Account!SessionTypes'
    BY <1>i, <2>1, <2>2, <2>4 DEF Account!SessionTypes
  <2>6. Account!AccountFollowed'
    BY <1>i, <2>1, <2>4 DEF Account!AccountFollowed
  <2> QED
    BY <2>5, <2>6 DEF Account!AccountInv
<1>4. ASSUME NEW t \in {t1}, Account!Register(t) \/ Account!Redeem(t)
      PROVE  Account!AccountInv'
  <2>1. /\ thread[t].pc \in {"exchange", "redeem"} /\ thread[t] \in Account!Callbacks
        /\ UNCHANGED <<connection, attempt, attempts, holder, worker, issued,
                       torn, deadSent, crossed>>
    BY <1>i, <1>4 DEF Account!Register, Account!Redeem, Account!SessionTypes
  <2>2. /\ thread[t].client \in {k1, k2} /\ thread[t].id \in Account!Attempts
        /\ \A p \in {"redeem", "compare"} : /\ [thread[t] EXCEPT !.pc = p] \in Account!Callbacks
                                            /\ [thread[t] EXCEPT !.pc = p].pc = p
    BY <2>1, AccountCallback
  <2>3. \E x \in Account!Callbacks : x.pc # "save" /\ thread' = [thread EXCEPT ![t] = x]
    BY <1>4, <2>2, AccountIdle DEF Account!Register, Account!Redeem
  <2>4. thread' \in [{t1} -> Account!Callbacks] /\ \A u \in {t1} : thread'[u].pc # "save"
    BY <1>i, <2>3 DEF Account!SessionTypes
  <2>5. registration' \in {k1, k2} \cup {NONE} /\ redeemed' \in [Account!Attempts -> Nat]
    BY <1>i, <1>4, <2>2 DEF Account!Register, Account!Redeem, Account!SessionTypes
  <2>6. Account!SessionTypes'
    BY <1>i, <2>1, <2>4, <2>5 DEF Account!SessionTypes
  <2>7. Account!AccountFollowed'
    BY <1>i, <2>1, <2>4 DEF Account!AccountFollowed
  <2> QED
    BY <2>6, <2>7 DEF Account!AccountInv
<1>5. ASSUME NEW t \in {t1}, Account!Compare(t)
      PROVE  Account!AccountInv'
  <2> DEFINE x == [thread[t] EXCEPT !.pc = "save"]
  <2>1. /\ thread[t].pc = "compare" /\ thread[t] \in Account!Callbacks
        /\ UNCHANGED <<registration, connection, attempt, attempts, holder, worker, issued,
                       redeemed, torn, deadSent, crossed>>
        /\ \/ thread' = [thread EXCEPT ![t] = Account!Idle]
           \/ /\ thread' = [thread EXCEPT ![t] = x]
              /\ connection # NONE => Account!AccountOf(connection) = Account!AccountOf(thread[t])
    BY <1>i, <1>5 DEF Account!Compare, Account!SessionTypes
  <2>2. x \in Account!Callbacks /\ Account!AccountOf(x) = Account!AccountOf(thread[t])
    BY <2>1, AccountCallback
  <2> HIDE DEF x
  <2>3. /\ thread' \in [{t1} -> Account!Callbacks]
        /\ \A u \in {t1} : thread'[u].pc = "save" /\ connection # NONE =>
             Account!AccountOf(thread'[u]) = Account!AccountOf(connection)
    BY <1>i, <2>1, <2>2, AccountIdle DEF Account!SessionTypes
  <2>4. Account!SessionTypes'
    BY <1>i, <2>1, <2>3 DEF Account!SessionTypes
  <2>5. Account!AccountFollowed'
    BY <1>i, <2>1, <2>3 DEF Account!AccountFollowed
  <2> QED
    BY <2>4, <2>5 DEF Account!AccountInv
<1>6. ASSUME NEW t \in {t1}, Account!SaveSignIn(t)
      PROVE  Account!AccountInv'
  <2>1. /\ thread[t].pc = "save" /\ thread[t] \in Account!Callbacks
        /\ connection' = [client |-> thread[t].client, subject |-> thread[t].subject,
                          grant |-> thread[t].id, token |-> 0, fresh |-> TRUE]
        /\ thread' = [thread EXCEPT ![t] = Account!Idle] /\ crossed' = (crossed \/ holder # NONE)
        /\ UNCHANGED <<registration, attempt, attempts, holder, worker, issued, redeemed,
                       torn, deadSent>>
    BY <1>i, <1>6 DEF Account!SaveSignIn, Account!SessionTypes
  <2>2. /\ thread[t].client \in {k1, k2} /\ thread[t].subject \in {a1, a2}
        /\ thread[t].id \in Account!Attempts
    BY <2>1, AccountCallback
  <2>3. connection' \in Account!Record
    BY <2>1, <2>2 DEF Account!Record
  <2>4. Account!AccountOf(connection') = Account!AccountOf(thread[t])
    BY <2>1 DEF Account!AccountOf
  <2>5. connection # NONE => Account!AccountOf(connection') = Account!AccountOf(connection)
    BY <1>i, <2>1, <2>4 DEF Account!AccountFollowed
  <2>6. thread' \in [{t1} -> Account!Callbacks] /\ \A u \in {t1} : thread'[u].pc # "save"
    BY <1>i, <2>1, AccountIdle DEF Account!SessionTypes
  <2>7. Account!SessionTypes'
    BY <1>i, <2>1, <2>3, <2>6 DEF Account!SessionTypes
  <2>8. \A w \in {w1} : Account!Holds(w) => crossed' /\ connection # NONE
    BY <1>c, <1>i, <2>1 DEF Account!AccountFollowed
  <2>9. Account!AccountFollowed'
    BY <1>c, <1>i, <2>1, <2>3, <2>5, <2>6, <2>8 DEF Account!AccountFollowed
  <2> QED
    BY <2>7, <2>9 DEF Account!AccountInv
<1>7. ASSUME NEW w \in {w1}, Account!Ask(w) \/ Account!Busy(w) \/ Account!Kill(w)
      PROVE  Account!AccountInv'
  <2>1. /\ worker[w] \in Account!Sessions
        /\ UNCHANGED <<registration, connection, attempt, attempts, thread, issued, redeemed,
                       deadSent, crossed>>
    BY <1>i, <1>7 DEF Account!Ask, Account!Busy, Account!Kill, Account!SessionTypes
  <2>2. [pc |-> "waiting", record |-> NONE] \in Account!Sessions
    BY DEF Account!Sessions
  <2>3. \E x \in Account!Sessions : /\ x.pc \in {"idle", "waiting"}
                                    /\ worker' = [worker EXCEPT ![w] = x]
    BY <1>7, <2>2, AccountIdle DEF Account!Ask, Account!Busy, Account!Kill
  <2>4. worker' \in [{w1} -> Account!Sessions] /\ \A v \in {w1} : ~(worker'[v].pc \in {"refresh", "save"})
    BY <1>i, <2>3 DEF Account!SessionTypes
  <2>5. holder' \in {w1} \cup {NONE} /\ torn' \subseteq Account!Attempts
    <3>1. worker[w].pc = "save" => worker[w].record.grant \in Account!Attempts
      BY <2>1, AccountWorker DEF Account!Record
    <3> QED
      BY <1>i, <1>7, <3>1 DEF Account!Ask, Account!Busy, Account!Kill, Account!SessionTypes
  <2>6. Account!SessionTypes'
    BY <1>i, <2>1, <2>4, <2>5 DEF Account!SessionTypes
  <2>7. Account!AccountFollowed'
    BY <1>i, <2>1, <2>4 DEF Account!AccountFollowed
  <2> QED
    BY <2>6, <2>7 DEF Account!AccountInv
<1>8. ASSUME NEW w \in {w1}, Account!Enter(w)
      PROVE  Account!AccountInv'
  <2>1. /\ worker[w].pc = "waiting" /\ holder = NONE /\ worker[w].record = NONE
        /\ UNCHANGED <<registration, connection, attempt, attempts, thread, issued,
                       redeemed, torn, deadSent, crossed>>
    <3>1. worker[w] \in Account!Sessions
      BY <1>i DEF Account!SessionTypes
    <3> QED
      BY <1>8, <3>1, AccountWorker DEF Account!Enter
  <2>2. CASE holder' = NONE /\ worker' = [worker EXCEPT ![w] = Account!Idle]
    <3>1. worker' \in [{w1} -> Account!Sessions] /\ \A v \in {w1} : worker'[v].pc = "idle"
      BY <1>i, <2>2, AccountIdle DEF Account!SessionTypes
    <3>2. Account!SessionTypes'
      BY <1>i, <2>1, <2>2, <3>1 DEF Account!SessionTypes
    <3>3. Account!AccountFollowed'
      BY <1>i, <2>1, <3>1 DEF Account!AccountFollowed
    <3> QED
      BY <3>2, <3>3 DEF Account!AccountInv
  <2>3. CASE /\ connection # NONE /\ holder' = w
             /\ worker' = [worker EXCEPT ![w] = [pc |-> "refresh", record |-> connection]]
    <3>1. connection \in Account!Record
      BY <1>i, <2>3 DEF Account!SessionTypes
    <3>2. [pc |-> "refresh", record |-> connection] \in Account!Sessions
      BY <3>1 DEF Account!Sessions
    <3>3. /\ worker' \in [{w1} -> Account!Sessions]
          /\ \A v \in {w1} : v = w /\ worker'[v].record = connection
      BY <1>i, <2>3, <3>2 DEF Account!SessionTypes
    <3>4. Account!SessionTypes'
      BY <1>i, <2>1, <2>3, <3>3 DEF Account!SessionTypes
    <3>5. Account!AccountFollowed'
      BY <1>i, <2>1, <2>3, <3>3 DEF Account!AccountFollowed
    <3> QED
      BY <3>4, <3>5 DEF Account!AccountInv
  <2> QED
    BY <1>8, <2>1, <2>2, <2>3 DEF Account!Enter, Account!Leave
<1>9. ASSUME NEW w \in {w1}, Account!Refresh(w)
      PROVE  Account!AccountInv'
  <2> DEFINE record == worker[w].record
             new(next) == [record EXCEPT !.token = next, !.fresh = TRUE]
  <2>1. /\ worker[w].pc = "refresh" /\ holder = w /\ w = w1
        /\ UNCHANGED <<registration, connection, attempt, attempts, thread, redeemed, crossed>>
    BY <1>i, <1>9 DEF Account!Refresh, Account!AccountFollowed
  <2>2. record \in Account!Record /\ record.grant \in Account!Attempts
    <3>1. worker[w] \in Account!Sessions
      BY <1>i DEF Account!SessionTypes
    <3> QED
      BY <2>1, <3>1, AccountWorker DEF Account!Record
  <2>3. /\ issued' \in [Account!Attempts -> 0..1] /\ torn' \subseteq Account!Attempts
        /\ deadSent' \subseteq Account!Attempts
    BY <1>i, <1>9, <2>2 DEF Account!Refresh, Account!SessionTypes
  <2>4. \/ holder' = NONE /\ worker' = [worker EXCEPT ![w] = Account!Idle]
        \/ /\ holder' = holder
           /\ \E next \in 0..1 : worker' = [worker EXCEPT ![w] = [pc |-> "save", record |-> new(next)]]
    BY <1>9 DEF Account!Refresh, Account!Leave
  <2>5. CASE holder' = NONE /\ worker' = [worker EXCEPT ![w] = Account!Idle]
    <3>1. worker' \in [{w1} -> Account!Sessions] /\ \A v \in {w1} : worker'[v].pc = "idle"
      BY <1>i, <2>5, AccountIdle DEF Account!SessionTypes
    <3>2. Account!SessionTypes'
      BY <1>i, <2>1, <2>3, <2>5, <3>1 DEF Account!SessionTypes
    <3>3. Account!AccountFollowed'
      BY <1>i, <2>1, <3>1 DEF Account!AccountFollowed
    <3> QED
      BY <3>2, <3>3 DEF Account!AccountInv
  <2>6. ASSUME holder' = holder, NEW next \in 0..1,
               worker' = [worker EXCEPT ![w] = [pc |-> "save", record |-> new(next)]]
        PROVE  Account!AccountInv'
    <3>1. /\ new(next) \in Account!Record /\ new(next).grant = record.grant
          /\ Account!AccountOf(new(next)) = Account!AccountOf(record)
      BY <2>2, AccountRecord
    <3>2. [pc |-> "save", record |-> new(next)] \in Account!Sessions
      BY <3>1 DEF Account!Sessions
    <3>3. /\ worker' \in [{w1} -> Account!Sessions]
          /\ worker'[w].record = new(next)
      BY <1>i, <2>6, <3>2 DEF Account!SessionTypes
    <3>4. Account!SessionTypes'
      BY <1>i, <2>1, <2>3, <2>6, <3>3 DEF Account!SessionTypes
    <3>5. /\ connection # NONE /\ Account!AccountOf(record) = Account!AccountOf(connection)
          /\ crossed \/ record.grant = connection.grant
      BY <1>i, <2>1 DEF Account!AccountFollowed
    <3>6. /\ Account!AccountOf(worker'[w].record) = Account!AccountOf(connection)
          /\ crossed \/ worker'[w].record.grant = connection.grant
      BY <3>1, <3>3, <3>5
    <3>7. Account!AccountFollowed'
      BY <1>i, <2>1, <2>6, <3>5, <3>6 DEF Account!AccountFollowed
    <3> QED
      BY <3>4, <3>7 DEF Account!AccountInv
  <2> QED
    BY <2>4, <2>5, <2>6
<1>10. ASSUME NEW w \in {w1}, Account!SaveRefresh(w)
      PROVE  Account!AccountInv'
  <2>1. /\ worker[w].pc = "save" /\ connection' = worker[w].record
        /\ worker' = [worker EXCEPT ![w] = Account!Idle] /\ holder' = NONE
        /\ UNCHANGED <<registration, attempt, attempts, thread, issued, redeemed,
                       torn, deadSent, crossed>>
    BY <1>10 DEF Account!SaveRefresh, Account!Leave
  <2>2. worker' \in [{w1} -> Account!Sessions] /\ \A v \in {w1} : worker'[v].pc = "idle"
    BY <1>i, <2>1, AccountIdle DEF Account!SessionTypes
  <2>3. connection' \in Account!Record
    <3>1. worker[w] \in Account!Sessions
      BY <1>i DEF Account!SessionTypes
    <3> QED
      BY <2>1, <3>1, AccountWorker
  <2>4. connection # NONE /\ Account!AccountOf(connection') = Account!AccountOf(connection)
    BY <1>i, <2>1 DEF Account!AccountFollowed
  <2>5. Account!SessionTypes'
    BY <1>i, <2>1, <2>2, <2>3 DEF Account!SessionTypes
  <2>6. Account!AccountFollowed'
    BY <1>i, <2>1, <2>2, <2>4 DEF Account!AccountFollowed
  <2> QED
    BY <2>5, <2>6 DEF Account!AccountInv
<1> QED
  BY <1>1, <1>2, <1>3, <1>4, <1>5, <1>6, <1>7, <1>8, <1>9, <1>10 DEF Account!Next

\* No step gives a directory another account, or undoes a later sign-in.
LEMMA AccountKeeps ==
    ASSUME Account!AccountInv, Account!Next
    PROVE  Account!OneAccount /\ Account!SignInKept
<1> USE DEF Account!disk, Account!Holds
<1>c. NONE \notin {w1} /\ NONE \notin Account!Record
  BY InstancesAssumption DEF InstancesAssumption, Account!ConnectionAssumption
<1>i. Account!SessionTypes /\ Account!AccountFollowed
  BY DEF Account!AccountInv
<1>1. Account!OneAccount
  <2> SUFFICES ASSUME connection # NONE
               PROVE  Account!AccountOf(connection') = Account!AccountOf(connection)
    BY DEF Account!OneAccount
  <2>1. CASE Account!Expire
    <3>1. connection \in Account!Record /\ connection' = [connection EXCEPT !.fresh = FALSE]
      BY <1>i, <2>1 DEF Account!Expire, Account!SessionTypes
    <3> QED
      BY <3>1, AccountStale
  <2>2. ASSUME NEW t \in {t1}, Account!SaveSignIn(t)
        PROVE  Account!AccountOf(connection') = Account!AccountOf(connection)
    <3>1. Account!AccountOf(connection') = Account!AccountOf(thread[t]) /\ thread[t].pc = "save"
      BY <2>2 DEF Account!SaveSignIn, Account!AccountOf
    <3> QED
      BY <1>i, <2>2, <3>1 DEF Account!AccountFollowed
  <2>3. ASSUME NEW w \in {w1}, Account!SaveRefresh(w)
        PROVE  Account!AccountOf(connection') = Account!AccountOf(connection)
    BY <1>i, <2>3 DEF Account!SaveRefresh, Account!AccountFollowed
  <2>4. \/ Account!Expire \/ \E t \in {t1} : Account!SaveSignIn(t)
        \/ \E w \in {w1} : Account!SaveRefresh(w)
        \/ UNCHANGED connection
    BY DEF Account!Next, Account!Connect, Account!Callback, Account!Register, Account!Redeem,
           Account!Compare, Account!Ask, Account!Busy, Account!Enter, Account!Refresh,
           Account!Kill
  <2> QED
    BY <2>1, <2>2, <2>3, <2>4
<1>2. Account!SignInKept
  <2> SUFFICES ASSUME NEW w \in {w1}, Account!SaveRefresh(w), ~crossed
               PROVE  connection'.grant >= connection.grant
    BY DEF Account!SignInKept
  <2>1. connection # NONE /\ connection'.grant = connection.grant
    BY <1>i DEF Account!SaveRefresh, Account!AccountFollowed
  <2>2. connection.grant \in 1..3
    BY <1>i, <2>1 DEF Account!SessionTypes, Account!Record, Account!Attempts
  <2> QED
    BY <2>1, <2>2
<1> QED
  BY <1>1, <1>2

\* Nor does a refresh undo one where there are many threads and workers.
LEMMA SessionKeeps ==
    ASSUME Session!ConnectionInv PROVE Session!SignInKept
<1>i. Session!SessionTypes /\ Session!TokensFollowed
  BY DEF Session!ConnectionInv
<1>c. MaxAttempts \in Nat
  BY InstancesAssumption DEF InstancesAssumption, Session!ConnectionAssumption
<1> SUFFICES ASSUME NEW w \in Workers, Session!SaveRefresh(w), ~crossed
             PROVE  connection'.grant >= connection.grant
  BY DEF Session!SignInKept
<1>1. worker[w].pc = "save" /\ connection' = worker[w].record /\ Session!Holds(w)
  BY DEF Session!SaveRefresh, Session!Holds
<1>2. connection'.grant = connection.grant
  BY <1>i, <1>1 DEF Session!TokensFollowed
<1>3. worker[w].record \in Session!Record
  <2>1. worker[w] \in Session!Sessions
    BY <1>i DEF Session!SessionTypes
  <2> QED
    BY <1>1, <2>1, SessionShape
<1>4. connection'.grant \in 1..MaxAttempts
  BY <1>1, <1>3 DEF Session!Record, Session!Attempts
<1> QED
  BY <1>c, <1>2, <1>4

-----------------------------------------------------------------------------
(* The conversation *)

\* The counts of a conversation are numbers.
LEMMA UsageFields ==
    ASSUME NEW u \in Dialogue!Usages
    PROVE  /\ u.model \in Nat /\ u.tools \in Nat /\ u.steps \in Nat /\ u.input \in Nat
           /\ u.output \in Nat /\ u.complete \in BOOLEAN
  BY DEF Dialogue!Usages

\* Every step of a conversation keeps its invariant.
LEMMA DialogueStep ==
    ASSUME Dialogue!DialogueInv, Dialogue!Next
    PROVE  Dialogue!DialogueInv'
<1> USE DEF Dialogue!dialogue, Dialogue!Stop
<1>c. /\ ModelCalls \in Nat \ {0} /\ ToolCalls \in Nat \ {0} /\ ToolSteps \in Nat \ {0}
      /\ WallSeconds \in Nat
      /\ Inputs \subseteq Nat /\ Outputs \subseteq Nat /\ Runbooks \subseteq Requests
  BY InstancesAssumption DEF InstancesAssumption, Dialogue!DialogueAssumption
<1>i. /\ Dialogue!DialogueTypes /\ Dialogue!TurnFollowed /\ Dialogue!TokensCounted
      /\ Dialogue!CallsAnswered /\ Dialogue!ConsultedShown
  BY DEF Dialogue!DialogueInv
<1>u. /\ usage \in Dialogue!Usages /\ spent \in Nat /\ step \in Nat
      /\ usage.model \in Nat /\ usage.tools \in Nat /\ usage.steps \in Nat
      /\ usage.input \in Nat /\ usage.output \in Nat /\ usage.complete \in BOOLEAN
  BY <1>c, <1>i, UsageFields DEF Dialogue!DialogueTypes
<1>s. Dialogue!SnapshotCalls \in Nat /\ Dialogue!SnapshotCalls <= ModelCalls
  BY <1>c DEF Dialogue!SnapshotCalls
<1> USE DEF Dialogue!IsOutput
<1>1. CASE Dialogue!Begin \/ Dialogue!BeginSnapshot
  <2>1. /\ pc = "top"
        /\ UNCHANGED <<mode, followUp, dialogueClock, dialogueCancel, step, repaired,
                       history, answered, consulted, batch, cites, spent>>
        /\ finalOnly' \in BOOLEAN
        /\ \/ /\ pc' = "done" /\ usage' = usage
              /\ result' # "REPORT_VALIDATED"
           \/ /\ pc' = "ask" /\ result' = result /\ step < ModelCalls
              /\ mode = "snapshot" => step < Dialogue!SnapshotCalls
              /\ usage' = [usage EXCEPT !.model = @ + 1]
              /\ mode = "tools" /\ ~finalOnly' =>
                   ~(usage.steps >= ToolSteps) /\ ~repaired
    <3>1. CASE Dialogue!Begin
      <4>1. CASE \E p, f \in Estimates : finalOnly' = Dialogue!Closed(p, f)
                                         /\ Dialogue!Request(p, f)
        <5>1. PICK p \in Estimates, f \in Estimates :
                finalOnly' = Dialogue!Closed(p, f) /\ Dialogue!Request(p, f)
          BY <4>1
        <5>2. Dialogue!Closed(p, f) \in BOOLEAN
          BY DEF Dialogue!Closed
        <5>3. finalOnly' \in BOOLEAN /\ (~finalOnly' => ~Dialogue!Closed(p, f))
          BY <5>1, <5>2
        <5>4. ~Dialogue!Closed(p, f) => ~(usage.steps >= ToolSteps) /\ ~repaired
          BY DEF Dialogue!Closed
        <5> QED
          BY <1>c, <1>i, <3>1, <5>1, <5>3, <5>4
             DEF Dialogue!DialogueTypes, Dialogue!Begin, Dialogue!Request
      <4> QED
        BY <1>i, <3>1, <4>1 DEF Dialogue!Begin, Dialogue!InterruptCode, Dialogue!DialogueTypes
    <3>2. CASE Dialogue!BeginSnapshot
      <4>1. /\ pc = "top" /\ mode = "snapshot" /\ finalOnly \in BOOLEAN
            /\ step <= Dialogue!SnapshotCalls
        BY <1>i, <3>2 DEF Dialogue!TurnFollowed, Dialogue!BeginSnapshot,
              Dialogue!DialogueTypes
      <4>2. CASE step = Dialogue!SnapshotCalls \/ Dialogue!Interrupted
        BY <3>2, <4>1, <4>2 DEF Dialogue!BeginSnapshot, Dialogue!InterruptCode
      <4>3. CASE step # Dialogue!SnapshotCalls /\ ~Dialogue!Interrupted
        <5>1. step < Dialogue!SnapshotCalls /\ step < ModelCalls
          BY <1>c, <1>s, <1>u, <4>1, <4>3
        <5>2. finalOnly' = TRUE /\ \E f \in Estimates : Dialogue!Request(f, f)
          BY <3>2, <4>3 DEF Dialogue!BeginSnapshot
        <5> QED
          BY <3>2, <4>1, <5>1, <5>2 DEF Dialogue!BeginSnapshot, Dialogue!Request
      <4> QED
        BY <4>2, <4>3
    <3> QED
      BY <1>1, <3>1, <3>2
  <2> DEFINE asked == [usage EXCEPT !.model = @ + 1]
  <2>a. /\ asked \in Dialogue!Usages /\ asked.model = usage.model + 1
        /\ asked.tools = usage.tools /\ asked.steps = usage.steps
        /\ asked.input = usage.input /\ asked.output = usage.output
        /\ asked.complete = usage.complete
    BY <1>u DEF Dialogue!Usages
  <2> HIDE DEF asked
  <2>2. /\ usage' \in Dialogue!Usages
        /\ usage'.tools = usage.tools /\ usage'.steps = usage.steps
        /\ usage'.input = usage.input /\ usage'.output = usage.output
        /\ usage'.complete = usage.complete
        /\ pc' = "ask" => usage'.model = usage.model + 1
        /\ pc' = "done" => usage'.model = usage.model
    BY <1>u, <2>1, <2>a DEF asked
  <2>3. Dialogue!DialogueTypes'
    BY <1>c, <1>i, <2>1, <2>2
       DEF Dialogue!DialogueTypes, Dialogue!DialogueTypeOK, Dialogue!TurnFollowed
  <2>4. Dialogue!TurnFollowed'
    <3>1. usage.steps \in Nat /\ batch = <<>>
      BY <1>i, <1>u, <2>1 DEF Dialogue!TurnFollowed
    <3> QED
      BY <1>c, <1>i, <1>s, <1>u, <2>1, <2>2, <3>1 DEF Dialogue!TurnFollowed
  <2>5. Dialogue!TokensCounted'
    BY <1>i, <2>1, <2>2 DEF Dialogue!TokensCounted, Dialogue!TurnFollowed, Dialogue!OverBudget
  <2>6. Dialogue!CallsAnswered' /\ Dialogue!ConsultedShown'
    BY <1>i, <2>1 DEF Dialogue!CallsAnswered, Dialogue!ConsultedShown
  <2> QED
    BY <2>3, <2>4, <2>5, <2>6 DEF Dialogue!DialogueInv
<1>2. CASE Dialogue!Fail \/ Dialogue!Reply
  <2>1. /\ pc = "ask" /\ batch = <<>>
        /\ UNCHANGED <<mode, followUp, dialogueClock, dialogueCancel, step, finalOnly,
                       repaired, history, answered, consulted, batch, cites>>
        /\ usage' \in Dialogue!Usages /\ spent' \in Nat
        /\ usage'.model = usage.model /\ usage'.tools = usage.tools
        /\ usage'.steps = usage.steps
        /\ \/ pc' = "done" /\ result' = "PROVIDER_FAILURE" /\ ~usage'.complete
           \/ /\ pc' = "replied" /\ result' = result
              /\ usage'.complete = usage.complete
              /\ usage.complete => spent' = usage'.input + usage'.output
    <3>1. CASE Dialogue!Fail
      <4>1. spent' \in Nat /\ pc = "ask" /\ batch = <<>>
        BY <1>c, <1>i, <1>u, <3>1 DEF Dialogue!Fail, Dialogue!TurnFollowed
      <4>2. usage' = [usage EXCEPT !.complete = FALSE]
        BY <3>1 DEF Dialogue!Fail
      <4>3. /\ usage' \in Dialogue!Usages /\ usage'.model = usage.model
            /\ usage'.tools = usage.tools /\ usage'.steps = usage.steps
            /\ ~usage'.complete
        BY <1>u, <4>2 DEF Dialogue!Usages
      <4> QED
        BY <3>1, <4>1, <4>3 DEF Dialogue!Fail
    <3>2. CASE Dialogue!Reply
      <4>1. PICK in \in Inputs, out \in Outputs :
              /\ usage' = [usage EXCEPT !.input = @ + in, !.output = @ + out]
              /\ spent' = spent + in + out
        BY <3>2 DEF Dialogue!Reply
      <4>2. in \in Nat /\ out \in Nat
        BY <1>c
      <4> DEFINE replied == [usage EXCEPT !.input = @ + in, !.output = @ + out]
      <4>c. usage.input + in \in Nat /\ usage.output + out \in Nat
        BY <1>u, <4>2
      <4>d. replied \in Dialogue!Usages
        BY <1>u, <4>c DEF Dialogue!Usages
      <4>a. /\ replied.model = usage.model
            /\ replied.tools = usage.tools /\ replied.steps = usage.steps
            /\ replied.input = usage.input + in /\ replied.output = usage.output + out
            /\ replied.complete = usage.complete
        BY <1>u DEF Dialogue!Usages
      <4>b. usage' = replied
        BY <4>1
      <4> HIDE DEF replied
      <4>3. /\ usage' \in Dialogue!Usages /\ usage'.model = usage.model
            /\ usage'.tools = usage.tools /\ usage'.steps = usage.steps
            /\ usage'.input = usage.input + in /\ usage'.output = usage.output + out
            /\ usage'.complete = usage.complete
        BY <4>a, <4>b, <4>d
      <4>4. spent' \in Nat /\ (usage.complete => spent' = usage'.input + usage'.output)
        BY <1>i, <1>u, <4>1, <4>2, <4>3 DEF Dialogue!TokensCounted
      <4> QED
        BY <1>i, <3>2, <4>3, <4>4 DEF Dialogue!Reply, Dialogue!TurnFollowed
    <3> QED
      BY <1>2, <3>1, <3>2
  <2>2. Dialogue!DialogueTypes'
    BY <1>i, <2>1 DEF Dialogue!DialogueTypes, Dialogue!DialogueTypeOK
  <2>3. Dialogue!TurnFollowed'
    BY <1>i, <2>1 DEF Dialogue!TurnFollowed
  <2>4. Dialogue!TokensCounted'
    BY <1>i, <1>u, <2>1 DEF Dialogue!TokensCounted, Dialogue!TurnFollowed
  <2>5. Dialogue!CallsAnswered' /\ Dialogue!ConsultedShown'
    BY <1>i, <2>1 DEF Dialogue!CallsAnswered, Dialogue!ConsultedShown
  <2> QED
    BY <2>2, <2>3, <2>4, <2>5 DEF Dialogue!DialogueInv
<1>3. CASE Dialogue!Examine
  <2>1. /\ pc = "replied" /\ batch = <<>>
        /\ UNCHANGED <<mode, followUp, dialogueClock, dialogueCancel, step, finalOnly,
                       repaired, usage, history, answered, consulted, batch, cites, spent>>
        /\ \/ pc' = "done" /\ result' # "REPORT_VALIDATED"
           \/ /\ pc' \in {"tools", "report"} /\ result' = result
              /\ pc' = "tools" => mode = "tools"
              /\ ~Dialogue!OverBudget
    BY <1>i, <1>3 DEF Dialogue!Examine, Dialogue!InterruptCode, Dialogue!TurnFollowed
  <2>2. Dialogue!DialogueTypes'
    BY <1>i, <2>1 DEF Dialogue!DialogueTypes, Dialogue!DialogueTypeOK
  <2>3. Dialogue!TurnFollowed'
    BY <1>i, <2>1 DEF Dialogue!TurnFollowed
  <2>4. Dialogue!TokensCounted'
    BY <1>i, <2>1 DEF Dialogue!TokensCounted, Dialogue!TurnFollowed, Dialogue!OverBudget
  <2>5. Dialogue!CallsAnswered' /\ Dialogue!ConsultedShown'
    BY <1>i, <2>1 DEF Dialogue!CallsAnswered, Dialogue!ConsultedShown
  <2> QED
    BY <2>2, <2>3, <2>4, <2>5 DEF Dialogue!DialogueInv
<1>4. CASE Dialogue!TakeBatch
  <2>0. pc = "tools" /\ batch = <<>> /\ mode = "tools" /\ ~Dialogue!OverBudget
    BY <1>i, <1>4 DEF Dialogue!TakeBatch, Dialogue!TurnFollowed, Dialogue!TokensCounted
  <2>1. CASE /\ pc' = "done" /\ result' # "REPORT_VALIDATED"
             /\ UNCHANGED <<usage, history, batch>>
    <3>1. UNCHANGED <<mode, followUp, dialogueClock, dialogueCancel, step, finalOnly,
                      repaired, answered, consulted, cites, spent>>
      BY <1>4 DEF Dialogue!TakeBatch
    <3>2. Dialogue!DialogueTypes' /\ Dialogue!TurnFollowed'
      BY <1>i, <2>0, <2>1, <3>1
         DEF Dialogue!DialogueTypes, Dialogue!DialogueTypeOK, Dialogue!TurnFollowed
    <3>3. Dialogue!TokensCounted'
      BY <1>i, <2>0, <2>1, <3>1
         DEF Dialogue!TokensCounted, Dialogue!TurnFollowed, Dialogue!OverBudget
    <3>4. Dialogue!CallsAnswered' /\ Dialogue!ConsultedShown'
      BY <1>i, <2>1, <3>1 DEF Dialogue!CallsAnswered, Dialogue!ConsultedShown
    <3> QED
      BY <3>2, <3>3, <3>4 DEF Dialogue!DialogueInv
  <2>2. ASSUME NEW n \in 1..MaxBatch, NEW asked \in [1..n -> Dialogue!Calls],
               ~finalOnly, ~(usage.tools + n > ToolCalls), ~Dialogue!Repeats(asked),
               history' = history \o [m \in 1..n |-> Dialogue!Call(asked[m])],
               usage' = [usage EXCEPT !.steps = @ + 1],
               batch' = asked, pc' = "record", result' = result
        PROVE  Dialogue!DialogueInv'
    <3>1. UNCHANGED <<mode, followUp, dialogueClock, dialogueCancel, step, finalOnly,
                      repaired, answered, consulted, cites, spent>>
      BY <1>4 DEF Dialogue!TakeBatch
    <3>2. /\ usage' \in Dialogue!Usages /\ usage'.model = usage.model
          /\ usage'.tools = usage.tools /\ usage'.steps = usage.steps + 1
          /\ usage'.input = usage.input /\ usage'.output = usage.output
          /\ usage'.complete = usage.complete
      <4>1. usage.steps + 1 \in Nat /\ usage' = [usage EXCEPT !.steps = usage.steps + 1]
        BY <1>u, <2>2
      <4>2. usage' \in Dialogue!Usages
        BY <1>u, <4>1 DEF Dialogue!Usages
      <4> QED
        BY <1>u, <4>1, <4>2 DEF Dialogue!Usages
    <3>3. /\ n \in Nat /\ asked \in Seq(Dialogue!Calls) /\ Len(asked) = n
          /\ DOMAIN asked = 1..n /\ \A m \in 1..n : asked[m] \in Dialogue!Calls
      OBVIOUS
    <3> DEFINE made == [m \in 1..n |-> Dialogue!Call(asked[m])]
    <3>4. /\ made \in Seq(Dialogue!Entries) /\ Len(made) = n
          /\ \A m \in 1..n : /\ made[m].kind = "call" /\ made[m].id = asked[m].id
                             /\ made[m].request = asked[m].request
      BY <3>3 DEF Dialogue!Call, Dialogue!Entries, Dialogue!Calls
    <3> DEFINE H == Len(history)
    <3>5. history \in Seq(Dialogue!Entries) /\ H \in Nat /\ DOMAIN history = 1..H
      BY <1>i DEF Dialogue!DialogueTypes, Dialogue!DialogueTypeOK
    <3>6. /\ history' \in Seq(Dialogue!Entries) /\ DOMAIN history' = 1..(H + n)
          /\ \A i \in 1..H : history'[i] = history[i]
          /\ \A i \in (H + 1)..(H + n) :
               i - H \in 1..n /\ history'[i] = made[i - H]
      BY <2>2, <3>3, <3>4, <3>5, ConcatProperties, LenProperties
    <3> HIDE DEF made, H
    <3>7. \A i \in DOMAIN history' :
            \/ i \in DOMAIN history /\ history'[i] = history[i]
            \/ \E m \in 1..n : /\ history'[i].kind = "call"
                               /\ history'[i].id = asked[m].id
                               /\ history'[i].request = asked[m].request
      <4>1. \A i \in DOMAIN history' : i \in 1..H \/ i \in (H + 1)..(H + n)
        BY <3>3, <3>5, <3>6
      <4>2. \A i \in (H + 1)..(H + n) : i - H \in 1..n /\ history'[i] = made[i - H]
        BY <3>6
      <4> QED
        BY ZenonT(60), <3>4, <3>5, <3>6, <4>1, <4>2
    <3>8. DOMAIN history \subseteq DOMAIN history'
          /\ \A i \in DOMAIN history : history'[i] = history[i]
      BY <3>3, <3>5, <3>6
    <3>9. /\ \A m, k \in 1..n : m # k => asked[m].id # asked[k].id
                                        /\ asked[m].request # asked[k].request
          /\ \A m \in 1..n : /\ \A a \in DOMAIN answered : answered[a] # asked[m].request
                             /\ \A h \in DOMAIN history : history[h].id # asked[m].id
      BY <2>2, <3>3 DEF Dialogue!Repeats, Dialogue!Distinct, Dialogue!ToSet
    <3>10. Dialogue!DialogueTypes'
      <4>1. usage.steps < ToolSteps
        BY <1>i, <2>0, <2>2 DEF Dialogue!TurnFollowed
      <4> QED
        <5>1. usage'.steps \in 0..ToolSteps
          BY <1>c, <1>u, <3>2, <4>1
        <5> QED
          BY <1>i, <2>2, <3>1, <3>2, <3>3, <3>6, <5>1
             DEF Dialogue!DialogueTypes, Dialogue!DialogueTypeOK
    <3>11. Dialogue!TurnFollowed'
      BY <1>c, <1>i, <1>u, <2>0, <2>2, <3>1, <3>2, <3>3 DEF Dialogue!TurnFollowed
    <3>12. Dialogue!TokensCounted'
      BY <1>i, <2>0, <2>2, <3>1, <3>2 DEF Dialogue!TokensCounted, Dialogue!TurnFollowed
    <3>13. Dialogue!CallsAnswered'
      <4>1. \A i \in DOMAIN history' : history'[i].kind = "output" =>
              i \in DOMAIN history /\ history[i].kind = "output"
        BY <3>7
      <4>2. \A h \in DOMAIN history' : history'[h].kind # "output" =>
              \/ \E m \in DOMAIN asked :
                   asked[m].id = history'[h].id /\ asked[m].request = history'[h].request
              \/ \E o \in DOMAIN history' :
                   /\ history'[o].kind = "output" /\ history'[o].id = history'[h].id
                   /\ history'[o].request = history'[h].request
        BY <1>i, <2>0, <3>3, <3>7, <3>8 DEF Dialogue!CallsAnswered
      <4>3. \A o, u \in DOMAIN history' :
              history'[o].kind = "output" /\ history'[u].kind = "output"
                /\ history'[o].id = history'[u].id => o = u
        BY <1>i, <3>8, <4>1 DEF Dialogue!CallsAnswered
      <4>4. \A o \in DOMAIN history', m \in DOMAIN asked :
              history'[o].kind = "output" => history'[o].id # asked[m].id
        BY <3>3, <3>8, <3>9, <4>1
      <4>5. batch' = asked /\ DOMAIN asked = 1..n /\ answered' = answered
        BY <2>2, <3>1, <3>3
      <4>6. /\ \A m, k \in DOMAIN batch' : m # k =>
                 batch'[m].id # batch'[k].id /\ batch'[m].request # batch'[k].request
            /\ \A m \in DOMAIN answered', k \in DOMAIN batch' : answered'[m] # batch'[k].request
        BY <3>9, <4>5
      <4>7. \A m, k \in DOMAIN answered' : answered'[m] = answered'[k] => m = k
        BY <1>i, <4>5 DEF Dialogue!CallsAnswered
      <4> QED
        BY <4>2, <4>3, <4>4, <4>5, <4>6, <4>7 DEF Dialogue!CallsAnswered
    <3>14. Dialogue!ConsultedShown'
      BY <1>i, <3>1, <3>8 DEF Dialogue!ConsultedShown
    <3> QED
      BY <3>10, <3>11, <3>12, <3>13, <3>14 DEF Dialogue!DialogueInv
  <2> QED
    BY <1>4, <2>1, <2>2 DEF Dialogue!TakeBatch
<1>5. CASE Dialogue!Record
  <2>0. /\ pc = "record" /\ mode = "tools"
        /\ batch \in Seq(Dialogue!Calls) /\ history \in Seq(Dialogue!Entries)
        /\ answered \in Seq(Requests) /\ consulted \subseteq Runbooks
    BY <1>i, <1>5 DEF Dialogue!Record, Dialogue!TurnFollowed, Dialogue!DialogueTypes,
          Dialogue!DialogueTypeOK
  <2>1. CASE batch = <<>>
    <3>1. /\ pc' = "top" /\ step' = step + 1 /\ batch' = batch
          /\ UNCHANGED <<mode, followUp, dialogueClock, dialogueCancel, finalOnly, repaired,
                         usage, history, answered, consulted, cites, spent, result>>
      BY <1>5, <2>1 DEF Dialogue!Record
    <3>2. usage.model = step + 1 /\ usage.model <= ModelCalls
      BY <1>c, <1>i, <1>u, <2>0
         DEF Dialogue!DialogueTypes, Dialogue!DialogueTypeOK, Dialogue!TurnFollowed
    <3>3. Dialogue!DialogueTypes'
      BY <1>c, <1>i, <1>u, <3>1, <3>2 DEF Dialogue!DialogueTypes, Dialogue!DialogueTypeOK
    <3>4. Dialogue!TurnFollowed'
      BY <1>i, <2>0, <2>1, <3>1, <3>2 DEF Dialogue!TurnFollowed
    <3>5. Dialogue!TokensCounted'
      BY <1>i, <2>0, <3>1 DEF Dialogue!TokensCounted, Dialogue!TurnFollowed, Dialogue!OverBudget
    <3>6. Dialogue!CallsAnswered' /\ Dialogue!ConsultedShown'
      BY <1>i, <3>1 DEF Dialogue!CallsAnswered, Dialogue!ConsultedShown
    <3> QED
      BY <3>3, <3>4, <3>5, <3>6 DEF Dialogue!DialogueInv
  <2>2. CASE batch # <<>> /\ Dialogue!Interrupted
    <3>1. /\ pc' = "done" /\ result' # "REPORT_VALIDATED" /\ batch' = batch
          /\ UNCHANGED <<mode, followUp, dialogueClock, dialogueCancel, step, finalOnly,
                         repaired, usage, history, answered, consulted, cites, spent>>
      BY <1>5, <2>2 DEF Dialogue!Record, Dialogue!InterruptCode
    <3>2. Dialogue!DialogueTypes' /\ Dialogue!TurnFollowed'
      BY <1>i, <2>0, <3>1
         DEF Dialogue!DialogueTypes, Dialogue!DialogueTypeOK, Dialogue!TurnFollowed
    <3>3. Dialogue!TokensCounted'
      BY <1>i, <2>0, <3>1 DEF Dialogue!TokensCounted, Dialogue!TurnFollowed, Dialogue!OverBudget
    <3>4. Dialogue!CallsAnswered' /\ Dialogue!ConsultedShown'
      BY <1>i, <3>1 DEF Dialogue!CallsAnswered, Dialogue!ConsultedShown
    <3> QED
      BY <3>2, <3>3, <3>4 DEF Dialogue!DialogueInv
  <2>3. CASE batch # <<>> /\ ~Dialogue!Interrupted
    <3> DEFINE c == Head(batch)  entry == Dialogue!Output(c)  B == Len(batch)
               H == Len(history)  A == Len(answered)
    <3>1. /\ answered' = Append(answered, c.request)
          /\ consulted' = consulted \cup ({c.request} \cap Runbooks)
          /\ usage' = [usage EXCEPT !.tools = @ + 1]
          /\ history' = Append(history, entry)
          /\ batch' = Tail(batch)
          /\ UNCHANGED <<mode, followUp, dialogueClock, dialogueCancel, finalOnly, repaired,
                         pc, step, cites, spent, result>>
      BY <1>5, <2>3 DEF Dialogue!Record
    <3>2. /\ usage' \in Dialogue!Usages /\ usage'.model = usage.model
          /\ usage'.tools = usage.tools + 1 /\ usage'.steps = usage.steps
          /\ usage'.input = usage.input /\ usage'.output = usage.output
          /\ usage'.complete = usage.complete
      <4>1. usage.tools + 1 \in Nat /\ usage' = [usage EXCEPT !.tools = usage.tools + 1]
        BY <1>u, <3>1
      <4>2. usage' \in Dialogue!Usages
        BY <1>u, <4>1 DEF Dialogue!Usages
      <4> QED
        BY <1>u, <4>1, <4>2 DEF Dialogue!Usages
    <3>3. /\ B \in Nat \ {0} /\ DOMAIN batch = 1..B /\ c = batch[1] /\ c \in Dialogue!Calls
          /\ batch' \in Seq(Dialogue!Calls) /\ Len(batch') = B - 1
          /\ DOMAIN batch' = 1..(B - 1)
          /\ \A i \in 1..(B - 1) : batch'[i] = batch[i + 1]
      BY <2>0, <2>3, <3>1
    <3>4. /\ c.id \in CallIds /\ c.request \in Requests /\ entry \in Dialogue!Entries
          /\ entry.kind = "output" /\ entry.id = c.id /\ entry.request = c.request
      BY <3>3 DEF Dialogue!Calls, Dialogue!Output, Dialogue!Entries
    <3> HIDE DEF c, entry
    <3>5. /\ H \in Nat /\ DOMAIN history = 1..H /\ DOMAIN history' = 1..(H + 1)
          /\ history' \in Seq(Dialogue!Entries) /\ history'[H + 1] = entry
          /\ \A i \in 1..H : history'[i] = history[i]
      BY <2>0, <3>1, <3>4
    <3>6. /\ A \in Nat /\ DOMAIN answered = 1..A /\ DOMAIN answered' = 1..(A + 1)
          /\ answered' \in Seq(Requests) /\ answered'[A + 1] = c.request
          /\ \A i \in 1..A : answered'[i] = answered[i]
      BY <2>0, <3>1, <3>4
    <3> HIDE DEF H, A
    <3>7. /\ \A n \in DOMAIN batch' : n \in Nat /\ n + 1 \in DOMAIN batch
                                       /\ batch'[n] = batch[n + 1] /\ n + 1 # 1
          /\ 1 \in DOMAIN batch
          /\ \A n \in DOMAIN batch : n = 1 \/ \E m \in DOMAIN batch' : batch'[m] = batch[n]
      <4>1. \A n \in DOMAIN batch' : n \in Nat /\ n + 1 \in DOMAIN batch
                                       /\ batch'[n] = batch[n + 1] /\ n + 1 # 1
        BY <3>3
      <4>2. 1 \in DOMAIN batch
        BY <3>3
      <4>3. ASSUME NEW n \in DOMAIN batch, n # 1
            PROVE  \E m \in DOMAIN batch' : batch'[m] = batch[n]
        <5>1. n - 1 \in 1..(B - 1) /\ (n - 1) + 1 = n
          BY <3>3, <4>3
        <5> QED
          BY <3>3, <5>1
      <4> QED
        BY <4>1, <4>2, <4>3
    <3>b. /\ c = batch[1]
          /\ \A n \in DOMAIN batch' :
               batch'[n].id # batch[1].id /\ batch'[n].request # batch[1].request
      <4>1. \A n \in DOMAIN batch : n # 1 =>
              batch[n].id # batch[1].id /\ batch[n].request # batch[1].request
        BY <1>i, <3>7 DEF Dialogue!CallsAnswered
      <4> QED
        BY <3>3, <3>7, <4>1
    <3>a. B = Len(batch)
      OBVIOUS
    <3> HIDE DEF B
    <3>8. Dialogue!DialogueTypes'
      <4>1. usage.tools + B <= ToolCalls
        BY <1>i, <2>0, <3>a DEF Dialogue!TurnFollowed
      <4>2. usage'.tools \in 0..ToolCalls
        BY <1>c, <1>u, <3>2, <3>3, <4>1
      <4>3. consulted' \subseteq Runbooks
        BY <2>0, <3>1
      <4> QED
        BY <1>i, <3>1, <3>2, <3>3, <3>5, <3>6, <4>2, <4>3
           DEF Dialogue!DialogueTypes, Dialogue!DialogueTypeOK
    <3>9. Dialogue!TurnFollowed'
      BY <1>c, <1>i, <1>u, <2>0, <3>1, <3>2, <3>3, <3>a DEF Dialogue!TurnFollowed
    <3>10. Dialogue!TokensCounted'
      BY <1>i, <2>0, <3>1, <3>2 DEF Dialogue!TokensCounted, Dialogue!TurnFollowed
    <3>11. \A o \in DOMAIN history' :
             \/ o \in DOMAIN history /\ history'[o] = history[o]
             \/ o = H + 1 /\ history'[o] = entry /\ o \notin DOMAIN history
      BY <3>5
    <3>12. \A o \in DOMAIN history : o \in DOMAIN history' /\ history'[o] = history[o]
      BY <3>5
    <3>13. \A m \in DOMAIN answered' :
             \/ m \in DOMAIN answered /\ answered'[m] = answered[m]
             \/ m = A + 1 /\ answered'[m] = c.request
      BY <3>6
    <3>14. Dialogue!CallsAnswered'
      <4>1. \A m, n \in DOMAIN batch' : m # n =>
              batch'[m].id # batch'[n].id /\ batch'[m].request # batch'[n].request
        BY <1>i, <3>7 DEF Dialogue!CallsAnswered
      <4>2. \A m, n \in DOMAIN answered' : answered'[m] = answered'[n] => m = n
        <5>1. \A m \in DOMAIN answered : answered[m] # c.request
          BY <1>i, <3>3, <3>7 DEF Dialogue!CallsAnswered
        <5> QED
          BY <1>i, <3>13, <5>1 DEF Dialogue!CallsAnswered
      <4>3. \A m \in DOMAIN answered', n \in DOMAIN batch' : answered'[m] # batch'[n].request
        <5>1. \A n \in DOMAIN batch' : batch'[n].request # c.request
          BY <3>b
        <5> QED
          BY <1>i, <3>7, <3>13, <5>1 DEF Dialogue!CallsAnswered
      <4>4. \A o \in DOMAIN history', n \in DOMAIN batch' :
              history'[o].kind = "output" => history'[o].id # batch'[n].id
        <5>1. \A n \in DOMAIN batch' : batch'[n].id # c.id
          BY <3>b
        <5> QED
          BY <1>i, <3>4, <3>7, <3>11, <5>1 DEF Dialogue!CallsAnswered
      <4>5. \A o, u \in DOMAIN history' :
              history'[o].kind = "output" /\ history'[u].kind = "output"
                /\ history'[o].id = history'[u].id => o = u
        BY <1>i, <3>3, <3>4, <3>7, <3>11 DEF Dialogue!CallsAnswered
      <4>6. ASSUME NEW h \in DOMAIN history', history'[h].kind # "output"
            PROVE  \/ \E n \in DOMAIN batch' :
                       batch'[n].id = history'[h].id /\ batch'[n].request = history'[h].request
                   \/ \E o \in DOMAIN history' :
                       /\ history'[o].kind = "output" /\ history'[o].id = history'[h].id
                       /\ history'[o].request = history'[h].request
        <5>1. h \in DOMAIN history /\ history'[h] = history[h]
          BY <3>4, <3>11, <4>6
        <5>2. CASE \E o \in DOMAIN history :
                     /\ history[o].kind = "output" /\ history[o].id = history[h].id
                     /\ history[o].request = history[h].request
          BY <3>12, <5>1, <5>2
        <5>3. CASE \E n \in DOMAIN batch :
                     batch[n].id = history[h].id /\ batch[n].request = history[h].request
          <6>1. H + 1 \in DOMAIN history' /\ history'[H + 1] = entry
            BY <3>5
          <6>2. PICK n \in DOMAIN batch :
                  batch[n].id = history[h].id /\ batch[n].request = history[h].request
            BY <5>3
          <6>3. CASE n = 1
            BY <3>3, <3>4, <5>1, <6>1, <6>2, <6>3
          <6>4. CASE n # 1
            BY <3>7, <5>1, <6>2, <6>4
          <6> QED
            BY <6>3, <6>4
        <5> QED
          BY <1>i, <4>6, <5>1, <5>2, <5>3 DEF Dialogue!CallsAnswered
      <4> QED
        BY <4>1, <4>2, <4>3, <4>4, <4>5, <4>6 DEF Dialogue!CallsAnswered
    <3>15. Dialogue!ConsultedShown'
      <4>1. H + 1 \in DOMAIN history' /\ history'[H + 1] = entry
        BY <3>5
      <4> QED
        BY <1>i, <3>1, <3>4, <3>12, <4>1 DEF Dialogue!ConsultedShown
    <3> QED
      BY <3>8, <3>9, <3>10, <3>14, <3>15 DEF Dialogue!DialogueInv
  <2> QED
    BY <2>1, <2>2, <2>3
<1>6. CASE Dialogue!Report \/ Dialogue!ReportSnapshot
  <2>1. /\ pc = "report" /\ batch = <<>> /\ cites' \subseteq consulted
        /\ UNCHANGED <<mode, followUp, dialogueClock, dialogueCancel, finalOnly,
                       usage, history, answered, consulted, batch, spent>>
        /\ \/ pc' = "done" /\ UNCHANGED <<step, repaired>>
           \/ pc' = "top" /\ step' = step + 1 /\ repaired' = TRUE /\ result' = result
    BY <1>i, <1>6 DEF Dialogue!Report, Dialogue!ReportSnapshot, Dialogue!Repair,
          Dialogue!TurnFollowed, Dialogue!ConsultedShown
  <2>2. Dialogue!DialogueTypes'
    <3>1. consulted \subseteq Runbooks /\ cites' \subseteq Runbooks
      BY <1>i, <2>1 DEF Dialogue!DialogueTypes, Dialogue!DialogueTypeOK
    <3>2. step' \in 0..ModelCalls /\ repaired' \in BOOLEAN
      BY <1>c, <1>i, <1>u, <2>1
         DEF Dialogue!DialogueTypes, Dialogue!DialogueTypeOK, Dialogue!TurnFollowed
    <3> QED
      BY <1>i, <2>1, <3>1, <3>2 DEF Dialogue!DialogueTypes, Dialogue!DialogueTypeOK
  <2>3. Dialogue!TurnFollowed'
    BY <1>i, <1>s, <1>u, <2>1 DEF Dialogue!TurnFollowed
  <2>4. Dialogue!TokensCounted'
    BY <1>i, <2>1 DEF Dialogue!TokensCounted, Dialogue!TurnFollowed, Dialogue!OverBudget
  <2>5. Dialogue!CallsAnswered' /\ Dialogue!ConsultedShown'
    BY <1>i, <2>1 DEF Dialogue!CallsAnswered, Dialogue!ConsultedShown
  <2> QED
    BY <2>2, <2>3, <2>4, <2>5 DEF Dialogue!DialogueInv
<1>7. CASE Dialogue!Tick \/ Dialogue!Cancel
  <2>1. /\ UNCHANGED <<mode, pc, step, finalOnly, repaired, usage, history, answered,
                       consulted, batch, cites, result, spent>>
        /\ dialogueClock' \in Nat
    BY <1>i, <1>7 DEF Dialogue!Tick, Dialogue!Cancel, Dialogue!DialogueTypes
  <2> QED
    BY <1>i, <2>1 DEF Dialogue!DialogueInv, Dialogue!DialogueTypes, Dialogue!DialogueTypeOK,
          Dialogue!TurnFollowed, Dialogue!TokensCounted, Dialogue!CallsAnswered,
          Dialogue!ConsultedShown, Dialogue!OverBudget
<1> QED
  BY <1>1, <1>2, <1>3, <1>4, <1>5, <1>6, <1>7 DEF Dialogue!Next, Dialogue!Progress

-----------------------------------------------------------------------------
(* The stream *)

\* The pass over the items as a function of how many were read.
Gathers(g, list) ==
    g = [n \in 0..Len(list) |->
           IF n = 0 THEN <<>>
           ELSE IF Stream!IsCall(list[n]) THEN Append(g[n - 1], list[n])
           ELSE g[n - 1]]

\* One step of the pass.
GatheredNext(g, list, n) ==
    IF n = 0 THEN <<>>
    ELSE IF Stream!IsCall(list[n]) THEN Append(g[n - 1], list[n])
    ELSE g[n - 1]

\* Induction: a set with 0 and every successor has all natural numbers.
LEMMA NatSetInduction ==
  ASSUME NEW T, 0 \in T, \A n \in Nat : n \in T => n + 1 \in T
  PROVE  Nat \subseteq T
  <1> DEFINE R == OpToRel(<, Nat)
             Rest == Nat \ T
  <1>1. ASSUME Rest # {} PROVE FALSE
    <2>1. IsWellFoundedOn(R, Nat)
      BY NatLessThanWellFounded DEF R
    <2> HIDE DEF R
    <2>2. PICK x \in Rest : \A y \in Rest : <<y, x>> \notin R
      <3>1. Rest \subseteq Nat
        OBVIOUS
      <3> HIDE DEF Rest
      <3>2. QED BY <1>1, <2>1, <3>1, WFMin
    <2>3. x \in Nat /\ x # 0
      OBVIOUS
    <2>4. x - 1 \in Nat /\ x - 1 < x
      BY <2>3
    <2>5. <<x - 1, x>> \in R
      BY <2>3, <2>4 DEF R, OpToRel
    <2>6. x - 1 \in T
      BY <2>2, <2>4, <2>5
    <2>7. (x - 1) + 1 \in T
      BY <2>4, <2>6
    <2>8. QED BY <2>3, <2>7
  <1>2. QED BY <1>1

\* The pass exists for every list, and gathers its calls.
LEMMA CallsGathered ==
    ASSUME NEW list \in Seq(Stream!Items)
    PROVE  \E g : /\ \A n \in 0..Len(list) : g[n] = GatheredNext(g, list, n)
                  /\ Stream!CallsOf(list) = g[Len(list)]
<1>1. Len(list) \in Nat
  OBVIOUS
<1> DEFINE N == {k \in Nat : \E g : g = [n \in 0..k |-> GatheredNext(g, list, n)]}
<1>2. 0 \in N
  <2> DEFINE g == [n \in 0..0 |-> <<>>]
  <2>1. g = [n \in 0..0 |-> GatheredNext(g, list, n)]
    BY DEF GatheredNext
  <2> HIDE DEF g
  <2> QED
    BY <2>1
<1>3. ASSUME NEW k \in Nat, k \in N PROVE k + 1 \in N
  <2>1. PICK g : g = [n \in 0..k |-> GatheredNext(g, list, n)]
    BY <1>3
  <2> DEFINE h == [n \in 0..(k + 1) |-> GatheredNext(g, list, n)]
  <2>2. \A n \in 0..k : h[n] = g[n]
    <3>1. \A n \in 0..k : n \in 0..(k + 1)
      OBVIOUS
    <3>2. \A n \in 0..k : g[n] = GatheredNext(g, list, n)
      BY <2>1
    <3> QED
      BY <3>1, <3>2
  <2>3. \A n \in 0..(k + 1) : GatheredNext(g, list, n) = GatheredNext(h, list, n)
    <3>1. \A n \in 0..(k + 1) : n = 0 \/ n - 1 \in 0..k
      OBVIOUS
    <3> HIDE DEF h
    <3> QED
      BY <2>2, <3>1 DEF GatheredNext
  <2>4. h = [n \in 0..(k + 1) |-> GatheredNext(h, list, n)]
    <3> DEFINE f == [n \in 0..(k + 1) |-> GatheredNext(h, list, n)]
    <3>1. \A n \in 0..(k + 1) : h[n] = f[n]
      BY <2>3
    <3> QED
      BY <3>1
  <2> HIDE DEF h
  <2> QED
    BY <2>4
<1>4. Len(list) \in N
  <2> HIDE DEF N
  <2> QED
    BY <1>1, <1>2, <1>3, NatSetInduction
<1>5. \E g : Gathers(g, list)
  BY <1>4 DEF Gathers, GatheredNext
<1> DEFINE gathered == CHOOSE g : Gathers(g, list)
<1>6. Gathers(gathered, list)
  BY <1>5
<1>7. Stream!CallsOf(list) = gathered[Len(list)]
  BY DEF Stream!CallsOf, Gathers
<1> HIDE DEF gathered
<1>8. \A n \in 0..Len(list) : gathered[n] = GatheredNext(gathered, list, n)
  BY <1>6 DEF Gathers, GatheredNext
<1> QED
  BY <1>7, <1>8

\* Calls with different identifiers in an answer have different ones in a reply.
LEMMA CallsDiffer ==
    ASSUME NEW list \in Seq(Stream!Items),
           \A m, n \in DOMAIN list :
             Stream!IsCall(list[m]) /\ Stream!IsCall(list[n]) /\ list[m].id = list[n].id
             => m = n
    PROVE  /\ Stream!CallsOf(list) \in Seq(Stream!Items)
           /\ \A k, l \in DOMAIN Stream!CallsOf(list) :
                Stream!CallsOf(list)[k].id = Stream!CallsOf(list)[l].id => k = l
<1>1. Len(list) \in Nat /\ DOMAIN list = 1..Len(list)
  OBVIOUS
<1>2. PICK g : /\ \A n \in 0..Len(list) : g[n] = GatheredNext(g, list, n)
               /\ Stream!CallsOf(list) = g[Len(list)]
  BY CallsGathered
<1> DEFINE Good(n) ==
      /\ g[n] \in Seq(Stream!Items)
      /\ \A k \in DOMAIN g[n] : \E m \in 1..n :
           Stream!IsCall(list[m]) /\ g[n][k] = list[m]
      /\ \A k, l \in DOMAIN g[n] : g[n][k].id = g[n][l].id => k = l
    N == {n \in Nat : n <= Len(list) => Good(n)}
<1>3. 0 \in N
  <2>1. g[0] = <<>>
    BY <1>1, <1>2 DEF GatheredNext
  <2>2. g[0] \in Seq(Stream!Items) /\ DOMAIN g[0] = {}
    BY <2>1
  <2> HIDE DEF Stream!Items
  <2> QED
    BY <2>2
<1>4. ASSUME NEW n \in Nat, n \in N PROVE n + 1 \in N
  <2> SUFFICES ASSUME n + 1 <= Len(list) PROVE Good(n + 1)
    OBVIOUS
  <2>1. Good(n) /\ n + 1 \in 1..Len(list) /\ n + 1 \in 0..Len(list)
    BY <1>1, <1>4
  <2>2. g[n + 1] = IF Stream!IsCall(list[n + 1]) THEN Append(g[n], list[n + 1]) ELSE g[n]
    <3>1. g[n + 1] = GatheredNext(g, list, n + 1) /\ n + 1 # 0 /\ (n + 1) - 1 = n
      BY <1>2, <2>1
    <3> QED
      BY <3>1 DEF GatheredNext
  <2>3. CASE ~Stream!IsCall(list[n + 1])
    <3>1. g[n + 1] = g[n] /\ \A m \in 1..n : m \in 1..(n + 1)
      BY <2>2, <2>3
    <3> QED
      BY <2>1, <3>1
  <2>4. CASE Stream!IsCall(list[n + 1])
    <3> DEFINE s == g[n]  t == g[n + 1]  L == Len(s)
    <3>1. s \in Seq(Stream!Items) /\ list[n + 1] \in Stream!Items
      BY <1>1, <2>1
    <3>2. t = Append(s, list[n + 1])
      BY <2>2, <2>4
    <3>3. /\ t \in Seq(Stream!Items) /\ L \in Nat /\ DOMAIN s = 1..L /\ DOMAIN t = 1..(L + 1)
          /\ t[L + 1] = list[n + 1] /\ \A k \in 1..L : t[k] = s[k]
      <4> HIDE DEF s, t
      <4> QED
        BY <3>1, <3>2
    <3>4. /\ \A k \in 1..L : \E m \in 1..n : Stream!IsCall(list[m]) /\ s[k] = list[m]
          /\ \A k, l \in 1..L : s[k].id = s[l].id => k = l
      BY <2>1, <3>3
    <3> HIDE DEF s, t, L
    <3>5. \A k \in DOMAIN t : k \in 1..L \/ k = L + 1
      BY <3>3
    <3>6. \A m \in 1..n : m \in DOMAIN list /\ m # n + 1 /\ m \in 1..(n + 1)
      BY <1>1, <2>1
    <3>7. n + 1 \in DOMAIN list /\ n + 1 \in 1..(n + 1)
      BY <1>1, <2>1
    <3>8. \A k \in 1..L : s[k].id # list[n + 1].id
      BY <2>4, <3>4, <3>6, <3>7
    <3>9. \A k, l \in DOMAIN t : t[k].id = t[l].id => k = l
      BY <3>3, <3>4, <3>5, <3>8
    <3>10. \A k \in DOMAIN t : \E m \in 1..(n + 1) : Stream!IsCall(list[m]) /\ t[k] = list[m]
      BY <2>4, <3>3, <3>4, <3>5, <3>6, <3>7
    <3> QED
      BY <3>3, <3>9, <3>10 DEF t
  <2> QED
    BY <2>3, <2>4
<1>5. Len(list) \in N
  <2> HIDE DEF N
  <2> QED
    BY <1>1, <1>3, <1>4, NatSetInduction
<1>6. Good(Len(list))
  BY <1>1, <1>5
<1> QED
  BY <1>2, <1>6

\* The cardinality that the two modules compute is that of its library.
LEMMA SameCardinality ==
    \A S : Stream!Cardinality(S) = Cardinality(S) /\ Dialogue!Cardinality(S) = Cardinality(S)
<1>1. \A S : Stream!Cardinality(S) = Cardinality(S)
  BY DEF Stream!Cardinality, Cardinality
<1>2. \A S : Dialogue!Cardinality(S) = Cardinality(S)
  BY DEF Dialogue!Cardinality, Cardinality
<1> QED
  BY <1>1, <1>2

\* Every step of a stream keeps its invariant.
LEMMA StreamStep ==
    ASSUME Stream!StreamInv, Stream!Next
    PROVE  Stream!StreamInv'
<1> USE DEF Stream!Fails, Stream!Reads
<1>c. MaxItems \in Nat \ {0} /\ MaxText \in Nat /\ Pieces \in Nat
  BY InstancesAssumption DEF InstancesAssumption, Stream!StreamAssumption
<1>i. /\ Stream!StreamTypeOK /\ pieces \in Nat
      /\ answer \in Seq(Stream!Items) /\ items \in [DOMAIN items -> Stream!Items]
      /\ DOMAIN answer = 1..Len(answer) /\ Len(answer) \in Nat
  BY DEF Stream!StreamInv
<1>1. CASE \/ Stream!Ask \/ Stream!Open \/ Stream!Accept \/ Stream!Interrupted
           \/ Stream!Refusal \/ Stream!EndOfStream \/ Stream!BecomesLate
  <2>1. /\ UNCHANGED <<answer, sent, pieces, items, text, streamOutput, reply>>
        /\ late' \in BOOLEAN
        /\ streamPc' \in {"failed", "opening", "opened", "reading", "asked"}
        /\ streamPc' # "failed" => streamPc # "failed"
    BY <1>1, <1>i DEF Stream!Ask, Stream!Open, Stream!Accept, Stream!Interrupted,
          Stream!Refusal, Stream!EndOfStream, Stream!BecomesLate, Stream!StreamTypeOK
  <2> QED
    BY <2>1 DEF Stream!StreamInv, Stream!StreamTypeOK
<1>2. CASE Stream!ItemDone
  <2>1. PICK n \in 1..Len(answer) :
         /\ sent' = sent \cup {n}
         /\ IF n > MaxItems \/ n \in DOMAIN items THEN Stream!Fails
            ELSE /\ items' = [m \in DOMAIN items \cup {n} |->
                                IF m = n THEN answer[n] ELSE items[m]]
                 /\ UNCHANGED <<text, streamPc, streamOutput, reply>>
    BY <1>2 DEF Stream!ItemDone
  <2>2. streamPc = "reading" /\ UNCHANGED <<answer, pieces, late>>
    BY <1>2 DEF Stream!ItemDone
  <2>3. CASE n > MaxItems \/ n \in DOMAIN items
    BY <1>i, <2>1, <2>2, <2>3 DEF Stream!StreamInv, Stream!StreamTypeOK
  <2>4. CASE ~(n > MaxItems \/ n \in DOMAIN items)
    <3>1. /\ items' = [m \in DOMAIN items \cup {n} |-> IF m = n THEN answer[n] ELSE items[m]]
          /\ UNCHANGED <<text, streamPc, streamOutput, reply>>
      BY <2>1, <2>4
    <3>2. /\ DOMAIN items' = DOMAIN items \cup {n}
          /\ \A m \in DOMAIN items' : items'[m] = answer[m] /\ m \in 1..Len(answer)
      BY <1>i, <3>1 DEF Stream!StreamInv, Stream!StreamTypeOK
    <3>3. items' \in [DOMAIN items' -> Stream!Items]
      BY <1>i, <3>1, <3>2
    <3> QED
      BY <1>i, <2>1, <2>2, <3>1, <3>2, <3>3 DEF Stream!StreamInv, Stream!StreamTypeOK
  <2> QED
    BY <2>3, <2>4
<1>3. CASE Stream!TextDelta
  <2>1. /\ streamPc = "reading" /\ UNCHANGED <<answer, sent, items, late, streamOutput, reply>>
        /\ pieces' = pieces + 1
        /\ \/ streamPc' = "failed" /\ text' = text
           \/ ~(text + 1 > MaxText) /\ streamPc' = streamPc /\ text' = text + 1
    BY <1>3 DEF Stream!TextDelta
  <2> QED
    BY <1>c, <1>i, <2>1 DEF Stream!StreamInv, Stream!StreamTypeOK
<1>4. CASE Stream!Completion
  <2>1. /\ streamPc = "reading" /\ streamPc' = "completed"
        /\ streamOutput' = answer \/ (streamOutput' = <<>> /\ sent = 1..Len(answer))
        /\ UNCHANGED <<answer, sent, pieces, items, text, late, reply>>
    BY <1>4 DEF Stream!Completion
  <2>2. streamOutput' \in Seq(Stream!Items)
    <3>1. streamOutput' = answer \/ streamOutput' = <<>>
      BY <2>1
    <3> QED
      BY <1>i, <3>1, EmptySeq
  <2> QED
    BY <1>i, <2>1, <2>2 DEF Stream!StreamInv, Stream!StreamTypeOK
<1>5. CASE Stream!BuildReply
  <2>1. streamPc = "completed" /\ UNCHANGED <<answer, sent, pieces, items, text, late, streamOutput>>
    BY <1>5 DEF Stream!BuildReply
  <2>2. CASE streamPc' = "failed" /\ UNCHANGED reply
    BY <1>i, <2>1, <2>2 DEF Stream!StreamInv, Stream!StreamTypeOK
  <2>3. CASE /\ streamOutput = <<>> => Stream!Contiguous
             /\ Stream!Acceptable(Stream!OutputItems)
             /\ reply' = [calls |-> Stream!CallsOf(Stream!OutputItems),
                          continuation |-> Stream!OutputItems]
             /\ streamPc' = "replied"
    <3>1. \/ streamOutput = answer
          \/ streamOutput = <<>> /\ DOMAIN items = 1..Len(answer)
      BY <2>1 DEF Stream!StreamInv
    <3>2. Stream!OutputItems = answer
      <4>1. CASE streamOutput = <<>> /\ DOMAIN items # {}
        <5>1. DOMAIN items = 1..Len(answer)
          BY <1>i, <3>1, <4>1 DEF Stream!StreamTypeOK
        <5>2. Cardinality(DOMAIN items) = Len(answer)
          BY <1>i, <5>1, FS_Interval
        <5>3. Stream!OutputItems = [n \in 1..Len(answer) |-> items[n]]
          BY <4>1, <5>2, SameCardinality DEF Stream!OutputItems
        <5>4. \A n \in 1..Len(answer) : items[n] = answer[n]
          BY <5>1 DEF Stream!StreamInv
        <5> QED
          BY <1>i, <5>3, <5>4
      <4>2. CASE streamOutput = <<>> /\ DOMAIN items = {}
        <5>1. answer = <<>>
          <6>1. answer = <<>> \/ 1 \in 1..Len(answer)
            BY <1>i
          <6> QED
            BY <3>1, <4>2, <6>1
        <5> QED
          BY <4>2, <5>1 DEF Stream!OutputItems
      <4>3. CASE streamOutput # <<>>
        BY <3>1, <4>3 DEF Stream!OutputItems
      <4> QED
        BY <4>1, <4>2, <4>3
    <3>3. reply' = [calls |-> Stream!CallsOf(answer), continuation |-> answer]
      BY <2>3, <3>2
    <3>4. \A m, n \in DOMAIN answer :
            Stream!IsCall(answer[m]) /\ Stream!IsCall(answer[n]) /\ answer[m].id = answer[n].id
            => m = n
      BY <2>3, <3>2 DEF Stream!Acceptable
    <3> QED
      BY <1>i, <2>1, <2>3, <3>3, <3>4 DEF Stream!StreamInv, Stream!StreamTypeOK
  <2> QED
    BY <1>5, <2>2, <2>3 DEF Stream!BuildReply
<1> QED
  BY <1>1, <1>2, <1>3, <1>4, <1>5 DEF Stream!Next

-----------------------------------------------------------------------------
(* The page *)

Answering == {"get", "poll", "export", "save", "review", "cancel", "start"}

\* A request is of what it was made for, and its answer is what the server knew.
Truthful(c) ==
    /\ c.kind \notin {"evidence", "analyze"} => c.id \in Ids
    /\ c.kind = "snapshot" =>
          c.value \in Page!Values /\ c.value.id = c.id /\ c.value.record \in accepted
    /\ c.kind = "evidence" => c.text \in Analyses
    /\ c.kind = "save" => c.text \in Page!Texts
    /\ c.answer # NONE =>
          /\ c.kind \in Answering =>
                c.answer \in Page!Values /\ c.answer.id = c.id /\ c.answer.record \in accepted
          /\ c.kind = "snapshot" => c.answer = AnalysisOf[c.id]
          /\ c.kind = "evidence" => c.answer = c.text
          /\ c.kind = "analyze" => c.answer \in Analyses
          /\ c.kind = "save" => c.text \in accepted

CallsTruthful == \A s \in Slots : calls[s] # NONE => Truthful(calls[s])

\* Every record the server or the page shows was accepted.
RecordsAccepted ==
    /\ \A i \in Ids : server[i].record \in accepted
    /\ session # NONE => session.record \in accepted
    /\ form # NONE \/ timer => session # NONE

\* What an export that is under way carries.
ExportsFollowed ==
    ~overtaken => \A s \in Slots : calls[s] # NONE /\ calls[s].kind = "export" =>
        calls[s].text = AnalysisOf[calls[s].id]

\* A text the server has not taken is where it was typed or among the drafts, and
\* no answer under way replaces it by another one.
Unreplaced(i) ==
    /\ IF session # NONE /\ session.id = i THEN unsaved[i] = form ELSE unsaved[i] = drafts[i]
    /\ \A s \in Slots : calls[s] # NONE =>
          /\ calls[s].kind = "save" /\ calls[s].id = i => calls[s].text = unsaved[i]
          /\ calls[s].current /\ calls[s].kind = "review" => calls[s].id # i
          /\ calls[s].current /\ calls[s].kind = "snapshot" => unsaved[i] = drafts[i]

TextsFollowed ==
    ~overtaken => \A i \in Ids :
        unsaved[i] # NONE /\ unsaved[i] \notin accepted => Unreplaced(i)

\* A poll, or the snapshot it is to start with, under way for what is shown.
Watches(c) == c # NONE /\ c.current /\ c.kind \in {"poll", "snapshot"}

PollsFollowed ==
    /\ \A s, t \in Slots : Watches(calls[s]) /\ Watches(calls[t]) => s = t
    /\ timer => \A s \in Slots : ~Watches(calls[s])
    /\ ~overtaken => \A s \in Slots : Watches(calls[s]) /\ calls[s].kind = "poll" =>
          session # NONE /\ session.id = calls[s].id

Watched ==
    session # NONE /\ session.state \in Page!ACTIVE /\ ~overtaken /\ ~unwatched =>
        \/ timer
        \/ \E s \in Slots : /\ calls[s] # NONE /\ calls[s].current
                            /\ calls[s].kind \in {"poll", "start", "snapshot"}

PageInv ==
    /\ Page!PageTypeOK /\ CallsTruthful /\ RecordsAccepted
    /\ Page!OneAnalysisShown /\ Page!EvidenceOfShown /\ Page!ExportIsWhole
    /\ ExportsFollowed /\ TextsFollowed /\ PollsFollowed /\ Watched


\* The requests of a step: those of before, some of them outdated, and new ones.
CarriedWith(new) ==
    \A s \in Slots : calls'[s] # NONE =>
        \/ calls'[s] \in new
        \/ /\ calls[s] # NONE
           /\ calls'[s] = calls[s] \/ calls'[s] = [calls[s] EXCEPT !.current = FALSE]

\* A request takes a free slot.
Placed(old, new, c) == \E n \in Slots : old[n] = NONE /\ new = [old EXCEPT ![n] = c]

AllCalls == [Slots -> Page!PageRequests \cup {NONE}]

\* What the constants of the page are.
LEMMA PageConstants ==
  /\ AnalysisOf \in [Ids -> Analyses] /\ \A u \in Uses : u.others \in Nat
  /\ NONE \notin Page!Texts /\ NONE \notin Page!Values /\ NONE \notin Ids
  /\ NONE \notin Analyses /\ NONE \notin Page!PageRequests
  BY InstancesAssumption DEF InstancesAssumption, Page!PageAssumption

\* A request that is made has neither answer nor contents yet.
LEMMA CallShape ==
  ASSUME NEW kind \in Page!KINDS, NEW i \in Ids \cup {NONE}
  PROVE  /\ Page!Call(kind, i) \in Page!PageRequests
         /\ Page!Call(kind, i).kind = kind /\ Page!Call(kind, i).id = i
         /\ Page!Call(kind, i).current = TRUE /\ Page!Call(kind, i).answer = NONE
<1>1. Page!Call(kind, i) = [kind |-> kind, id |-> i, current |-> TRUE, answer |-> NONE,
          failed |-> FALSE, text |-> NONE, value |-> NONE, revision |-> 0, starting |-> FALSE]
  BY DEF Page!Call
<1>2. 0 \in Nat
  OBVIOUS
<1> QED
  BY <1>1, <1>2 DEF Page!PageRequests

\* The request for the evidence of an analysis.
LEMMA EvidenceShape ==
  ASSUME NEW a \in Analyses
  PROVE  /\ Page!Evidence(a) \in Page!PageRequests /\ Page!Evidence(a).kind = "evidence"
         /\ Page!Evidence(a).text = a /\ Page!Evidence(a).answer = NONE
<1>1. /\ Page!Call("evidence", NONE) \in Page!PageRequests
      /\ Page!Call("evidence", NONE).kind = "evidence"
      /\ Page!Call("evidence", NONE).answer = NONE
  BY CallShape DEF Page!KINDS
<1>2. Page!Evidence(a) = [Page!Call("evidence", NONE) EXCEPT !.text = a]
  BY DEF Page!Evidence
<1> QED
  BY <1>1, <1>2 DEF Page!PageRequests

\* A request that is made takes a free slot, and the others stay.
LEMMA WithPlaces ==
  ASSUME NEW old \in AllCalls, Page!HasRoom(old), NEW c
  PROVE  Placed(old, Page!With(old, c), c)
<1> DEFINE n == CHOOSE s \in Slots : old[s] = NONE
<1>1. n \in Slots /\ old[n] = NONE
  BY DEF Page!HasRoom
<1>2. Page!With(old, c) = [old EXCEPT ![n] = c]
  BY DEF Page!With
<1> HIDE DEF n
<1> QED
  BY <1>1, <1>2 DEF Placed

\* Where it is placed, all are requests.
LEMMA PlacedTyped ==
  ASSUME NEW old \in AllCalls, NEW new, NEW c \in Page!PageRequests, Placed(old, new, c)
  PROVE  new \in AllCalls
  BY DEF AllCalls, Placed

\* A new generation leaves the requests as they are, but none is current.
LEMMA OutdatedShape ==
  ASSUME NEW old \in AllCalls
  PROVE  /\ Page!Outdated(old) \in AllCalls
         /\ \A s \in Slots : Page!Outdated(old)[s] =
                IF old[s] = NONE THEN NONE ELSE [old[s] EXCEPT !.current = FALSE]
<1>1. \A s \in Slots : Page!Outdated(old)[s] =
         IF old[s] = NONE THEN NONE ELSE [old[s] EXCEPT !.current = FALSE]
  BY DEF Page!Outdated
<1>2. \A c \in Page!PageRequests : [c EXCEPT !.current = FALSE] \in Page!PageRequests
  BY DEF Page!PageRequests
<1>3. \A s \in Slots : Page!Outdated(old)[s] \in Page!PageRequests \cup {NONE}
  BY <1>1, <1>2 DEF AllCalls
<1>4. Page!Outdated(old) = [s \in Slots |-> Page!Outdated(old)[s]]
  BY DEF Page!Outdated
<1> QED
  BY <1>1, <1>3, <1>4 DEF AllCalls

\* A request that was answered leaves its slot.
LEMMA DoneShape ==
  ASSUME calls \in AllCalls, NEW s \in Slots
  PROVE  /\ Page!Done(s) \in AllCalls /\ Page!HasRoom(Page!Done(s))
         /\ \A t \in Slots : Page!Done(s)[t] = IF t = s THEN NONE ELSE calls[t]
  BY DEF AllCalls, Page!Done, Page!HasRoom

\* The fields of a request that was outdated.
LEMMA OutdatedFields ==
  ASSUME NEW c \in Page!PageRequests, NEW d, d = [c EXCEPT !.current = FALSE]
  PROVE  /\ d \in Page!PageRequests /\ d.kind = c.kind /\ d.id = c.id /\ d.answer = c.answer
         /\ d.failed = c.failed /\ d.text = c.text /\ d.value = c.value /\ d.current = FALSE
  BY DEF Page!PageRequests

\* A request stays truthful while it is only outdated and more is accepted.
LEMMA TruthfulCarried ==
  ASSUME CallsTruthful, calls \in AllCalls, accepted \subseteq accepted', NEW new,
         CarriedWith(new), \A c \in new : Truthful(c)
  PROVE  CallsTruthful'
<1> SUFFICES ASSUME NEW s \in Slots, calls'[s] # NONE PROVE Truthful(calls[s])'
  BY DEF CallsTruthful
<1>1. CASE calls'[s] \in new
  BY <1>1 DEF Truthful
<1>2. CASE calls[s] # NONE /\ calls'[s] = calls[s]
  BY <1>2 DEF CallsTruthful, Truthful
<1>3. CASE calls[s] # NONE /\ calls'[s] = [calls[s] EXCEPT !.current = FALSE]
  <2>1. calls[s] \in Page!PageRequests
    BY <1>3 DEF AllCalls
  <2>2. Truthful(calls[s])
    BY <1>3 DEF CallsTruthful
  <2>3. /\ calls'[s].kind = calls[s].kind /\ calls'[s].id = calls[s].id
        /\ calls'[s].answer = calls[s].answer /\ calls'[s].text = calls[s].text
        /\ calls'[s].value = calls[s].value
    BY <1>3, <2>1, OutdatedFields
  <2> QED
    BY <2>2, <2>3 DEF Truthful
<1> QED
  BY <1>1, <1>2, <1>3 DEF CarriedWith

\* An export carries the snapshot it was asked with.
LEMMA ExportsCarried ==
  ASSUME ExportsFollowed, calls \in AllCalls, ~overtaken' => ~overtaken, NEW new,
         CarriedWith(new),
         \A c \in new : ~overtaken /\ c.kind = "export" => c.text = AnalysisOf[c.id]
  PROVE  ExportsFollowed'
<1> SUFFICES ASSUME ~overtaken', NEW s \in Slots, calls'[s] # NONE, calls'[s].kind = "export"
             PROVE  calls'[s].text = AnalysisOf[calls'[s].id]
  BY DEF ExportsFollowed
<1>1. CASE calls'[s] \in new
  BY <1>1
<1>2. CASE calls[s] # NONE /\ calls'[s] = calls[s]
  BY <1>2 DEF ExportsFollowed
<1>3. CASE calls[s] # NONE /\ calls'[s] = [calls[s] EXCEPT !.current = FALSE]
  <2>1. calls[s] \in Page!PageRequests
    BY <1>3 DEF AllCalls
  <2>2. /\ calls'[s].kind = calls[s].kind /\ calls'[s].id = calls[s].id
        /\ calls'[s].text = calls[s].text
    BY <1>3, <2>1, OutdatedFields
  <2> QED
    BY <1>3, <2>2 DEF ExportsFollowed
<1> QED
  BY <1>1, <1>2, <1>3 DEF CarriedWith

\* What a request must be for a text not to be replaced by its answer.
Spares(c, i) ==
    /\ c.kind = "save" /\ c.id = i => c.text = unsaved[i]
    /\ c.current /\ c.kind = "review" => c.id # i
    /\ c.current /\ c.kind = "snapshot" => unsaved[i] = drafts[i]

Waiting(i) == unsaved[i] # NONE /\ unsaved[i] \notin accepted

\* A text that waits is not replaced when requests are only made that spare it, and
\* what is shown and remembered of it stays.
LEMMA TextsCarried ==
  ASSUME TextsFollowed, calls \in AllCalls, accepted \subseteq accepted',
         ~overtaken' => ~overtaken, NEW new, CarriedWith(new),
         NEW i \in Ids, ~overtaken', Waiting(i)', unsaved'[i] = unsaved[i],
         \A c \in new : Spares(c, i)',
         drafts[i] = unsaved[i] => drafts'[i] = unsaved[i]
  PROVE  /\ Waiting(i) /\ Unreplaced(i)
         /\ \A s \in Slots : calls'[s] # NONE => Spares(calls[s], i)'
<1>1. Waiting(i) /\ Unreplaced(i)
  BY DEF TextsFollowed, Waiting
<1> SUFFICES ASSUME NEW s \in Slots, calls'[s] # NONE PROVE Spares(calls[s], i)'
  BY <1>1
<1>2. CASE calls'[s] \in new
  BY <1>2
<1>3. CASE calls[s] # NONE /\ calls'[s] = calls[s]
  BY <1>1, <1>3 DEF Unreplaced, Spares
<1>4. CASE calls[s] # NONE /\ calls'[s] = [calls[s] EXCEPT !.current = FALSE]
  <2>1. calls[s] \in Page!PageRequests
    BY <1>4 DEF AllCalls
  <2>2. /\ calls'[s].kind = calls[s].kind /\ calls'[s].id = calls[s].id
        /\ calls'[s].text = calls[s].text /\ ~calls'[s].current
    BY <1>4, <2>1, OutdatedFields
  <2> QED
    BY <1>1, <1>4, <2>2 DEF Unreplaced, Spares
<1> QED
  BY <1>2, <1>3, <1>4 DEF CarriedWith

\* The texts are followed where every text that waits is in its place.
LEMMA TextsPlaced ==
  ASSUME ~overtaken' => \A i \in Ids : Waiting(i)' =>
           /\ IF session' # NONE /\ session'.id = i THEN unsaved'[i] = form'
              ELSE unsaved'[i] = drafts'[i]
           /\ \A s \in Slots : calls'[s] # NONE => Spares(calls[s], i)'
  PROVE  TextsFollowed'
  BY DEF TextsFollowed, Unreplaced, Spares, Waiting

\* The same where the screen and the drafts are not touched.
LEMMA TextsStay ==
  ASSUME TextsFollowed, calls \in AllCalls, accepted \subseteq accepted',
         ~overtaken' => ~overtaken, NEW new, CarriedWith(new), UNCHANGED <<drafts, unsaved, form>>,
         session # NONE <=> session' # NONE, session # NONE => session'.id = session.id,
         ~overtaken => \A i \in Ids : Waiting(i) => \A c \in new : Spares(c, i)
  PROVE  TextsFollowed'
<1>1. ASSUME ~overtaken', NEW i \in Ids, Waiting(i)'
      PROVE  /\ IF session' # NONE /\ session'.id = i THEN unsaved'[i] = form'
                ELSE unsaved'[i] = drafts'[i]
             /\ \A s \in Slots : calls'[s] # NONE => Spares(calls[s], i)'
  <2>1. Waiting(i)
    BY <1>1 DEF Waiting
  <2>2. \A c \in new : Spares(c, i)'
    BY <1>1, <2>1 DEF Spares
  <2>3. Unreplaced(i) /\ \A s \in Slots : calls'[s] # NONE => Spares(calls[s], i)'
    BY <1>1, <2>2, TextsCarried
  <2> QED
    BY <2>3 DEF Unreplaced
<1> QED
  BY <1>1, TextsPlaced

\* The requests are requests.
LEMMA AllCallsTyped == ASSUME PageInv PROVE calls \in AllCalls
  BY DEF PageInv, Page!PageTypeOK, AllCalls

\* A request is placed beside those under way.
LEMMA PlacedCarries ==
  ASSUME calls \in AllCalls, NEW c \in Page!PageRequests, Placed(calls, calls', c)
  PROVE  /\ calls' \in AllCalls /\ CarriedWith({c})
         /\ \A s \in Slots : calls[s] # NONE => calls'[s] = calls[s]
         /\ \E n \in Slots : /\ calls[n] = NONE /\ calls'[n] = c
                             /\ \A s \in Slots : s # n => calls'[s] = calls[s]
<1>1. PICK n \in Slots : calls[n] = NONE /\ calls' = [calls EXCEPT ![n] = c]
  BY DEF Placed
<1>2. calls'[n] = c /\ \A s \in Slots : s # n => calls'[s] = calls[s]
  BY <1>1 DEF AllCalls
<1>3. calls' \in AllCalls
  BY <1>1 DEF AllCalls
<1>4. CarriedWith({c})
  BY <1>2 DEF CarriedWith
<1> QED
  BY <1>1, <1>2, <1>3, <1>4

\* What the page shows and what it remembers are left alone.
ViewKept ==
    /\ UNCHANGED <<use, analysis, catalog, session, snapshot, form, drafts, typed>>
    /\ UNCHANGED <<unsaved, overtaken, exported>>
    /\ busy' \in BOOLEAN /\ blocked' \in BOOLEAN /\ timer' \in BOOLEAN /\ unwatched' \in BOOLEAN

\* What follows of the types and of what is shown when nothing but requests, the
\* server and the marks of the page change.
LEMMA ViewStays ==
  ASSUME PageInv, ViewKept, calls' \in AllCalls, accepted \subseteq accepted',
         accepted' \subseteq Page!Texts, timer' => timer,
         server' \in [Ids -> [state : Page!STATES, revision : Nat, record : Page!Texts]],
         \A i \in Ids : server'[i].record \in accepted'
  PROVE  /\ Page!PageTypeOK' /\ RecordsAccepted'
         /\ Page!OneAnalysisShown' /\ Page!EvidenceOfShown' /\ Page!ExportIsWhole'
<1>1. Page!PageTypeOK
  BY DEF PageInv
<1>2. Page!PageTypeOK'
  BY <1>1 DEF ViewKept, AllCalls, Page!PageTypeOK
<1>3. RecordsAccepted'
  BY DEF PageInv, RecordsAccepted, ViewKept
<1>4. Page!OneAnalysisShown' /\ Page!EvidenceOfShown' /\ Page!ExportIsWhole'
  BY DEF PageInv, ViewKept, Page!OneAnalysisShown, Page!EvidenceOfShown, Page!ExportIsWhole
<1> QED
  BY <1>2, <1>3, <1>4

\* The server and what the page knows of it stay typed and accepted.
LEMMA ServerStays ==
  ASSUME PageInv, UNCHANGED <<server, accepted>>
  PROVE  /\ accepted \subseteq accepted' /\ accepted' \subseteq Page!Texts
         /\ server' \in [Ids -> [state : Page!STATES, revision : Nat, record : Page!Texts]]
         /\ \A i \in Ids : server'[i].record \in accepted'
  BY DEF PageInv, Page!PageTypeOK, RecordsAccepted

\* The person asks for something that neither polls nor opens.
LEMMA MakeStep ==
  ASSUME PageInv, NEW c \in Page!PageRequests, Page!Make(c), Truthful(c),
         c.kind \notin {"poll", "snapshot"},
         ~overtaken /\ c.kind = "export" => c.text = AnalysisOf[c.id],
         ~overtaken => \A i \in Ids : Waiting(i) => Spares(c, i),
         ViewKept, UNCHANGED <<server, accepted, timer, unwatched>>
  PROVE  PageInv'
<1>1. calls \in AllCalls
  BY AllCallsTyped
<1>2. Placed(calls, calls', c)
  BY <1>1, WithPlaces DEF Page!Make
<1>3. /\ calls' \in AllCalls /\ CarriedWith({c})
      /\ \A s \in Slots : calls[s] # NONE => calls'[s] = calls[s]
      /\ \E n \in Slots : /\ calls[n] = NONE /\ calls'[n] = c
                          /\ \A s \in Slots : s # n => calls'[s] = calls[s]
  BY <1>1, <1>2, PlacedCarries
<1>4. /\ Page!PageTypeOK' /\ RecordsAccepted'
      /\ Page!OneAnalysisShown' /\ Page!EvidenceOfShown' /\ Page!ExportIsWhole'
  BY <1>3, ServerStays, ViewStays
<1>5. CallsTruthful'
  <2>1. accepted \subseteq accepted' /\ \A d \in {c} : Truthful(d)
    OBVIOUS
  <2>2. CallsTruthful
    BY DEF PageInv
  <2> QED
    BY <1>1, <1>3, <2>1, <2>2, TruthfulCarried
<1>6. ExportsFollowed'
  <2>1. \A d \in {c} : ~overtaken /\ d.kind = "export" => d.text = AnalysisOf[d.id]
    OBVIOUS
  <2>2. ExportsFollowed /\ (~overtaken' => ~overtaken)
    BY DEF PageInv, ViewKept
  <2> QED
    BY <1>1, <1>3, <2>1, <2>2, ExportsCarried
<1>7. TextsFollowed'
  <2>1. ~overtaken => \A i \in Ids : Waiting(i) => \A d \in {c} : Spares(d, i)
    OBVIOUS
  <2>2. /\ TextsFollowed /\ (~overtaken' => ~overtaken) /\ accepted \subseteq accepted'
        /\ UNCHANGED <<drafts, unsaved, form, session>>
    BY DEF PageInv, ViewKept
  <2> QED
    BY <1>1, <1>3, <2>1, <2>2, TextsStay
<1>8. PollsFollowed'
  <2>1. \A s \in Slots : Watches(calls'[s]) => calls'[s] = calls[s]
    BY <1>3 DEF Watches
  <2> QED
    BY <2>1 DEF PageInv, PollsFollowed, ViewKept, Watches
<1>9. Watched'
  BY <1>3 DEF PageInv, Watched, ViewKept
<1> QED
  BY <1>4, <1>5, <1>6, <1>7, <1>8, <1>9 DEF PageInv

\* What the person asks for leaves what is shown alone.
LEMMA IdleView ==
  ASSUME PageInv, NEW kind, Page!Idle(kind), UNCHANGED use, blocked' \in BOOLEAN
  PROVE  ViewKept /\ UNCHANGED <<server, accepted, timer, unwatched>>
<1>1. UNCHANGED <<analysis, catalog, session, snapshot, form, drafts, timer, busy, exported,
                  unsaved, overtaken, unwatched, server, accepted, typed>>
  BY DEF Page!Idle, Page!Act, Page!serverVars, Page!shownVars, Page!historyVars
<1>2. busy \in BOOLEAN /\ timer \in BOOLEAN /\ unwatched \in BOOLEAN
  BY DEF PageInv, Page!PageTypeOK
<1> QED
  BY <1>1, <1>2 DEF ViewKept

\* What is in the fields is a text, and something is open.
LEMMA FormShown ==
  ASSUME PageInv, form # NONE
  PROVE  /\ session # NONE /\ session \in Page!Values /\ session.id \in Ids
         /\ session.revision \in Nat /\ session.record \in accepted /\ form \in Page!Texts
<1>1. session # NONE /\ session.record \in accepted
  BY DEF PageInv, RecordsAccepted
<1>2. session \in Page!Values /\ form \in Page!Texts
  BY <1>1 DEF PageInv, Page!PageTypeOK
<1> QED
  BY <1>1, <1>2 DEF Page!Values

\* Blocked stays a truth value where it is not touched.
LEMMA BlockedStays == ASSUME PageInv, UNCHANGED blocked PROVE blocked' \in BOOLEAN
  BY DEF PageInv, Page!PageTypeOK

\* A request for nothing but an investigation.
LEMMA PlainStep ==
  ASSUME PageInv, NEW kind \in {"get", "cancel", "delete"}, NEW i \in Ids,
         Page!Make(Page!Call(kind, i)), ViewKept,
         UNCHANGED <<server, accepted, timer, unwatched>>
  PROVE  PageInv'
<1> DEFINE c == Page!Call(kind, i)
<1>1. kind \in Page!KINDS /\ i \in Ids \cup {NONE}
  BY DEF Page!KINDS
<1>2. c \in Page!PageRequests /\ c.kind = kind /\ c.id = i /\ c.answer = NONE
  BY <1>1, CallShape
<1> HIDE DEF c
<1>3. Truthful(c)
  BY <1>2 DEF Truthful
<1>4. \A j \in Ids : Spares(c, j)
  BY <1>2 DEF Spares
<1>5. Page!Make(c)
  BY DEF c
<1> QED
  BY <1>2, <1>3, <1>4, <1>5, MakeStep

\* A line of the history is clicked.
LEMMA OpenStep == ASSUME PageInv, NEW i \in Ids, Page!Open(i), UNCHANGED use PROVE PageInv'
<1>1. Page!Make(Page!Call("get", i)) /\ Page!Idle("open") /\ UNCHANGED blocked
  BY DEF Page!Open
<1>2. ViewKept /\ UNCHANGED <<server, accepted, timer, unwatched>>
  BY <1>1, IdleView, BlockedStays
<1> QED
  BY <1>1, <1>2, PlainStep

\* Its analysis is to be deleted.
LEMMA DeleteStep == ASSUME PageInv, NEW i \in Ids, Page!Delete(i), UNCHANGED use PROVE PageInv'
<1>1. Page!Make(Page!Call("delete", i)) /\ Page!Idle("delete") /\ UNCHANGED blocked
  BY DEF Page!Delete
<1>2. ViewKept /\ UNCHANGED <<server, accepted, timer, unwatched>>
  BY <1>1, IdleView, BlockedStays
<1> QED
  BY <1>1, <1>2, PlainStep

\* The work on what is open is to be cancelled.
LEMMA CancelStep == ASSUME PageInv, Page!Cancel, UNCHANGED use PROVE PageInv'
<1>1. /\ session # NONE /\ Page!Make(Page!Call("cancel", session.id))
      /\ Page!Idle("cancel") /\ UNCHANGED blocked
  BY DEF Page!Cancel
<1>2. ViewKept /\ UNCHANGED <<server, accepted, timer, unwatched>>
  BY <1>1, IdleView, BlockedStays
<1>3. session.id \in Ids
  BY <1>1 DEF PageInv, Page!PageTypeOK, Page!Values
<1> QED
  BY <1>1, <1>2, <1>3, PlainStep

\* A new investigation, or a question more.
LEMMA StartStep == ASSUME PageInv, Page!Start, UNCHANGED use PROVE PageInv'
<1>1. PICK i \in Ids : Page!Make([Page!Call("start", i) EXCEPT !.text = analysis])
  BY DEF Page!Start
<1>2. Page!Idle("start") /\ blocked' \in BOOLEAN /\ analysis # NONE
  BY DEF Page!Start
<1>3. ViewKept /\ UNCHANGED <<server, accepted, timer, unwatched>>
  BY <1>2, IdleView
<1> DEFINE c == [Page!Call("start", i) EXCEPT !.text = analysis]
<1>4. Page!Call("start", i) \in Page!PageRequests /\ Page!Call("start", i).kind = "start"
      /\ Page!Call("start", i).id = i /\ Page!Call("start", i).answer = NONE
  BY CallShape DEF Page!KINDS
<1>5. analysis \in Analyses
  BY <1>2 DEF PageInv, Page!PageTypeOK
<1>6. c \in Page!PageRequests /\ c.kind = "start" /\ c.id = i /\ c.answer = NONE
  BY <1>4, <1>5 DEF Page!PageRequests
<1>7. Page!Make(c)
  BY <1>1
<1> HIDE DEF c
<1>8. Truthful(c) /\ \A j \in Ids : Spares(c, j)
  BY <1>6 DEF Truthful, Spares
<1> QED
  BY <1>3, <1>6, <1>7, <1>8, MakeStep

\* What is in the fields is to be saved.
LEMMA SubmitStep == ASSUME PageInv, Page!Submit, UNCHANGED use PROVE PageInv'
<1> DEFINE old == Page!Call("save", session.id)
           c == [old EXCEPT !.revision = session.revision, !.text = form]
<1>1. form # NONE /\ Page!Make(c) /\ Page!Idle("save") /\ UNCHANGED blocked
  BY DEF Page!Submit
<1>2. ViewKept /\ UNCHANGED <<server, accepted, timer, unwatched>>
  BY <1>1, IdleView, BlockedStays
<1>3. /\ session # NONE /\ session.id \in Ids /\ session.revision \in Nat
      /\ form \in Page!Texts
  BY <1>1, FormShown
<1>i. "save" \in Page!KINDS /\ session.id \in Ids \cup {NONE}
  BY <1>3 DEF Page!KINDS
<1>4. old \in Page!PageRequests /\ old.kind = "save" /\ old.id = session.id /\ old.answer = NONE
  BY <1>i, CallShape
<1>5. /\ c \in Page!PageRequests /\ c.kind = "save" /\ c.id = session.id /\ c.answer = NONE
      /\ c.text = form
  <2> HIDE DEF old
  <2> QED
    BY <1>3, <1>4 DEF Page!PageRequests
<1> HIDE DEF c
<1>6. Truthful(c)
  BY <1>3, <1>5 DEF Truthful
<1>7. ~overtaken => \A i \in Ids : Waiting(i) => Spares(c, i)
  BY <1>3, <1>5 DEF PageInv, TextsFollowed, Unreplaced, Waiting, Spares
<1> QED
  BY <1>1, <1>2, <1>5, <1>6, <1>7, MakeStep

\* What is saved is to be reviewed.
LEMMA ReviewStep == ASSUME PageInv, Page!Review, UNCHANGED use PROVE PageInv'
<1> DEFINE old == Page!Call("review", session.id)
           c == [old EXCEPT !.revision = session.revision, !.text = form]
<1>1. /\ form # NONE /\ form = session.record /\ Page!Make(c) /\ Page!Idle("review")
      /\ UNCHANGED blocked
  BY DEF Page!Review
<1>2. ViewKept /\ UNCHANGED <<server, accepted, timer, unwatched>>
  BY <1>1, IdleView, BlockedStays
<1>3. /\ session # NONE /\ session.id \in Ids /\ session.revision \in Nat
      /\ form \in Page!Texts /\ session.record \in accepted
  BY <1>1, FormShown
<1>i. "review" \in Page!KINDS /\ session.id \in Ids \cup {NONE}
  BY <1>3 DEF Page!KINDS
<1>4. old \in Page!PageRequests /\ old.kind = "review" /\ old.id = session.id /\ old.answer = NONE
  BY <1>i, CallShape
<1>5. c \in Page!PageRequests /\ c.kind = "review" /\ c.id = session.id /\ c.answer = NONE
  <2> HIDE DEF old
  <2> QED
    BY <1>3, <1>4 DEF Page!PageRequests
<1> HIDE DEF c
<1>6. Truthful(c)
  BY <1>3, <1>5 DEF Truthful
<1>7. ~overtaken => \A i \in Ids : Waiting(i) => Spares(c, i)
  BY <1>1, <1>3, <1>5 DEF PageInv, TextsFollowed, Unreplaced, Waiting, Spares
<1> QED
  BY <1>1, <1>2, <1>5, <1>6, <1>7, MakeStep

\* What is saved is to be exported, with the snapshot that is shown.
LEMMA ExportStep == ASSUME PageInv, Page!Export, UNCHANGED use PROVE PageInv'
<1> DEFINE old == Page!Call("export", session.id)
           c == [old EXCEPT !.text = snapshot]
<1>1. form # NONE /\ Page!Make(c) /\ Page!Idle("export") /\ UNCHANGED blocked
  BY DEF Page!Export
<1>2. ViewKept /\ UNCHANGED <<server, accepted, timer, unwatched>>
  BY <1>1, IdleView, BlockedStays
<1>3. session # NONE /\ session.id \in Ids
  BY <1>1, FormShown
<1>i. "export" \in Page!KINDS /\ session.id \in Ids \cup {NONE}
  BY <1>3 DEF Page!KINDS
<1>4. old \in Page!PageRequests /\ old.kind = "export" /\ old.id = session.id /\ old.answer = NONE
  BY <1>i, CallShape
<1>5. snapshot \in Analyses \cup {NONE}
  BY DEF PageInv, Page!PageTypeOK
<1>6. /\ c \in Page!PageRequests /\ c.kind = "export" /\ c.id = session.id /\ c.answer = NONE
      /\ c.text = snapshot
  <2> HIDE DEF old
  <2> QED
    BY <1>4, <1>5 DEF Page!PageRequests
<1> HIDE DEF c
<1>7. Truthful(c) /\ \A i \in Ids : Spares(c, i)
  BY <1>3, <1>6 DEF Truthful, Spares
<1>8. ~overtaken => c.text = AnalysisOf[c.id]
  BY <1>3, <1>6 DEF PageInv, Page!OneAnalysisShown
<1> QED
  BY <1>1, <1>2, <1>6, <1>7, <1>8, MakeStep

\* A request leaves its slot, the others stay.
LEMMA DoneCarries ==
  ASSUME PageInv, NEW s \in Slots, calls' = Page!Done(s)
  PROVE  /\ calls' \in AllCalls /\ CarriedWith({}) /\ calls'[s] = NONE
         /\ \A t \in Slots : t # s => calls'[t] = calls[t]
<1>1. calls \in AllCalls
  BY AllCallsTyped
<1>2. calls' \in AllCalls /\ \A t \in Slots : calls'[t] = IF t = s THEN NONE ELSE calls[t]
  BY <1>1, DoneShape
<1>3. CarriedWith({})
  BY <1>2 DEF CarriedWith
<1> QED
  BY <1>2, <1>3

\* The requests that stay are as truthful as before, and carry the same.
LEMMA DoneTruthful ==
  ASSUME PageInv, NEW s \in Slots, calls' = Page!Done(s), UNCHANGED accepted,
         ~overtaken' => ~overtaken
  PROVE  CallsTruthful' /\ ExportsFollowed'
<1>1. calls \in AllCalls /\ CarriedWith({})
  BY AllCallsTyped, DoneCarries
<1>2. CallsTruthful /\ ExportsFollowed
  BY DEF PageInv
<1>3. accepted \subseteq accepted' /\ \A c \in {} : Truthful(c)
  OBVIOUS
<1>4. \A c \in {} : ~overtaken /\ c.kind = "export" => c.text = AnalysisOf[c.id]
  OBVIOUS
<1>5. CallsTruthful'
  BY <1>1, <1>2, <1>3, TruthfulCarried
<1>6. ExportsFollowed'
  BY <1>1, <1>2, <1>4, ExportsCarried
<1> QED
  BY <1>5, <1>6

\* An answer or a failure that changes nothing of what is shown.
LEMMA DoneStays ==
  ASSUME PageInv, NEW s \in Slots, calls' = Page!Done(s),
         UNCHANGED <<accepted, session, form, drafts, timer, unsaved, overtaken>>,
         unwatched => unwatched',
         calls[s] # NONE /\ calls[s].current /\ calls[s].kind \in {"poll", "start", "snapshot"}
           => unwatched' \/ overtaken
  PROVE  /\ calls' \in AllCalls /\ CallsTruthful' /\ ExportsFollowed' /\ TextsFollowed'
         /\ PollsFollowed' /\ Watched'
<1>1. /\ calls \in AllCalls
      /\ calls' \in AllCalls /\ CarriedWith({}) /\ calls'[s] = NONE
      /\ \A t \in Slots : t # s => calls'[t] = calls[t]
  BY AllCallsTyped, DoneCarries
<1>2. CallsTruthful' /\ ExportsFollowed'
  BY DoneTruthful
<1>3. TextsFollowed'
  <2>1. /\ TextsFollowed /\ accepted \subseteq accepted' /\ (~overtaken' => ~overtaken)
        /\ ~overtaken => \A i \in Ids : Waiting(i) => \A c \in {} : Spares(c, i)
    BY DEF PageInv
  <2> QED
    BY <1>1, <2>1, TextsStay
<1>4. PollsFollowed'
  <2>1. \A t \in Slots : Watches(calls'[t]) => t # s /\ calls'[t] = calls[t]
    BY <1>1 DEF Watches
  <2> QED
    BY <2>1 DEF PageInv, PollsFollowed, Watches
<1>5. Watched'
  <2> SUFFICES ASSUME session' # NONE, session'.state \in Page!ACTIVE, ~overtaken', ~unwatched',
                      ~timer'
               PROVE  \E t \in Slots : /\ calls'[t] # NONE /\ calls'[t].current
                                       /\ calls'[t].kind \in {"poll", "start", "snapshot"}
    BY DEF Watched
  <2>1. PICK t \in Slots : /\ calls[t] # NONE /\ calls[t].current
                           /\ calls[t].kind \in {"poll", "start", "snapshot"}
    BY DEF PageInv, Watched
  <2>2. t # s
    BY <2>1
  <2> QED
    BY <1>1, <2>1, <2>2
<1> QED
  BY <1>1, <1>2, <1>3, <1>4, <1>5

\* The same for all of the invariant, where the marks stay too.
LEMMA IgnoredStep ==
  ASSUME PageInv, NEW s \in Slots, calls' = Page!Done(s), ViewKept,
         UNCHANGED <<server, accepted, timer>>, unwatched => unwatched',
         calls[s] # NONE /\ calls[s].current /\ calls[s].kind \in {"poll", "start", "snapshot"}
           => unwatched' \/ overtaken
  PROVE  PageInv'
<1>1. UNCHANGED <<accepted, session, form, drafts, timer, unsaved, overtaken>>
  BY DEF ViewKept
<1>2. /\ calls' \in AllCalls /\ CallsTruthful' /\ ExportsFollowed' /\ TextsFollowed'
      /\ PollsFollowed' /\ Watched'
  BY <1>1, DoneStays
<1>3. /\ Page!PageTypeOK' /\ RecordsAccepted'
      /\ Page!OneAnalysisShown' /\ Page!EvidenceOfShown' /\ Page!ExportIsWhole'
  BY <1>2, ServerStays, ViewStays
<1> QED
  BY <1>2, <1>3 DEF PageInv

\* An answer that is ignored leaves what is shown alone.
LEMMA IgnoredView ==
  ASSUME PageInv, NEW s, Page!Ignored(s), UNCHANGED <<Page!serverVars, Page!boundVars, use>>,
         UNCHANGED <<busy, blocked, exported>>
  PROVE  /\ calls' = Page!Done(s) /\ ViewKept /\ UNCHANGED <<server, accepted, timer, unwatched>>
<1>1. UNCHANGED <<analysis, catalog, session, snapshot, form, drafts, timer,
                  unsaved, overtaken, unwatched, server, accepted, typed>>
  BY DEF Page!Ignored, Page!serverVars, Page!shownVars, Page!historyVars, Page!boundVars
<1>2. busy \in BOOLEAN /\ timer \in BOOLEAN /\ unwatched \in BOOLEAN /\ blocked \in BOOLEAN
  BY DEF PageInv, Page!PageTypeOK
<1> QED
  BY <1>1, <1>2 DEF ViewKept, Page!Ignored

\* What is on the screen and not what was saved is kept, and so are the drafts.
LEMMA RememberedKeeps ==
  ASSUME PageInv
  PROVE  /\ Page!Remembered \in [Ids -> Page!Texts \cup {NONE}]
         /\ ~overtaken => \A i \in Ids : Waiting(i) => Page!Remembered[i] = unsaved[i]
<1>t. drafts \in [Ids -> Page!Texts \cup {NONE}] /\ form \in Page!Texts \cup {NONE}
  BY DEF PageInv, Page!PageTypeOK
<1>1. CASE session = NONE \/ form = NONE
  <2>1. Page!Remembered = drafts
    BY <1>1 DEF Page!Remembered
  <2>2. ~overtaken => session = NONE
    BY <1>1 DEF PageInv, Page!OneAnalysisShown
  <2>3. ~overtaken => \A i \in Ids : Waiting(i) => drafts[i] = unsaved[i]
    BY <2>2 DEF PageInv, TextsFollowed, Unreplaced, Waiting
  <2> QED
    BY <1>t, <2>1, <2>3
<1>2. CASE session # NONE /\ form # NONE
  <2> DEFINE kept == IF form = session.record THEN NONE ELSE form
  <2>1. Page!Remembered = [drafts EXCEPT ![session.id] = kept]
    BY <1>2 DEF Page!Remembered
  <2>2. session.id \in Ids /\ session.record \in accepted
    BY <1>2, FormShown
  <2>3. kept \in Page!Texts \cup {NONE}
    BY <1>t
  <2>4. ASSUME ~overtaken, NEW i \in Ids, Waiting(i)
        PROVE  IF session.id = i THEN kept = unsaved[i] ELSE unsaved[i] = drafts[i]
    <3>1. Unreplaced(i)
      BY <2>4 DEF PageInv, TextsFollowed, Waiting
    <3>2. session.id = i => unsaved[i] = form
      BY <1>2, <3>1 DEF Unreplaced
    <3>3. session.id # i => unsaved[i] = drafts[i]
      BY <1>2, <3>1 DEF Unreplaced
    <3>4. unsaved[i] \notin accepted
      BY <2>4 DEF Waiting
    <3> QED
      BY <2>2, <3>2, <3>3, <3>4
  <2> HIDE DEF kept
  <2> QED
    BY <1>t, <2>1, <2>2, <2>3, <2>4
<1> QED
  BY <1>1, <1>2

\* New requests of a screen that is cleared: the evidence of what is shown, or an
\* analysis that was asked for before.
Fetching == {c \in Page!PageRequests : /\ c.answer = NONE
                                   /\ \/ c.kind = "evidence" /\ c.text \in Analyses
                                      \/ c.kind = "analyze" /\ ~c.current}

\* Requests of before, and an analysis that is asked for.
Asked(c) == c.kind = "analyze" /\ c.answer = NONE
Remaining(cs) ==
    \A s \in Slots : cs[s] # NONE => cs[s] = calls[s] \/ Asked(cs[s])

\* What the requests are when another analysis, or none, is shown.
LEMMA ShowCalls ==
  ASSUME calls \in AllCalls, NEW a \in Analyses \cup {NONE}, NEW cs \in AllCalls,
         Page!ShowAnalysis(a, cs), a = NONE \/ Page!HasRoom(cs),
         Remaining(cs)
  PROVE  /\ calls' \in AllCalls /\ CarriedWith(Fetching)
         /\ \A s \in Slots : calls'[s] # NONE => calls'[s].kind = "evidence" \/ ~calls'[s].current
<1> DEFINE out == Page!Outdated(cs)
<1>1. /\ out \in AllCalls
      /\ \A s \in Slots : out[s] = IF cs[s] = NONE THEN NONE ELSE [cs[s] EXCEPT !.current = FALSE]
  BY OutdatedShape
<1>2. calls' = IF a = NONE THEN out ELSE Page!With(out, Page!Evidence(a))
  BY DEF Page!ShowAnalysis
<1> HIDE DEF out
<1>3. ASSUME NEW s \in Slots, out[s] # NONE
      PROVE  /\ ~out[s].current
             /\ \/ out[s] \in Fetching
                \/ calls[s] # NONE /\ out[s] = [calls[s] EXCEPT !.current = FALSE]
  <2>1. cs[s] # NONE /\ out[s] = [cs[s] EXCEPT !.current = FALSE]
    BY <1>1, <1>3
  <2>2. cs[s] \in Page!PageRequests
    BY <2>1 DEF AllCalls
  <2>3. /\ out[s] \in Page!PageRequests /\ out[s].kind = cs[s].kind /\ out[s].answer = cs[s].answer
        /\ out[s].current = FALSE
    BY <2>1, <2>2, OutdatedFields
  <2>4. CASE cs[s] = calls[s]
    BY <2>1, <2>3, <2>4
  <2>5. CASE Asked(cs[s])
    BY <2>3, <2>5 DEF Fetching, Asked
  <2> QED
    BY <2>1, <2>3, <2>4, <2>5 DEF Remaining
<1>4. CASE a = NONE
  BY <1>1, <1>2, <1>3, <1>4 DEF CarriedWith
<1>5. CASE a # NONE
  <2> DEFINE e == Page!Evidence(a)
  <2>1. e \in Page!PageRequests /\ e.kind = "evidence" /\ e.text = a /\ e.answer = NONE
    BY <1>5, EvidenceShape
  <2>2. Page!HasRoom(out)
    BY <1>1, <1>5 DEF Page!HasRoom
  <2>3. Placed(out, calls', e)
    BY <1>1, <1>2, <1>5, <2>2, WithPlaces
  <2> HIDE DEF e
  <2>4. calls' \in AllCalls
    BY <1>1, <2>1, <2>3, PlacedTyped
  <2>5. \A s \in Slots : calls'[s] = out[s] \/ calls'[s] = e
    BY <1>1, <2>3 DEF Placed, AllCalls
  <2>6. e \in Fetching
    BY <1>5, <2>1 DEF Fetching
  <2>7. CarriedWith(Fetching)
    BY <1>3, <2>5, <2>6 DEF CarriedWith
  <2> QED
    BY <1>3, <2>1, <2>4, <2>5, <2>7
<1> QED
  BY <1>4, <1>5

\* Another analysis, or none, is shown: what was typed is kept, nothing is polled.
LEMMA ShowStep ==
  ASSUME PageInv, NEW a \in Analyses \cup {NONE}, NEW cs \in AllCalls,
         Page!ShowAnalysis(a, cs), a = NONE \/ Page!HasRoom(cs),
         Remaining(cs),
         UNCHANGED <<use, server, accepted, typed, exported>>, busy' \in BOOLEAN
  PROVE  PageInv'
<1>1. calls \in AllCalls
  BY AllCallsTyped
<1>2. /\ calls' \in AllCalls /\ CarriedWith(Fetching)
      /\ \A s \in Slots : calls'[s] # NONE => calls'[s].kind = "evidence" \/ ~calls'[s].current
  BY <1>1, ShowCalls
<1>3. /\ drafts' = Page!Remembered /\ timer' = FALSE /\ session' = NONE /\ snapshot' = NONE
      /\ form' = NONE /\ analysis' = a /\ catalog' = NONE /\ blocked' = FALSE
      /\ unwatched' = FALSE /\ unsaved' = unsaved /\ overtaken' = overtaken
  BY DEF Page!ShowAnalysis
<1>4. Page!PageTypeOK'
  <2>1. drafts' \in [Ids -> Page!Texts \cup {NONE}]
    BY <1>3, RememberedKeeps
  <2>2. Page!PageTypeOK
    BY DEF PageInv
  <2> QED
    BY <1>2, <1>3, <2>1, <2>2 DEF Page!PageTypeOK, AllCalls
<1>5. RecordsAccepted' /\ Page!OneAnalysisShown' /\ Page!EvidenceOfShown' /\ Watched'
  BY <1>3 DEF PageInv, RecordsAccepted, Page!OneAnalysisShown, Page!EvidenceOfShown, Watched
<1>6. Page!ExportIsWhole'
  BY <1>3 DEF PageInv, Page!ExportIsWhole
<1>7. CallsTruthful'
  <2>1. CallsTruthful /\ accepted \subseteq accepted' /\ \A c \in Fetching : Truthful(c)
    BY DEF PageInv, Fetching, Truthful, Answering
  <2> QED
    BY <1>1, <1>2, <2>1, TruthfulCarried
<1>8. ExportsFollowed'
  <2>1. /\ ExportsFollowed /\ (~overtaken' => ~overtaken)
        /\ \A c \in Fetching : ~overtaken /\ c.kind = "export" => c.text = AnalysisOf[c.id]
    BY <1>3 DEF PageInv, Fetching
  <2> QED
    BY <1>1, <1>2, <2>1, ExportsCarried
<1>9. TextsFollowed'
  <2>1. ASSUME ~overtaken', NEW i \in Ids, Waiting(i)'
        PROVE  /\ IF session' # NONE /\ session'.id = i THEN unsaved'[i] = form'
                  ELSE unsaved'[i] = drafts'[i]
               /\ \A s \in Slots : calls'[s] # NONE => Spares(calls[s], i)'
    <3>1. Waiting(i) /\ ~overtaken /\ unsaved'[i] = unsaved[i] /\ (~overtaken' => ~overtaken)
      BY <1>3, <2>1 DEF Waiting
    <3>2. drafts'[i] = unsaved[i]
      BY <1>3, <3>1, RememberedKeeps
    <3>3. /\ TextsFollowed /\ accepted \subseteq accepted'
          /\ \A c \in Fetching : Spares(c, i)'
      BY DEF PageInv, Fetching, Spares
    <3>4. \A s \in Slots : calls'[s] # NONE => Spares(calls[s], i)'
      BY <1>1, <1>2, <2>1, <3>1, <3>2, <3>3, TextsCarried
    <3> QED
      BY <1>3, <3>2, <3>4
  <2> QED
    BY <2>1, TextsPlaced
<1>10. PollsFollowed'
  BY <1>2, <1>3 DEF PollsFollowed, Watches
<1> QED
  BY <1>4, <1>5, <1>6, <1>7, <1>8, <1>9, <1>10 DEF PageInv

\* A field of the request is changed.
LEMMA ChangeInputStep == ASSUME PageInv, Page!ChangeInput, UNCHANGED use PROVE PageInv'
<1>1. Page!ShowAnalysis(NONE, calls)
  BY DEF Page!ChangeInput
<1>2. UNCHANGED <<server, accepted, typed, exported, busy>>
  BY DEF Page!ChangeInput, Page!Act, Page!serverVars
<1>3. calls \in AllCalls /\ NONE \in Analyses \cup {NONE} /\ busy' \in BOOLEAN
  BY <1>2, AllCallsTyped DEF PageInv, Page!PageTypeOK
<1>4. Remaining(calls)
  BY DEF Remaining
<1> QED
  BY <1>1, <1>2, <1>3, <1>4, ShowStep

\* An analysis is asked for.
LEMMA AnalyzeStep == ASSUME PageInv, Page!Analyze, UNCHANGED use PROVE PageInv'
<1> DEFINE c == Page!Call("analyze", NONE)
           cs == Page!With(calls, c)
<1>1. Page!ShowAnalysis(NONE, cs) /\ Page!HasRoom(calls) /\ busy' = TRUE
  BY DEF Page!Analyze
<1>2. UNCHANGED <<server, accepted, typed, exported>>
  BY DEF Page!Analyze, Page!Act, Page!serverVars
<1>3. calls \in AllCalls /\ NONE \in Analyses \cup {NONE}
  BY AllCallsTyped
<1>4. c \in Page!PageRequests /\ c.kind = "analyze" /\ c.answer = NONE
  BY CallShape DEF Page!KINDS
<1>5. Placed(calls, cs, c)
  BY <1>1, <1>3, WithPlaces
<1> HIDE DEF cs, c
<1>6. cs \in AllCalls
  BY <1>3, <1>4, <1>5, PlacedTyped
<1>7. Remaining(cs)
  BY <1>3, <1>4, <1>5 DEF Placed, AllCalls, Remaining, Asked
<1> QED
  BY <1>1, <1>2, <1>3, <1>6, <1>7, ShowStep

\* What an answer leaves of the requests.
LEMMA DoneForShow ==
  ASSUME PageInv, NEW s \in Slots
  PROVE  /\ Page!Done(s) \in AllCalls /\ Page!HasRoom(Page!Done(s))
         /\ Remaining(Page!Done(s))
  BY AllCallsTyped, DoneShape DEF Remaining

\* What an answer leaves of the server and of the marks of the page.
OnPage == UNCHANGED <<Page!serverVars, Page!boundVars, use>>

\* An analysis was deleted.
LEMMA DeleteAnsweredStep ==
  ASSUME PageInv, NEW s \in Slots, Page!DeleteAnswered(s), OnPage PROVE PageInv'
<1>1. CASE Page!ShowAnalysis(NONE, Page!Done(s))
  <2>1. UNCHANGED <<use, server, accepted, typed, exported, busy>>
    BY DEF Page!DeleteAnswered, OnPage, Page!serverVars, Page!boundVars
  <2>2. NONE \in Analyses \cup {NONE} /\ busy' \in BOOLEAN
    BY <2>1 DEF PageInv, Page!PageTypeOK
  <2> QED
    BY <1>1, <2>1, <2>2, DoneForShow, ShowStep
<1>2. CASE Page!Ignored(s) /\ UNCHANGED blocked
  <2>1. UNCHANGED <<busy, blocked, exported>> /\ calls[s].kind = "delete"
    BY <1>2 DEF Page!DeleteAnswered, Page!Answer
  <2>2. calls' = Page!Done(s) /\ ViewKept /\ UNCHANGED <<server, accepted, timer, unwatched>>
    BY <1>2, <2>1, IgnoredView DEF OnPage
  <2> QED
    BY <2>1, <2>2, IgnoredStep
<1> QED
  BY <1>1, <1>2 DEF Page!DeleteAnswered

\* An analysis has come, or failed.
LEMMA AnalyzeAnsweredStep ==
  ASSUME PageInv, NEW s \in Slots, Page!AnalyzeAnswered(s), OnPage PROVE PageInv'
<1> DEFINE a == IF Page!Failed(s) THEN NONE ELSE calls[s].answer
<1>1. /\ Page!ShowAnalysis(a, Page!Done(s)) /\ busy' = FALSE
      /\ calls[s] # NONE /\ calls[s].kind = "analyze" /\ (calls[s].answer # NONE \/ Page!Failed(s))
  BY DEF Page!AnalyzeAnswered, Page!Answer
<1>2. UNCHANGED <<use, server, accepted, typed, exported>>
  BY DEF Page!AnalyzeAnswered, OnPage, Page!serverVars, Page!boundVars
<1>3. a \in Analyses \cup {NONE}
  BY <1>1 DEF PageInv, CallsTruthful, Truthful
<1> HIDE DEF a
<1> QED
  BY <1>1, <1>2, <1>3, DoneForShow, ShowStep

\* An investigation is chosen: what was typed is kept, nothing is polled, and the
\* only request that is current is the one for its snapshot.
LEMMA ChooseStep ==
  ASSUME PageInv, NEW s \in Slots, NEW v \in Page!Values, v.record \in accepted,
         NEW starting \in BOOLEAN, Page!Choose(v, Page!Done(s), starting),
         UNCHANGED <<use, server, accepted, typed, exported, busy>>
  PROVE  PageInv'
<1> DEFINE old == Page!Call("snapshot", v.id)
           c == [old EXCEPT !.value = v, !.starting = starting]
           out == Page!Outdated(Page!Done(s))
<1>1. /\ drafts' = Page!Remembered /\ timer' = FALSE /\ calls' = Page!With(out, c)
      /\ UNCHANGED <<analysis, catalog, session, snapshot, form, blocked, unsaved,
                     overtaken, unwatched>>
  BY DEF Page!Choose, Page!historyVars
<1>2. calls \in AllCalls /\ Page!Done(s) \in AllCalls /\ Page!HasRoom(Page!Done(s))
      /\ \A t \in Slots : Page!Done(s)[t] = IF t = s THEN NONE ELSE calls[t]
  BY AllCallsTyped, DoneShape
<1>3. /\ c \in Page!PageRequests /\ c.kind = "snapshot" /\ c.id = v.id /\ c.answer = NONE
      /\ c.value = v /\ c.current = TRUE
  <2>1. "snapshot" \in Page!KINDS /\ v.id \in Ids \cup {NONE}
    BY DEF Page!KINDS, Page!Values
  <2>2. /\ old \in Page!PageRequests /\ old.kind = "snapshot" /\ old.id = v.id
        /\ old.current = TRUE /\ old.answer = NONE
    BY <2>1, CallShape
  <2> HIDE DEF old
  <2> QED
    BY <2>2 DEF Page!PageRequests
<1> HIDE DEF c
<1>4. /\ out \in AllCalls
      /\ \A t \in Slots : out[t] = IF Page!Done(s)[t] = NONE THEN NONE
                                   ELSE [Page!Done(s)[t] EXCEPT !.current = FALSE]
  BY <1>2, OutdatedShape
<1>5. Page!HasRoom(out)
  BY <1>2, <1>4 DEF Page!HasRoom
<1>6. Placed(out, calls', c)
  BY <1>1, <1>4, <1>5, WithPlaces
<1>7. ASSUME NEW t \in Slots, out[t] # NONE
      PROVE  calls[t] # NONE /\ out[t] = [calls[t] EXCEPT !.current = FALSE] /\ ~out[t].current
  <2>1. calls[t] # NONE /\ out[t] = [calls[t] EXCEPT !.current = FALSE]
    BY <1>2, <1>4, <1>7
  <2>2. calls[t] \in Page!PageRequests
    BY <1>2, <2>1 DEF AllCalls
  <2> QED
    BY <2>1, <2>2, OutdatedFields
<1> HIDE DEF out
<1>8. /\ calls' \in AllCalls
      /\ \E n \in Slots : calls'[n] = c /\ \A t \in Slots : t # n => calls'[t] = out[t]
  BY <1>3, <1>4, <1>6, PlacedTyped DEF Placed, AllCalls
<1>9. PICK n \in Slots : calls'[n] = c /\ \A t \in Slots : t # n => calls'[t] = out[t]
  BY <1>8
<1>10. CarriedWith({c})
  BY <1>7, <1>9 DEF CarriedWith
<1>11. Page!PageTypeOK'
  <2>1. drafts' \in [Ids -> Page!Texts \cup {NONE}]
    BY <1>1, RememberedKeeps
  <2>2. Page!PageTypeOK
    BY DEF PageInv
  <2> QED
    BY <1>1, <1>8, <2>1, <2>2 DEF Page!PageTypeOK, AllCalls
<1>12. /\ RecordsAccepted' /\ Page!OneAnalysisShown' /\ Page!EvidenceOfShown'
       /\ Page!ExportIsWhole'
  BY <1>1 DEF PageInv, RecordsAccepted, Page!OneAnalysisShown, Page!EvidenceOfShown,
              Page!ExportIsWhole
<1>13. CallsTruthful'
  <2>1. Truthful(c)
    BY <1>3 DEF Truthful, Page!Values
  <2>2. CallsTruthful /\ accepted \subseteq accepted' /\ \A d \in {c} : Truthful(d)
    BY <2>1 DEF PageInv
  <2> QED
    BY <1>2, <1>10, <2>2, TruthfulCarried
<1>14. ExportsFollowed'
  <2>1. /\ ExportsFollowed /\ (~overtaken' => ~overtaken)
        /\ \A d \in {c} : ~overtaken /\ d.kind = "export" => d.text = AnalysisOf[d.id]
    BY <1>1, <1>3 DEF PageInv
  <2> QED
    BY <1>2, <1>10, <2>1, ExportsCarried
<1>15. TextsFollowed'
  <2>1. ASSUME ~overtaken', NEW i \in Ids, Waiting(i)'
        PROVE  /\ IF session' # NONE /\ session'.id = i THEN unsaved'[i] = form'
                  ELSE unsaved'[i] = drafts'[i]
               /\ \A t \in Slots : calls'[t] # NONE => Spares(calls[t], i)'
    <3>1. Waiting(i) /\ ~overtaken /\ unsaved'[i] = unsaved[i] /\ (~overtaken' => ~overtaken)
      BY <1>1, <2>1 DEF Waiting
    <3>2. drafts'[i] = unsaved[i]
      BY <1>1, <3>1, RememberedKeeps
    <3>3. /\ TextsFollowed /\ accepted \subseteq accepted'
          /\ \A d \in {c} : Spares(d, i)'
      BY <1>3, <3>1, <3>2 DEF PageInv, Spares
    <3>4. Unreplaced(i) /\ \A t \in Slots : calls'[t] # NONE => Spares(calls[t], i)'
      BY <1>2, <1>10, <2>1, <3>1, <3>2, <3>3, TextsCarried
    <3> QED
      BY <1>1, <3>2, <3>4 DEF Unreplaced
  <2> QED
    BY <2>1, TextsPlaced
<1>16. PollsFollowed'
  <2>1. \A t \in Slots : Watches(calls'[t]) => t = n
    BY <1>7, <1>9 DEF Watches
  <2> QED
    BY <1>1, <1>3, <1>9, <2>1 DEF PollsFollowed, Watches
<1>17. Watched'
  <2>1. c # NONE
    BY <1>3, PageConstants
  <2> QED
    BY <1>3, <1>9, <2>1 DEF Watched
<1> QED
  BY <1>11, <1>12, <1>13, <1>14, <1>15, <1>16, <1>17 DEF PageInv

\* What an answer tells, where it is one.
LEMMA AnswerTold ==
  ASSUME PageInv, NEW s \in Slots, NEW kind, Page!Answer(s, kind), ~Page!Failed(s)
  PROVE  /\ calls[s] # NONE /\ calls[s] \in Page!PageRequests /\ calls[s].kind = kind
         /\ calls[s].answer # NONE /\ Truthful(calls[s])
  BY AllCallsTyped DEF Page!Answer, Page!Failed, AllCalls, PageInv, CallsTruthful

\* What the marks and the server are after an answer.
LEMMA OnPageKeeps ==
  ASSUME OnPage PROVE UNCHANGED <<use, server, accepted, typed, acts, failures>>
  BY DEF OnPage, Page!serverVars, Page!boundVars

\* An investigation was read.
LEMMA GetAnsweredStep ==
  ASSUME PageInv, NEW s \in Slots, Page!GetAnswered(s), OnPage PROVE PageInv'
<1>1. Page!Answer(s, "get") /\ UNCHANGED <<busy, exported>>
  BY DEF Page!GetAnswered
<1>2. CASE ~Page!Failed(s) /\ Page!Choose(calls[s].answer, Page!Done(s), FALSE)
  <2>1. calls[s].kind = "get" /\ calls[s].answer # NONE /\ Truthful(calls[s])
    BY <1>1, <1>2, AnswerTold
  <2>2. calls[s].answer \in Page!Values /\ calls[s].answer.record \in accepted
    BY <2>1 DEF Truthful, Answering
  <2> QED
    BY <1>1, <1>2, <2>2, OnPageKeeps, ChooseStep
<1>3. CASE Page!Ignored(s) /\ UNCHANGED blocked
  <2>1. calls[s].kind = "get"
    BY <1>1 DEF Page!Answer
  <2>2. calls' = Page!Done(s) /\ ViewKept /\ UNCHANGED <<server, accepted, timer, unwatched>>
    BY <1>1, <1>3, IgnoredView DEF OnPage
  <2> QED
    BY <2>1, <2>2, IgnoredStep
<1> QED
  BY <1>2, <1>3 DEF Page!GetAnswered

\* The work was started, or was not.
LEMMA StartAnsweredStep ==
  ASSUME PageInv, NEW s \in Slots, Page!StartAnswered(s), OnPage PROVE PageInv'
<1>1. Page!Answer(s, "start") /\ UNCHANGED <<busy, exported>>
  BY DEF Page!StartAnswered
<1>2. CASE ~Page!Failed(s) /\ Page!Choose(calls[s].answer, Page!Done(s), TRUE)
  <2>1. calls[s].kind = "start" /\ calls[s].answer # NONE /\ Truthful(calls[s])
    BY <1>1, <1>2, AnswerTold
  <2>2. calls[s].answer \in Page!Values /\ calls[s].answer.record \in accepted
    BY <2>1 DEF Truthful, Answering
  <2> QED
    BY <1>1, <1>2, <2>2, OnPageKeeps, ChooseStep
<1>3. CASE /\ calls' = Page!Done(s) /\ blocked' = FALSE
           /\ unwatched' = (unwatched \/ calls[s].current)
           /\ UNCHANGED <<Page!shownVars, unsaved, overtaken>>
  <2>1. calls[s] # NONE
    BY <1>1 DEF Page!Answer
  <2>2. calls[s].current \in BOOLEAN
    BY <2>1, AllCallsTyped DEF AllCalls, Page!PageRequests
  <2>3. UNCHANGED <<analysis, catalog, session, snapshot, form, drafts, timer>>
    BY <1>3 DEF Page!shownVars
  <2>4. busy \in BOOLEAN /\ timer \in BOOLEAN /\ unwatched \in BOOLEAN
    BY DEF PageInv, Page!PageTypeOK
  <2>5. unwatched' \in BOOLEAN
    BY <1>3, <2>2, <2>4
  <2>6. ViewKept /\ UNCHANGED <<server, accepted, timer>>
    BY <1>1, <1>3, <2>3, <2>4, <2>5, OnPageKeeps DEF ViewKept
  <2> QED
    BY <1>3, <2>6, IgnoredStep
<1> QED
  BY <1>2, <1>3 DEF Page!StartAnswered

\* The server accepts more, and its records stay accepted ones.
ServerGoesOn ==
    /\ accepted \subseteq accepted' /\ accepted' \subseteq Page!Texts
    /\ server' \in [Ids -> [state : Page!STATES, revision : Nat, record : Page!Texts]]
    /\ \A i \in Ids : server'[i].record \in accepted'

\* A request that differs from one under way in its answer only.
LEMMA RequestChanged ==
  ASSUME PageInv, NEW s \in Slots, calls[s] # NONE, NEW d \in Page!PageRequests,
         d.kind = calls[s].kind, d.id = calls[s].id, d.text = calls[s].text,
         d.current = calls[s].current, Truthful(d)',
         calls' = [calls EXCEPT ![s] = d], ServerGoesOn, ViewKept, UNCHANGED <<timer, unwatched>>
  PROVE  PageInv'
<1>1. calls \in AllCalls /\ d # NONE
  BY AllCallsTyped, PageConstants
<1>2. calls' \in AllCalls /\ calls'[s] = d /\ \A t \in Slots : t # s => calls'[t] = calls[t]
  BY <1>1 DEF AllCalls
<1>3. CarriedWith({d})
  BY <1>2 DEF CarriedWith
<1>4. /\ Page!PageTypeOK' /\ RecordsAccepted'
      /\ Page!OneAnalysisShown' /\ Page!EvidenceOfShown' /\ Page!ExportIsWhole'
  <2>1. timer' => timer
    OBVIOUS
  <2> QED
    BY <1>2, <2>1, ViewStays DEF ServerGoesOn
<1>5. CallsTruthful'
  <2>1. ASSUME NEW t \in Slots, calls'[t] # NONE PROVE Truthful(calls[t])'
    <3>1. CASE t = s
      BY <1>2, <3>1 DEF Truthful
    <3>2. CASE t # s
      BY <1>2, <2>1, <3>2 DEF PageInv, CallsTruthful, Truthful, ServerGoesOn
    <3> QED
      BY <3>1, <3>2
  <2> QED
    BY <2>1 DEF CallsTruthful
<1>6. ExportsFollowed'
  <2>1. /\ ExportsFollowed /\ (~overtaken' => ~overtaken)
        /\ \A c \in {d} : ~overtaken /\ c.kind = "export" => c.text = AnalysisOf[c.id]
    BY DEF PageInv, ExportsFollowed, ViewKept
  <2> QED
    BY <1>1, <1>3, <2>1, ExportsCarried
<1>7. TextsFollowed'
  <2>1. ASSUME ~overtaken, NEW i \in Ids, Waiting(i) PROVE Spares(d, i)
    BY <2>1 DEF PageInv, TextsFollowed, Unreplaced, Waiting, Spares
  <2>2. ~overtaken => \A i \in Ids : Waiting(i) => \A c \in {d} : Spares(c, i)
    BY <2>1
  <2>3. /\ TextsFollowed /\ (~overtaken' => ~overtaken) /\ accepted \subseteq accepted'
        /\ UNCHANGED <<drafts, unsaved, form, session>>
    BY DEF PageInv, ViewKept, ServerGoesOn
  <2> QED
    BY <1>1, <1>3, <2>2, <2>3, TextsStay
<1>8. PollsFollowed'
  <2>1. \A t \in Slots : /\ Watches(calls'[t]) => Watches(calls[t])
                         /\ Watches(calls'[t]) => calls'[t].kind = calls[t].kind
                         /\ Watches(calls'[t]) => calls'[t].id = calls[t].id
    BY <1>2 DEF Watches
  <2> QED
    BY <2>1 DEF PageInv, PollsFollowed, ViewKept, Watches
<1>9. Watched'
  <2>1. \A t \in Slots : calls[t] # NONE =>
          /\ calls'[t] # NONE /\ calls'[t].kind = calls[t].kind
          /\ calls'[t].current = calls[t].current
    BY <1>1, <1>2
  <2> QED
    BY <2>1 DEF PageInv, Watched, ViewKept
<1> QED
  BY <1>4, <1>5, <1>6, <1>7, <1>8, <1>9 DEF PageInv

\* A request is answered with what the server knows.
LEMMA AnsweredWith ==
  ASSUME PageInv, NEW s \in Slots, calls[s] # NONE,
         NEW a \in Page!Values \cup Ids \cup Analyses,
         calls' = [calls EXCEPT ![s].answer = a],
         calls[s].kind \in Answering =>
            a \in Page!Values /\ a.id = calls[s].id /\ a.record \in accepted',
         calls[s].kind = "snapshot" => a = AnalysisOf[calls[s].id],
         calls[s].kind = "evidence" => a = calls[s].text,
         calls[s].kind = "analyze" => a \in Analyses,
         calls[s].kind = "save" => calls[s].text \in accepted',
         ServerGoesOn, ViewKept, UNCHANGED <<timer, unwatched>>
  PROVE  PageInv'
<1>1. calls[s] \in Page!PageRequests /\ calls \in AllCalls
  BY AllCallsTyped DEF AllCalls
<1>2. PICK d : d = [calls[s] EXCEPT !.answer = a]
  OBVIOUS
<1>3. /\ d \in Page!PageRequests /\ d.kind = calls[s].kind /\ d.id = calls[s].id
      /\ d.text = calls[s].text /\ d.current = calls[s].current /\ d.answer = a
      /\ d.value = calls[s].value
  BY <1>1, <1>2 DEF Page!PageRequests
<1>4. calls' = [calls EXCEPT ![s] = d]
  BY <1>1, <1>2 DEF AllCalls
<1>5. Truthful(d)'
  <2>1. Truthful(calls[s])
    BY DEF PageInv, CallsTruthful
  <2> QED
    BY <1>3, <2>1 DEF Truthful, ServerGoesOn
<1> QED
  BY <1>3, <1>4, <1>5, RequestChanged

\* A request fails, on the way or at the server.
LEMMA FailedWith ==
  ASSUME PageInv, NEW s \in Slots, calls[s] # NONE,
         calls' = [calls EXCEPT ![s].failed = TRUE],
         ServerGoesOn, ViewKept, UNCHANGED <<timer, unwatched>>
  PROVE  PageInv'
<1>1. calls[s] \in Page!PageRequests /\ calls \in AllCalls
  BY AllCallsTyped DEF AllCalls
<1>2. PICK d : d = [calls[s] EXCEPT !.failed = TRUE]
  OBVIOUS
<1>3. /\ d \in Page!PageRequests /\ d.kind = calls[s].kind /\ d.id = calls[s].id
      /\ d.text = calls[s].text /\ d.current = calls[s].current /\ d.answer = calls[s].answer
      /\ d.value = calls[s].value
  BY <1>1, <1>2 DEF Page!PageRequests
<1>4. calls' = [calls EXCEPT ![s] = d]
  BY <1>1, <1>2 DEF AllCalls
<1>5. Truthful(d)'
  <2>1. Truthful(calls[s])
    BY DEF PageInv, CallsTruthful
  <2> QED
    BY <1>3, <2>1 DEF Truthful, ServerGoesOn
<1> QED
  BY <1>3, <1>4, <1>5, RequestChanged

\* What the server and the connection do leaves what is shown alone.
LEMMA ServerView ==
  ASSUME PageInv, UNCHANGED <<Page!shownVars, busy, blocked, exported, Page!historyVars, typed, use>>
  PROVE  ViewKept /\ UNCHANGED <<timer, unwatched>>
<1>1. UNCHANGED <<analysis, catalog, session, snapshot, form, drafts, timer, busy, exported,
                  unsaved, overtaken, unwatched, typed, use, blocked>>
  BY DEF Page!shownVars, Page!historyVars
<1>2. busy \in BOOLEAN /\ timer \in BOOLEAN /\ unwatched \in BOOLEAN /\ blocked \in BOOLEAN
  BY DEF PageInv, Page!PageTypeOK
<1> QED
  BY <1>1, <1>2 DEF ViewKept

\* A request fails.
LEMMA FailStep == ASSUME PageInv, NEW s \in Slots, Page!Fail(s), UNCHANGED use PROVE PageInv'
<1>1. calls[s] # NONE /\ calls' = [calls EXCEPT ![s].failed = TRUE]
  BY DEF Page!Fail
<1>2. UNCHANGED <<Page!serverVars, Page!shownVars, busy, blocked, exported, Page!historyVars,
                  typed>>
  BY DEF Page!Fail
<1>3. ViewKept /\ UNCHANGED <<timer, unwatched>>
  BY <1>2, ServerView
<1>4. ServerGoesOn
  BY <1>2, ServerStays DEF ServerGoesOn, Page!serverVars
<1> QED
  BY <1>1, <1>3, <1>4, FailedWith

\* What the server says of an investigation.
LEMMA ValueTold ==
  ASSUME PageInv, NEW i \in Ids
  PROVE  /\ Page!Value(i) \in Page!Values /\ Page!Value(i).id = i
         /\ Page!Value(i).record \in accepted /\ Page!Value(i).record = server[i].record
         /\ Page!Value(i).revision = server[i].revision /\ Page!Value(i).state = server[i].state
         /\ server[i] \in [state : Page!STATES, revision : Nat, record : Page!Texts]
<1>1. server[i] \in [state : Page!STATES, revision : Nat, record : Page!Texts]
  BY DEF PageInv, Page!PageTypeOK
<1>2. server[i].record \in accepted
  BY DEF PageInv, RecordsAccepted
<1> QED
  BY <1>1, <1>2 DEF Page!Value, Page!Values

\* A record of the server after a step that writes an accepted text or a state.
LEMMA RecordWritten ==
  ASSUME PageInv, NEW i \in Ids, NEW r \in [state : Page!STATES, revision : Nat, record : Page!Texts],
         server' = [server EXCEPT ![i] = r], accepted' = accepted \cup {r.record}
  PROVE  ServerGoesOn
<1>1. /\ server \in [Ids -> [state : Page!STATES, revision : Nat, record : Page!Texts]]
      /\ accepted \subseteq Page!Texts /\ \A j \in Ids : server[j].record \in accepted
  BY DEF PageInv, Page!PageTypeOK, RecordsAccepted
<1>2. r.record \in Page!Texts
  OBVIOUS
<1> QED
  BY <1>1, <1>2 DEF ServerGoesOn

\* The next revision of what is read, with another text.
LEMMA ValueWritten ==
  ASSUME NEW v \in Page!Values, NEW written \in Page!Texts
  PROVE  LET a == [v EXCEPT !.revision = @ + 1, !.record = written]
         IN  a \in Page!Values /\ a.id = v.id /\ a.record = written
<1>1. PICK n \in Nat : n = v.revision + 1
  BY DEF Page!Values
<1>2. v.revision + 1 = n
  BY <1>1
<1>3. [v EXCEPT !.revision = n, !.record = written] \in Page!Values
  BY DEF Page!Values
<1>4. /\ [v EXCEPT !.revision = n, !.record = written].id = v.id
      /\ [v EXCEPT !.revision = n, !.record = written].record = written
  BY DEF Page!Values
<1>5. [v EXCEPT !.revision = @ + 1, !.record = written]
        = [v EXCEPT !.revision = n, !.record = written]
  BY <1>2
<1> QED
  BY <1>3, <1>4, <1>5

\* The next revision of what the server holds.
LEMMA StateWritten ==
  ASSUME NEW q \in [state : Page!STATES, revision : Nat, record : Page!Texts],
         NEW written \in Page!Texts
  PROVE  LET r == [q EXCEPT !.revision = @ + 1, !.record = written]
         IN  /\ r \in [state : Page!STATES, revision : Nat, record : Page!Texts]
             /\ r.record = written
<1>1. PICK n \in Nat : n = q.revision + 1
  OBVIOUS
<1>2. [q EXCEPT !.revision = n, !.record = written]
        \in [state : Page!STATES, revision : Nat, record : Page!Texts]
  OBVIOUS
<1>3. [q EXCEPT !.revision = n, !.record = written].record = written
  OBVIOUS
<1>4. [q EXCEPT !.revision = @ + 1, !.record = written]
        = [q EXCEPT !.revision = n, !.record = written]
  BY <1>1
<1> QED
  BY <1>2, <1>3, <1>4

\* The server takes a request and answers, or refuses it.
LEMMA HandleStep == ASSUME PageInv, NEW s \in Slots, Page!Handle(s), UNCHANGED use PROVE PageInv'
<1> DEFINE i == calls[s].id
           kind == calls[s].kind
           failing == calls' = [calls EXCEPT ![s].failed = TRUE]
<1>1. calls[s] # NONE /\ calls[s].answer = NONE
  BY DEF Page!Handle
<1>2. ViewKept /\ UNCHANGED <<timer, unwatched>>
  <2>1. UNCHANGED <<Page!shownVars, busy, blocked, exported, Page!historyVars, typed, use>>
    BY DEF Page!Handle, Page!boundVars
  <2> QED
    BY <2>1, ServerView
<1>3. Truthful(calls[s]) /\ calls[s] \in Page!PageRequests
  BY <1>1, AllCallsTyped DEF PageInv, CallsTruthful, AllCalls
<1>4. UNCHANGED <<server, accepted>> => ServerGoesOn
  BY ServerStays DEF ServerGoesOn
<1>5. ASSUME UNCHANGED <<server, accepted>>, failing PROVE PageInv'
  BY <1>1, <1>2, <1>4, <1>5, FailedWith
<1>6. kind \notin {"evidence", "analyze"} => i \in Ids
  BY <1>3 DEF Truthful
<1>7. CASE /\ kind \in {"get", "poll", "export"} /\ UNCHANGED Page!serverVars
           /\ calls' = [calls EXCEPT ![s].answer = Page!Value(i)]
  <2>1. UNCHANGED <<server, accepted>> /\ i \in Ids
    BY <1>6, <1>7 DEF Page!serverVars
  <2>2. /\ Page!Value(i) \in Page!Values /\ Page!Value(i).id = i
        /\ Page!Value(i).record \in accepted'
    BY <2>1, ValueTold
  <2>3. kind \in {"get", "poll", "export"} /\ calls' = [calls EXCEPT ![s].answer = Page!Value(i)]
    BY <1>7
  <2> QED
    BY <1>1, <1>2, <1>4, <2>1, <2>2, <2>3, AnsweredWith
<1>8. CASE /\ kind = "snapshot" /\ UNCHANGED Page!serverVars
           /\ calls' = [calls EXCEPT ![s].answer = AnalysisOf[i]]
  <2>1. UNCHANGED <<server, accepted>> /\ AnalysisOf[i] \in Analyses
    BY <1>6, <1>8, PageConstants DEF Page!serverVars
  <2>2. kind = "snapshot" /\ kind \notin Answering
    BY <1>8 DEF Answering
  <2> QED
    BY <1>1, <1>2, <1>4, <1>8, <2>1, <2>2, AnsweredWith
<1>9. CASE /\ kind \in {"save", "review"}
           /\ LET written == IF kind = "save" THEN calls[s].text ELSE server[i].record
              IN /\ server' = [server EXCEPT ![i].revision = @ + 1, ![i].record = written]
                 /\ calls' = [calls EXCEPT ![s].answer =
                        [Page!Value(i) EXCEPT !.revision = @ + 1, !.record = written]]
                 /\ accepted' = accepted \cup {written}
  <2> DEFINE written == IF kind = "save" THEN calls[s].text ELSE server[i].record
             a == [Page!Value(i) EXCEPT !.revision = @ + 1, !.record = written]
             r == [server[i] EXCEPT !.revision = @ + 1, !.record = written]
  <2>1. i \in Ids /\ kind \in {"save", "review"}
    BY <1>6, <1>9
  <2>2. /\ Page!Value(i) \in Page!Values /\ Page!Value(i).id = i
        /\ server[i] \in [state : Page!STATES, revision : Nat, record : Page!Texts]
    BY <2>1, ValueTold
  <2>3. written \in Page!Texts
    BY <1>3, <2>1, <2>2 DEF Truthful
  <2>4. /\ server' = [server EXCEPT ![i].revision = @ + 1, ![i].record = written]
        /\ calls' = [calls EXCEPT ![s].answer = a] /\ accepted' = accepted \cup {written}
        /\ kind = "save" => calls[s].text = written
    BY <1>9
  <2> HIDE DEF written
  <2>5. a \in Page!Values /\ a.id = i /\ a.record = written
    BY <2>2, <2>3, ValueWritten
  <2>6. r \in [state : Page!STATES, revision : Nat, record : Page!Texts] /\ r.record = written
    BY <2>2, <2>3, StateWritten
  <2>7. server' = [server EXCEPT ![i] = r]
    BY <2>1, <2>4 DEF PageInv, Page!PageTypeOK
  <2> HIDE DEF a, r
  <2>8. ServerGoesOn
    BY <2>1, <2>4, <2>6, <2>7, RecordWritten
  <2> QED
    BY <1>1, <1>2, <2>1, <2>4, <2>5, <2>8, AnsweredWith
<1>10. CASE /\ kind = "cancel" /\ UNCHANGED accepted
            /\ IF server[i].state = "running"
               THEN server' = [server EXCEPT ![i].state = "cancelling"] ELSE UNCHANGED server
  <2>1. i \in Ids
    BY <1>6, <1>10
  <2>2. /\ Page!Value(i) \in Page!Values /\ Page!Value(i).id = i
        /\ server[i] \in [state : Page!STATES, revision : Nat, record : Page!Texts]
        /\ Page!Value(i).record \in accepted /\ Page!Value(i).record = server[i].record
    BY <2>1, ValueTold
  <2>3. ServerGoesOn
    <3>1. CASE server' = [server EXCEPT ![i].state = "cancelling"]
      <4> DEFINE r == [server[i] EXCEPT !.state = "cancelling"]
      <4>1. /\ r \in [state : Page!STATES, revision : Nat, record : Page!Texts]
            /\ r.record = server[i].record
        BY <2>2 DEF Page!STATES
      <4>2. server' = [server EXCEPT ![i] = r]
        BY <2>1, <3>1 DEF PageInv, Page!PageTypeOK
      <4> HIDE DEF r
      <4>3. accepted' = accepted \cup {r.record}
        BY <1>10, <2>2, <4>1
      <4> QED
        BY <2>1, <4>1, <4>2, <4>3, RecordWritten
    <3>2. CASE UNCHANGED server
      BY <1>4, <1>10, <3>2
    <3> QED
      BY <1>10, <3>1, <3>2
  <2>4. CASE failing
    BY <1>1, <1>2, <2>3, <2>4, FailedWith
  <2>5. CASE calls' = [calls EXCEPT ![s].answer = [Page!Value(i) EXCEPT !.state =
                          IF @ = "running" THEN "cancelling" ELSE @]]
    <3> DEFINE a == [Page!Value(i) EXCEPT !.state = IF @ = "running" THEN "cancelling" ELSE @]
    <3>1. a \in Page!Values /\ a.id = i /\ a.record \in accepted'
      BY <1>10, <2>2 DEF Page!Values, Page!STATES
    <3>2. calls' = [calls EXCEPT ![s].answer = a] /\ kind = "cancel"
      BY <1>10, <2>5
    <3> HIDE DEF a
    <3> QED
      BY <1>1, <1>2, <2>3, <3>1, <3>2, AnsweredWith
  <2> QED
    BY <1>10, <2>4, <2>5 DEF Page!Handle
<1>11. CASE /\ kind = "start" /\ UNCHANGED accepted
            /\ server' = [server EXCEPT ![i].state = "running"]
            /\ calls' = [calls EXCEPT ![s].answer = [Page!Value(i) EXCEPT !.state = "running"]]
  <2> DEFINE r == [server[i] EXCEPT !.state = "running"]
             a == [Page!Value(i) EXCEPT !.state = "running"]
  <2>1. i \in Ids
    BY <1>6, <1>11
  <2>2. /\ Page!Value(i) \in Page!Values /\ Page!Value(i).id = i
        /\ server[i] \in [state : Page!STATES, revision : Nat, record : Page!Texts]
        /\ Page!Value(i).record \in accepted /\ Page!Value(i).record = server[i].record
    BY <2>1, ValueTold
  <2>3. /\ r \in [state : Page!STATES, revision : Nat, record : Page!Texts]
        /\ r.record = server[i].record
    BY <2>2 DEF Page!STATES
  <2>4. server' = [server EXCEPT ![i] = r]
    BY <1>11, <2>1 DEF PageInv, Page!PageTypeOK
  <2>5. a \in Page!Values /\ a.id = i /\ a.record \in accepted'
    BY <1>11, <2>2 DEF Page!Values, Page!STATES
  <2>6. calls' = [calls EXCEPT ![s].answer = a] /\ kind = "start"
    BY <1>11
  <2> HIDE DEF a, r
  <2>7. accepted' = accepted \cup {r.record}
    BY <1>11, <2>2, <2>3
  <2>8. ServerGoesOn
    BY <2>1, <2>3, <2>4, <2>7, RecordWritten
  <2> QED
    BY <1>1, <1>2, <2>5, <2>6, <2>8, AnsweredWith
<1>12. CASE /\ kind = "delete" /\ calls' = [calls EXCEPT ![s].answer = i] /\ UNCHANGED accepted
            /\ server' = [j \in Ids |-> IF AnalysisOf[j] = AnalysisOf[i]
                                        THEN [server[j] EXCEPT !.state = "gone"] ELSE server[j]]
  <2>1. i \in Ids /\ kind = "delete" /\ kind \notin Answering
    BY <1>6, <1>12 DEF Answering
  <2>2. \A j \in Ids : /\ server'[j] \in [state : Page!STATES, revision : Nat, record : Page!Texts]
                       /\ server'[j].record = server[j].record
    BY <1>12, ValueTold DEF Page!STATES
  <2>3. ServerGoesOn
    <3>1. accepted \subseteq Page!Texts /\ \A j \in Ids : server[j].record \in accepted
      BY DEF PageInv, Page!PageTypeOK, RecordsAccepted
    <3>2. server' = [j \in Ids |-> server'[j]]
      BY <1>12
    <3> QED
      BY <1>12, <2>2, <3>1, <3>2 DEF ServerGoesOn
  <2> QED
    BY <1>1, <1>2, <1>12, <2>1, <2>3, AnsweredWith
<1>13. CASE kind = "analyze" /\ UNCHANGED Page!serverVars
            /\ \E a \in Analyses : calls' = [calls EXCEPT ![s].answer = a]
  <2>1. UNCHANGED <<server, accepted>> /\ kind = "analyze" /\ kind \notin Answering
    BY <1>13 DEF Page!serverVars, Answering
  <2>2. PICK a \in Analyses : calls' = [calls EXCEPT ![s].answer = a]
    BY <1>13
  <2> QED
    BY <1>1, <1>2, <1>4, <2>1, <2>2, AnsweredWith
<1>14. CASE kind = "evidence" /\ UNCHANGED Page!serverVars
            /\ calls' = [calls EXCEPT ![s].answer = calls[s].text]
  <2>1. UNCHANGED <<server, accepted>> /\ kind = "evidence" /\ kind \notin Answering
    BY <1>14 DEF Page!serverVars, Answering
  <2>2. calls[s].text \in Analyses
    BY <1>3, <2>1 DEF Truthful
  <2> QED
    BY <1>1, <1>2, <1>4, <1>14, <2>1, <2>2, AnsweredWith
<1>15. UNCHANGED Page!serverVars => UNCHANGED <<server, accepted>>
  BY DEF Page!serverVars
<1> QED
  BY <1>5, <1>7, <1>8, <1>9, <1>10, <1>11, <1>12, <1>13, <1>14, <1>15 DEF Page!Handle

\* Only the server goes on.
LEMMA ServerStep ==
  ASSUME PageInv, UNCHANGED calls, ServerGoesOn, ViewKept, UNCHANGED <<timer, unwatched>>
  PROVE  PageInv'
<1>1. calls \in AllCalls /\ calls' \in AllCalls /\ CarriedWith({})
  BY AllCallsTyped DEF CarriedWith
<1>2. /\ Page!PageTypeOK' /\ RecordsAccepted'
      /\ Page!OneAnalysisShown' /\ Page!EvidenceOfShown' /\ Page!ExportIsWhole'
  <2>1. timer' => timer
    OBVIOUS
  <2> QED
    BY <1>1, <2>1, ViewStays DEF ServerGoesOn
<1>3. CallsTruthful'
  <2>1. CallsTruthful /\ accepted \subseteq accepted' /\ \A c \in {} : Truthful(c)
    BY DEF PageInv, ServerGoesOn
  <2> QED
    BY <1>1, <2>1, TruthfulCarried
<1>4. ExportsFollowed'
  BY DEF PageInv, ExportsFollowed, ViewKept
<1>5. TextsFollowed'
  <2>1. /\ TextsFollowed /\ (~overtaken' => ~overtaken) /\ accepted \subseteq accepted'
        /\ UNCHANGED <<drafts, unsaved, form, session>>
        /\ ~overtaken => \A i \in Ids : Waiting(i) => \A c \in {} : Spares(c, i)
    BY DEF PageInv, ViewKept, ServerGoesOn
  <2> QED
    BY <1>1, <2>1, TextsStay
<1>6. PollsFollowed' /\ Watched'
  BY DEF PageInv, PollsFollowed, Watched, Watches, ViewKept
<1> QED
  BY <1>2, <1>3, <1>4, <1>5, <1>6 DEF PageInv

\* The worker ends a job, or another browser saves a record.
LEMMA WorksStep == ASSUME PageInv, Page!Works, UNCHANGED use PROVE PageInv'
<1>1. ViewKept /\ UNCHANGED <<timer, unwatched>> /\ UNCHANGED calls
  <2>1. UNCHANGED <<Page!shownVars, busy, blocked, exported, Page!historyVars, typed, use>>
    BY DEF Page!Works, Page!boundVars
  <2>2. UNCHANGED calls
    BY DEF Page!Works
  <2> QED
    BY <2>1, <2>2, ServerView
<1>2. PICK i \in Ids :
         \/ server' = [server EXCEPT ![i].state = "ended"] /\ UNCHANGED accepted
         \/ \E n \in 1..use.others :
              /\ server' = [server EXCEPT ![i].record = <<"other", n>>, ![i].revision = @ + 1]
              /\ accepted' = accepted \cup {<<"other", n>>}
  BY Zenon DEF Page!Works
<1>3. server[i] \in [state : Page!STATES, revision : Nat, record : Page!Texts]
  BY ValueTold
<1>4. server \in [Ids -> [state : Page!STATES, revision : Nat, record : Page!Texts]]
  BY DEF PageInv, Page!PageTypeOK
<1>5. CASE server' = [server EXCEPT ![i].state = "ended"] /\ UNCHANGED accepted
  <2> DEFINE r == [server[i] EXCEPT !.state = "ended"]
  <2>1. /\ r \in [state : Page!STATES, revision : Nat, record : Page!Texts]
        /\ r.record = server[i].record
    BY <1>3 DEF Page!STATES
  <2>2. server' = [server EXCEPT ![i] = r]
    BY <1>4, <1>5
  <2>3. accepted' = accepted \cup {r.record}
    BY <1>5, <2>1 DEF PageInv, RecordsAccepted
  <2> HIDE DEF r
  <2> QED
    BY <1>1, <2>1, <2>2, <2>3, RecordWritten, ServerStep
<1>6. ASSUME NEW n \in 1..use.others,
             server' = [server EXCEPT ![i].record = <<"other", n>>, ![i].revision = @ + 1],
             accepted' = accepted \cup {<<"other", n>>}
      PROVE  PageInv'
  <2>1. n \in Nat
    <3>1. use.others \in Nat
      BY PageConstants DEF PageInv, Page!PageTypeOK
    <3> QED
      BY <1>6, <3>1
  <2>2. PICK w \in Page!Texts : w = <<"other", n>>
    BY <2>1 DEF Page!Texts
  <2> DEFINE r == [server[i] EXCEPT !.revision = @ + 1, !.record = w]
  <2>3. r \in [state : Page!STATES, revision : Nat, record : Page!Texts] /\ r.record = w
    BY <1>3, <2>2, StateWritten
  <2>4. server' = [server EXCEPT ![i] = r]
    BY <1>4, <1>6, <2>2
  <2> HIDE DEF r
  <2>5. accepted' = accepted \cup {r.record}
    BY <1>6, <2>2, <2>3
  <2> QED
    BY <1>1, <2>3, <2>4, <2>5, RecordWritten, ServerStep
<1> QED
  BY <1>2, <1>5, <1>6

\* The second after a poll is over: the next one is made.
LEMMA TimerStep == ASSUME PageInv, Page!TimerFires, UNCHANGED use PROVE PageInv'
<1> DEFINE c == Page!Call("poll", session.id)
<1>1. /\ timer /\ timer' = FALSE /\ Page!Make(c)
      /\ UNCHANGED <<server, accepted, analysis, catalog, session, snapshot, form, drafts,
                     busy, blocked, exported, unsaved, overtaken, unwatched, typed>>
  BY DEF Page!TimerFires, Page!serverVars, Page!historyVars, Page!boundVars
<1>2. session # NONE /\ session.id \in Ids
  BY <1>1 DEF PageInv, RecordsAccepted, Page!PageTypeOK, Page!Values
<1>3. c \in Page!PageRequests /\ c.kind = "poll" /\ c.id = session.id /\ c.answer = NONE /\ c.current
  <2>1. "poll" \in Page!KINDS /\ session.id \in Ids \cup {NONE}
    BY <1>2 DEF Page!KINDS
  <2> QED
    BY <2>1, CallShape
<1>4. calls \in AllCalls
  BY AllCallsTyped
<1>5. Placed(calls, calls', c)
  BY <1>1, <1>4, WithPlaces DEF Page!Make
<1> HIDE DEF c
<1>6. /\ calls' \in AllCalls /\ CarriedWith({c})
      /\ \E n \in Slots : /\ calls[n] = NONE /\ calls'[n] = c
                          /\ \A s \in Slots : s # n => calls'[s] = calls[s]
  BY <1>3, <1>4, <1>5, PlacedCarries
<1>7. PICK n \in Slots : calls'[n] = c /\ \A s \in Slots : s # n => calls'[s] = calls[s]
  BY <1>6
<1>8. busy \in BOOLEAN /\ blocked \in BOOLEAN /\ unwatched \in BOOLEAN
  BY DEF PageInv, Page!PageTypeOK
<1>9. ViewKept
  BY <1>1, <1>8 DEF ViewKept
<1>10. /\ Page!PageTypeOK' /\ RecordsAccepted'
       /\ Page!OneAnalysisShown' /\ Page!EvidenceOfShown' /\ Page!ExportIsWhole'
  <2>1. timer' => timer
    BY <1>1
  <2> QED
    BY <1>1, <1>6, <1>9, <2>1, ServerStays, ViewStays
<1>11. CallsTruthful'
  <2>1. Truthful(c)
    BY <1>2, <1>3 DEF Truthful
  <2>2. CallsTruthful /\ accepted \subseteq accepted' /\ \A d \in {c} : Truthful(d)
    BY <1>1, <2>1 DEF PageInv
  <2> QED
    BY <1>4, <1>6, <2>2, TruthfulCarried
<1>12. ExportsFollowed'
  <2>1. /\ ExportsFollowed /\ (~overtaken' => ~overtaken)
        /\ \A d \in {c} : ~overtaken /\ d.kind = "export" => d.text = AnalysisOf[d.id]
    BY <1>1, <1>3 DEF PageInv
  <2> QED
    BY <1>4, <1>6, <2>1, ExportsCarried
<1>13. TextsFollowed'
  <2>1. ~overtaken => \A i \in Ids : Waiting(i) => \A d \in {c} : Spares(d, i)
    BY <1>3 DEF Spares
  <2>2. /\ TextsFollowed /\ (~overtaken' => ~overtaken) /\ accepted \subseteq accepted'
        /\ UNCHANGED <<drafts, unsaved, form, session>>
    BY <1>1 DEF PageInv
  <2> QED
    BY <1>4, <1>6, <2>1, <2>2, TextsStay
<1>14. PollsFollowed'
  <2>1. \A s \in Slots : Watches(calls'[s]) => s = n
    <3>1. \A s \in Slots : ~Watches(calls[s])
      BY <1>1 DEF PageInv, PollsFollowed
    <3> QED
      BY <1>7, <3>1
  <2> QED
    BY <1>1, <1>2, <1>3, <1>7, <2>1 DEF PollsFollowed
<1>15. Watched'
  <2>1. c # NONE
    BY <1>3, PageConstants
  <2> QED
    BY <1>3, <1>7, <2>1 DEF Watched
<1> QED
  BY <1>10, <1>11, <1>12, <1>13, <1>14, <1>15 DEF PageInv

\* A text is typed: it waits unless a request under way will replace it.
LEMMA TypeStep == ASSUME PageInv, Page!Type, UNCHANGED use PROVE PageInv'
<1> DEFINE j == session.id
<1>1. /\ form # NONE /\ typed' = typed + 1 /\ form' = <<"typed", typed + 1>>
      /\ unsaved' = [unsaved EXCEPT ![j] = IF Page!Rendering(j) THEN NONE ELSE form']
      /\ UNCHANGED <<server, accepted, calls, analysis, catalog, session, snapshot, drafts, timer,
                     busy, blocked, exported, overtaken, unwatched>>
  BY DEF Page!Type, Page!serverVars
<1>2. session # NONE /\ j \in Ids
  BY <1>1, FormShown
<1>3. typed' \in Nat /\ form' \in Page!Texts
  <2>1. typed \in Nat
    BY DEF PageInv, Page!PageTypeOK
  <2>2. PICK n \in Nat : n = typed + 1
    BY <2>1
  <2>3. <<"typed", n>> \in Page!Texts
    BY DEF Page!Texts
  <2> QED
    BY <1>1, <2>2, <2>3
<1>4. Page!PageTypeOK'
  <2>1. Page!PageTypeOK
    BY DEF PageInv
  <2>2. unsaved' \in [Ids -> Page!Texts \cup {NONE}]
    BY <1>1, <1>2, <1>3, <2>1 DEF Page!PageTypeOK
  <2> QED
    BY <1>1, <1>3, <2>1, <2>2 DEF Page!PageTypeOK
<1>5. form' # NONE
  BY <1>3, PageConstants
<1>6. /\ RecordsAccepted' /\ Page!OneAnalysisShown' /\ Page!EvidenceOfShown'
      /\ Page!ExportIsWhole'
  BY <1>1, <1>2, <1>5 DEF PageInv, RecordsAccepted, Page!OneAnalysisShown,
     Page!EvidenceOfShown, Page!ExportIsWhole
<1>7. CallsTruthful' /\ ExportsFollowed' /\ PollsFollowed' /\ Watched'
  BY <1>1 DEF PageInv, CallsTruthful, Truthful, ExportsFollowed, PollsFollowed, Watched, Watches
<1>8. TextsFollowed'
  <2>1. ASSUME ~overtaken', NEW i \in Ids, Waiting(i)'
        PROVE  /\ IF session' # NONE /\ session'.id = i THEN unsaved'[i] = form'
                  ELSE unsaved'[i] = drafts'[i]
               /\ \A s \in Slots : calls'[s] # NONE => Spares(calls[s], i)'
    <3>1. unsaved \in [Ids -> Page!Texts \cup {NONE}]
      BY DEF PageInv, Page!PageTypeOK
    <3>2. CASE i = j
      <4>1. ~Page!Rendering(j) /\ unsaved'[i] = form'
        BY <1>1, <1>2, <2>1, <3>1, <3>2 DEF Waiting
      <4>2. \A s \in Slots : calls[s] # NONE =>
              /\ ~(calls[s].kind = "save" /\ calls[s].id = i)
              /\ ~(calls[s].kind \in {"snapshot", "review"} /\ calls[s].current)
        BY <3>2, <4>1 DEF Page!Rendering
      <4> QED
        BY <1>1, <1>2, <3>2, <4>1, <4>2 DEF Spares
    <3>3. CASE i # j
      <4>1. unsaved'[i] = unsaved[i]
        BY <1>1, <3>1, <3>3
      <4>2. Unreplaced(i)
        BY <1>1, <2>1, <4>1 DEF PageInv, TextsFollowed, Waiting
      <4> QED
        BY <1>1, <3>3, <4>1, <4>2 DEF Unreplaced, Spares
    <3> QED
      BY <3>2, <3>3
  <2> QED
    BY <2>1, TextsPlaced
<1> QED
  BY <1>4, <1>6, <1>7, <1>8 DEF PageInv

\* The observations of an analysis have come.
LEMMA EvidenceAnsweredStep ==
  ASSUME PageInv, NEW s \in Slots, Page!EvidenceAnswered(s), OnPage PROVE PageInv'
<1>1. /\ Page!Answer(s, "evidence") /\ calls' = Page!Done(s)
      /\ UNCHANGED <<analysis, session, snapshot, form, drafts, timer, unsaved, overtaken,
                     unwatched, busy, blocked, exported>>
      /\ catalog' = IF ~Page!Failed(s) /\ analysis = calls[s].text THEN calls[s].answer
                    ELSE catalog
  BY DEF Page!EvidenceAnswered, Page!historyVars
<1>2. UNCHANGED <<use, server, accepted, typed>>
  BY OnPageKeeps
<1>3. calls[s] # NONE /\ calls[s].kind = "evidence"
  BY <1>1 DEF Page!Answer
<1>4. /\ calls' \in AllCalls /\ CallsTruthful' /\ ExportsFollowed' /\ TextsFollowed'
      /\ PollsFollowed' /\ Watched'
  BY <1>1, <1>2, <1>3, DoneStays
<1>5. catalog' = catalog \/ catalog' = analysis
  <2>1. CASE ~Page!Failed(s) /\ analysis = calls[s].text
    <3>1. Truthful(calls[s]) /\ calls[s].answer # NONE /\ calls[s].kind = "evidence"
      BY <1>1, <2>1, AnswerTold
    <3>2. calls[s].answer = calls[s].text
      BY <3>1 DEF Truthful
    <3> QED
      BY <1>1, <2>1, <3>2
  <2>2. CASE ~(~Page!Failed(s) /\ analysis = calls[s].text)
    BY <1>1, <2>2
  <2> QED
    BY <2>1, <2>2
<1>6. Page!PageTypeOK' /\ Page!EvidenceOfShown'
  BY <1>1, <1>2, <1>4, <1>5 DEF PageInv, Page!PageTypeOK, Page!EvidenceOfShown, AllCalls
<1>7. RecordsAccepted' /\ Page!OneAnalysisShown' /\ Page!ExportIsWhole'
  BY <1>1, <1>2 DEF PageInv, RecordsAccepted, Page!OneAnalysisShown, Page!ExportIsWhole
<1> QED
  BY <1>4, <1>6, <1>7 DEF PageInv

\* What is to be exported has come: it is written if it is what is on the screen.
LEMMA ExportAnsweredStep ==
  ASSUME PageInv, NEW s \in Slots, Page!ExportAnswered(s), OnPage PROVE PageInv'
<1>1. /\ Page!Answer(s, "export") /\ calls' = Page!Done(s)
      /\ UNCHANGED <<analysis, catalog, session, snapshot, form, drafts, timer, unsaved, overtaken,
                     unwatched, busy, blocked>>
  BY DEF Page!ExportAnswered, Page!Ignored, Page!shownVars, Page!historyVars
<1>2. \/ exported' = exported
      \/ /\ ~Page!Failed(s)
         /\ exported' = [id |-> calls[s].answer.id, record |-> calls[s].answer.record,
                         snapshot |-> calls[s].text]
  BY DEF Page!ExportAnswered
<1>3. UNCHANGED <<use, server, accepted, typed>>
  BY OnPageKeeps
<1>4. calls[s] # NONE /\ calls[s].kind = "export"
  BY <1>1 DEF Page!Answer
<1>5. /\ calls' \in AllCalls /\ CallsTruthful' /\ ExportsFollowed' /\ TextsFollowed'
      /\ PollsFollowed' /\ Watched'
  BY <1>1, <1>3, <1>4, DoneStays
<1>6. Page!ExportIsWhole'
  <2>1. CASE exported' = exported
    BY <1>1, <2>1 DEF PageInv, Page!ExportIsWhole
  <2>2. CASE /\ ~Page!Failed(s)
             /\ exported' = [id |-> calls[s].answer.id, record |-> calls[s].answer.record,
                             snapshot |-> calls[s].text]
    <3>1. Truthful(calls[s]) /\ calls[s].answer # NONE /\ calls[s].kind = "export"
      BY <1>1, <2>2, AnswerTold
    <3>2. calls[s].answer.id = calls[s].id
      BY <3>1 DEF Truthful, Answering
    <3>3. ~overtaken => calls[s].text = AnalysisOf[calls[s].id]
      BY <1>4 DEF PageInv, ExportsFollowed
    <3>4. exported'.id = calls[s].id /\ exported'.snapshot = calls[s].text
      BY <2>2, <3>2
    <3> QED
      BY <1>1, <3>3, <3>4 DEF Page!ExportIsWhole
  <2> QED
    BY <1>2, <2>1, <2>2
<1>7. Page!PageTypeOK'
  BY <1>1, <1>3, <1>5 DEF PageInv, Page!PageTypeOK, AllCalls
<1>8. RecordsAccepted' /\ Page!OneAnalysisShown' /\ Page!EvidenceOfShown'
  BY <1>1, <1>3 DEF PageInv, RecordsAccepted, Page!OneAnalysisShown, Page!EvidenceOfShown
<1> QED
  BY <1>5, <1>6, <1>7, <1>8 DEF PageInv

\* An answer that becomes the session: all but the texts.
LEMMA BecomesStays ==
  ASSUME PageInv, NEW s \in Slots, NEW v \in Page!Values, v.record \in accepted,
         Page!Becomes(v), calls' = Page!Done(s), OnPage,
         calls[s].kind \notin {"poll", "start", "snapshot"},
         UNCHANGED <<analysis, catalog, snapshot, timer, unsaved, unwatched, exported, busy>>,
         blocked' \in BOOLEAN, drafts' \in [Ids -> Page!Texts \cup {NONE}],
         form' = form \/ form' \in Page!Texts
  PROVE  /\ Page!PageTypeOK' /\ CallsTruthful' /\ RecordsAccepted'
         /\ Page!OneAnalysisShown' /\ Page!EvidenceOfShown' /\ Page!ExportIsWhole'
         /\ ExportsFollowed' /\ PollsFollowed' /\ Watched'
<1>1. UNCHANGED <<use, server, accepted, typed>>
  BY OnPageKeeps
<1>2. /\ session' = v /\ v # NONE /\ overtaken' \in BOOLEAN
      /\ ~overtaken' => /\ ~overtaken /\ session # NONE /\ session.id = v.id
                        /\ v.state \in Page!ACTIVE => session.state \in Page!ACTIVE
  <2>1. overtaken \in BOOLEAN
    BY DEF PageInv, Page!PageTypeOK
  <2> QED
    BY <2>1, PageConstants DEF Page!Becomes
<1>3. /\ calls' \in AllCalls /\ calls'[s] = NONE
      /\ \A t \in Slots : t # s => calls'[t] = calls[t]
  BY DoneCarries
<1>4. CallsTruthful' /\ ExportsFollowed'
  BY <1>1, <1>2, DoneTruthful
<1>5. Page!PageTypeOK'
  <2>1. Page!PageTypeOK
    BY DEF PageInv
  <2>2. form' \in Page!Texts \cup {NONE}
    BY <2>1 DEF Page!PageTypeOK
  <2>3. session' \in Page!Values \cup {NONE}
    BY <1>2
  <2> QED
    BY <1>1, <1>2, <1>3, <2>1, <2>2, <2>3 DEF Page!PageTypeOK, AllCalls
<1>6. RecordsAccepted'
  BY <1>1, <1>2 DEF PageInv, RecordsAccepted
<1>7. Page!OneAnalysisShown'
  BY <1>2, PageConstants DEF PageInv, Page!OneAnalysisShown
<1>8. Page!EvidenceOfShown' /\ Page!ExportIsWhole'
  BY <1>2 DEF PageInv, Page!EvidenceOfShown, Page!ExportIsWhole
<1>9. PollsFollowed'
  <2>1. \A t \in Slots : Watches(calls'[t]) => calls'[t] = calls[t]
    BY <1>3 DEF Watches
  <2> QED
    BY <1>2, <2>1 DEF PageInv, PollsFollowed
<1>10. Watched'
  <2> SUFFICES ASSUME v.state \in Page!ACTIVE, ~overtaken', ~unwatched, ~timer
               PROVE  \E t \in Slots : /\ calls'[t] # NONE /\ calls'[t].current
                                       /\ calls'[t].kind \in {"poll", "start", "snapshot"}
    BY <1>2 DEF Watched
  <2>1. PICK t \in Slots : /\ calls[t] # NONE /\ calls[t].current
                           /\ calls[t].kind \in {"poll", "start", "snapshot"}
    BY <1>2 DEF PageInv, Watched
  <2>2. t # s
    BY <2>1
  <2> QED
    BY <1>3, <2>1, <2>2
<1> QED
  BY <1>4, <1>5, <1>6, <1>7, <1>8, <1>9, <1>10

\* What a text that waits meets when a request leaves its slot.
LEMMA DoneSpares ==
  ASSUME PageInv, NEW s \in Slots, calls' = Page!Done(s), UNCHANGED accepted,
         ~overtaken' => ~overtaken, NEW i \in Ids, ~overtaken', Waiting(i)', UNCHANGED unsaved,
         drafts[i] = unsaved[i] => drafts'[i] = unsaved[i]
  PROVE  /\ Waiting(i) /\ Unreplaced(i)
         /\ \A t \in Slots : calls'[t] # NONE => Spares(calls[t], i)'
<1>1. calls \in AllCalls /\ CarriedWith({})
  BY AllCallsTyped, DoneCarries
<1>2. /\ TextsFollowed /\ accepted \subseteq accepted' /\ unsaved'[i] = unsaved[i]
      /\ \A c \in {} : Spares(c, i)'
  BY DEF PageInv
<1> QED
  BY <1>1, <1>2, TextsCarried

\* The work on an investigation was cancelled.
LEMMA CancelAnsweredStep ==
  ASSUME PageInv, NEW s \in Slots, Page!CancelAnswered(s), OnPage PROVE PageInv'
<1>1. Page!Answer(s, "cancel") /\ UNCHANGED <<busy, exported>>
  BY DEF Page!CancelAnswered
<1>2. CASE Page!Failed(s)
  <2>1. Page!Ignored(s) /\ UNCHANGED blocked /\ calls[s].kind = "cancel"
    BY <1>1, <1>2 DEF Page!CancelAnswered, Page!Answer
  <2>2. calls' = Page!Done(s) /\ ViewKept /\ UNCHANGED <<server, accepted, timer, unwatched>>
    BY <1>1, <2>1, IgnoredView DEF OnPage
  <2> QED
    BY <2>1, <2>2, IgnoredStep
<1>3. CASE ~Page!Failed(s)
  <2> DEFINE v == calls[s].answer
  <2>1. /\ Page!Becomes(v) /\ calls' = Page!Done(s) /\ blocked' = FALSE
        /\ UNCHANGED <<analysis, catalog, snapshot, form, drafts, timer, unsaved, unwatched>>
    BY <1>3 DEF Page!CancelAnswered
  <2>2. Truthful(calls[s]) /\ v # NONE /\ calls[s].kind = "cancel"
    BY <1>1, <1>3, AnswerTold
  <2>3. v \in Page!Values /\ v.record \in accepted
    BY <2>2 DEF Truthful, Answering
  <2> HIDE DEF v
  <2>4. drafts' \in [Ids -> Page!Texts \cup {NONE}]
    BY <2>1 DEF PageInv, Page!PageTypeOK
  <2>5. /\ Page!PageTypeOK' /\ CallsTruthful' /\ RecordsAccepted'
        /\ Page!OneAnalysisShown' /\ Page!EvidenceOfShown' /\ Page!ExportIsWhole'
        /\ ExportsFollowed' /\ PollsFollowed' /\ Watched'
    BY <1>1, <2>1, <2>2, <2>3, <2>4, BecomesStays
  <2>6. TextsFollowed'
    <3>1. ASSUME ~overtaken', NEW i \in Ids, Waiting(i)'
          PROVE  /\ IF session' # NONE /\ session'.id = i THEN unsaved'[i] = form'
                    ELSE unsaved'[i] = drafts'[i]
                 /\ \A t \in Slots : calls'[t] # NONE => Spares(calls[t], i)'
      <4>1. ~overtaken /\ session # NONE /\ session' # NONE /\ session'.id = session.id
        BY <2>1, <2>3, <3>1, PageConstants DEF Page!Becomes
      <4>2. UNCHANGED accepted
        BY OnPageKeeps
      <4>3. Unreplaced(i) /\ \A t \in Slots : calls'[t] # NONE => Spares(calls[t], i)'
        BY <2>1, <3>1, <4>1, <4>2, DoneSpares
      <4> QED
        BY <2>1, <4>1, <4>3 DEF Unreplaced
    <3> QED
      BY <3>1, TextsPlaced
  <2> QED
    BY <2>5, <2>6 DEF PageInv
<1> QED
  BY <1>2, <1>3

\* What fills the fields for a record is a text.
LEMMA RenderedText ==
  ASSUME NEW v \in Page!Values, NEW ds \in [Ids -> Page!Texts \cup {NONE}],
         Page!RenderRecord(v, ds)
  PROVE  form' \in Page!Texts /\ (ds[v.id] # NONE => form' = ds[v.id])
<1>1. v.id \in Ids /\ v.record \in Page!Texts
  BY DEF Page!Values
<1> QED
  BY <1>1 DEF Page!RenderRecord

\* A review was taken, or came too late to be shown.
LEMMA ReviewAnsweredStep ==
  ASSUME PageInv, NEW s \in Slots, Page!ReviewAnswered(s), OnPage PROVE PageInv'
<1>1. Page!Answer(s, "review") /\ UNCHANGED <<busy, blocked, exported>>
  BY DEF Page!ReviewAnswered
<1>2. CASE Page!Ignored(s)
  <2>1. calls[s].kind = "review"
    BY <1>1 DEF Page!Answer
  <2>2. calls' = Page!Done(s) /\ ViewKept /\ UNCHANGED <<server, accepted, timer, unwatched>>
    BY <1>1, <1>2, IgnoredView DEF OnPage
  <2> QED
    BY <2>1, <2>2, IgnoredStep
<1>3. CASE ~(Page!Failed(s) \/ ~Page!Applies(s))
  <2> DEFINE v == calls[s].answer
  <2>1. /\ Page!Becomes(v) /\ Page!RenderRecord(v, drafts) /\ calls' = Page!Done(s)
        /\ UNCHANGED <<analysis, catalog, snapshot, drafts, timer, unsaved, unwatched>>
        /\ ~Page!Failed(s) /\ Page!Applies(s)
    BY <1>3 DEF Page!ReviewAnswered
  <2>2. Truthful(calls[s]) /\ v # NONE /\ calls[s].kind = "review" /\ calls[s] # NONE
    BY <1>1, <2>1, AnswerTold
  <2>3. v \in Page!Values /\ v.record \in accepted /\ v.id = calls[s].id
    BY <2>2 DEF Truthful, Answering
  <2> HIDE DEF v
  <2>4. drafts \in [Ids -> Page!Texts \cup {NONE}] /\ blocked' \in BOOLEAN
    BY <1>1 DEF PageInv, Page!PageTypeOK
  <2>5. form' \in Page!Texts
    BY <2>1, <2>3, <2>4, RenderedText
  <2>6. /\ Page!PageTypeOK' /\ CallsTruthful' /\ RecordsAccepted'
        /\ Page!OneAnalysisShown' /\ Page!EvidenceOfShown' /\ Page!ExportIsWhole'
        /\ ExportsFollowed' /\ PollsFollowed' /\ Watched'
    BY <1>1, <2>1, <2>2, <2>3, <2>4, <2>5, BecomesStays
  <2>7. TextsFollowed'
    <3>1. ASSUME ~overtaken', NEW i \in Ids, Waiting(i)'
          PROVE  /\ IF session' # NONE /\ session'.id = i THEN unsaved'[i] = form'
                    ELSE unsaved'[i] = drafts'[i]
                 /\ \A t \in Slots : calls'[t] # NONE => Spares(calls[t], i)'
      <4>1. /\ ~overtaken /\ session # NONE /\ session' = v /\ session.id = v.id
        BY <2>1, <3>1 DEF Page!Becomes
      <4>2. UNCHANGED accepted
        BY OnPageKeeps
      <4>3. Unreplaced(i) /\ \A t \in Slots : calls'[t] # NONE => Spares(calls[t], i)'
        BY <2>1, <3>1, <4>1, <4>2, DoneSpares
      <4>4. v.id # i
        BY <2>1, <2>2, <2>3, <4>3 DEF Unreplaced, Page!Applies
      <4>5. unsaved[i] = drafts[i]
        BY <4>1, <4>3, <4>4 DEF Unreplaced
      <4> QED
        BY <2>1, <4>1, <4>3, <4>4, <4>5
    <3> QED
      BY <3>1, TextsPlaced
  <2> QED
    BY <2>6, <2>7 DEF PageInv
<1> QED
  BY <1>2, <1>3 DEF Page!ReviewAnswered

\* A text was saved, or refused; it may be another investigation's by now.
LEMMA SaveAnsweredStep ==
  ASSUME PageInv, NEW s \in Slots, Page!SaveAnswered(s), OnPage PROVE PageInv'
<1>1. Page!Answer(s, "save") /\ UNCHANGED <<busy, blocked, exported>>
  BY DEF Page!SaveAnswered
<1>2. CASE Page!Failed(s)
  <2>1. Page!Ignored(s) /\ calls[s].kind = "save"
    BY <1>1, <1>2 DEF Page!SaveAnswered, Page!Answer
  <2>2. calls' = Page!Done(s) /\ ViewKept /\ UNCHANGED <<server, accepted, timer, unwatched>>
    BY <1>1, <2>1, IgnoredView DEF OnPage
  <2> QED
    BY <2>1, <2>2, IgnoredStep
<1>3. CASE ~Page!Failed(s)
  <2> DEFINE c == calls[s]
             v == c.answer
             kept == [drafts EXCEPT ![c.id] = NONE]
  <2>1. /\ drafts' = kept /\ calls' = Page!Done(s)
        /\ IF Page!Applies(s) THEN Page!Becomes(v) /\ Page!RenderRecord(v, kept)
           ELSE UNCHANGED <<session, form, overtaken>>
        /\ UNCHANGED <<analysis, catalog, snapshot, timer, unsaved, unwatched>>
    BY <1>3 DEF Page!SaveAnswered
  <2>2. Truthful(c) /\ v # NONE /\ c.kind = "save" /\ c # NONE
    BY <1>1, <1>3, AnswerTold
  <2>3. /\ v \in Page!Values /\ v.record \in accepted /\ v.id = c.id /\ c.id \in Ids
        /\ c.text \in accepted
    BY <2>2 DEF Truthful, Answering
  <2> HIDE DEF v
  <2>4. /\ drafts \in [Ids -> Page!Texts \cup {NONE}] /\ blocked' \in BOOLEAN
        /\ kept \in [Ids -> Page!Texts \cup {NONE}]
        /\ \A i \in Ids : i # c.id => kept[i] = drafts[i]
    BY <1>1, <2>3 DEF PageInv, Page!PageTypeOK
  <2>5. /\ UNCHANGED <<use, server, accepted, typed>>
    BY OnPageKeeps
  <2>6. ASSUME ~overtaken, NEW i \in Ids, Waiting(i) PROVE i # c.id
    BY <2>2, <2>3, <2>6 DEF PageInv, TextsFollowed, Unreplaced, Waiting
  <2> HIDE DEF kept
  <2>7. CASE Page!Applies(s)
    <3>1. Page!Becomes(v) /\ Page!RenderRecord(v, kept)
      BY <2>1, <2>7
    <3>2. form' \in Page!Texts
      BY <2>3, <2>4, <3>1, RenderedText
    <3>3. /\ Page!PageTypeOK' /\ CallsTruthful' /\ RecordsAccepted'
          /\ Page!OneAnalysisShown' /\ Page!EvidenceOfShown' /\ Page!ExportIsWhole'
          /\ ExportsFollowed' /\ PollsFollowed' /\ Watched'
      <4>1. calls[s].kind \notin {"poll", "start", "snapshot"}
        BY <2>2
      <4> QED
        BY <1>1, <2>1, <2>3, <2>4, <3>1, <3>2, <4>1, BecomesStays
    <3>4. TextsFollowed'
      <4>1. ASSUME ~overtaken', NEW i \in Ids, Waiting(i)'
            PROVE  /\ IF session' # NONE /\ session'.id = i THEN unsaved'[i] = form'
                      ELSE unsaved'[i] = drafts'[i]
                   /\ \A t \in Slots : calls'[t] # NONE => Spares(calls[t], i)'
        <5>1. /\ ~overtaken /\ session # NONE /\ session' = v /\ session.id = v.id
          BY <3>1, <4>1 DEF Page!Becomes
        <5>2. Waiting(i)
          BY <2>1, <2>5, <4>1 DEF Waiting
        <5>3. i # c.id
          BY <2>6, <5>1, <5>2
        <5>4. drafts[i] = unsaved[i] => drafts'[i] = unsaved[i]
          BY <2>1, <2>4, <5>3
        <5>5. Unreplaced(i) /\ \A t \in Slots : calls'[t] # NONE => Spares(calls[t], i)'
          BY <2>1, <2>5, <4>1, <5>1, <5>4, DoneSpares
        <5>6. unsaved[i] = drafts[i]
          BY <2>3, <5>1, <5>3, <5>5 DEF Unreplaced
        <5> QED
          BY <2>1, <2>3, <5>1, <5>3, <5>4, <5>5, <5>6
      <4> QED
        BY <4>1, TextsPlaced
    <3> QED
      BY <3>3, <3>4 DEF PageInv
  <2>8. CASE ~Page!Applies(s)
    <3>1. UNCHANGED <<session, form, overtaken>>
      BY <2>1, <2>8
    <3>2. /\ calls' \in AllCalls /\ calls'[s] = NONE
          /\ \A t \in Slots : t # s => calls'[t] = calls[t]
      BY <2>1, DoneCarries
    <3>3. CallsTruthful' /\ ExportsFollowed'
      BY <2>1, <2>5, <3>1, DoneTruthful
    <3>4. Page!PageTypeOK'
      BY <1>1, <2>1, <2>4, <2>5, <3>1, <3>2 DEF PageInv, Page!PageTypeOK, AllCalls
    <3>5. /\ RecordsAccepted' /\ Page!OneAnalysisShown' /\ Page!EvidenceOfShown'
          /\ Page!ExportIsWhole'
      BY <1>1, <2>1, <2>5, <3>1 DEF PageInv, RecordsAccepted, Page!OneAnalysisShown,
         Page!EvidenceOfShown, Page!ExportIsWhole
    <3>6. PollsFollowed'
      <4>1. \A t \in Slots : Watches(calls'[t]) => calls'[t] = calls[t]
        BY <3>2 DEF Watches
      <4> QED
        BY <2>1, <3>1, <4>1 DEF PageInv, PollsFollowed
    <3>7. Watched'
      <4>1. \A t \in Slots : calls[t].kind \in {"poll", "start", "snapshot"} =>
              calls'[t] = calls[t]
        BY <2>2, <3>2
      <4> QED
        BY <2>1, <3>1, <4>1 DEF PageInv, Watched
    <3>8. TextsFollowed'
      <4>1. ASSUME ~overtaken', NEW i \in Ids, Waiting(i)'
            PROVE  /\ IF session' # NONE /\ session'.id = i THEN unsaved'[i] = form'
                      ELSE unsaved'[i] = drafts'[i]
                   /\ \A t \in Slots : calls'[t] # NONE => Spares(calls[t], i)'
        <5>1. ~overtaken /\ Waiting(i)
          BY <2>1, <2>5, <3>1, <4>1 DEF Waiting
        <5>2. drafts'[i] = drafts[i]
          BY <2>1, <2>4, <2>6, <5>1
        <5>3. Unreplaced(i) /\ \A t \in Slots : calls'[t] # NONE => Spares(calls[t], i)'
          BY <2>1, <2>5, <4>1, <5>1, <5>2, DoneSpares
        <5> QED
          BY <2>1, <3>1, <5>2, <5>3 DEF Unreplaced
      <4> QED
        BY <4>1, TextsPlaced
    <3> QED
      BY <3>3, <3>4, <3>5, <3>6, <3>7, <3>8 DEF PageInv
  <2> QED
    BY <2>7, <2>8
<1> QED
  BY <1>2, <1>3 DEF Page!SaveAnswered

\* A poll has come: what is open is brought up to date and is polled again, or the
\* poll was of what is no longer open.
LEMMA PollAnsweredStep ==
  ASSUME PageInv, NEW s \in Slots, Page!PollAnswered(s), OnPage PROVE PageInv'
<1>1. Page!Answer(s, "poll") /\ UNCHANGED <<busy, exported>>
  BY DEF Page!PollAnswered
<1>2. calls[s] # NONE /\ calls[s] \in Page!PageRequests /\ calls[s].kind = "poll"
  BY <1>1, AllCallsTyped DEF Page!Answer, AllCalls
<1>3. UNCHANGED <<use, server, accepted, typed>>
  BY OnPageKeeps
<1>4. CASE Page!Failed(s)
  <2>1. /\ calls' = Page!Done(s) /\ unwatched' = (unwatched \/ calls[s].current)
        /\ UNCHANGED <<analysis, catalog, session, snapshot, form, drafts, timer, blocked,
                       unsaved, overtaken>>
    BY <1>4 DEF Page!PollAnswered, Page!shownVars
  <2>2. busy \in BOOLEAN /\ timer \in BOOLEAN /\ unwatched \in BOOLEAN /\ blocked \in BOOLEAN
    BY DEF PageInv, Page!PageTypeOK
  <2>3. unwatched' \in BOOLEAN
    BY <1>2, <2>1, <2>2 DEF Page!PageRequests
  <2>4. ViewKept
    BY <1>1, <1>3, <2>1, <2>2, <2>3 DEF ViewKept
  <2> QED
    BY <1>3, <2>1, <2>4, IgnoredStep
<1>5. CASE ~Page!Failed(s) /\ ~Page!Applies(s)
  <2>1. Page!Ignored(s) /\ UNCHANGED blocked
    BY <1>5 DEF Page!PollAnswered
  <2>2. calls' = Page!Done(s) /\ ViewKept /\ UNCHANGED <<server, accepted, timer, unwatched>>
    BY <1>1, <2>1, IgnoredView DEF OnPage
  <2>3. calls[s].current => overtaken
    BY <1>2, <1>5 DEF Page!Applies, PageInv, PollsFollowed, Watches
  <2> QED
    BY <2>2, <2>3, IgnoredStep
<1>6. CASE ~Page!Failed(s) /\ Page!Applies(s)
  <2> DEFINE v == calls[s].answer
  <2>1. /\ session' = Page!Merged(v) /\ timer' = (v.state \in Page!ACTIVE)
        /\ calls' = Page!Done(s) /\ blocked' = FALSE
        /\ UNCHANGED <<analysis, catalog, snapshot, form, drafts, unsaved, overtaken, unwatched>>
    BY <1>6 DEF Page!PollAnswered, Page!historyVars
  <2>2. Truthful(calls[s]) /\ v # NONE
    BY <1>1, <1>6, AnswerTold
  <2>3. v \in Page!Values /\ v.record \in accepted /\ v.id = calls[s].id
    BY <1>2, <2>2 DEF Truthful, Answering
  <2>4. calls[s].current /\ session # NONE /\ session.id = calls[s].id
    BY <1>6 DEF Page!Applies
  <2>5. session \in Page!Values /\ session.record \in accepted
    BY <2>4 DEF PageInv, Page!PageTypeOK, RecordsAccepted
  <2> HIDE DEF v
  <2>6. /\ session' \in Page!Values /\ session'.id = v.id /\ session'.state = v.state
        /\ session'.record \in accepted
    <3>1. CASE v.revision < session.revision
      <4>1. session' = [v EXCEPT !.record = session.record, !.revision = session.revision]
        BY <2>1, <3>1 DEF Page!Merged
      <4> QED
        BY <2>3, <2>5, <4>1 DEF Page!Values
    <3>2. CASE ~(v.revision < session.revision)
      <4>1. session' = v
        BY <2>1, <3>2 DEF Page!Merged
      <4> QED
        BY <2>3, <4>1
    <3> QED
      BY <3>1, <3>2
  <2>7. session' # NONE /\ session'.id = session.id
    BY <2>3, <2>4, <2>6, PageConstants
  <2>8. /\ calls \in AllCalls /\ calls' \in AllCalls /\ CarriedWith({}) /\ calls'[s] = NONE
        /\ \A t \in Slots : t # s => calls'[t] = calls[t]
    BY <2>1, AllCallsTyped, DoneCarries
  <2>9. CallsTruthful' /\ ExportsFollowed'
    BY <1>3, <2>1, DoneTruthful
  <2>10. Page!PageTypeOK'
    <3>1. Page!PageTypeOK
      BY DEF PageInv
    <3>2. timer' \in BOOLEAN /\ session' \in Page!Values \cup {NONE}
      BY <2>1, <2>6
    <3> QED
      BY <1>1, <1>3, <2>1, <2>8, <3>1, <3>2 DEF Page!PageTypeOK, AllCalls
  <2>11. RecordsAccepted'
    BY <1>3, <2>1, <2>6, <2>7 DEF PageInv, RecordsAccepted
  <2>12. Page!OneAnalysisShown' /\ Page!EvidenceOfShown' /\ Page!ExportIsWhole'
    BY <1>1, <2>1, <2>4, <2>7 DEF PageInv, Page!OneAnalysisShown, Page!EvidenceOfShown,
       Page!ExportIsWhole
  <2>13. TextsFollowed'
    <3>1. /\ TextsFollowed /\ accepted \subseteq accepted' /\ (~overtaken' => ~overtaken)
          /\ ~overtaken => \A i \in Ids : Waiting(i) => \A c \in {} : Spares(c, i)
      BY <1>3, <2>1 DEF PageInv
    <3> QED
      BY <2>1, <2>4, <2>7, <2>8, <3>1, TextsStay
  <2>14. PollsFollowed'
    <3>1. Watches(calls[s])
      BY <1>2, <2>4 DEF Watches
    <3>2. \A t \in Slots : ~Watches(calls'[t])
      BY <2>8, <3>1 DEF PageInv, PollsFollowed, Watches
    <3> QED
      BY <3>2 DEF PollsFollowed
  <2>15. Watched'
    BY <2>1, <2>6 DEF Watched
  <2> QED
    BY <2>9, <2>10, <2>11, <2>12, <2>13, <2>14, <2>15 DEF PageInv
<1> QED
  BY <1>4, <1>5, <1>6

\* The requests once a snapshot is there: the evidence of it is asked for, and a
\* first poll where there is something to watch.
LEMMA SnapshotCalls ==
  ASSUME PageInv, NEW s \in Slots, NEW a \in Analyses, NEW i \in Ids, NEW active \in BOOLEAN,
         active => Page!HasRoom(Page!With(Page!Done(s), Page!Evidence(a))),
         calls' = IF active THEN Page!With(Page!With(Page!Done(s), Page!Evidence(a)),
                                           Page!Call("poll", i))
                  ELSE Page!With(Page!Done(s), Page!Evidence(a))
  PROVE  /\ calls' \in AllCalls /\ CarriedWith({Page!Evidence(a), Page!Call("poll", i)})
         /\ active => \E n \in Slots : /\ calls'[n] = Page!Call("poll", i)
                         /\ \A t \in Slots : t # n => \/ t # s /\ calls'[t] = calls[t]
                                                      \/ calls'[t] = Page!Evidence(a)
                                                      \/ calls'[t] = NONE
         /\ ~active => \A t \in Slots : \/ t # s /\ calls'[t] = calls[t]
                                        \/ calls'[t] = Page!Evidence(a)
                                        \/ calls'[t] = NONE
<1> DEFINE e == Page!Evidence(a)
           p == Page!Call("poll", i)
           shown == Page!With(Page!Done(s), e)
<1>1. /\ calls \in AllCalls /\ Page!Done(s) \in AllCalls /\ Page!HasRoom(Page!Done(s))
      /\ \A t \in Slots : Page!Done(s)[t] = IF t = s THEN NONE ELSE calls[t]
  BY AllCallsTyped, DoneShape
<1>2. e \in Page!PageRequests
  BY EvidenceShape
<1>3. p \in Page!PageRequests
  BY CallShape DEF Page!KINDS
<1>4. calls' = IF active THEN Page!With(shown, p) ELSE shown
  OBVIOUS
<1>5. active => Page!HasRoom(shown)
  OBVIOUS
<1>6. Placed(Page!Done(s), shown, e)
  BY <1>1, WithPlaces
<1> HIDE DEF shown, e, p
<1>7. shown \in AllCalls
  BY <1>1, <1>2, <1>6, PlacedTyped
<1>8. \A t \in Slots : shown[t] = e \/ shown[t] = Page!Done(s)[t]
  BY <1>1, <1>6 DEF Placed, AllCalls
<1>9. \A t \in Slots : \/ t # s /\ shown[t] = calls[t]
                       \/ shown[t] = e
                       \/ shown[t] = NONE
  BY <1>1, <1>8
<1>10. CASE ~active
  BY <1>4, <1>7, <1>9, <1>10 DEF CarriedWith, e, p
<1>11. CASE active
  <2>1. Placed(shown, calls', p)
    BY <1>4, <1>5, <1>7, <1>11, WithPlaces
  <2>2. calls' \in AllCalls
    BY <1>3, <1>7, <2>1, PlacedTyped
  <2>3. PICK n \in Slots : calls'[n] = p /\ \A t \in Slots : t # n => calls'[t] = shown[t]
    BY <1>7, <2>1 DEF Placed, AllCalls
  <2>4. CarriedWith({e, p})
    BY <1>9, <2>3 DEF CarriedWith
  <2>5. \A t \in Slots : t # n => \/ t # s /\ calls'[t] = calls[t]
                                  \/ calls'[t] = e
                                  \/ calls'[t] = NONE
    BY <1>9, <2>3
  <2> QED
    BY <1>11, <2>2, <2>3, <2>4, <2>5 DEF e, p
<1> QED
  BY <1>10, <1>11

\* The snapshot of what was chosen is there: it is open now, with what was typed
\* before in its fields, and is watched if there is something to wait for.
LEMMA SnapshotAnsweredStep ==
  ASSUME PageInv, NEW s \in Slots, Page!SnapshotAnswered(s), OnPage PROVE PageInv'
<1>1. Page!Answer(s, "snapshot") /\ UNCHANGED <<busy, exported>>
  BY DEF Page!SnapshotAnswered
<1>2. calls[s] # NONE /\ calls[s] \in Page!PageRequests /\ calls[s].kind = "snapshot"
  BY <1>1, AllCallsTyped DEF Page!Answer, AllCalls
<1>3. UNCHANGED <<use, server, accepted, typed>>
  BY OnPageKeeps
<1>4. CASE ~(~Page!Failed(s) /\ calls[s].current)
  <2>1. /\ calls' = Page!Done(s) /\ blocked' = (blocked /\ ~calls[s].starting)
        /\ unwatched' = (unwatched \/ calls[s].current)
        /\ UNCHANGED <<analysis, catalog, session, snapshot, form, drafts, timer,
                       unsaved, overtaken>>
    BY <1>4 DEF Page!SnapshotAnswered, Page!shownVars
  <2>2. busy \in BOOLEAN /\ timer \in BOOLEAN /\ unwatched \in BOOLEAN /\ blocked \in BOOLEAN
    BY DEF PageInv, Page!PageTypeOK
  <2>3. unwatched' \in BOOLEAN /\ blocked' \in BOOLEAN
    BY <1>2, <2>1, <2>2 DEF Page!PageRequests
  <2>4. ViewKept
    BY <1>1, <1>3, <2>1, <2>2, <2>3 DEF ViewKept
  <2> QED
    BY <1>3, <2>1, <2>4, IgnoredStep
<1>5. CASE ~Page!Failed(s) /\ calls[s].current
  <2> DEFINE v == calls[s].value
             a == calls[s].answer
             active == v.state \in Page!ACTIVE
             e == Page!Evidence(a)
             p == Page!Call("poll", v.id)
  <2>1. /\ active => Page!HasRoom(Page!With(Page!Done(s), e))
        /\ snapshot' = a /\ analysis' = a /\ catalog' = NONE
        /\ session' = v /\ Page!RenderRecord(v, drafts) /\ blocked' = FALSE
        /\ calls' = IF active THEN Page!With(Page!With(Page!Done(s), e), p)
                    ELSE Page!With(Page!Done(s), e)
        /\ unwatched' = FALSE /\ UNCHANGED <<drafts, timer, unsaved, overtaken>>
    BY <1>5 DEF Page!SnapshotAnswered
  <2>2. Truthful(calls[s]) /\ a # NONE
    BY <1>1, <1>5, AnswerTold
  <2>3. /\ v \in Page!Values /\ v.record \in accepted /\ v.id = calls[s].id /\ v.id \in Ids
        /\ a = AnalysisOf[v.id] /\ a \in Analyses
    BY <1>2, <2>2, PageConstants DEF Truthful
  <2>4. drafts \in [Ids -> Page!Texts \cup {NONE}]
    BY DEF PageInv, Page!PageTypeOK
  <2> HIDE DEF v, a
  <2>5. form' \in Page!Texts /\ (drafts[v.id] # NONE => form' = drafts[v.id])
    BY <2>1, <2>3, <2>4, RenderedText
  <2>6. active \in BOOLEAN
    OBVIOUS
  <2> HIDE DEF active
  <2>7. /\ calls' \in AllCalls /\ CarriedWith({e, p})
        /\ active => \E n \in Slots : /\ calls'[n] = p
                        /\ \A t \in Slots : t # n => \/ t # s /\ calls'[t] = calls[t]
                                                     \/ calls'[t] = e
                                                     \/ calls'[t] = NONE
        /\ ~active => \A t \in Slots : \/ t # s /\ calls'[t] = calls[t]
                                       \/ calls'[t] = e
                                       \/ calls'[t] = NONE
    BY <2>1, <2>3, <2>6, SnapshotCalls
  <2>8. /\ e \in Page!PageRequests /\ e.kind = "evidence" /\ e.text = a /\ e.answer = NONE
    BY <2>3, EvidenceShape
  <2>9. /\ p \in Page!PageRequests /\ p.kind = "poll" /\ p.id = v.id /\ p.answer = NONE
        /\ p.current = TRUE
    <3>1. "poll" \in Page!KINDS /\ v.id \in Ids \cup {NONE}
      BY <2>3 DEF Page!KINDS
    <3> QED
      BY <3>1, CallShape
  <2> HIDE DEF e, p
  <2>10. calls \in AllCalls /\ v # NONE
    BY <2>3, AllCallsTyped, PageConstants
  <2>11. Page!PageTypeOK'
    <3>1. Page!PageTypeOK
      BY DEF PageInv
    <3>2. session' \in Page!Values \cup {NONE} /\ form' \in Page!Texts \cup {NONE}
      BY <2>1, <2>3, <2>5
    <3> QED
      BY <1>1, <1>3, <2>1, <2>3, <2>7, <3>1, <3>2 DEF Page!PageTypeOK, AllCalls
  <2>12. RecordsAccepted'
    BY <1>3, <2>1, <2>3, <2>10 DEF PageInv, RecordsAccepted
  <2>13. Page!OneAnalysisShown' /\ Page!EvidenceOfShown' /\ Page!ExportIsWhole'
    <3>1. form' # NONE
      BY <2>5, PageConstants
    <3> QED
      BY <1>1, <2>1, <2>3, <3>1 DEF PageInv, Page!OneAnalysisShown, Page!EvidenceOfShown,
         Page!ExportIsWhole
  <2>14. CallsTruthful'
    <3>1. Truthful(e) /\ Truthful(p)
      BY <2>3, <2>8, <2>9 DEF Truthful
    <3>2. CallsTruthful /\ accepted \subseteq accepted' /\ \A d \in {e, p} : Truthful(d)
      BY <1>3, <3>1 DEF PageInv
    <3> QED
      BY <2>7, <2>10, <3>2, TruthfulCarried
  <2>15. ExportsFollowed'
    <3>1. /\ ExportsFollowed /\ (~overtaken' => ~overtaken)
          /\ \A d \in {e, p} : ~overtaken /\ d.kind = "export" => d.text = AnalysisOf[d.id]
      BY <2>1, <2>8, <2>9 DEF PageInv
    <3> QED
      BY <2>7, <2>10, <3>1, ExportsCarried
  <2>16. TextsFollowed'
    <3>1. ASSUME ~overtaken', NEW i \in Ids, Waiting(i)'
          PROVE  /\ IF session' # NONE /\ session'.id = i THEN unsaved'[i] = form'
                    ELSE unsaved'[i] = drafts'[i]
                 /\ \A t \in Slots : calls'[t] # NONE => Spares(calls[t], i)'
      <4>1. Waiting(i) /\ ~overtaken /\ unsaved'[i] = unsaved[i] /\ (~overtaken' => ~overtaken)
        BY <1>3, <2>1, <3>1 DEF Waiting
      <4>2. /\ TextsFollowed /\ accepted \subseteq accepted'
            /\ \A d \in {e, p} : Spares(d, i)'
            /\ drafts[i] = unsaved[i] => drafts'[i] = unsaved[i]
        BY <1>3, <2>1, <2>8, <2>9 DEF PageInv, Spares
      <4>3. Unreplaced(i) /\ \A t \in Slots : calls'[t] # NONE => Spares(calls[t], i)'
        BY <2>7, <2>10, <3>1, <4>1, <4>2, TextsCarried
      <4>4. unsaved[i] = drafts[i] /\ unsaved[i] # NONE
        BY <1>2, <1>5, <4>1, <4>3 DEF Unreplaced, Waiting
      <4> QED
        BY <2>1, <2>5, <4>3, <4>4
    <3> QED
      BY <3>1, TextsPlaced
  <2>17. PollsFollowed'
    <3>1. Watches(calls[s])
      BY <1>2, <1>5 DEF Watches
    <3>2. ~timer /\ \A t \in Slots : t # s => ~Watches(calls[t])
      BY <3>1 DEF PageInv, PollsFollowed
    <3>3. ~Watches(e) /\ ~Watches(NONE)
      BY <2>8 DEF Watches
    <3>4. CASE active
      <4>1. PICK n \in Slots : /\ calls'[n] = p
                               /\ \A t \in Slots : t # n => \/ t # s /\ calls'[t] = calls[t]
                                                            \/ calls'[t] = e
                                                            \/ calls'[t] = NONE
        BY <2>7, <3>4
      <4>2. \A t \in Slots : Watches(calls'[t]) => t = n
        BY <3>2, <3>3, <4>1
      <4> QED
        BY <2>1, <2>9, <2>10, <3>2, <4>1, <4>2 DEF PollsFollowed
    <3>5. CASE ~active
      <4>1. \A t \in Slots : ~Watches(calls'[t])
        BY <2>7, <3>2, <3>3, <3>5
      <4> QED
        BY <2>1, <3>2, <4>1 DEF PollsFollowed
    <3> QED
      BY <3>4, <3>5
  <2>18. Watched'
    <3>1. p # NONE
      BY <2>9, PageConstants
    <3>2. session'.state \in Page!ACTIVE => active
      BY <2>1 DEF active
    <3> QED
      BY <2>7, <2>9, <3>1, <3>2 DEF Watched
  <2> QED
    BY <2>11, <2>12, <2>13, <2>14, <2>15, <2>16, <2>17, <2>18 DEF PageInv
<1> QED
  BY <1>4, <1>5

\* An answer reaches the page.
LEMMA AnsweredStep ==
  ASSUME PageInv, NEW s \in Slots, Page!Answered(s), UNCHANGED use PROVE PageInv'
<1>1. OnPage
  BY DEF Page!Answered, OnPage
<1>2. \/ Page!GetAnswered(s) \/ Page!StartAnswered(s) \/ Page!SnapshotAnswered(s)
      \/ Page!PollAnswered(s) \/ Page!SaveAnswered(s) \/ Page!ReviewAnswered(s)
      \/ Page!CancelAnswered(s) \/ Page!ExportAnswered(s) \/ Page!DeleteAnswered(s)
      \/ Page!AnalyzeAnswered(s) \/ Page!EvidenceAnswered(s)
  BY Zenon DEF Page!Answered
<1> QED
  BY <1>1, <1>2, GetAnsweredStep, StartAnsweredStep, SnapshotAnsweredStep, PollAnsweredStep,
     SaveAnsweredStep, ReviewAnsweredStep, CancelAnsweredStep, ExportAnsweredStep,
     DeleteAnsweredStep, AnalyzeAnsweredStep, EvidenceAnsweredStep

\* Every step of the page keeps the invariant, and so does a step of another part.
LEMMA PageStep == ASSUME PageInv, Page!Next \/ UNCHANGED pageVars PROVE PageInv'
<1>1. CASE Page!Next
  <2>1. UNCHANGED use
    BY <1>1 DEF Page!Next
  <2>2. CASE Page!Works
    BY <2>1, <2>2, WorksStep
  <2>3. CASE Page!Type
    BY <2>1, <2>3, TypeStep
  <2>4. CASE Page!Submit
    BY <2>1, <2>4, SubmitStep
  <2>5. CASE Page!Review
    BY <2>1, <2>5, ReviewStep
  <2>6. CASE Page!Export
    BY <2>1, <2>6, ExportStep
  <2>7. CASE Page!Cancel
    BY <2>1, <2>7, CancelStep
  <2>8. CASE Page!Start
    BY <2>1, <2>8, StartStep
  <2>9. CASE Page!Analyze
    BY <2>1, <2>9, AnalyzeStep
  <2>10. CASE Page!ChangeInput
    BY <2>1, <2>10, ChangeInputStep
  <2>11. CASE Page!TimerFires
    BY <2>1, <2>11, TimerStep
  <2>12. CASE \E i \in Ids : Page!Open(i) \/ Page!Delete(i)
    BY <2>1, <2>12, OpenStep, DeleteStep
  <2>13. CASE \E s \in Slots : Page!Handle(s) \/ Page!Fail(s) \/ Page!Answered(s)
    BY <2>1, <2>13, HandleStep, FailStep, AnsweredStep
  <2> QED
    BY <1>1, <2>2, <2>3, <2>4, <2>5, <2>6, <2>7, <2>8, <2>9, <2>10, <2>11, <2>12, <2>13
       DEF Page!Next, Page!Step
<1>2. CASE UNCHANGED pageVars
  <2>1. /\ UNCHANGED <<use, server, calls, analysis, catalog, busy, session, snapshot, form>>
        /\ UNCHANGED <<drafts, timer, blocked, exported, typed, unsaved, accepted, overtaken,
                       unwatched>>
    BY <1>2 DEF pageVars
  <2>2. busy \in BOOLEAN /\ timer \in BOOLEAN /\ unwatched \in BOOLEAN /\ blocked \in BOOLEAN
    BY DEF PageInv, Page!PageTypeOK
  <2>3. ViewKept
    BY <2>1, <2>2 DEF ViewKept
  <2>4. ServerGoesOn
    BY <2>1, ServerStays DEF ServerGoesOn
  <2> QED
    BY <2>1, <2>3, <2>4, ServerStep
<1> QED
  BY <1>1, <1>2

\* Nothing is open, asked for or typed at first.
LEMMA PageStarts == Page!Init => PageInv
<1> SUFFICES ASSUME Page!Init PROVE PageInv
  OBVIOUS
<1>1. <<"first", 0>> \in Page!Texts
  BY DEF Page!Texts
<1>2. PICK w \in Page!Texts : w = <<"first", 0>>
  BY <1>1
<1>3. /\ use \in Uses /\ server = [i \in Ids |-> [state |-> IF i \in use.fresh THEN "new" ELSE "running",
                                                  revision |-> 0, record |-> w]]
      /\ calls = [s \in Slots |-> NONE] /\ analysis = NONE /\ catalog = NONE /\ busy = FALSE
      /\ session = NONE /\ snapshot = NONE /\ form = NONE /\ drafts = [i \in Ids |-> NONE]
      /\ timer = FALSE /\ blocked = FALSE /\ exported = NONE /\ typed = 0
      /\ unsaved = [i \in Ids |-> NONE] /\ accepted = {w}
      /\ overtaken = FALSE /\ unwatched = FALSE
  BY <1>2 DEF Page!Init
<1>4. Page!PageTypeOK
  <2>1. \A i \in Ids : server[i] \in [state : Page!STATES, revision : Nat, record : Page!Texts]
    BY <1>3 DEF Page!STATES
  <2>2. server \in [Ids -> [state : Page!STATES, revision : Nat, record : Page!Texts]]
    BY <1>3, <2>1
  <2> QED
    BY <1>3, <2>2 DEF Page!PageTypeOK
<1>5. CallsTruthful /\ RecordsAccepted /\ ExportsFollowed /\ TextsFollowed
  BY <1>3 DEF CallsTruthful, RecordsAccepted, ExportsFollowed, TextsFollowed
<1>6. PollsFollowed /\ Watched
  BY <1>3 DEF PollsFollowed, Watched, Watches
<1>7. Page!OneAnalysisShown /\ Page!EvidenceOfShown /\ Page!ExportIsWhole
  BY <1>3 DEF Page!OneAnalysisShown, Page!EvidenceOfShown, Page!ExportIsWhole
<1> QED
  BY <1>4, <1>5, <1>6, <1>7 DEF PageInv

\* What it says of requests, texts and polls is what the property says.
LEMMA PageSound ==
  ASSUME PageInv
  PROVE  /\ Page!PageTypeOK /\ Page!OneAnalysisShown /\ Page!EvidenceOfShown
         /\ Page!TypedIsKept /\ Page!OnePollChain /\ Page!ExportIsWhole
<1>1. Page!TypedIsKept
  BY DEF PageInv, TextsFollowed, Unreplaced, Page!TypedIsKept
<1>2. Page!OnePollChain
  <2>1. \A s \in Page!Chains : s \in Slots /\ Watches(calls[s])
    BY DEF Page!Chains, Watches
  <2>2. Page!Cardinality(Page!Chains) + (IF timer THEN 1 ELSE 0) <= 1
    <3>1. CASE Page!Chains = {}
      <4>1. Page!Cardinality(Page!Chains) = 0
        <5>1. Cardinality({}) = 0
          BY FS_EmptySet
        <5>2. Page!Cardinality({}) = Cardinality({})
          BY Zenon DEF Page!Cardinality, Cardinality
        <5> QED
          BY <3>1, <5>1, <5>2
      <4> QED
        BY <4>1
    <3>2. CASE Page!Chains # {}
      <4>1. PICK s \in Page!Chains : TRUE
        BY <3>2
      <4>2. Page!Chains = {s}
        BY <2>1, <4>1 DEF PageInv, PollsFollowed
      <4>3. ~timer
        BY <2>1, <4>1 DEF PageInv, PollsFollowed
      <4>4. Cardinality({s}) = 1
        BY FS_Singleton
      <4>5. Page!Cardinality({s}) = Cardinality({s})
        BY Zenon DEF Page!Cardinality, Cardinality
      <4> QED
        BY <4>2, <4>3, <4>4, <4>5
    <3> QED
      BY <3>1, <3>2
  <2>3. session # NONE /\ session.state \in Page!ACTIVE /\ ~overtaken /\ ~unwatched =>
          \/ timer \/ Page!Chains # {}
          \/ \E s \in Slots : /\ calls[s] # NONE /\ calls[s].current
                             /\ calls[s].kind \in {"start", "snapshot"}
    BY DEF PageInv, Watched, Page!Chains
  <2> QED
    BY <2>2, <2>3 DEF Page!OnePollChain
<1> QED
  BY <1>1, <1>2 DEF PageInv

-----------------------------------------------------------------------------
(* The revisions of the page *)

\* A text of a revision the server has had: of its last one it is the last text.
Dated(i, r, t) ==
    /\ r <= server[i].revision
    /\ r = server[i].revision => t = server[i].record
Known(v) == Dated(v.id, v.revision, v.record)

\* What a request carries, or was answered, is a text of the server's with its revision.
CallKnown(c) ==
    /\ c.kind = "snapshot" => Known(c.value)
    /\ c.kind = "review" => Dated(c.id, c.revision, c.text)
    /\ c.answer # NONE /\ c.kind \in Answering => Known(c.answer)

RevisionsKnown ==
    /\ session # NONE => Known(session)
    /\ \A s \in Slots : calls[s] # NONE => CallKnown(calls[s])

\* Revisions only grow, and a revision keeps its text.
Ahead ==
    \A i \in Ids : /\ server[i].revision \in Nat /\ server'[i].revision \in Nat
                   /\ server[i].revision <= server'[i].revision
                   /\ server[i].revision = server'[i].revision
                        => server'[i].record = server[i].record

LEMMA ServerRevisions ==
  ASSUME PageInv, NEW i \in Ids
  PROVE  server[i].revision \in Nat
  BY DEF PageInv, Page!PageTypeOK

\* A server whose texts stay is no further behind.
LEMMA AheadStays ==
  ASSUME PageInv, \A i \in Ids : /\ server'[i].revision = server[i].revision
                                 /\ server'[i].record = server[i].record
  PROVE  Ahead
  BY ServerRevisions DEF Ahead

\* What is dated stays so.
LEMMA DatedStays ==
  ASSUME Ahead, NEW i \in Ids, NEW r \in Nat, NEW t, Dated(i, r, t)
  PROVE  Dated(i, r, t)'
  BY DEF Ahead, Dated

LEMMA KnownStays ==
  ASSUME Ahead, NEW v \in Page!Values, Known(v)
  PROVE  Known(v)'
<1>1. v.id \in Ids /\ v.revision \in Nat /\ Dated(v.id, v.revision, v.record)
  BY DEF Page!Values, Known
<1>2. Dated(v.id, v.revision, v.record)'
  BY <1>1, DatedStays DEF Dated
<1> QED
  BY <1>2 DEF Known

\* A request under way carries what is known, whatever the server does meanwhile.
LEMMA CallStays ==
  ASSUME Ahead, NEW c \in Page!PageRequests, Truthful(c), CallKnown(c)
  PROVE  CallKnown(c)'
<1>1. c.kind = "snapshot" => Known(c.value)'
  BY KnownStays DEF Truthful, CallKnown
<1>2. c.kind = "review" => Dated(c.id, c.revision, c.text)'
  <2>1. c.revision \in Nat
    BY DEF Page!PageRequests
  <2> QED
    BY <2>1, DatedStays DEF Truthful, CallKnown
<1>3. c.answer # NONE /\ c.kind \in Answering => Known(c.answer)'
  BY KnownStays DEF Truthful, CallKnown
<1> QED
  BY <1>1, <1>2, <1>3 DEF CallKnown

\* A request that differs in what nobody dates is known as before.
LEMMA CallSame ==
  ASSUME NEW c, NEW d, CallKnown(c), d.kind = c.kind, d.id = c.id, d.answer = c.answer,
         d.text = c.text, d.value = c.value, d.revision = c.revision
  PROVE  CallKnown(d)
  BY DEF CallKnown

\* The requests of a step are known when the new ones are.
LEMMA KnownCarried ==
  ASSUME PageInv, RevisionsKnown, UNCHANGED server, NEW new, CarriedWith(new),
         \A c \in new : CallKnown(c),
         session' = NONE \/ session' = session \/ Known(session')
  PROVE  RevisionsKnown'
<1>1. ASSUME NEW s \in Slots, calls'[s] # NONE PROVE CallKnown(calls'[s])
  <2>1. CASE calls'[s] \in new
    BY <2>1
  <2>2. CASE calls[s] # NONE /\ calls'[s] = calls[s]
    BY <2>2 DEF RevisionsKnown
  <2>3. CASE calls[s] # NONE /\ calls'[s] = [calls[s] EXCEPT !.current = FALSE]
    <3>1. calls[s] \in Page!PageRequests /\ CallKnown(calls[s])
      BY <2>3, AllCallsTyped DEF AllCalls, RevisionsKnown
    <3>2. /\ calls'[s].kind = calls[s].kind /\ calls'[s].id = calls[s].id
          /\ calls'[s].answer = calls[s].answer /\ calls'[s].text = calls[s].text
          /\ calls'[s].value = calls[s].value /\ calls'[s].revision = calls[s].revision
      BY <2>3, <3>1 DEF Page!PageRequests
    <3> QED
      BY <3>1, <3>2, CallSame
  <2> QED
    BY <1>1, <2>1, <2>2, <2>3 DEF CarriedWith
<1>2. \A s \in Slots : calls'[s] # NONE => CallKnown(calls[s])'
  BY <1>1 DEF CallKnown, Known, Dated
<1>3. session' # NONE => Known(session)'
  BY DEF RevisionsKnown, Known, Dated
<1> QED
  BY <1>2, <1>3 DEF RevisionsKnown

\* A request that is made beside the others.
LEMMA MadeKnown ==
  ASSUME PageInv, RevisionsKnown, NEW c, Page!Make(c), CallKnown(c),
         UNCHANGED <<server, session>>
  PROVE  RevisionsKnown'
<1>1. calls \in AllCalls
  BY AllCallsTyped
<1>2. Placed(calls, calls', c)
  BY <1>1, WithPlaces DEF Page!Make
<1>3. CarriedWith({c})
  BY <1>1, <1>2 DEF Placed, AllCalls, CarriedWith
<1> QED
  BY <1>3, KnownCarried

\* One that carries no text of the server.
LEMMA PlainKnown ==
  ASSUME NEW c, c.answer = NONE, c.kind \notin {"snapshot", "review"}
  PROVE  CallKnown(c)
  BY DEF CallKnown

\* What a request is when it is made.
LEMMA CallFields ==
  ASSUME NEW kind, NEW i, NEW r, NEW t
  PROVE  /\ Page!Call(kind, i).kind = kind /\ Page!Call(kind, i).answer = NONE
         /\ [Page!Call(kind, i) EXCEPT !.text = t].kind = kind
         /\ [Page!Call(kind, i) EXCEPT !.text = t].answer = NONE
         /\ [Page!Call(kind, i) EXCEPT !.revision = r, !.text = t].kind = kind
         /\ [Page!Call(kind, i) EXCEPT !.revision = r, !.text = t].answer = NONE
         /\ [Page!Call(kind, i) EXCEPT !.revision = r, !.text = t].id = i
         /\ [Page!Call(kind, i) EXCEPT !.revision = r, !.text = t].revision = r
         /\ [Page!Call(kind, i) EXCEPT !.revision = r, !.text = t].text = t
  BY DEF Page!Call

\* The person's requests: only a review is of a text, and that is the one shown.
LEMMA PersonKnown ==
  ASSUME PageInv, RevisionsKnown,
         \/ Page!Submit \/ Page!Review \/ Page!Export \/ Page!Cancel \/ Page!Start
         \/ Page!TimerFires \/ \E i \in Ids : Page!Open(i) \/ Page!Delete(i)
  PROVE  RevisionsKnown'
<1>1. UNCHANGED <<server, session>>
  BY DEF Page!Submit, Page!Review, Page!Export, Page!Cancel, Page!Start, Page!TimerFires,
         Page!Open, Page!Delete, Page!Idle, Page!serverVars, Page!shownVars
<1>2. ASSUME NEW kind \in {"get", "cancel", "delete", "poll"}, NEW i,
             Page!Make(Page!Call(kind, i))
      PROVE  RevisionsKnown'
  <2> DEFINE c == Page!Call(kind, i)
  <2>1. Page!Make(c) /\ c.kind = kind /\ c.answer = NONE
    BY <1>2, CallFields
  <2> HIDE DEF c
  <2>2. CallKnown(c)
    BY <2>1, PlainKnown
  <2> QED
    BY <1>1, <2>1, <2>2, MadeKnown
<1>3. ASSUME NEW kind \in {"export", "start"}, NEW i, NEW t,
             Page!Make([Page!Call(kind, i) EXCEPT !.text = t])
      PROVE  RevisionsKnown'
  <2> DEFINE c == [Page!Call(kind, i) EXCEPT !.text = t]
  <2>1. Page!Make(c) /\ c.kind = kind /\ c.answer = NONE
    BY <1>3, CallFields
  <2> HIDE DEF c
  <2>2. CallKnown(c)
    BY <2>1, PlainKnown
  <2> QED
    BY <1>1, <2>1, <2>2, MadeKnown
<1>4. CASE Page!Submit
  <2> DEFINE c == [Page!Call("save", session.id) EXCEPT !.revision = session.revision,
                                                        !.text = form]
  <2>1. Page!Make(c) /\ c.kind = "save" /\ c.answer = NONE
    BY <1>4, CallFields DEF Page!Submit
  <2> HIDE DEF c
  <2> QED
    BY <1>1, <2>1, PlainKnown, MadeKnown
<1>5. CASE Page!Review
  <2> DEFINE c == [Page!Call("review", session.id) EXCEPT !.revision = session.revision,
                                                          !.text = form]
  <2>1. /\ Page!Make(c) /\ c.kind = "review" /\ c.answer = NONE /\ c.id = session.id
        /\ c.revision = session.revision /\ c.text = session.record /\ form # NONE
    BY <1>5, CallFields DEF Page!Review
  <2>2. Dated(session.id, session.revision, session.record)
    BY <2>1, FormShown DEF RevisionsKnown, Known
  <2> HIDE DEF c
  <2>3. CallKnown(c)
    BY <2>1, <2>2 DEF CallKnown
  <2> QED
    BY <1>1, <2>1, <2>3, MadeKnown
<1> QED
  BY <1>2, <1>3, <1>4, <1>5 DEF Page!Export, Page!Cancel, Page!Start, Page!TimerFires,
     Page!Open, Page!Delete

\* Another analysis, or none, is shown.
LEMMA ShowKnown ==
  ASSUME PageInv, RevisionsKnown, NEW a \in Analyses \cup {NONE}, NEW cs \in AllCalls,
         Page!ShowAnalysis(a, cs), a = NONE \/ Page!HasRoom(cs), Remaining(cs),
         UNCHANGED server
  PROVE  RevisionsKnown'
<1>1. CarriedWith(Fetching)
  BY AllCallsTyped, ShowCalls
<1>2. \A c \in Fetching : CallKnown(c)
  BY PlainKnown DEF Fetching
<1>3. session' = NONE
  BY DEF Page!ShowAnalysis
<1> QED
  BY <1>1, <1>2, <1>3, KnownCarried

LEMMA ClearedKnown ==
  ASSUME PageInv, RevisionsKnown, Page!ChangeInput \/ Page!Analyze
  PROVE  RevisionsKnown'
<1>1. UNCHANGED server /\ calls \in AllCalls /\ NONE \in Analyses \cup {NONE}
  BY AllCallsTyped DEF Page!ChangeInput, Page!Analyze, Page!serverVars
<1>2. CASE Page!ChangeInput
  <2>1. Page!ShowAnalysis(NONE, calls) /\ Remaining(calls)
    BY <1>2 DEF Page!ChangeInput, Remaining
  <2> QED
    BY <1>1, <2>1, ShowKnown
<1>3. CASE Page!Analyze
  <2> DEFINE c == Page!Call("analyze", NONE)
             cs == Page!With(calls, c)
  <2>1. Page!ShowAnalysis(NONE, cs) /\ Page!HasRoom(calls)
    BY <1>3 DEF Page!Analyze
  <2>2. c \in Page!PageRequests /\ c.kind = "analyze" /\ c.answer = NONE
    BY CallShape DEF Page!KINDS
  <2>3. Placed(calls, cs, c)
    BY <1>1, <2>1, WithPlaces
  <2> HIDE DEF cs, c
  <2>4. cs \in AllCalls
    BY <1>1, <2>2, <2>3, PlacedTyped
  <2>5. Remaining(cs)
    BY <1>1, <2>2, <2>3 DEF Placed, AllCalls, Remaining, Asked
  <2> QED
    BY <1>1, <2>1, <2>4, <2>5, ShowKnown
<1> QED
  BY <1>2, <1>3

\* An investigation is chosen.
LEMMA ChosenKnown ==
  ASSUME PageInv, RevisionsKnown, NEW s \in Slots, NEW v, Known(v), NEW starting,
         Page!Choose(v, Page!Done(s), starting), UNCHANGED server
  PROVE  RevisionsKnown'
<1> DEFINE c == [Page!Call("snapshot", v.id) EXCEPT !.value = v, !.starting = starting]
           out == Page!Outdated(Page!Done(s))
<1>1. calls' = Page!With(out, c) /\ session' = session
  BY DEF Page!Choose
<1>2. /\ Page!Done(s) \in AllCalls /\ Page!HasRoom(Page!Done(s))
      /\ \A t \in Slots : Page!Done(s)[t] = IF t = s THEN NONE ELSE calls[t]
  BY AllCallsTyped, DoneShape
<1>3. /\ out \in AllCalls
      /\ \A t \in Slots : out[t] = IF Page!Done(s)[t] = NONE THEN NONE
                                   ELSE [Page!Done(s)[t] EXCEPT !.current = FALSE]
  BY <1>2, OutdatedShape
<1>4. c.kind = "snapshot" /\ c.value = v /\ c.answer = NONE
  BY DEF Page!Call
<1> HIDE DEF out, c
<1>5. Placed(out, calls', c)
  BY <1>1, <1>2, <1>3, WithPlaces DEF Page!HasRoom
<1>6. CarriedWith({c})
  BY <1>2, <1>3, <1>5 DEF Placed, AllCalls, CarriedWith
<1>7. CallKnown(c)
  BY <1>4 DEF CallKnown
<1> QED
  BY <1>1, <1>6, <1>7, KnownCarried

\* A request that leaves its slot, where nothing else is opened.
LEMMA DoneKnown ==
  ASSUME PageInv, RevisionsKnown, NEW s \in Slots, calls' = Page!Done(s), UNCHANGED server,
         session' = NONE \/ session' = session \/ Known(session')
  PROVE  RevisionsKnown'
<1>1. CarriedWith({}) /\ \A c \in {} : CallKnown(c)
  BY DoneCarries
<1> QED
  BY <1>1, KnownCarried

\* What an answer says of an investigation.
LEMMA AnswerKnown ==
  ASSUME PageInv, RevisionsKnown, NEW s \in Slots, NEW kind \in Answering,
         Page!Answer(s, kind), ~Page!Failed(s)
  PROVE  /\ Known(calls[s].answer) /\ calls[s].answer \in Page!Values
         /\ calls[s].answer.id = calls[s].id
<1>1. calls[s] # NONE /\ calls[s].kind = kind /\ calls[s].answer # NONE /\ Truthful(calls[s])
  BY AnswerTold
<1>2. CallKnown(calls[s])
  BY <1>1 DEF RevisionsKnown
<1> QED
  BY <1>1, <1>2 DEF CallKnown, Truthful

\* An investigation was read, or the work on it started.
LEMMA ReadKnown ==
  ASSUME PageInv, RevisionsKnown, NEW s \in Slots,
         Page!GetAnswered(s) \/ Page!StartAnswered(s), UNCHANGED server
  PROVE  RevisionsKnown'
<1>1. ASSUME NEW kind \in {"get", "start"}, NEW starting, Page!Answer(s, kind), ~Page!Failed(s),
             Page!Choose(calls[s].answer, Page!Done(s), starting)
      PROVE  RevisionsKnown'
  <2>1. kind \in Answering
    BY DEF Answering
  <2>2. Known(calls[s].answer)
    BY <1>1, <2>1, AnswerKnown
  <2> QED
    BY <1>1, <2>2, ChosenKnown
<1>2. ASSUME calls' = Page!Done(s), UNCHANGED session PROVE RevisionsKnown'
  BY <1>2, DoneKnown
<1> QED
  BY <1>1, <1>2 DEF Page!GetAnswered, Page!StartAnswered, Page!Ignored, Page!shownVars

\* The snapshot of what was chosen is there.
LEMMA SnapshotKnown ==
  ASSUME PageInv, RevisionsKnown, NEW s \in Slots, Page!SnapshotAnswered(s), UNCHANGED server
  PROVE  RevisionsKnown'
<1>1. Page!Answer(s, "snapshot")
  BY DEF Page!SnapshotAnswered
<1>2. CASE ~(~Page!Failed(s) /\ calls[s].current)
  <2>1. calls' = Page!Done(s) /\ UNCHANGED session
    BY <1>2 DEF Page!SnapshotAnswered, Page!shownVars
  <2> QED
    BY <2>1, DoneKnown
<1>3. CASE ~Page!Failed(s) /\ calls[s].current
  <2> DEFINE v == calls[s].value
             a == calls[s].answer
             active == v.state \in Page!ACTIVE
             e == Page!Evidence(a)
             p == Page!Call("poll", v.id)
  <2>1. /\ active => Page!HasRoom(Page!With(Page!Done(s), e))
        /\ session' = v
        /\ calls' = IF active THEN Page!With(Page!With(Page!Done(s), e), p)
                    ELSE Page!With(Page!Done(s), e)
    BY <1>3 DEF Page!SnapshotAnswered
  <2>2. calls[s] # NONE /\ Truthful(calls[s]) /\ calls[s].kind = "snapshot" /\ a # NONE
    BY <1>1, <1>3, AnswerTold
  <2>3. v \in Page!Values /\ v.id \in Ids /\ a \in Analyses
    BY <2>2, PageConstants DEF Truthful
  <2>4. Known(v)
    BY <2>2 DEF RevisionsKnown, CallKnown
  <2> HIDE DEF v, a
  <2>5. active \in BOOLEAN
    OBVIOUS
  <2> HIDE DEF active
  <2>6. CarriedWith({e, p})
    BY <2>1, <2>3, <2>5, SnapshotCalls
  <2>7. e.kind = "evidence" /\ e.answer = NONE
    BY <2>3, EvidenceShape
  <2>8. p.kind = "poll" /\ p.answer = NONE
    BY CallFields
  <2> HIDE DEF e, p
  <2>9. CallKnown(e) /\ CallKnown(p)
    BY <2>7, <2>8, PlainKnown
  <2>10. \A c \in {e, p} : CallKnown(c)
    BY <2>9
  <2> QED
    BY <2>1, <2>4, <2>6, <2>10, KnownCarried
<1> QED
  BY <1>2, <1>3

\* A poll has come: the later of the revision that is open and the one it tells.
LEMMA PollKnown ==
  ASSUME PageInv, RevisionsKnown, NEW s \in Slots, Page!PollAnswered(s), UNCHANGED server
  PROVE  RevisionsKnown'
<1>1. Page!Answer(s, "poll") /\ calls' = Page!Done(s)
  BY DEF Page!PollAnswered, Page!Ignored
<1>2. CASE Page!Failed(s) \/ ~Page!Applies(s)
  <2>1. UNCHANGED session
    BY <1>2 DEF Page!PollAnswered, Page!Ignored, Page!shownVars
  <2> QED
    BY <1>1, <2>1, DoneKnown
<1>3. CASE ~Page!Failed(s) /\ Page!Applies(s)
  <2> DEFINE v == calls[s].answer
  <2>1. session' = Page!Merged(v) /\ session # NONE /\ session.id = calls[s].id
    BY <1>3 DEF Page!PollAnswered, Page!Applies
  <2>2. Known(v) /\ v \in Page!Values /\ v.id = calls[s].id
    <3>1. "poll" \in Answering
      BY DEF Answering
    <3> QED
      BY <1>1, <1>3, <3>1, AnswerKnown
  <2>3. Known(session)
    BY <2>1 DEF RevisionsKnown
  <2> HIDE DEF v
  <2>4. Known(session')
    <3>1. CASE v.revision < session.revision
      <4>1. session' = [v EXCEPT !.record = session.record, !.revision = session.revision]
        BY <2>1, <3>1 DEF Page!Merged
      <4>2. /\ session'.id = session.id /\ session'.record = session.record
            /\ session'.revision = session.revision
        BY <2>1, <2>2, <4>1 DEF Page!Values
      <4> QED
        BY <2>3, <4>2 DEF Known
    <3>2. CASE ~(v.revision < session.revision)
      <4>1. session' = v
        BY <2>1, <3>2 DEF Page!Merged
      <4> QED
        BY <2>2, <4>1
    <3> QED
      BY <3>1, <3>2
  <2> QED
    BY <1>1, <2>4, DoneKnown
<1> QED
  BY <1>2, <1>3

\* What was saved, reviewed or cancelled becomes what is open, or does not.
LEMMA WrittenKnown ==
  ASSUME PageInv, RevisionsKnown, NEW s \in Slots,
         Page!SaveAnswered(s) \/ Page!ReviewAnswered(s) \/ Page!CancelAnswered(s),
         UNCHANGED server
  PROVE  RevisionsKnown'
<1>1. calls' = Page!Done(s)
  BY DEF Page!SaveAnswered, Page!ReviewAnswered, Page!CancelAnswered, Page!Ignored
<1>2. CASE UNCHANGED session
  BY <1>1, <1>2, DoneKnown
<1>3. ASSUME NEW kind \in {"save", "review", "cancel"}, Page!Answer(s, kind), ~Page!Failed(s),
             Page!Becomes(calls[s].answer)
      PROVE  RevisionsKnown'
  <2>1. kind \in Answering
    BY DEF Answering
  <2>2. Known(calls[s].answer) /\ session' = calls[s].answer
    BY <1>3, <2>1, AnswerKnown DEF Page!Becomes
  <2>3. Known(session')
    BY <2>2
  <2> QED
    BY <1>1, <2>3, DoneKnown
<1> QED
  BY <1>2, <1>3 DEF Page!SaveAnswered, Page!ReviewAnswered, Page!CancelAnswered, Page!Ignored,
     Page!shownVars

\* An export or the evidence is there, or what is shown was deleted or analysed.
LEMMA ShownKnown ==
  ASSUME PageInv, RevisionsKnown, NEW s \in Slots,
         \/ Page!ExportAnswered(s) \/ Page!EvidenceAnswered(s)
         \/ Page!DeleteAnswered(s) \/ Page!AnalyzeAnswered(s),
         UNCHANGED server
  PROVE  RevisionsKnown'
<1>1. CASE calls' = Page!Done(s) /\ UNCHANGED session
  BY <1>1, DoneKnown
<1>2. ASSUME NEW a \in Analyses \cup {NONE}, Page!ShowAnalysis(a, Page!Done(s))
      PROVE  RevisionsKnown'
  BY <1>2, DoneForShow, ShowKnown
<1>3. CASE Page!AnalyzeAnswered(s)
  <2> DEFINE a == IF Page!Failed(s) THEN NONE ELSE calls[s].answer
  <2>1. /\ Page!ShowAnalysis(a, Page!Done(s)) /\ calls[s] # NONE /\ calls[s].kind = "analyze"
        /\ calls[s].answer # NONE \/ Page!Failed(s)
    BY <1>3 DEF Page!AnalyzeAnswered, Page!Answer
  <2>2. a \in Analyses \cup {NONE}
    BY <2>1 DEF PageInv, CallsTruthful, Truthful
  <2> HIDE DEF a
  <2> QED
    BY <1>2, <2>1, <2>2
<1> QED
  BY <1>1, <1>2, <1>3 DEF Page!ExportAnswered, Page!EvidenceAnswered, Page!DeleteAnswered,
     Page!Ignored, Page!shownVars

\* Every answer that reaches the page.
LEMMA AnsweredKnown ==
  ASSUME PageInv, RevisionsKnown, NEW s \in Slots, Page!Answered(s) PROVE RevisionsKnown'
<1>1. UNCHANGED server
  BY DEF Page!Answered, Page!serverVars
<1>2. \/ Page!GetAnswered(s) \/ Page!StartAnswered(s) \/ Page!SnapshotAnswered(s)
      \/ Page!PollAnswered(s) \/ Page!SaveAnswered(s) \/ Page!ReviewAnswered(s)
      \/ Page!CancelAnswered(s) \/ Page!ExportAnswered(s) \/ Page!DeleteAnswered(s)
      \/ Page!AnalyzeAnswered(s) \/ Page!EvidenceAnswered(s)
  BY Zenon DEF Page!Answered
<1> QED
  BY <1>1, <1>2, ReadKnown, SnapshotKnown, PollKnown, WrittenKnown, ShownKnown

\* Nothing of the server, the requests and what is open changes.
LEMMA SameKnown ==
  ASSUME RevisionsKnown, UNCHANGED <<server, calls, session>> PROVE RevisionsKnown'
  BY DEF RevisionsKnown, CallKnown, Known, Dated

\* What is under way and what is open stay known while the server goes on.
LEMMA OthersKnown ==
  ASSUME PageInv, RevisionsKnown, Ahead, UNCHANGED session
  PROVE  /\ session' # NONE => Known(session)'
         /\ \A t \in Slots : calls[t] # NONE /\ calls'[t] = calls[t] => CallKnown(calls[t])'
<1>1. ASSUME NEW t \in Slots, calls[t] # NONE, calls'[t] = calls[t] PROVE CallKnown(calls[t])'
  <2>1. PICK c : c = calls[t]
    OBVIOUS
  <2>2. c \in Page!PageRequests /\ Truthful(c) /\ CallKnown(c)
    BY <1>1, <2>1, AllCallsTyped DEF AllCalls, PageInv, CallsTruthful, RevisionsKnown
  <2>3. CallKnown(c)'
    BY <2>2, CallStays
  <2> QED
    BY <1>1, <2>1, <2>3 DEF CallKnown, Known, Dated
<1>2. ASSUME session # NONE PROVE Known(session)'
  <2>1. PICK v : v = session
    OBVIOUS
  <2>2. v \in Page!Values /\ Known(v)
    BY <1>2, <2>1 DEF PageInv, Page!PageTypeOK, RevisionsKnown
  <2>3. Known(v)'
    BY <2>2, KnownStays
  <2> QED
    BY <2>1, <2>3 DEF Known, Dated
<1> QED
  BY <1>1, <1>2

\* A request changes while the server goes on.
LEMMA RequestKnown ==
  ASSUME PageInv, RevisionsKnown, Ahead, UNCHANGED session, NEW s \in Slots,
         NEW d, calls' = [calls EXCEPT ![s] = d], CallKnown(d)'
  PROVE  RevisionsKnown'
<1>1. calls'[s] = d /\ \A t \in Slots : t # s => calls'[t] = calls[t]
  BY AllCallsTyped DEF AllCalls
<1>2. CallKnown(calls[s])'
  BY <1>1 DEF CallKnown, Known, Dated
<1> QED
  BY <1>1, <1>2, OthersKnown DEF RevisionsKnown

\* The server answers a request, with what is known once it has.
LEMMA ToldKnown ==
  ASSUME PageInv, RevisionsKnown, Ahead, UNCHANGED session, NEW s \in Slots, calls[s] # NONE,
         NEW a, calls' = [calls EXCEPT ![s].answer = a], calls[s].kind \in Answering => Known(a)'
  PROVE  RevisionsKnown'
<1>1. PICK c : c = calls[s]
  OBVIOUS
<1>2. PICK d : d = [c EXCEPT !.answer = a]
  OBVIOUS
<1>3. c \in Page!PageRequests /\ Truthful(c) /\ CallKnown(c) /\ calls \in AllCalls
  BY <1>1, AllCallsTyped DEF AllCalls, PageInv, CallsTruthful, RevisionsKnown
<1>4. CallKnown(c)'
  BY <1>3, CallStays
<1>5. /\ d.kind = c.kind /\ d.id = c.id /\ d.text = c.text /\ d.value = c.value
      /\ d.revision = c.revision /\ d.answer = a
  BY <1>2, <1>3 DEF Page!PageRequests
<1>6. CallKnown(d)'
  BY <1>1, <1>4, <1>5 DEF CallKnown
<1>7. calls' = [calls EXCEPT ![s] = d]
  BY <1>1, <1>2, <1>3 DEF AllCalls
<1> QED
  BY <1>6, <1>7, RequestKnown

\* A request fails, on the way or at the server.
LEMMA FailedKnown ==
  ASSUME PageInv, RevisionsKnown, Ahead, UNCHANGED session, NEW s \in Slots, calls[s] # NONE,
         calls' = [calls EXCEPT ![s].failed = TRUE]
  PROVE  RevisionsKnown'
<1>1. PICK c : c = calls[s]
  OBVIOUS
<1>2. PICK d : d = [c EXCEPT !.failed = TRUE]
  OBVIOUS
<1>3. c \in Page!PageRequests /\ Truthful(c) /\ CallKnown(c) /\ calls \in AllCalls
  BY <1>1, AllCallsTyped DEF AllCalls, PageInv, CallsTruthful, RevisionsKnown
<1>4. CallKnown(c)'
  BY <1>3, CallStays
<1>5. /\ d.kind = c.kind /\ d.id = c.id /\ d.text = c.text /\ d.value = c.value
      /\ d.revision = c.revision /\ d.answer = c.answer
  BY <1>2, <1>3 DEF Page!PageRequests
<1>6. CallKnown(d)'
  BY <1>4, <1>5 DEF CallKnown
<1>7. calls' = [calls EXCEPT ![s] = d]
  BY <1>1, <1>2, <1>3 DEF AllCalls
<1> QED
  BY <1>6, <1>7, RequestKnown

\* The server writes the next revision of a record, with a text of its own.
LEMMA AheadWritten ==
  ASSUME PageInv, NEW i \in Ids, NEW written,
         server' = [server EXCEPT ![i].revision = @ + 1, ![i].record = written]
  PROVE  /\ Ahead /\ server'[i].revision = server[i].revision + 1
         /\ server'[i].record = written
<1>1. server \in [Ids -> [state : Page!STATES, revision : Nat, record : Page!Texts]]
  BY DEF PageInv, Page!PageTypeOK
<1>2. PICK q : q = server[i]
  OBVIOUS
<1>3. q \in [state : Page!STATES, revision : Nat, record : Page!Texts]
  BY <1>1, <1>2
<1>4. PICK n \in Nat : n = q.revision + 1
  BY <1>3
<1>5. PICK r : r = [q EXCEPT !.revision = n, !.record = written]
  OBVIOUS
<1>6. r.revision = n /\ r.record = written
  BY <1>3, <1>5
<1>7. server' = [server EXCEPT ![i] = r]
  BY <1>1, <1>2, <1>4, <1>5
<1>8. server'[i] = r /\ \A j \in Ids : j # i => server'[j] = server[j]
  BY <1>1, <1>7
<1>9. n = server[i].revision + 1 /\ server[i].revision \in Nat
  BY <1>2, <1>3, <1>4
<1>10. Ahead
  <2>1. ASSUME NEW j \in Ids, j # i
        PROVE  /\ server[j].revision \in Nat /\ server'[j].revision = server[j].revision
               /\ server'[j].record = server[j].record
    BY <1>8, <2>1, ServerRevisions
  <2>2. ASSUME NEW o \in Nat, n = o + 1 PROVE o <= n /\ o # n
    BY <2>2
  <2>3. server[i].revision <= n /\ server[i].revision # n /\ server'[i].revision = n
    BY <1>6, <1>8, <1>9, <2>2
  <2>4. ASSUME NEW j \in Ids
        PROVE  /\ server[j].revision \in Nat /\ server'[j].revision \in Nat
               /\ server[j].revision <= server'[j].revision
               /\ server[j].revision = server'[j].revision
                    => server'[j].record = server[j].record
    <3>1. CASE j = i
      <4>1. PICK o \in Nat : o = server[i].revision
        BY <1>9
      <4>2. server'[i].record # server[i].record => o # n
        BY <2>3, <4>1
      <4> QED
        BY <2>3, <3>1, <4>1, <4>2
    <3>2. CASE j # i
      <4>1. /\ server[j].revision \in Nat /\ server'[j].revision = server[j].revision
            /\ server'[j].record = server[j].record
        BY <2>1, <3>2
      <4>2. PICK o \in Nat : o = server[j].revision
        BY <4>1
      <4>3. o <= o
        BY <4>2
      <4> QED
        BY <4>1, <4>2, <4>3, Zenon
    <3> QED
      BY <3>1, <3>2
  <2> QED
    BY <2>4 DEF Ahead
<1> QED
  BY <1>6, <1>8, <1>9, <1>10

\* The server moves an investigation to another state.
LEMMA AheadMoved ==
  ASSUME PageInv, NEW i \in Ids, NEW state, server' = [server EXCEPT ![i].state = state]
  PROVE  /\ Ahead /\ server'[i].revision = server[i].revision
         /\ server'[i].record = server[i].record
<1>1. server \in [Ids -> [state : Page!STATES, revision : Nat, record : Page!Texts]]
  BY DEF PageInv, Page!PageTypeOK
<1>2. \A j \in Ids : server'[j].revision = server[j].revision /\ server'[j].record = server[j].record
  <2> SUFFICES ASSUME NEW j \in Ids
               PROVE  /\ server'[j].revision = server[j].revision
                      /\ server'[j].record = server[j].record
    OBVIOUS
  <2>1. server[i] \in [state : Page!STATES, revision : Nat, record : Page!Texts]
    BY <1>1
  <2>2. server'[j] = IF j = i THEN [server[i] EXCEPT !.state = state] ELSE server[j]
    BY <1>1
  <2> QED
    BY <2>1, <2>2
<1> QED
  BY <1>2, AheadStays

\* The server takes a request and answers, or refuses it.
LEMMA HandleKnown ==
  ASSUME PageInv, RevisionsKnown, NEW s \in Slots, Page!Handle(s) PROVE RevisionsKnown'
<1> DEFINE i == calls[s].id
           kind == calls[s].kind
           failing == calls' = [calls EXCEPT ![s].failed = TRUE]
<1>1. calls[s] # NONE /\ UNCHANGED session
  BY DEF Page!Handle, Page!shownVars
<1>2. Truthful(calls[s]) /\ (kind \notin {"evidence", "analyze"} => i \in Ids)
  BY <1>1 DEF PageInv, CallsTruthful, Truthful
<1>3. UNCHANGED server => Ahead
  BY AheadStays
<1>4. ASSUME UNCHANGED server, failing PROVE RevisionsKnown'
  BY <1>1, <1>3, <1>4, FailedKnown
<1>5. ASSUME NEW a, UNCHANGED server, calls' = [calls EXCEPT ![s].answer = a], kind \notin Answering
      PROVE  RevisionsKnown'
  BY <1>1, <1>3, <1>5, ToldKnown
<1>6. CASE /\ kind \in {"get", "poll", "export"} /\ UNCHANGED server
           /\ calls' = [calls EXCEPT ![s].answer = Page!Value(i)]
  <2>1. PICK a : a = Page!Value(i)
    OBVIOUS
  <2>2. i \in Ids /\ calls' = [calls EXCEPT ![s].answer = a]
    BY <1>2, <1>6, <2>1
  <2>3. a.id = i /\ a.revision = server[i].revision /\ a.record = server[i].record
    BY <2>1, <2>2, ValueTold
  <2>4. Known(a)'
    BY <1>6, <2>2, <2>3, ServerRevisions DEF Known, Dated
  <2> QED
    BY <1>1, <1>3, <1>6, <2>2, <2>4, ToldKnown
<1>7. CASE /\ kind \in {"save", "review"}
           /\ LET written == IF kind = "save" THEN calls[s].text ELSE server[i].record
              IN /\ server' = [server EXCEPT ![i].revision = @ + 1, ![i].record = written]
                 /\ calls' = [calls EXCEPT ![s].answer =
                        [Page!Value(i) EXCEPT !.revision = @ + 1, !.record = written]]
  <2>1. PICK written : written = IF kind = "save" THEN calls[s].text ELSE server[i].record
    OBVIOUS
  <2>2. PICK a : a = [Page!Value(i) EXCEPT !.revision = @ + 1, !.record = written]
    OBVIOUS
  <2>3. i \in Ids /\ server' = [server EXCEPT ![i].revision = @ + 1, ![i].record = written]
        /\ calls' = [calls EXCEPT ![s].answer = a]
    BY <1>2, <1>7, <2>1, <2>2
  <2>4. /\ Ahead /\ server'[i].revision = server[i].revision + 1
        /\ server'[i].record = written
    BY <2>3, AheadWritten
  <2>5. a.id = i /\ a.revision = server[i].revision + 1 /\ a.record = written
    BY <2>2, <2>3, ValueTold DEF Page!Values
  <2>6. server[i].revision + 1 \in Nat
    BY <2>3, ServerRevisions
  <2>7. Known(a)'
    BY <2>3, <2>4, <2>5, <2>6 DEF Known, Dated
  <2> QED
    BY <1>1, <2>3, <2>4, <2>7, ToldKnown
<1>8. ASSUME i \in Ids, Ahead, server'[i].revision = server[i].revision,
             server'[i].record = server[i].record, NEW state,
             calls' = [calls EXCEPT ![s].answer = [Page!Value(i) EXCEPT !.state = state]]
      PROVE  RevisionsKnown'
  <2>1. PICK a : a = [Page!Value(i) EXCEPT !.state = state]
    OBVIOUS
  <2>2. a.id = i /\ a.revision = server[i].revision /\ a.record = server[i].record
    BY <1>8, <2>1, ValueTold DEF Page!Values
  <2>3. PICK n \in Nat : n = server[i].revision
    BY <1>8, ServerRevisions
  <2>4. Known(a)'
    BY <1>8, <2>2, <2>3 DEF Known, Dated
  <2> QED
    BY <1>1, <1>8, <2>1, <2>4, ToldKnown
<1>9. CASE /\ kind = "cancel"
           /\ IF server[i].state = "running"
              THEN server' = [server EXCEPT ![i].state = "cancelling"] ELSE UNCHANGED server
  <2>1. i \in Ids
    BY <1>2, <1>9
  <2>2. /\ Ahead /\ server'[i].revision = server[i].revision
        /\ server'[i].record = server[i].record
    <3>1. CASE UNCHANGED server
      BY <1>3, <3>1
    <3>2. CASE server' = [server EXCEPT ![i].state = "cancelling"]
      BY <2>1, <3>2, AheadMoved
    <3> QED
      BY <1>9, <3>1, <3>2
  <2>3. CASE failing
    BY <1>1, <2>2, <2>3, FailedKnown
  <2>4. CASE calls' = [calls EXCEPT ![s].answer = [Page!Value(i) EXCEPT !.state =
                          IF @ = "running" THEN "cancelling" ELSE @]]
    <3>1. PICK state : state = IF Page!Value(i).state = "running" THEN "cancelling"
                               ELSE Page!Value(i).state
      OBVIOUS
    <3>2. calls' = [calls EXCEPT ![s].answer = [Page!Value(i) EXCEPT !.state = state]]
      BY <2>4, <3>1
    <3> QED
      BY <1>8, <2>1, <2>2, <3>2
  <2> QED
    BY <1>9, <2>3, <2>4 DEF Page!Handle
<1>10. CASE /\ kind = "start" /\ server' = [server EXCEPT ![i].state = "running"]
            /\ calls' = [calls EXCEPT ![s].answer = [Page!Value(i) EXCEPT !.state = "running"]]
  <2>1. i \in Ids
    BY <1>2, <1>10
  <2>2. /\ Ahead /\ server'[i].revision = server[i].revision
        /\ server'[i].record = server[i].record
    BY <1>10, <2>1, AheadMoved
  <2> QED
    BY <1>8, <1>10, <2>1, <2>2
<1>11. CASE /\ kind = "delete" /\ calls' = [calls EXCEPT ![s].answer = i]
            /\ server' = [j \in Ids |-> IF AnalysisOf[j] = AnalysisOf[i]
                                        THEN [server[j] EXCEPT !.state = "gone"] ELSE server[j]]
  <2>1. \A j \in Ids : /\ server'[j].revision = server[j].revision
                       /\ server'[j].record = server[j].record
    BY <1>11, ValueTold
  <2>2. Ahead
    BY <2>1, AheadStays
  <2>3. PICK a : a = i
    OBVIOUS
  <2>4. calls' = [calls EXCEPT ![s].answer = a] /\ kind \notin Answering
    BY <1>11, <2>3 DEF Answering
  <2> QED
    BY <1>1, <2>2, <2>4, ToldKnown
<1>12. CASE /\ kind \in {"snapshot", "analyze", "evidence"} /\ UNCHANGED server
            /\ \E a : calls' = [calls EXCEPT ![s].answer = a]
  <2>1. PICK a : calls' = [calls EXCEPT ![s].answer = a]
    BY <1>12
  <2>2. kind \notin Answering
    BY <1>12 DEF Answering
  <2> QED
    BY <1>5, <1>12, <2>1, <2>2
<1>13. UNCHANGED Page!serverVars => UNCHANGED server
  BY DEF Page!serverVars
<1> QED
  BY <1>4, <1>6, <1>7, <1>9, <1>10, <1>11, <1>12, <1>13 DEF Page!Handle

\* The worker ends a job, or another browser saves a record.
LEMMA WorksKnown == ASSUME PageInv, RevisionsKnown, Page!Works PROVE RevisionsKnown'
<1>1. UNCHANGED <<calls, session>>
  BY DEF Page!Works, Page!shownVars
<1>2. PICK i \in Ids :
         \/ server' = [server EXCEPT ![i].state = "ended"]
         \/ \E n \in 1..use.others :
              server' = [server EXCEPT ![i].record = <<"other", n>>, ![i].revision = @ + 1]
  BY Zenon DEF Page!Works
<1>3. Ahead
  <2>1. CASE server' = [server EXCEPT ![i].state = "ended"]
    BY <2>1, AheadMoved
  <2>2. ASSUME NEW n, server' = [server EXCEPT ![i].record = <<"other", n>>, ![i].revision = @ + 1]
        PROVE  Ahead
    <3>1. PICK written : written = <<"other", n>>
      OBVIOUS
    <3>2. server' = [server EXCEPT ![i].revision = @ + 1, ![i].record = written]
      BY <2>2, <3>1
    <3> QED
      BY <3>2, AheadWritten
  <2> QED
    BY <1>2, <2>1, <2>2
<1> QED
  BY <1>1, <1>3, OthersKnown DEF RevisionsKnown

\* Nobody but the server and the worker changes a record.
LEMMA ServerKept ==
  ASSUME Page!Next,
         \/ Page!Type \/ Page!Submit \/ Page!Review \/ Page!Export \/ Page!Cancel \/ Page!Start
         \/ Page!Analyze \/ Page!ChangeInput \/ Page!TimerFires
         \/ \E i \in Ids : Page!Open(i) \/ Page!Delete(i)
         \/ \E s \in Slots : Page!Fail(s) \/ Page!Answered(s)
  PROVE  UNCHANGED server
  BY DEF Page!Type, Page!Submit, Page!Review, Page!Export, Page!Cancel, Page!Start, Page!Analyze,
         Page!ChangeInput, Page!TimerFires, Page!Open, Page!Delete, Page!Fail, Page!Answered,
         Page!Idle, Page!serverVars

\* Every step of the page keeps what is known, and so does a step of another part.
LEMMA RevisionsStep ==
  ASSUME PageInv, RevisionsKnown, Page!Next \/ UNCHANGED pageVars PROVE RevisionsKnown'
<1>1. CASE Page!Works
  BY <1>1, WorksKnown
<1>2. CASE Page!Type
  <2>1. UNCHANGED <<server, calls, session>>
    BY <1>2 DEF Page!Type, Page!serverVars
  <2> QED
    BY <2>1, SameKnown
<1>3. CASE \/ Page!Submit \/ Page!Review \/ Page!Export \/ Page!Cancel \/ Page!Start
           \/ Page!TimerFires \/ \E i \in Ids : Page!Open(i) \/ Page!Delete(i)
  BY <1>3, PersonKnown
<1>4. CASE Page!Analyze \/ Page!ChangeInput
  BY <1>4, ClearedKnown
<1>5. CASE \E s \in Slots : Page!Handle(s)
  BY <1>5, HandleKnown
<1>6. ASSUME NEW s \in Slots, Page!Fail(s) PROVE RevisionsKnown'
  <2>1. /\ calls[s] # NONE /\ calls' = [calls EXCEPT ![s].failed = TRUE]
        /\ UNCHANGED <<server, session>>
    BY <1>6 DEF Page!Fail, Page!serverVars, Page!shownVars
  <2>2. Ahead
    BY <2>1, AheadStays
  <2> QED
    BY <2>1, <2>2, FailedKnown
<1>7. CASE \E s \in Slots : Page!Answered(s)
  BY <1>7, AnsweredKnown
<1>8. CASE UNCHANGED pageVars
  <2>1. UNCHANGED <<server, calls, session>>
    BY <1>8 DEF pageVars
  <2> QED
    BY <2>1, SameKnown
<1> QED
  BY <1>1, <1>2, <1>3, <1>4, <1>5, <1>6, <1>7, <1>8 DEF Page!Next, Page!Step

LEMMA RevisionsStart == Page!Init => RevisionsKnown
  BY DEF Page!Init, RevisionsKnown

\* The text a review marks is the one it was asked for.
LEMMA ReviewsMark ==
  ASSUME PageInv, RevisionsKnown, Page!Next \/ UNCHANGED pageVars, NEW s \in Slots,
         calls[s] # NONE, calls[s].kind = "review", calls[s].answer = NONE,
         server' # server, calls'[s] # calls[s]
  PROVE  calls[s].text = server[calls[s].id].record
<1>1. CASE Page!Works
  BY <1>1 DEF Page!Works
<1>2. ASSUME NEW t \in Slots, Page!Handle(t)
      PROVE  calls[s].text = server[calls[s].id].record
  <2>1. t = s
    <3>1. \E d : calls' = [calls EXCEPT ![t] = d]
      <4>1. calls[t] \in Page!PageRequests
        BY <1>2, AllCallsTyped DEF Page!Handle, AllCalls
      <4>2. \/ \E a : calls' = [calls EXCEPT ![t].answer = a]
            \/ calls' = [calls EXCEPT ![t].failed = TRUE]
        BY <1>2 DEF Page!Handle
      <4> QED
        BY <4>2
    <3> QED
      BY <3>1, AllCallsTyped DEF AllCalls
  <2>2. calls[s].revision = server[calls[s].id].revision
    BY <1>2, <2>1 DEF Page!Handle, Page!serverVars
  <2>3. Dated(calls[s].id, calls[s].revision, calls[s].text)
    BY DEF RevisionsKnown, CallKnown
  <2> QED
    BY <2>2, <2>3 DEF Dated
<1>3. UNCHANGED pageVars => UNCHANGED server
  BY DEF pageVars
<1> QED
  BY <1>1, <1>2, <1>3, ServerKept DEF Page!Next, Page!Step

-----------------------------------------------------------------------------
(* The suite *)

\* What every step of the suite keeps.
SuiteInv ==
    /\ part = "deadline" => Hanging!SupervisorInv
    /\ part = "dialogue" => Dialogue!DialogueInv
    /\ part = "stream" => Stream!StreamInv
    /\ part = "session" => Session!ConnectionInv
    /\ part = "account" => Account!AccountInv

\* A job starts with nothing running.
LEMMA SupervisorStarts == Hanging!Init => Hanging!SupervisorInv
<1> SUFFICES ASSUME Hanging!Init PROVE Hanging!SupervisorInv
  OBVIOUS
<1>c. MaxClock \in Nat
  BY InstancesAssumption DEF InstancesAssumption, Hanging!SupervisorAssumption
<1> USE DEF Hanging!Init, Hanging!NoResult, Hanging!NoChild, Hanging!FromChild
<1>1. Hanging!SupervisorTypeOK
  <2>1. 0 \in 0..MaxClock /\ 0 \in 0..0 /\ 0 <= 0
    BY <1>c
  <2> QED
    BY <2>1 DEF Hanging!SupervisorTypeOK
<1>2. child \in Hanging!Children /\ reason \in Hanging!Reasons
  BY DEF Hanging!Children, Hanging!Reasons
<1>3. supervisorResult \in [code : Hanging!Codes, started : BOOLEAN]
  BY DEF Hanging!Codes, Hanging!Reasons
<1>4. Hanging!BeforeSpawn /\ Hanging!ChildFollowed /\ Hanging!ResultEarned
  BY DEF Hanging!BeforeSpawn, Hanging!ChildFollowed, Hanging!ResultEarned
<1> QED
  BY <1>1, <1>2, <1>3, <1>4 DEF Hanging!SupervisorInv

\* A conversation starts with nothing said and nothing counted.
LEMMA DialogueStarts == Dialogue!Init => Dialogue!DialogueInv
<1> SUFFICES ASSUME Dialogue!Init PROVE Dialogue!DialogueInv
  OBVIOUS
<1>c. /\ ModelCalls \in Nat \ {0} /\ ToolCalls \in Nat \ {0} /\ ToolSteps \in Nat \ {0}
      /\ InputTokens \in Nat /\ OutputTokens \in Nat
  BY InstancesAssumption DEF InstancesAssumption, Dialogue!DialogueAssumption
<1>u. /\ usage.model = 0 /\ usage.tools = 0 /\ usage.steps = 0 /\ usage.input = 0
      /\ usage.output = 0 /\ usage.complete = TRUE /\ usage \in Dialogue!Usages
  BY DEF Dialogue!Init, Dialogue!Zero, Dialogue!Usages
<1>s. /\ history = <<>> /\ answered = <<>> /\ batch = <<>> /\ Len(batch) = 0
      /\ DOMAIN history = {} /\ DOMAIN answered = {} /\ DOMAIN batch = {}
  BY DEF Dialogue!Init
<1>1. Dialogue!DialogueTypes
  <2>1. history \in Seq(Dialogue!Entries) /\ answered \in Seq(Requests)
        /\ batch \in Seq(Dialogue!Calls)
    BY <1>s
  <2>2. 0 \in 0..ModelCalls /\ 0 \in 0..ToolCalls /\ 0 \in 0..ToolSteps
    BY <1>c
  <2>3. Dialogue!DialogueTypeOK
    BY <1>u, <2>1, <2>2 DEF Dialogue!Init, Dialogue!DialogueTypeOK
  <2> QED
    BY <1>u, <2>2, <2>3 DEF Dialogue!Init, Dialogue!DialogueTypes
<1>2. Dialogue!TurnFollowed
  BY <1>c, <1>u, <1>s DEF Dialogue!Init, Dialogue!TurnFollowed, Dialogue!SnapshotCalls
<1>3. Dialogue!TokensCounted
  BY <1>c, <1>u DEF Dialogue!Init, Dialogue!TokensCounted
<1>4. Dialogue!CallsAnswered
  BY <1>s DEF Dialogue!CallsAnswered
<1>5. Dialogue!ConsultedShown
  BY DEF Dialogue!Init, Dialogue!ConsultedShown
<1> QED
  BY <1>1, <1>2, <1>3, <1>4, <1>5 DEF Dialogue!DialogueInv

\* Nothing of an answer has been sent.
LEMMA StreamStarts == Stream!Init => Stream!StreamInv
<1> SUFFICES ASSUME Stream!Init PROVE Stream!StreamInv
  OBVIOUS
<1>c. MaxItems \in Nat \ {0} /\ MaxText \in Nat
  BY InstancesAssumption DEF InstancesAssumption, Stream!StreamAssumption
<1>1. answer \in Seq(Stream!Items)
  <2>1. PICK n \in 0..MaxItems + 1 : answer \in [1..n -> Stream!Items]
    BY DEF Stream!Init
  <2> HIDE DEF Stream!Items
  <2> QED
    BY <1>c, <2>1
<1>2. DOMAIN items = {} /\ items \in [DOMAIN items -> Stream!Items]
  BY DEF Stream!Init
<1>3. streamOutput \in Seq(Stream!Items) /\ Len(answer) \in Nat
  BY <1>1 DEF Stream!Init
<1>4. Stream!StreamTypeOK
  <2>1. 0 \in 0..MaxText /\ 0 <= 0
    BY <1>c
  <2> QED
    BY <1>2, <1>3, <2>1 DEF Stream!Init, Stream!StreamTypeOK
<1>5. streamPc = "asked" /\ text = pieces /\ pieces \in Nat /\ DOMAIN items = sent
  BY <1>2 DEF Stream!Init
<1> QED
  BY <1>1, <1>2, <1>4, <1>5 DEF Stream!StreamInv

\* Nobody has signed in.
LEMMA ConnectionStarts == Session!Init => Session!ConnectionInv
<1> SUFFICES ASSUME Session!Init PROVE Session!ConnectionInv
  OBVIOUS
<1>c. MaxAttempts \in Nat /\ MaxToken \in Nat /\ NONE \notin Accounts \cup Clients \cup Workers
  BY InstancesAssumption DEF InstancesAssumption, Session!ConnectionAssumption
<1> USE DEF Session!Init, Session!Idle, Session!Attempts, Session!Busied, Session!Holds
<1>1. Session!SessionTypes
  <2>1. 0 \in 0..MaxAttempts /\ 0 \in 0..MaxToken /\ 0 \in Nat
    BY <1>c
  <2>2. /\ thread \in [Threads -> Session!Callbacks] /\ worker \in [Workers -> Session!Sessions]
        /\ issued \in [1..MaxAttempts -> 0..MaxToken] /\ redeemed \in [1..MaxAttempts -> Nat]
    BY <2>1 DEF Session!Callbacks, Session!Sessions
  <2> QED
    BY <2>1, <2>2 DEF Session!SessionTypes
<1>2. Session!AttemptsFollowed
  BY <1>c DEF Session!AttemptsFollowed, Session!Unused
<1>3. Session!TokensFollowed
  BY <1>c DEF Session!TokensFollowed
<1> QED
  BY <1>1, <1>2, <1>3 DEF Session!ConnectionInv

\* Nor has anybody whose directory another account may come to.
LEMMA AccountStarts == Account!Init => Account!AccountInv
<1> SUFFICES ASSUME Account!Init PROVE Account!AccountInv
  OBVIOUS
<1>c. NONE \notin {w1}
  BY InstancesAssumption DEF InstancesAssumption, Account!ConnectionAssumption
<1> USE DEF Account!Init, Account!Idle, Account!Attempts
<1>1. Account!SessionTypes
  <2>1. 0 \in 0..3 /\ 0 \in 0..1 /\ 0 \in Nat
    OBVIOUS
  <2>2. /\ thread \in [{t1} -> Account!Callbacks] /\ worker \in [{w1} -> Account!Sessions]
        /\ issued \in [1..3 -> 0..1] /\ redeemed \in [1..3 -> Nat]
    BY <2>1 DEF Account!Callbacks, Account!Sessions
  <2> QED
    BY <2>1, <2>2 DEF Account!SessionTypes
<1>2. Account!AccountFollowed
  BY <1>c DEF Account!AccountFollowed, Account!Holds
<1> QED
  BY <1>1, <1>2 DEF Account!AccountInv

\* A step that leaves the variables of a part alone keeps its invariant.
LEMMA PartsStutter ==
    /\ Hanging!SupervisorInv /\ UNCHANGED hangingVars => Hanging!SupervisorInv'
    /\ Dialogue!DialogueInv /\ UNCHANGED dialogueVars => Dialogue!DialogueInv'
    /\ Stream!StreamInv /\ UNCHANGED streamVars => Stream!StreamInv'
    /\ Session!ConnectionInv /\ UNCHANGED sessionVars => Session!ConnectionInv'
    /\ Account!AccountInv /\ UNCHANGED sessionVars => Account!AccountInv'
<1>1. Hanging!SupervisorInv /\ UNCHANGED hangingVars => Hanging!SupervisorInv'
  BY DEF hangingVars, Hanging!SupervisorInv, Hanging!SupervisorTypeOK, Hanging!BeforeSpawn,
         Hanging!ChildFollowed, Hanging!ResultEarned
<1>2. Dialogue!DialogueInv /\ UNCHANGED dialogueVars => Dialogue!DialogueInv'
  BY DEF dialogueVars, Dialogue!DialogueInv, Dialogue!DialogueTypes, Dialogue!DialogueTypeOK,
         Dialogue!TurnFollowed, Dialogue!TokensCounted, Dialogue!CallsAnswered,
         Dialogue!ConsultedShown, Dialogue!IsOutput, Dialogue!OverBudget
<1>3. Stream!StreamInv /\ UNCHANGED streamVars => Stream!StreamInv'
  BY DEF streamVars, Stream!StreamInv, Stream!StreamTypeOK
<1>4. Session!ConnectionInv /\ UNCHANGED sessionVars => Session!ConnectionInv'
  BY DEF sessionVars, Session!ConnectionInv, Session!SessionTypes, Session!AttemptsFollowed,
         Session!TokensFollowed, Session!Unused, Session!Busied, Session!Holds
<1>5. Account!AccountInv /\ UNCHANGED sessionVars => Account!AccountInv'
  BY DEF sessionVars, Account!AccountInv, Account!SessionTypes, Account!AccountFollowed,
         Account!Holds, Account!AccountOf
<1> QED
  BY <1>1, <1>2, <1>3, <1>4, <1>5

\* The invariant of the suite is inductive.
LEMMA SuiteInvHolds == SuiteSpec => []SuiteInv
<1>1. SuiteInit => SuiteInv
  BY SupervisorStarts, DialogueStarts, StreamStarts, ConnectionStarts, AccountStarts
     DEF SuiteInit, SuiteInv
<1>2. SuiteInv /\ [SuiteNext]_suiteVars => SuiteInv'
  <2> SUFFICES ASSUME SuiteInv, [SuiteNext]_suiteVars PROVE SuiteInv'
    OBVIOUS
  <2>1. part' = part
    BY DEF SuiteNext, suiteVars
  <2>2. part = "deadline" => Hanging!SupervisorInv'
    <3> SUFFICES ASSUME part = "deadline" PROVE Hanging!SupervisorInv'
      OBVIOUS
    <3>1. Hanging!Next \/ UNCHANGED hangingVars
      BY DEF SuiteNext, suiteVars
    <3> QED
      BY <3>1, SupervisorStep, PartsStutter DEF SuiteInv
  <2>3. part = "dialogue" => Dialogue!DialogueInv'
    <3> SUFFICES ASSUME part = "dialogue" PROVE Dialogue!DialogueInv'
      OBVIOUS
    <3>1. Dialogue!Next \/ UNCHANGED dialogueVars
      BY DEF SuiteNext, suiteVars
    <3> QED
      BY <3>1, DialogueStep, PartsStutter DEF SuiteInv
  <2>4. part = "stream" => Stream!StreamInv'
    <3> SUFFICES ASSUME part = "stream" PROVE Stream!StreamInv'
      OBVIOUS
    <3>1. Stream!Next \/ UNCHANGED streamVars
      BY DEF SuiteNext, suiteVars
    <3> QED
      BY <3>1, StreamStep, PartsStutter DEF SuiteInv
  <2>5. part = "session" => Session!ConnectionInv'
    <3> SUFFICES ASSUME part = "session" PROVE Session!ConnectionInv'
      OBVIOUS
    <3>1. Session!Next \/ UNCHANGED sessionVars
      BY DEF SuiteNext, suiteVars
    <3> QED
      BY <3>1, ConnectionStep, PartsStutter DEF SuiteInv
  <2>6. part = "account" => Account!AccountInv'
    <3> SUFFICES ASSUME part = "account" PROVE Account!AccountInv'
      OBVIOUS
    <3>1. Account!Next \/ UNCHANGED sessionVars
      BY DEF SuiteNext, suiteVars
    <3> QED
      BY <3>1, AccountStep, PartsStutter DEF SuiteInv
  <2> QED
    BY <2>1, <2>2, <2>3, <2>4, <2>5, <2>6 DEF SuiteInv
<1> QED
  BY <1>1, <1>2, PTL DEF SuiteSpec

\* What the page is and knows is kept by every part.
LEMMA PageInvHolds == SuiteSpec => [](PageInv /\ RevisionsKnown)
<1>1. SuiteInit => PageInv /\ RevisionsKnown
  BY PageStarts, RevisionsStart DEF SuiteInit
<1>2. PageInv /\ RevisionsKnown /\ [SuiteNext]_suiteVars => PageInv' /\ RevisionsKnown'
  <2> SUFFICES ASSUME PageInv, RevisionsKnown, [SuiteNext]_suiteVars
               PROVE  PageInv' /\ RevisionsKnown'
    OBVIOUS
  <2>1. Page!Next \/ UNCHANGED pageVars
    BY Zenon DEF SuiteNext, suiteVars
  <2> QED
    BY <2>1, PageStep, RevisionsStep
<1> QED
  BY <1>1, <1>2, PTL DEF SuiteSpec

\* However a job of the supervisor ends, no process of it is left, only a whole
\* answer of a child that ended well is returned, and accounting called complete
\* is true: whatever the sizes of job, pipes and answer, and whatever the limits.
THEOREM JobLeavesNothingHolds == SuiteSpec => []JobLeavesNothing
<1>1. SuiteInv => JobLeavesNothing
  <2> SUFFICES ASSUME Hanging!SupervisorInv
               PROVE  Hanging!SupervisorTypeOK /\ Hanging!NothingLeftBehind
                      /\ Hanging!OnlyWholeReports /\ Hanging!AccountingHonest
    BY DEF SuiteInv, JobLeavesNothing
  <2>1. Hanging!SupervisorTypeOK /\ Hanging!NothingLeftBehind /\ Hanging!AccountingHonest
    BY DEF Hanging!SupervisorInv, Hanging!NothingLeftBehind, Hanging!AccountingHonest,
           Hanging!ChildFollowed, Hanging!ResultEarned
  <2>2. Hanging!OnlyWholeReports
    BY DEF Hanging!SupervisorInv, Hanging!OnlyWholeReports, Hanging!ChildFollowed,
           Hanging!ResultEarned, Hanging!Docs
  <2> QED
    BY <2>1, <2>2
<1> QED
  BY <1>1, SuiteInvHolds, PTL

\* An accepted report is within its budget and cites what was shown, nothing is
\* read twice, every call has one output when the model is asked again, and
\* accounting called complete is what was spent: for every set of limits,
\* identifiers and requests.
THEOREM ConversationSoundHolds == SuiteSpec => []ConversationSound
<1>1. SuiteInv => ConversationSound
  <2> SUFFICES ASSUME Dialogue!DialogueInv
               PROVE  Dialogue!DialogueTypeOK /\ Dialogue!ReportWithinLimits
                      /\ Dialogue!NoRepeatedRead /\ Dialogue!ContinuationPaired
                      /\ Dialogue!CitesOnlyRead /\ Dialogue!AccountingComplete
    BY DEF SuiteInv, ConversationSound
  <2>c. InputTokens \in Nat /\ OutputTokens \in Nat
    BY InstancesAssumption DEF InstancesAssumption, Dialogue!DialogueAssumption
  <2>1. /\ Dialogue!DialogueTypeOK /\ usage \in Dialogue!Usages /\ Dialogue!TurnFollowed
        /\ Dialogue!TokensCounted /\ Dialogue!CallsAnswered /\ Dialogue!ConsultedShown
    BY DEF Dialogue!DialogueInv, Dialogue!DialogueTypes
  <2>2. Dialogue!ReportWithinLimits /\ Dialogue!AccountingComplete
    BY <2>c, <2>1, UsageFields DEF Dialogue!TokensCounted, Dialogue!OverBudget,
       Dialogue!ReportWithinLimits, Dialogue!AccountingComplete
  <2>3. Dialogue!NoRepeatedRead
    BY <2>1 DEF Dialogue!NoRepeatedRead, Dialogue!IsInjective, Dialogue!CallsAnswered
  <2>4. Dialogue!ContinuationPaired
    <3> SUFFICES ASSUME pc = "ask", NEW h \in DOMAIN history, history[h].kind = "call"
                 PROVE  Dialogue!Cardinality({o \in DOMAIN history :
                            history[o] = [history[h] EXCEPT !.kind = "output"]}) = 1
      BY DEF Dialogue!ContinuationPaired
    <3>1. batch = <<>> /\ DOMAIN batch = {}
      BY <2>1 DEF Dialogue!TurnFollowed
    <3>2. \A k \in DOMAIN history : history[k] \in Dialogue!Entries
      BY <2>1 DEF Dialogue!DialogueTypeOK
    <3>3. \A k \in DOMAIN history : history[k] = [history[h] EXCEPT !.kind = "output"]
             <=> /\ history[k].kind = "output" /\ history[k].id = history[h].id
                 /\ history[k].request = history[h].request
      BY <3>2 DEF Dialogue!Entries
    <3>4. PICK o \in DOMAIN history :
             /\ history[o].kind = "output" /\ history[o].id = history[h].id
             /\ history[o].request = history[h].request
      BY <2>1, <3>1 DEF Dialogue!CallsAnswered, Dialogue!IsOutput
    <3>5. {k \in DOMAIN history : history[k] = [history[h] EXCEPT !.kind = "output"]} = {o}
      BY <2>1, <3>3, <3>4 DEF Dialogue!CallsAnswered, Dialogue!IsOutput
    <3> QED
      BY <3>5, SameCardinality, FS_Singleton
  <2>5. Dialogue!CitesOnlyRead
    BY <2>1 DEF Dialogue!CitesOnlyRead, Dialogue!ConsultedShown, Dialogue!IsOutput
  <2> QED
    BY <2>1, <2>2, <2>3, <2>4, <2>5
<1> QED
  BY <1>1, SuiteInvHolds, PTL

\* A reply is the whole answer in the provider's order, and its calls differ: for
\* every answer, however its items arrived and wherever the stream broke off.
THEOREM ReplyIsWholeHolds == SuiteSpec => []ReplyIsWhole
<1>1. SuiteInv => ReplyIsWhole
  <2> SUFFICES ASSUME Stream!StreamInv
               PROVE  Stream!StreamTypeOK /\ Stream!WholeAnswer /\ Stream!CallsDistinct
    BY DEF SuiteInv, ReplyIsWhole
  <2>1. Stream!StreamTypeOK /\ Stream!WholeAnswer
    BY DEF Stream!StreamInv, Stream!WholeAnswer
  <2>2. Stream!CallsDistinct
    <3> SUFFICES ASSUME streamPc = "replied"
                 PROVE  Stream!IsInjective([n \in DOMAIN reply.calls |-> reply.calls[n].id])
      BY DEF Stream!CallsDistinct
    <3>1. reply.calls = Stream!CallsOf(answer) /\ answer \in Seq(Stream!Items)
      BY DEF Stream!StreamInv
    <3>2. \A k, l \in DOMAIN reply.calls : reply.calls[k].id = reply.calls[l].id => k = l
      BY <3>1, CallsDiffer DEF Stream!StreamInv
    <3> QED
      BY <3>2 DEF Stream!IsInjective
  <2> QED
    BY <2>1, <2>2
<1> QED
  BY <1>1, SuiteInvHolds, PTL

\* A sign-in code is exchanged once, and a rotated token is sent again or missing
\* from the file only where a worker was killed or an answer lost: for every number
\* of workers, threads, attempts and rotations.
THEOREM TokensSpentOnceHolds == SuiteSpec => []TokensSpentOnce
<1>1. SuiteInv => TokensSpentOnce
  <2> SUFFICES ASSUME Session!ConnectionInv
               PROVE  Session!ConnectionTypeOK /\ Session!CodeExchangedOnce
                      /\ Session!NoTokenSpentTwice /\ Session!ConnectionUsable
    BY DEF SuiteInv, TokensSpentOnce
  <2>c. NONE \notin Workers
    BY InstancesAssumption DEF InstancesAssumption, Session!ConnectionAssumption
  <2>1. Session!ConnectionTypeOK /\ Session!CodeExchangedOnce /\ Session!NoTokenSpentTwice
    BY DEF Session!ConnectionInv, Session!ConnectionTypeOK, Session!CodeExchangedOnce,
           Session!NoTokenSpentTwice, Session!SessionTypes, Session!AttemptsFollowed,
           Session!TokensFollowed, Session!Holds
  <2>2. Session!ConnectionUsable
    BY <2>c DEF Session!ConnectionInv, Session!ConnectionUsable, Session!TokensFollowed,
           Session!Holds
  <2> QED
    BY <2>1, <2>2
<1> QED
  BY <1>1, SuiteInvHolds, PTL

\* What the page shows belongs together, a typed text is kept, an investigation under
\* way is watched by one chain of polls and an export is whole: for any number of
\* investigations, analyses and requests under way, and whatever the person, the other
\* browser, the worker and the connection do, in any order and however often.
THEOREM PageTogetherHolds == SuiteSpec => []PageTogether
<1>1. PageInv => PageTogether
  BY PageSound DEF PageTogether
<1> QED
  BY <1>1, PageInvHolds, PTL

\* A conversation reads nothing after its repair: when it can, its tools are closed.
LEMMA RepairCloses ==
  ASSUME Dialogue!DialogueInv, Dialogue!Next, repaired
  PROVE  answered' = answered /\ history' = history
<1>1. Dialogue!TurnFollowed
  BY DEF Dialogue!DialogueInv
<1>2. CASE Dialogue!TakeBatch
  <2>1. finalOnly
    BY <1>1, <1>2 DEF Dialogue!TakeBatch, Dialogue!TurnFollowed
  <2> QED
    BY <1>2, <2>1 DEF Dialogue!TakeBatch
<1>3. CASE Dialogue!Record
  BY <1>1, <1>3 DEF Dialogue!Record, Dialogue!TurnFollowed
<1> QED
  BY <1>2, <1>3 DEF Dialogue!Next, Dialogue!Progress, Dialogue!Begin, Dialogue!BeginSnapshot,
     Dialogue!Fail, Dialogue!Reply, Dialogue!Examine, Dialogue!Report, Dialogue!ReportSnapshot,
     Dialogue!Tick, Dialogue!Cancel, Dialogue!dialogue

\* No refresh changes the account of a directory or undoes a later sign-in, a
\* conversation reads nothing after its repair and a review marks the text it was
\* asked for: for every set of workers, threads, calls, investigations and requests
\* under way, and whatever limits, rotations and revisions there are; the account of
\* a directory, for two accounts and clients, one worker and three attempts.
THEOREM AccountKeptHolds == SuiteSpec => AccountKept
<1> DEFINE Marks == \A s \in Slots :
              /\ calls[s] # NONE /\ calls[s].kind = "review" /\ calls[s].answer = NONE
              /\ server' # server /\ calls'[s] # calls[s]
              => calls[s].text = server[calls[s].id].record
           Closes == repaired => answered' = answered /\ history' = history
           Kept == part = "account" => Account!OneAccount /\ Account!SignInKept
           Later == part = "session" => Session!SignInKept
<1>1. SuiteInv /\ PageInv /\ RevisionsKnown /\ [SuiteNext]_suiteVars
        => /\ [Kept]_sessionVars /\ [Later]_sessionVars
           /\ [Closes]_(Dialogue!vars) /\ [Marks]_(Page!vars)
  <2> SUFFICES ASSUME SuiteInv, PageInv, RevisionsKnown, [SuiteNext]_suiteVars
               PROVE  /\ [Kept]_sessionVars /\ [Later]_sessionVars
                      /\ [Closes]_(Dialogue!vars) /\ [Marks]_(Page!vars)
    OBVIOUS
  <2>1. [Kept]_sessionVars
    <3> SUFFICES ASSUME part = "account", ~ UNCHANGED sessionVars
                 PROVE  Account!OneAccount /\ Account!SignInKept
      BY DEF Kept
    <3>1. Account!Next
      BY DEF SuiteNext, suiteVars
    <3> QED
      BY <3>1, AccountKeeps DEF SuiteInv
  <2>2. [Later]_sessionVars
    BY SessionKeeps DEF SuiteInv, Later
  <2>3. [Closes]_(Dialogue!vars)
    <3> SUFFICES ASSUME repaired PROVE answered' = answered /\ history' = history
      BY DEF Closes
    <3>1. CASE UNCHANGED dialogueVars
      BY <3>1 DEF dialogueVars
    <3>2. CASE part = "dialogue" /\ Dialogue!Next
      BY <3>2, RepairCloses DEF SuiteInv
    <3> QED
      BY <3>1, <3>2 DEF SuiteNext, suiteVars
  <2>4. [Marks]_(Page!vars)
    <3>1. Page!Next \/ UNCHANGED pageVars
      BY Zenon DEF SuiteNext, suiteVars
    <3>2. Marks
      BY <3>1, ReviewsMark DEF Marks
    <3> QED
      BY <3>2
  <2> QED
    BY <2>1, <2>2, <2>3, <2>4
<1>2. SuiteSpec => [](SuiteInv /\ PageInv /\ RevisionsKnown) /\ [][SuiteNext]_suiteVars
  BY SuiteInvHolds, PageInvHolds, PTL DEF SuiteSpec
<1> QED
  BY <1>1, <1>2, PTL DEF AccountKept, Dialogue!RepairIsLast, Page!ReviewMarksShown,
     Kept, Later, Closes, Marks
=============================================================================
