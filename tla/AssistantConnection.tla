------------------------- MODULE AssistantConnection -------------------------
(***************************************************************************)
(* The account connection of the assistant: assistant_auth.py (sign-in)    *)
(* and the session part of assistant_provider.py (token refresh).          *)
(*                                                                         *)
(* connection.json is shared by the sign-in program, whose requests run in *)
(* threads, and by the workers, one process for a turn.  Workers serialize *)
(* their refreshes by a lock on refresh.lock; the sign-in writes without   *)
(* it.  The supervisor may kill a worker at any point.                     *)
(*                                                                         *)
(* A grant stands for one sign-in at the provider; each of its refresh     *)
(* tokens is numbered, and the provider accepts the last one it issued.    *)
(***************************************************************************)
EXTENDS Naturals, FiniteSets

CONSTANTS
    Workers,      \* processes that use the session
    Threads,      \* request threads of the sign-in program
    Accounts,     \* subjects that may sign in
    Clients,      \* registrations the provider issues
    MaxAttempts,  \* sign-in attempts (bound)
    MaxToken,     \* rotations of one grant (bound)
    NONE          \* no record, no attempt, nobody

Attempts == 1..MaxAttempts
Record == [client : Clients, subject : Accounts, grant : Attempts,
           token : 0..MaxToken, fresh : BOOLEAN]

ConnectionAssumption ==
    /\ MaxAttempts \in Nat /\ MaxToken \in Nat
    /\ NONE \notin Accounts \cup Clients \cup Workers \cup Record

VARIABLES
    registration, \* client of registration.json; NONE: to be issued
    connection,   \* connection.json; NONE before the first sign-in
    attempt,      \* state["attempt"]; NONE, or its number and client
    attempts,     \* attempts made
    thread,       \* request threads: step and what they carry
    holder,       \* worker with the lock on refresh.lock
    worker,       \* workers: step and the record they read
    issued,       \* provider: last refresh token of each grant
    redeemed,     \* provider: exchanges of each attempt's code
    torn,         \* grants whose rotation a kill or a lost answer cut off
    deadSent,     \* grants a refresh token of which came back rotated
    crossed       \* a sign-in wrote the connection under a worker's lock

disk == <<registration, connection>>
login == <<attempt, attempts, thread>>
session == <<holder, worker>>
provider == <<issued, redeemed>>
ghosts == <<torn, deadSent, crossed>>
vars == <<disk, login, session, provider, ghosts>>

Idle == [pc |-> "idle"]
AccountOf(r) == <<r.client, r.subject>>

-----------------------------------------------------------------------------
(* Sign-in *)

\* do_POST: a valid form replaces the attempt by a new one.
Connect ==
    /\ attempts < MaxAttempts
    /\ attempts' = attempts + 1
    /\ attempt' = [id |-> attempts + 1, client |-> registration]
    /\ UNCHANGED <<disk, thread, session, provider, ghosts>>

\* The client of a callback is the supplied one, which may not differ from the
\* client of the attempt; a first registration must supply it.
ClientOf(a, supplied) == IF supplied = NONE THEN a.client ELSE supplied
ClientAccepted(a, supplied) ==
    /\ ClientOf(a, supplied) # NONE
    /\ a.client # NONE => supplied \in {NONE, a.client}

\* Mutant: the attempt is dropped after the exchange, not before.
CallbackLateConsume(t) ==
    /\ thread[t].pc = "idle" /\ attempt # NONE
    /\ \E supplied \in Clients \cup {NONE}, subject \in Accounts :
         /\ ClientAccepted(attempt, supplied)
         /\ thread' = [thread EXCEPT ![t] =
              [pc |-> "exchange", id |-> attempt.id, subject |-> subject,
               client |-> ClientOf(attempt, supplied)]]
    /\ UNCHANGED <<attempt, attempts, disk, session, provider, ghosts>>
\* do_GET /auth/callback up to the exchange: under the state's lock the attempt
\* is consumed, except by a callback of another or an expired attempt.
Callback(t) ==
    /\ thread[t].pc = "idle" /\ attempt # NONE
    /\ \E id \in 1..attempts, supplied \in Clients \cup {NONE},
          granted \in BOOLEAN, subject \in Accounts :
         IF id # attempt.id THEN UNCHANGED <<attempt, thread>>
         ELSE /\ attempt' = NONE
              /\ IF granted /\ ClientAccepted(attempt, supplied)
                 THEN thread' = [thread EXCEPT ![t] =
                        [pc |-> "exchange", id |-> id, subject |-> subject,
                         client |-> ClientOf(attempt, supplied)]]
                 ELSE UNCHANGED thread
    /\ UNCHANGED <<attempts, disk, session, provider, ghosts>>

\* exchange(): the issued registration is saved before the network is used.
Register(t) ==
    /\ thread[t].pc = "exchange"
    /\ registration' = thread[t].client
    /\ thread' = [thread EXCEPT ![t].pc = "redeem"]
    /\ UNCHANGED <<connection, attempt, attempts, session, provider, ghosts>>

\* The code is exchanged; the provider may refuse, or answer what is refused.
Redeem(t) ==
    /\ thread[t].pc = "redeem"
    /\ redeemed' = [redeemed EXCEPT ![thread[t].id] = @ + 1]
    /\ thread' = [thread EXCEPT ![t].pc = "compare"] \/ thread' = [thread EXCEPT ![t] = Idle]
    /\ UNCHANGED <<disk, attempt, attempts, session, issued, ghosts>>

\* Mutant: the earlier connection is not looked at.
CompareNothing(t) ==
    /\ thread[t].pc = "compare"
    /\ thread' = [thread EXCEPT ![t].pc = "save"]
    /\ UNCHANGED <<disk, attempt, attempts, session, provider, ghosts>>
\* The account of an earlier connection may not change.
Compare(t) ==
    /\ thread[t].pc = "compare"
    /\ thread' =
         IF connection # NONE /\ AccountOf(connection) # AccountOf(thread[t])
         THEN [thread EXCEPT ![t] = Idle]
         ELSE [thread EXCEPT ![t].pc = "save"]
    /\ UNCHANGED <<disk, attempt, attempts, session, provider, ghosts>>

\* The record replaces connection.json, without the lock of the workers.
SaveSignIn(t) ==
    /\ thread[t].pc = "save"
    /\ connection' = [client |-> thread[t].client, subject |-> thread[t].subject,
                      grant |-> thread[t].id, token |-> 0, fresh |-> TRUE]
    /\ thread' = [thread EXCEPT ![t] = Idle]
    /\ crossed' = (crossed \/ holder # NONE)
    /\ UNCHANGED <<registration, attempt, attempts, session, provider,
                   torn, deadSent>>

-----------------------------------------------------------------------------
(* The workers' session: _session_lock and _access_token *)

Leave(w) == holder' = NONE /\ worker' = [worker EXCEPT ![w] = Idle]

\* A turn needs the token: it waits for the lock.
Ask(w) ==
    /\ worker[w].pc = "idle"
    /\ worker' = [worker EXCEPT ![w] = [pc |-> "waiting", record |-> NONE]]
    /\ UNCHANGED <<holder, disk, login, provider, ghosts>>

\* LLM_SESSION_BUSY after five seconds of another worker's lock.
Busy(w) ==
    /\ worker[w].pc = "waiting" /\ holder # NONE
    /\ worker' = [worker EXCEPT ![w] = Idle]
    /\ UNCHANGED <<holder, disk, login, provider, ghosts>>

\* With the lock the record is read; a fresh one is used as it is.
Enter(w) ==
    /\ worker[w].pc = "waiting" /\ holder = NONE
    /\ LET record == IF worker[w].record = NONE THEN connection ELSE worker[w].record
       IN IF record = NONE \/ record.fresh THEN Leave(w)
          ELSE /\ holder' = w
               /\ worker' = [worker EXCEPT ![w] = [pc |-> "refresh", record |-> record]]
    /\ UNCHANGED <<disk, login, provider, ghosts>>

\* The provider accepts the last token of the grant.  It issues another one or
\* none; its answer, or what the answer says, may be refused by the worker.
Refresh(w) ==
    /\ worker[w].pc = "refresh"
    /\ LET record == worker[w].record
           grant == record.grant
           last == issued[grant]
       IN IF record.token # last
          THEN /\ deadSent' = deadSent \cup {grant}
               /\ Leave(w) /\ UNCHANGED <<issued, torn>>
          ELSE \E next \in {last, last + 1} \cap 0..MaxToken :
               /\ issued' = [issued EXCEPT ![grant] = next]
               /\ \/ /\ worker' = [worker EXCEPT ![w] =
                          [pc |-> "save", record |-> [record EXCEPT !.token = next, !.fresh = TRUE]]]
                     /\ UNCHANGED <<holder, torn>>
                  \/ /\ torn' = IF next = last THEN torn ELSE torn \cup {grant}
                     /\ Leave(w)
               /\ UNCHANGED deadSent
    /\ UNCHANGED <<disk, login, redeemed, crossed>>

\* The record, with the new tokens in it, replaces connection.json.
SaveRefresh(w) ==
    /\ worker[w].pc = "save"
    /\ connection' = worker[w].record
    /\ Leave(w)
    /\ UNCHANGED <<registration, login, provider, ghosts>>

\* The supervisor kills the worker; the system releases its lock.
Kill(w) ==
    /\ worker[w].pc # "idle"
    /\ worker' = [worker EXCEPT ![w] = Idle]
    /\ holder' = IF holder = w THEN NONE ELSE holder
    /\ torn' = IF worker[w].pc = "save" THEN torn \cup {worker[w].record.grant} ELSE torn
    /\ UNCHANGED <<disk, login, provider, deadSent, crossed>>

\* The access token comes within a minute of its end.
Expire ==
    /\ connection # NONE /\ connection.fresh
    /\ connection' = [connection EXCEPT !.fresh = FALSE]
    /\ UNCHANGED <<registration, login, session, provider, ghosts>>

Init ==
    /\ registration = NONE /\ connection = NONE
    /\ attempt = NONE /\ attempts = 0 /\ thread = [t \in Threads |-> Idle]
    /\ holder = NONE /\ worker = [w \in Workers |-> Idle]
    /\ issued = [g \in Attempts |-> 0] /\ redeemed = [a \in Attempts |-> 0]
    /\ torn = {} /\ deadSent = {} /\ crossed = FALSE

Next ==
    \/ Connect \/ Expire
    \/ \E t \in Threads :
         Callback(t) \/ Register(t) \/ Redeem(t) \/ Compare(t) \/ SaveSignIn(t)
    \/ \E w \in Workers :
         Ask(w) \/ Busy(w) \/ Enter(w) \/ Refresh(w) \/ SaveRefresh(w) \/ Kill(w)

Spec == Init /\ [][Next]_vars

-----------------------------------------------------------------------------
(* Properties *)

\* The code of an attempt goes to the provider at most once, however often its
\* callback arrives and whatever other attempts are made meanwhile.
CodeExchangedOnce == \A a \in Attempts : redeemed[a] <= 1

\* Of the workers only the one with the lock is between reading and writing.
ConnectionTypeOK ==
    /\ connection \in Record \cup {NONE}
    /\ registration \in Clients \cup {NONE}
    /\ \A w \in Workers : worker[w].pc \in {"refresh", "save"} <=> holder = w
    /\ connection # NONE => connection.token <= issued[connection.grant]

\* A token that was rotated is sent again only where a worker was killed or the
\* answer was lost between the provider's rotation and the file: workers alone,
\* and sign-ins beside them, never spend a token twice.
NoTokenSpentTwice == deadSent \subseteq torn

\* The file holds the last token of its grant under the same exception.
ConnectionUsable ==
    connection # NONE /\ connection.grant \notin torn /\ holder = NONE
        => connection.token = issued[connection.grant]

\* A step of refresh does not undo a later sign-in, unless the sign-in wrote while
\* a worker held the lock.
SignInKept ==
    (\E w \in Workers : SaveRefresh(w)) /\ ~crossed => connection'.grant >= connection.grant

\* AUTH_ACCOUNT_CHANGED_USE_SEPARATE_STORE: no step gives a directory another account.
OneAccount == connection # NONE => AccountOf(connection') = AccountOf(connection)

-----------------------------------------------------------------------------
(* What every step keeps, and the properties follow from. *)

Callbacks == {Idle} \cup [pc : {"exchange", "redeem", "compare", "save"},
                         id : Attempts, subject : Accounts, client : Clients]
Sessions == {Idle} \cup [pc : {"waiting"}, record : {NONE}]
            \cup [pc : {"refresh", "save"}, record : Record]
Busied(t) == thread[t].pc # "idle"
Holds(w) == worker[w].pc \in {"refresh", "save"}

SessionTypes ==
    /\ registration \in Clients \cup {NONE} /\ connection \in Record \cup {NONE}
    /\ attempts \in 0..MaxAttempts
    /\ attempt \in [id : Attempts, client : Clients \cup {NONE}] \cup {NONE}
    /\ thread \in [Threads -> Callbacks] /\ worker \in [Workers -> Sessions]
    /\ holder \in Workers \cup {NONE}
    /\ issued \in [Attempts -> 0..MaxToken] /\ redeemed \in [Attempts -> Nat]
    /\ torn \subseteq Attempts /\ deadSent \subseteq Attempts /\ crossed \in BOOLEAN

\* A grant nobody has a record of yet.
Unused(a) ==
    /\ issued[a] = 0 /\ a \notin torn
    /\ connection # NONE => connection.grant # a
    /\ \A w \in Workers : Holds(w) => worker[w].record.grant # a

\* An attempt is with the state, or then with one thread, or over; its code is
\* exchanged on the way, and its grant is used by no one before it is saved.
AttemptsFollowed ==
    /\ \A a \in Attempts : redeemed[a] <= 1
    /\ \A a \in Attempts : a > attempts => Unused(a) /\ redeemed[a] = 0
    /\ attempt # NONE =>
         /\ attempt.id <= attempts /\ Unused(attempt.id) /\ redeemed[attempt.id] = 0
         /\ \A t \in Threads : Busied(t) => thread[t].id # attempt.id
    /\ \A t \in Threads : Busied(t) =>
         /\ thread[t].id <= attempts /\ Unused(thread[t].id)
         /\ thread[t].pc \in {"exchange", "redeem"} => redeemed[thread[t].id] = 0
    /\ \A t, u \in Threads : Busied(t) /\ Busied(u) /\ thread[t].id = thread[u].id => t = u

\* Whoever has the lock has the last token of its grant, or that grant is torn;
\* so has the file, but for the worker that is about to write it.
TokensFollowed ==
    /\ \A w \in Workers : Holds(w) <=> holder = w
    /\ \A w \in Workers : Holds(w) =>
         LET record == worker[w].record IN
         /\ record.token <= issued[record.grant]
         /\ record.grant \in torn \/ record.token = issued[record.grant]
         /\ crossed \/ connection.grant = record.grant
    /\ connection # NONE =>
         /\ connection.token <= issued[connection.grant]
         /\ \/ connection.grant \in torn
            \/ connection.token = issued[connection.grant]
            \/ \E w \in Workers : worker[w].pc = "save" /\ worker[w].record.grant = connection.grant
    /\ deadSent \subseteq torn

ConnectionInv == SessionTypes /\ AttemptsFollowed /\ TokensFollowed

\* Whoever is to write the connection writes the account that is there; whoever has
\* the lock, also its grant, unless a sign-in has come between.
AccountFollowed ==
    /\ \A t \in Threads : thread[t].pc = "save" /\ connection # NONE =>
         AccountOf(thread[t]) = AccountOf(connection)
    /\ \A w \in Workers : Holds(w) =>
         /\ holder = w /\ connection # NONE
         /\ AccountOf(worker[w].record) = AccountOf(connection)
         /\ crossed \/ worker[w].record.grant = connection.grant

AccountInv == SessionTypes /\ AccountFollowed
=============================================================================
