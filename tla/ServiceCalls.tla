----------------------------- MODULE ServiceCalls -----------------------------
(***************************************************************************)
(* One request through the sample services: gateway, orders and payment    *)
(* (internal/gateway, internal/orders, internal/payment) and the services  *)
(* of controlled topologies (internal/benchmark), each with its fault      *)
(* injector (internal/fault).                                              *)
(*                                                                         *)
(* The request is a tree of calls.  A handler reads its fault, waits,      *)
(* fails or calls on, and answers when it has heard from each of its       *)
(* calls.  A client that gives up cancels what it called, which the other  *)
(* side sees in its own time.  Latencies are not counted.                  *)
(***************************************************************************)
EXTENDS Naturals, FiniteSets

CONSTANTS
    Calls, Root,
    Parent,         \* of each call but the root
    Order,          \* among the calls of one handler, when they are sequential
    Services, ServiceOf,
    Parallel,       \* calls whose handler calls on in parallel
    AlwaysOk,       \* calls whose handler answers 200 whatever it heard
    MaxChanges,     \* changes of fault configurations (bound)
    NONE

CallsAssumption ==
    /\ Root \in Calls /\ ServiceOf \in [Calls -> Services]
    /\ Parent \in [Calls -> Calls \cup {NONE}] /\ Parent[Root] = NONE
    /\ Order \in [Calls -> Nat] /\ NONE \notin Calls \cup {0, 200, 500, 502}
    /\ Parallel \subseteq Calls /\ AlwaysOk \subseteq Calls /\ MaxChanges \in Nat

VARIABLES
    config,        \* the injector of each service
    changes,
    pc,            \* "idle", "delay", "inject", "calling", "done"
    taken,         \* the configuration the handler read
    cancelled,     \* its context is done
    status,        \* what it answered; NONE: nothing was written
    recorded,      \* the status its span, log and RED metrics have
    heard          \* what its caller heard: NONE, a status, Lost

vars == <<config, changes, pc, taken, cancelled, status, recorded, heard>>

\* error_rate of 0, of 1, or between, and latency_ms above 0 or not
Configs == [latency : BOOLEAN, errors : {"never", "some", "always"}]
NoFault == [latency |-> FALSE, errors |-> "never"]

Lost == 0   \* client.Do returned an error
Children(c) == {d \in Calls : Parent[d] = c}
Heard(c) == heard[c] # NONE
Failed(c) == heard[c] # 200

-----------------------------------------------------------------------------
(* /debug/fault, /debug/reset *)

SetConfig(s, value) ==
    /\ changes < MaxChanges /\ changes' = changes + 1
    /\ config' = [config EXCEPT ![s] = value]
    /\ UNCHANGED <<pc, taken, cancelled, status, recorded, heard>>

-----------------------------------------------------------------------------
(* A call and its handler *)

\* The caller turns to c: first, or after its earlier calls unless in parallel.
Turn(c) ==
    /\ pc[c] = "idle" /\ ~Heard(c)
    /\ IF c = Root THEN TRUE
       ELSE /\ pc[Parent[c]] = "calling"
            /\ \/ Parent[c] \in Parallel
               \/ \A d \in Children(Parent[c]) : Order[d] < Order[c] => Heard(d)

\* Apply reads the configuration once.
Arrive(c) ==
    /\ Turn(c) /\ (c # Root => ~cancelled[Parent[c]])
    /\ taken' = [taken EXCEPT ![c] = config[ServiceOf[c]]]
    /\ pc' = [pc EXCEPT ![c] = IF config[ServiceOf[c]].latency THEN "delay" ELSE "inject"]
    /\ UNCHANGED <<config, changes, cancelled, status, recorded, heard>>

\* client.Do fails at once: nobody listens, or the caller's context is done.
Unreachable(c) ==
    /\ Turn(c) /\ c # Root
    /\ heard' = [heard EXCEPT ![c] = Lost]
    /\ UNCHANGED <<config, changes, pc, taken, cancelled, status, recorded>>

\* The response is written; a caller that gave up does not hear it.
Answer(c, code) ==
    /\ pc' = [pc EXCEPT ![c] = "done"]
    /\ status' = [status EXCEPT ![c] = code]
    /\ recorded' = [recorded EXCEPT ![c] = code]
    /\ heard' = [heard EXCEPT ![c] = IF @ = NONE THEN code ELSE @]
    /\ UNCHANGED <<config, changes, taken, cancelled>>

\* The delay ends by its timer, also when the context is done as well.
DelayOver(c) ==
    /\ pc[c] = "delay"
    /\ pc' = [pc EXCEPT ![c] = "inject"]
    /\ UNCHANGED <<config, changes, taken, cancelled, status, recorded, heard>>

\* Or by the context: the handler returns without a response, and what wraps
\* it has the status with which it began.
DelayCancelled(c) ==
    /\ pc[c] = "delay" /\ cancelled[c]
    /\ pc' = [pc EXCEPT ![c] = "done"]
    /\ recorded' = [recorded EXCEPT ![c] = 200]
    /\ UNCHANGED <<config, changes, taken, cancelled, status, heard>>

InjectError(c) ==
    /\ pc[c] = "inject" /\ taken[c].errors # "never"
    /\ Answer(c, 500)

Pass(c) ==
    /\ pc[c] = "inject" /\ taken[c].errors # "always"
    /\ pc' = [pc EXCEPT ![c] = "calling"]
    /\ UNCHANGED <<config, changes, taken, cancelled, status, recorded, heard>>

\* Mutant: one result is enough.
AnyHeard(c) == Children(c) = {} \/ \E d \in Children(c) : Heard(d)
AllHeard(c) == \A d \in Children(c) : Heard(d)

StatusOf(c) ==
    IF c \notin AlwaysOk /\ \E d \in Children(c) : Failed(d) THEN 502 ELSE 200

Respond(c) ==
    /\ pc[c] = "calling" /\ AllHeard(c)
    /\ Answer(c, StatusOf(c))

\* The client's timeout, or the end of its own context.
GiveUp(c) ==
    /\ pc[c] \notin {"idle", "done"} /\ ~Heard(c)
    /\ heard' = [heard EXCEPT ![c] = Lost]
    /\ cancelled' = [cancelled EXCEPT ![c] = TRUE]
    /\ UNCHANGED <<config, changes, pc, taken, status, recorded>>

Init ==
    /\ config = [s \in Services |-> NoFault] /\ changes = 0
    /\ pc = [c \in Calls |-> "idle"] /\ taken = [c \in Calls |-> NoFault]
    /\ cancelled = [c \in Calls |-> FALSE]
    /\ status = [c \in Calls |-> NONE] /\ recorded = [c \in Calls |-> NONE]
    /\ heard = [c \in Calls |-> NONE]

Handle(c) == DelayOver(c) \/ DelayCancelled(c) \/ InjectError(c) \/ Pass(c) \/ Respond(c)

Next ==
    \/ \E s \in Services, value \in Configs : SetConfig(s, value)
    \/ \E c \in Calls : Arrive(c) \/ Unreachable(c) \/ Handle(c) \/ GiveUp(c)

\* Handlers and their clients run on; nobody has to give up.
Spec ==
    /\ Init /\ [][Next]_vars
    /\ \A c \in Calls : WF_vars(Handle(c)) /\ WF_vars(c # Root /\ (Arrive(c) \/ Unreachable(c)))

-----------------------------------------------------------------------------
(* Properties *)

\* Handlers that report the failures they hear of.
Reports(c) == c \notin AlwaysOk

\* A call that answered 200 through handlers that report failures was served by
\* every call below it: a failure, a timeout or a lost connection below is never
\* taken for success.
OkMeansServed ==
    \A c \in Calls : status[c] = 200 /\ Reports(c)
        => \A d \in Children(c) : status[d] = 200 /\ heard[d] = 200

\* A server error has its origin at or below the service that recorded it: an
\* injected error, or a call that its client gave up or could not make.  That
\* is what a diagnosis by the services affected relies on.
ErrorsHaveOrigin ==
    \A c \in Calls : recorded[c] \in {500, 502} =>
        \/ recorded[c] = 500 /\ taken[c].errors # "never"
        \/ \E d \in Children(c) : heard[d] \in {500, 502, Lost}

\* A handler outlives none of its calls that it still listens to: when it has
\* answered, each call below has been heard or was never made.
NoneLeftBehind ==
    \A c \in Calls : pc[c] = "done" => \A d \in Children(c) : Heard(d) \/ pc[d] = "idle"

\* Every call that arrived ends, whatever fails or is cancelled below it.
EveryCallEnds == \A c \in Calls : pc[c] # "idle" ~> pc[c] = "done"

\* The RED metrics count completed requests: what they count as 2xx was answered
\* with 200.
CompletedWasAnswered == \A c \in Calls : recorded[c] = 200 => status[c] = 200

-----------------------------------------------------------------------------
(* What every step keeps, and the safety properties follow from. *)

Codes == {200, 500, 502}
CallTypes ==
    /\ config \in [Services -> Configs] /\ taken \in [Calls -> Configs]
    /\ pc \in [Calls -> {"idle", "delay", "inject", "calling", "done"}]
    /\ cancelled \in [Calls -> BOOLEAN]
    /\ status \in [Calls -> Codes \cup {NONE}] /\ recorded \in [Calls -> Codes \cup {NONE}]
    /\ heard \in [Calls -> Codes \cup {NONE, Lost}]

\* Nothing is written or recorded before the end, what is heard of a call was
\* its answer, and a handler calls on only once it has passed its fault.
CallsFollowed ==
    /\ \A c \in Calls : pc[c] # "done" =>
         status[c] = NONE /\ recorded[c] = NONE /\ heard[c] \in {NONE, Lost}
    /\ \A c \in Calls : heard[c] \in Codes => status[c] = heard[c]
    /\ \A c \in Calls : pc[c] \in {"idle", "delay", "inject"} =>
         \A d \in Children(c) : pc[d] = "idle"

CallsInv == CallTypes /\ CallsFollowed /\ OkMeansServed /\ ErrorsHaveOrigin
            /\ NoneLeftBehind
=============================================================================
