---------------------------- MODULE ContainerMetrics ----------------------------
(***************************************************************************)
(* The exporters of container resources: cmd/telemetry-exporter/main.go,   *)
(* and deploy/m14/exporter/main.go (Lenient), which leaves a container out *)
(* whose statistics cannot be read.  Once a second the labelled containers *)
(* are listed and read one after the other; /metrics answers from the last *)
(* round.  Containers come, go and restart, at which their counters begin  *)
(* again at zero, at any time between two calls to Docker.                 *)
(***************************************************************************)
EXTENDS Integers, FiniteSets

CONSTANTS
    Containers, NONE,
    Lenient,        \* the exporter of the experiments
    Fresh,          \* how long a round may be served (10 s)
    MaxTime, MaxUse, MaxRestarts   \* bounds

VARIABLES
    now, clockBack, \* the clock of Docker's readings; it was set back
    running,        \* the labelled containers
    total,          \* cpu_usage.total_usage as Docker counts it
    used, boot,     \* what the container really used since it was created; its starts
    previous,       \* the last reading of each container, or NONE
    round,          \* the collection under way, or NONE
    samples,        \* what /metrics serves: per container its rate, or NONE
    updated,        \* when, on the monotonic clock; -1 for never
    uptime          \* the monotonic clock

docker == <<now, clockBack, running, total, used, boot, uptime>>
vars == <<docker, previous, round, samples, updated>>

None == [c \in {} |-> NONE]

-----------------------------------------------------------------------------
(* Docker and its containers *)

Second ==
    /\ now < MaxTime /\ uptime < MaxTime
    /\ now' = now + 1 /\ uptime' = uptime + 1
    /\ \E c \in running, n \in 0..1 :
          /\ used[c] + n <= MaxUse
          /\ total' = [total EXCEPT ![c] = @ + n] /\ used' = [used EXCEPT ![c] = @ + n]
    /\ UNCHANGED <<clockBack, running, boot, previous, round, samples, updated>>

ClockSetBack ==
    /\ ~clockBack /\ now > 0 /\ clockBack' = TRUE /\ now' = now - 1
    /\ UNCHANGED <<running, total, used, boot, uptime, previous, round, samples,
                   updated>>

StopContainer ==
    /\ \E c \in running : running' = running \ {c}
    /\ UNCHANGED <<now, clockBack, total, used, boot, uptime, previous, round, samples,
                   updated>>

\* A container that was stopped starts again under its identifier.
StartContainer ==
    /\ Cardinality({c \in Containers : boot[c] > 1}) < MaxRestarts
    /\ \E c \in Containers \ running :
          /\ running' = running \cup {c} /\ total' = [total EXCEPT ![c] = 0]
          /\ boot' = [boot EXCEPT ![c] = @ + 1]
    /\ UNCHANGED <<now, clockBack, used, uptime, previous, round, samples, updated>>

-----------------------------------------------------------------------------
(* collect *)

List ==
    /\ round = NONE
    /\ round' = [listed |-> running, got |-> None, began |-> uptime]
    /\ UNCHANGED <<docker, previous, samples, updated>>

Got(c, reading) ==
    round' = [round EXCEPT !.got = [d \in DOMAIN @ \cup {c} |-> IF d = c THEN reading ELSE @[d]]]

Read ==
    /\ round # NONE
    /\ \E c \in (round.listed \ DOMAIN round.got) \cap running :
          Got(c, [at |-> now, up |-> uptime, total |-> total[c], used |-> used[c],
                 boot |-> boot[c]])
    /\ UNCHANGED <<docker, previous, samples, updated>>

\* Mutant: a container that cannot be read keeps the reading of the last round.
MissReplays ==
    /\ round # NONE
    /\ \E c \in round.listed \ DOMAIN round.got :
          IF previous[c] # NONE THEN Got(c, previous[c]) ELSE round' = NONE
\* The call fails, or the container has no fresh statistics: the round is given
\* up, or the container left out.
Miss ==
    /\ round # NONE
    /\ \E c \in round.listed \ DOMAIN round.got :
          round' = IF Lenient THEN [round EXCEPT !.listed = @ \ {c}] ELSE NONE
ReadFails == Miss /\ UNCHANGED <<docker, previous, samples, updated>>

\* Used over elapsed, or NONE where that is not known.
cpuCores(old, new) ==
    IF old = NONE THEN NONE
    ELSE IF new.at <= old.at \/ new.total < old.total THEN NONE
    ELSE [used |-> new.total - old.total, seconds |-> new.at - old.at]

\* What a sample serves, with the readings it was made of.
SampleOf(c) ==
    [cpu |-> cpuCores(previous[c], round.got[c]), began |-> round.began,
     old |-> previous[c], new |-> round.got[c]]

Commit ==
    /\ round # NONE /\ round.listed = DOMAIN round.got
    /\ round.got # None \/ Lenient
    /\ samples' = [c \in DOMAIN round.got |-> SampleOf(c)]
    /\ previous' = [c \in Containers |->
                      IF c \in DOMAIN round.got THEN round.got[c] ELSE NONE]
    /\ updated' = uptime /\ round' = NONE
    /\ UNCHANGED docker

NoContainers ==
    /\ round # NONE /\ round.listed = {} /\ ~Lenient /\ round' = NONE
    /\ UNCHANGED <<docker, previous, samples, updated>>

\* What /metrics answers; nothing is a 503.
Metrics == IF updated = -1 \/ uptime - updated > Fresh THEN None ELSE samples

-----------------------------------------------------------------------------
Init ==
    /\ now = 0 /\ clockBack = FALSE /\ running \in SUBSET Containers /\ uptime = 0
    /\ total = [c \in Containers |-> 0] /\ used = [c \in Containers |-> 0]
    /\ boot = [c \in Containers |-> 1]
    /\ previous = [c \in Containers |-> NONE] /\ round = NONE
    /\ samples = None /\ updated = -1

Next ==
    \/ Second \/ ClockSetBack \/ StopContainer \/ StartContainer
    \/ List \/ Read \/ ReadFails \/ Commit \/ NoContainers

Spec == Init /\ [][Next]_vars

-----------------------------------------------------------------------------
(* Properties *)

\* The rate served never exceeds what the container used between the two readings,
\* though its counter may have been reset, once or twice, in between; and it is of
\* a time that has passed.
CpuNotOverstated ==
    \A c \in DOMAIN Metrics :
        LET s == Metrics[c]
        IN s.cpu # NONE =>
              /\ s.cpu.used <= s.new.used - s.old.used
              /\ s.cpu.seconds = s.new.at - s.old.at /\ s.cpu.seconds > 0

\* What is served was read between the beginning and the end of one round: no
\* reading is repeated after a round in which the container could not be read.
NothingReplayed ==
    \A c \in DOMAIN Metrics :
        /\ Metrics[c].new.up \in Metrics[c].began..updated
        /\ uptime - updated <= Fresh

\* What the comment on cpuCores says: a reset counter is unavailable.  A counter
\* that was reset and has passed its old value again is not noticed.
ResetIsUnavailable ==
    \A c \in DOMAIN Metrics :
        LET s == Metrics[c] IN s.cpu # NONE => s.old.boot = s.new.boot
=============================================================================
