------------------------------ MODULE Demo_proofs ------------------------------
(* Proofs about the controlled demo: the services a candidate affects are its  *)
(* callers, waiting times measure the union of the calls under way, results of *)
(* the live demonstration carry no wrong label, and no rate of a container     *)
(* exceeds what it used.                                                       *)
EXTENDS MCDemo, Sequences, SequenceTheorems, FiniteSetTheorems, TLAPS

-----------------------------------------------------------------------------
(* The services a candidate affects *)

\* What is visited and no longer queued has had its callers visited, and
\* nothing was visited that a closed set could do without.
SearchInv ==
    /\ AffectedTypeOK
    /\ candidate \in visited
    /\ \A s \in visited \ queue : Callers(s) \subseteq visited
    /\ \A S \in SUBSET Services : ClosedUnderCallers(S) => visited \subseteq S

\* The invariant holds of a new search.
LEMMA SearchInit == AffectedInit => SearchInv
BY DEF AffectedInit, SearchInv, AffectedTypeOK, ClosedUnderCallers

\* A step of the search keeps it.
LEMMA SearchStep == SearchInv /\ [AffectedNext]_affectedVars => SearchInv'
<1> SUFFICES ASSUME SearchInv, [AffectedNext]_affectedVars PROVE SearchInv'
  OBVIOUS
<1>1. CASE UNCHANGED affectedVars
  BY <1>1 DEF SearchInv, AffectedTypeOK, ClosedUnderCallers, Callers, affectedVars
<1>2. CASE AffectedNext
  <2>1. PICK s \in queue : Visit(s)
    BY <1>2 DEF AffectedNext
  <2>2. /\ candidate' = candidate /\ edges' = edges
        /\ visited' = visited \cup Callers(s)
        /\ queue' = (queue \ {s}) \cup (Callers(s) \ visited)
    BY <1>2, <2>1 DEF AffectedNext, Visit
  <2>3. s \in visited /\ Callers(s) \subseteq Services
    BY DEF SearchInv, AffectedTypeOK, Callers
  <2>4. AffectedTypeOK'
    BY <2>2, <2>3 DEF SearchInv, AffectedTypeOK
  <2>5. (candidate \in visited)'
    BY <2>2 DEF SearchInv
  <2>6. \A t : Callers(t)' = Callers(t)
    BY <2>2 DEF Callers
  <2>7. (\A t \in visited \ queue : Callers(t) \subseteq visited)'
    BY <2>2, <2>6 DEF SearchInv
  <2>8. ASSUME NEW S \in SUBSET Services, ClosedUnderCallers(S)'
        PROVE  visited' \subseteq S
    <3>1. ClosedUnderCallers(S)
      BY <2>2, <2>8 DEF ClosedUnderCallers
    <3>2. visited \subseteq S
      BY <3>1 DEF SearchInv
    <3>3. Callers(s) \subseteq S
      BY <2>3, <3>1, <3>2 DEF Callers, ClosedUnderCallers
    <3> QED
      BY <2>2, <3>2, <3>3
  <2> QED
    BY <2>4, <2>5, <2>7, <2>8 DEF SearchInv
<1> QED
  BY <1>1, <1>2

\* The invariant says what is needed of the search's end.
LEMMA SearchExact == SearchInv => AffectedExact
<1> SUFFICES ASSUME SearchInv, queue = {} PROVE ClosedUnderCallers(visited)
  BY DEF SearchInv, AffectedExact
<1>1. ASSUME NEW e \in edges, e[2] \in visited PROVE e[1] \in visited
  <2>1. PICK a \in Services, b \in Services : e = <<a, b>>
    BY DEF SearchInv, AffectedTypeOK
  <2>2. a \in Callers(b) /\ b \in visited
    BY <1>1, <2>1 DEF Callers
  <2> QED
    BY <2>1, <2>2 DEF SearchInv
<1> QED
  BY <1>1 DEF SearchInv, ClosedUnderCallers

\* AffectedServices returns exactly the candidate and its direct and indirect
\* callers, for every call graph, with or without cycles.
THEOREM AffectedIsLeastClosed == AffectedSpec => []AffectedExact
<1>1. AffectedInit => SearchInv
  BY SearchInit
<1>2. SearchInv /\ [AffectedNext]_affectedVars => SearchInv'
  BY SearchStep
<1>3. SearchInv => AffectedExact
  BY SearchExact
<1> QED
  BY <1>1, <1>2, <1>3, PTL DEF AffectedSpec

-----------------------------------------------------------------------------
(* The waiting time of a span *)

Positive == {i \in Interval : i.end > i.start}
Done == found \ rest
Before == {n \in Instants(Done) : n < current.start}

\* While intervals are merged, what was merged lies before the current interval,
\* with the length counted so far, or is the current interval; what is left
\* does not start before it.
MergeInv ==
    /\ trace \in Traces
    /\ pc \in {"collect", "invalid", "merge", "done"}
    /\ pc = "collect" => found = {} /\ total = 0
    /\ found \subseteq Positive /\ rest \subseteq found
    /\ pc = "merge" /\ rest = found => total = 0
    /\ pc = "merge" /\ rest # found =>
         /\ current \in Positive /\ total \in Nat
         /\ \A i \in rest : i.start >= current.start
         /\ IsFiniteSet(Before) /\ Cardinality(Before) = total
         /\ Instants(Done) = Before \cup current.start..(current.end - 1)

\* An instant of some intervals is an instant of one of them.
LEMMA InstantsIn ==
    ASSUME NEW I, NEW n
    PROVE  n \in Instants(I) <=> \E i \in I : n \in i.start..(i.end - 1)
BY DEF Instants

\* No intervals have no instants.
LEMMA NoInstants == Instants({}) = {}
BY InstantsIn

\* The instants of one more interval.
LEMMA InstantsAdd ==
    ASSUME NEW I, NEW i
    PROVE  Instants(I \cup {i}) = Instants(I) \cup i.start..(i.end - 1)
BY InstantsIn

\* An interval has as many instants as its length.
LEMMA LengthIsInstants ==
    ASSUME NEW i \in Positive
    PROVE  /\ IsFiniteSet(i.start..(i.end - 1))
           /\ Cardinality(i.start..(i.end - 1)) = Length(i)
<1>1. i.start \in Int /\ i.end - 1 \in Int /\ i.start <= i.end - 1
  BY DEF Positive, Interval
<1> QED
  BY <1>1, FS_Interval DEF Length, Positive, Interval

\* The larger and the smaller of two numbers.
LEMMA MaxMinOfTwo ==
    ASSUME NEW a \in Nat, NEW b \in Nat
    PROVE  Max({a, b}) \in Nat /\ Min({a, b}) \in Nat
<1>1. \E x \in {a, b} : \A y \in {a, b} : x >= y
  OBVIOUS
<1>2. \E x \in {a, b} : \A y \in {a, b} : x <= y
  OBVIOUS
<1> QED
  BY <1>1, <1>2 DEF Max, Min

\* What is collected are intervals with a length.
LEMMA WaitsPositive ==
    ASSUME trace \in Traces, Valid
    PROVE  Waits \subseteq Positive
<1>1. Server \in Span
  BY TracesAssumption DEF Server, Valid
<1>2. \A c \in trace : Cut(c) \in Interval
  <2> SUFFICES ASSUME NEW c \in trace PROVE Cut(c) \in Interval
    OBVIOUS
  <2>1. c \in Span
    BY TracesAssumption
  <2> QED
    BY <1>1, <2>1, MaxMinOfTwo DEF Cut, Interval, Span
<1>3. \A i \in Waits : i \in Positive
  <2> SUFFICES ASSUME NEW i \in Waits PROVE i \in Positive
    OBVIOUS
  <2>1. PICK c \in trace : i = Cut(c) /\ i.end > i.start
    BY DEF Waits
  <2> QED
    BY <1>2, <2>1 DEF Positive
<1> QED
  BY <1>3

\* The invariant holds at the start.
LEMMA MergeInit == Init => MergeInv
BY DEF Init, MergeInv, Positive

\* Collecting the intervals keeps it.
LEMMA CollectStep == MergeInv /\ Collect => MergeInv'
BY WaitsPositive DEF MergeInv, Collect

\* The first interval is the current one.
LEMMA FirstStep ==
    ASSUME MergeInv, MergeNext, rest = found
    PROVE  MergeInv'
<1>1. PICK next \in rest :
        /\ Earliest(next) /\ rest' = rest \ {next}
        /\ current' = next /\ total' = total
  BY DEF MergeNext
<1>2. pc = "merge" /\ UNCHANGED <<trace, pc, found>>
  BY DEF MergeNext
<1>3. Done' = {next} /\ next \in Positive /\ total = 0
  BY <1>1, <1>2 DEF Done, MergeInv
<1>4. \A i \in rest' : i.start >= next.start
  BY <1>1, <1>2, <1>3 DEF Earliest, MergeInv, Positive, Interval
<1>5. Instants({next}) = next.start..(next.end - 1)
  <2>1. Instants({} \cup {next}) = Instants({}) \cup next.start..(next.end - 1)
    BY InstantsAdd
  <2> QED
    BY <2>1, NoInstants
<1>6. Before' = {}
  BY <1>1, <1>3, <1>5 DEF Before, Positive, Interval
<1>7. IsFiniteSet(Before') /\ Cardinality(Before') = 0
  BY <1>6, FS_EmptySet
<1>8. rest' # found'
  BY <1>1, <1>2
<1>9. Instants(Done') = Before' \cup next.start..(next.end - 1)
  BY <1>3, <1>5, <1>6
<1>10. Instants(Done)' = Instants(Done')
  BY DEF Instants
<1> QED
  BY <1>1, <1>2, <1>3, <1>4, <1>7, <1>8, <1>9, <1>10 DEF MergeInv, Positive, Interval

\* A later interval extends the current one or follows it.
LEMMA LaterStep ==
    ASSUME MergeInv, MergeNext, rest # found
    PROVE  MergeInv'
<1>1. PICK next \in rest :
        Earliest(next) /\ rest' = rest \ {next} /\ Merge(next)
  BY DEF MergeNext
<1>2. pc = "merge" /\ UNCHANGED <<trace, pc, found>>
  BY DEF MergeNext
<1>3. /\ next \in Positive /\ current \in Positive /\ total \in Nat
      /\ next.start >= current.start /\ found \subseteq Positive
      /\ IsFiniteSet(Before) /\ Cardinality(Before) = total
      /\ Instants(Done) = Before \cup current.start..(current.end - 1)
  BY <1>1, <1>2 DEF MergeInv
<1>4. Done' = Done \cup {next}
  BY <1>1, <1>2 DEF Done, MergeInv
<1>5. Instants(Done)' = Instants(Done) \cup next.start..(next.end - 1)
  <2>1. Instants(Done)' = Instants(Done')
    BY DEF Instants
  <2> QED
    BY <1>4, <2>1, InstantsAdd
<1>6. rest' # found'
  BY <1>1, <1>2, <1>3 DEF MergeInv
<1>7. \A i \in rest' : i \in Positive /\ i.start >= next.start
  BY <1>1, <1>2, <1>3 DEF Earliest, MergeInv, Positive, Interval
<1>8. \A n \in Before : n \in Int /\ n < current.start
  <2> SUFFICES ASSUME NEW n \in Before PROVE n \in Int /\ n < current.start
    OBVIOUS
  <2>1. PICK i \in Done : n \in i.start..(i.end - 1)
    BY InstantsIn DEF Before
  <2> QED
    BY <2>1 DEF Before
<1>9. CASE next.start <= current.end
  <2>1. /\ total' = total /\ current' \in Positive
        /\ current'.start = current.start
        /\ current'.end = IF next.end > current.end THEN next.end ELSE current.end
    BY <1>1, <1>3, <1>9 DEF Merge, Positive, Interval
  <2>2. Before' = Before
    <3>1. \A n : n \in Before' <=> n \in Instants(Done)' /\ n < current.start
      BY <2>1 DEF Before
    <3>2. \A n \in next.start..(next.end - 1) : ~ (n < current.start)
      BY <1>3 DEF Positive, Interval
    <3> QED
      BY <3>1, <3>2, <1>5 DEF Before
  <2>3. current'.start..(current'.end - 1)
          = current.start..(current.end - 1) \cup next.start..(next.end - 1)
    BY <1>3, <1>9, <2>1 DEF Positive, Interval
  <2>4. Instants(Done)' = Before' \cup current'.start..(current'.end - 1)
    BY <1>3, <1>5, <2>2, <2>3
  <2>5. \A i \in rest' : i.start >= current'.start
    BY <1>3, <1>7, <2>1 DEF Positive, Interval
  <2> QED
    BY <1>1, <1>2, <1>3, <1>6, <2>1, <2>2, <2>4, <2>5 DEF MergeInv
<1>10. CASE ~ (next.start <= current.end)
  <2>1. current' = next /\ total' = total + Length(current)
    BY <1>1, <1>10 DEF Merge
  <2>2. next.start > current.end
    BY <1>3, <1>10 DEF Positive, Interval
  <2>3. Before' = Instants(Done)
    <3>1. \A n : n \in Before' <=> n \in Instants(Done)' /\ n < next.start
      BY <2>1 DEF Before
    <3>2. \A n \in Instants(Done) : n < next.start
      BY <1>3, <1>8, <2>2 DEF Positive, Interval
    <3>3. \A n \in next.start..(next.end - 1) : ~ (n < next.start)
      BY <1>3 DEF Positive, Interval
    <3> QED
      BY <3>1, <3>2, <3>3, <1>5
  <2>4. /\ IsFiniteSet(Instants(Done))
        /\ Cardinality(Instants(Done)) = total + Length(current)
    <3> DEFINE C == current.start..(current.end - 1)
    <3>1. IsFiniteSet(C) /\ Cardinality(C) = Length(current)
      BY <1>3, LengthIsInstants
    <3>2. Before \cap C = {}
      BY <1>3, <1>8 DEF Positive, Interval
    <3>3. Cardinality(Before \cap C) = 0
      BY <3>2, FS_EmptySet
    <3>4. /\ IsFiniteSet(Before \cup C)
          /\ Cardinality(Before \cup C)
               = Cardinality(Before) + Cardinality(C) - Cardinality(Before \cap C)
      BY <1>3, <3>1, FS_Union
    <3>5. Length(current) \in Nat
      BY <1>3 DEF Length, Positive, Interval
    <3> QED
      BY <1>3, <3>1, <3>3, <3>4, <3>5
  <2>5. Instants(Done)' = Before' \cup current'.start..(current'.end - 1)
    BY <1>5, <2>1, <2>3
  <2>6. total' \in Nat /\ IsFiniteSet(Before') /\ Cardinality(Before') = total'
    BY <1>3, <2>1, <2>3, <2>4 DEF Length, Positive, Interval
  <2>7. \A i \in rest' : i.start >= current'.start
    BY <1>7, <2>1
  <2> QED
    BY <1>1, <1>2, <1>3, <1>6, <2>1, <2>5, <2>6, <2>7 DEF MergeInv
<1> QED
  BY <1>9, <1>10

\* The invariant together with what it gives at the end.
MergedExact == MergeInv /\ UnionExact

\* The last step adds the current interval.
LEMMA MergedStep ==
    ASSUME MergeInv, Merged
    PROVE  MergeInv' /\ UnionExact'
<1>1. /\ pc = "merge" /\ rest = {} /\ pc' = "done" /\ UNCHANGED <<trace, found, rest, current>>
      /\ total' = IF found = {} THEN 0 ELSE total + Length(current)
  BY DEF Merged
<1>2. MergeInv'
  BY <1>1 DEF MergeInv
<1>3. Instants(found)' = Instants(found)
  BY <1>1 DEF Instants
<1>4. CASE found = {}
  BY <1>1, <1>2, <1>3, <1>4, NoInstants, FS_EmptySet DEF UnionExact
<1>5. CASE found # {}
  <2> DEFINE C == current.start..(current.end - 1)
  <2>1. Done = found
    BY <1>1 DEF Done
  <2>2. /\ current \in Positive /\ total \in Nat
        /\ IsFiniteSet(Before) /\ Cardinality(Before) = total
        /\ Instants(found) = Before \cup C
    BY <1>1, <1>5, <2>1 DEF MergeInv
  <2>3. IsFiniteSet(C) /\ Cardinality(C) = Length(current)
    BY <2>2, LengthIsInstants
  <2>4. Before \cap C = {}
    <3>1. \A n \in Before : n < current.start
      BY DEF Before
    <3>2. \A n \in C : n >= current.start /\ n \in Int
      BY <2>2 DEF Positive, Interval
    <3> QED
      BY <3>1, <3>2, <2>2 DEF Positive, Interval
  <2>5. Cardinality(Before \cap C) = 0
    BY <2>4, FS_EmptySet
  <2>6. Cardinality(Before \cup C)
          = Cardinality(Before) + Cardinality(C) - Cardinality(Before \cap C)
    BY <2>2, <2>3, FS_Union
  <2>7. Length(current) \in Nat
    BY <2>2 DEF Length, Positive, Interval
  <2> QED
    BY <1>1, <1>2, <1>3, <1>5, <2>2, <2>3, <2>5, <2>6, <2>7 DEF UnionExact
<1> QED
  BY <1>2, <1>4, <1>5

\* The merged length is that of the union of the intervals, for every trace:
\* calls in parallel count once, and what lies between calls does not count.
THEOREM WaitMeasuresUnion == Spec => []UnionExact
<1>1. Init => MergedExact
  BY MergeInit DEF MergedExact, UnionExact, Init
<1>2. MergedExact /\ [Next]_vars => MergedExact'
  <2> SUFFICES ASSUME MergedExact, [Next]_vars PROVE MergedExact'
    OBVIOUS
  <2> USE DEF MergedExact
  <2>1. CASE Collect
    BY <2>1, CollectStep DEF Collect, UnionExact
  <2>2. CASE MergeNext
    BY <2>2, FirstStep, LaterStep DEF MergeNext, UnionExact
  <2>3. CASE Merged
    BY <2>3, MergedStep
  <2>4. CASE UNCHANGED vars
    BY <2>4 DEF vars, MergeInv, UnionExact, Done, Before, Instants
  <2> QED
    BY <2>1, <2>2, <2>3, <2>4 DEF Next
<1> QED
  BY <1>1, <1>2, PTL DEF Spec, MergedExact

-----------------------------------------------------------------------------
(* The live demonstration *)

LiveServices == {gateway, payment}
LiveKinds == {"latency"} \cup {NONE}
LiveCalls == Live!Calls
Plain == {"health", "start", "send", "drain", "freeze", "snapshot", "clear graph",
          "clear window"}
RightCall(call) == call.do = "fault" => call.at \in LiveServices
Sets(call, s) == call.do = "fault" /\ call.at = s

\* Once the calls are made, every service has the fault of the scenario.
Settles(faults, calls, scenario) ==
    \A s \in LiveServices :
        \/ /\ faults[s] = scenario[s]
           /\ \A n \in DOMAIN calls : Sets(calls[n], s) => calls[n].kind = scenario[s]
        \/ \E n \in DOMAIN calls :
               /\ Sets(calls[n], s) /\ calls[n].kind = scenario[s]
               /\ \A m \in DOMAIN calls : m > n /\ Sets(calls[m], s) => calls[m].kind = scenario[s]

\* The calls with which a reset ends.
Ending == <<Live!Call("start"), Live!Call("send"), Live!Call("drain"), Live!Call("freeze"),
    Live!Call("clear graph"), Live!Call("clear window"), Live!Call("drain"),
    Live!Call("clear graph"), Live!Call("clear window"), Live!Call("health")>>
\* calls is the rest of a reset.
RestOfReset(calls) ==
    \A n \in DOMAIN calls : Len(calls) - n < 10 => calls[n] = Ending[10 - (Len(calls) - n)]

LiveTypes ==
    /\ fault \in [LiveServices -> LiveKinds]
    /\ live \in [state : {"idle", "running", "analyzing", "complete", "error"},
                scenario : Live!Scenarios \cup {NONE}]
    /\ phase \in {"empty", "collecting", "frozen"}
    /\ flight \cup baseline \cup window \cup graph \subseteq Live!Batch
    /\ late \subseteq LiveCalls
    /\ \A call \in late : RightCall(call) /\ call.do # "send"
    /\ operations \in 0..3 /\ resetAt \in 0..operations
    /\ op # NONE => /\ op \in Live!Operations /\ resetAt < operations
                    /\ \A n \in DOMAIN op.calls : RightCall(op.calls[n])

\* The faults are those of the label, or will be when the calls are made.
FaultsFollowed ==
    ~unsure =>
        /\ op = NONE /\ live.scenario # NONE => fault = live.scenario
        /\ op # NONE /\ op.scenario # NONE => Settles(fault, op.calls, op.scenario)

\* Traffic sets no fault, and ran under those it met when it was sent.
TrafficFollowed ==
    op # NONE /\ op.kind = "traffic" =>
        /\ \A n \in DOMAIN op.calls : op.calls[n].do # "fault"
        /\ \/ unsure \/ op.scenario = NONE \/ op.under = op.scenario
           \/ \E n \in DOMAIN op.calls : op.calls[n].do = "send"

\* Nothing sent up to the last reset is left; and a reset under way empties the
\* Collector before it clears the graph and the window for the last time.
ResetFollowed ==
    /\ \A b \in flight \cup window \cup graph : b.number > resetAt
    /\ op # NONE /\ op.kind = "reset" =>
         /\ RestOfReset(op.calls)
         /\ Len(op.calls) <= 7 => flight = {}
         /\ Len(op.calls) <= 2 => graph = {}
         /\ Len(op.calls) <= 1 => window = {}

LiveInv ==
    /\ LiveTypes /\ FaultsFollowed /\ TrafficFollowed /\ ResetFollowed
    /\ Live!LabelNeverWrong /\ Live!StaleStaysOut

\* The services are put in an order.
LEMMA ServicesOrdered ==
    /\ Live!ORDERED \in [1..Live!Cardinality(LiveServices) -> LiveServices]
    /\ \A s \in LiveServices : \E n \in DOMAIN Live!ORDERED : Live!ORDERED[n] = s
    /\ Live!Cardinality(LiveServices) \in Nat
<1>1. Live!Cardinality(LiveServices) = Cardinality(LiveServices)
  BY DEF Live!Cardinality, Cardinality
<1>2. IsFiniteSet(LiveServices)
  <2>1. IsFiniteSet({} \cup {gateway})
    BY FS_EmptySet, FS_AddElement
  <2>2. IsFiniteSet(({} \cup {gateway}) \cup {payment})
    BY <2>1, FS_AddElement
  <2>3. LiveServices = ({} \cup {gateway}) \cup {payment}
    BY DEF LiveServices
  <2> QED
    BY <2>2, <2>3
<1>3. /\ Cardinality(LiveServices) \in Nat
      /\ \E f : f \in Bijection(1..Cardinality(LiveServices), LiveServices)
  BY <1>2, FS_CardinalityType DEF ExistsBijection
<1>4. PICK f : f \in Bijection(1..Cardinality(LiveServices), LiveServices)
  BY <1>3
<1> DEFINE C == 1..Live!Cardinality(LiveServices)
<1>5. f \in [C -> LiveServices] /\ {f[n] : n \in DOMAIN f} = LiveServices
  BY <1>1, <1>4 DEF Bijection, Injection, Surjection, IsInjective
<1>6. Live!ORDERED = CHOOSE seq \in [C -> LiveServices] :
                        {seq[n] : n \in DOMAIN seq} = LiveServices
  BY DEF Live!ORDERED, LiveServices
<1> HIDE DEF C
<1>7. /\ Live!ORDERED \in [C -> LiveServices]
      /\ {Live!ORDERED[n] : n \in DOMAIN Live!ORDERED} = LiveServices
  BY <1>5, <1>6
<1> QED
  BY <1>1, <1>3, <1>7 DEF C

\* Every service has its call among those that reset the faults.
LEMMA ResetFaultsShape ==
    /\ Live!resetFaults \in Seq(LiveCalls)
    /\ \A n \in DOMAIN Live!resetFaults :
           /\ RightCall(Live!resetFaults[n])
           /\ Live!resetFaults[n].do = "fault" /\ Live!resetFaults[n].kind = NONE
    /\ \A s \in LiveServices : \E n \in DOMAIN Live!resetFaults : Sets(Live!resetFaults[n], s)
<1> DEFINE F == Live!resetFaults
           C == Live!Cardinality(LiveServices)
<1>1. /\ DOMAIN F = 1..C
      /\ \A n \in 1..C : F[n] = [do |-> "fault", at |-> Live!ORDERED[n], kind |-> NONE]
      /\ F = [n \in 1..C |-> F[n]]
  BY ServicesOrdered DEF Live!resetFaults, Live!SetFault
<1>2. \A n \in 1..C : Live!ORDERED[n] \in LiveServices
  BY ServicesOrdered
<1>3. \A n \in 1..C : F[n] \in LiveCalls
  <2>1. ASSUME NEW s \in LiveServices
        PROVE  [do |-> "fault", at |-> s, kind |-> NONE] \in LiveCalls
    BY DEF LiveCalls, LiveKinds, LiveServices, Live!Calls
  <2> QED
    BY <1>1, <1>2, <2>1
<1>4. C \in Nat
  BY ServicesOrdered
<1> HIDE DEF F, C
<1>5. F \in Seq(LiveCalls)
  BY <1>1, <1>3, <1>4, SeqDef
<1> USE DEF F
<1>6. \A n \in DOMAIN F : RightCall(F[n]) /\ F[n].do = "fault" /\ F[n].kind = NONE
  BY <1>1, <1>2 DEF RightCall
<1>7. \A s \in LiveServices : \E n \in DOMAIN F : Sets(F[n], s)
  BY <1>1, ServicesOrdered DEF Sets, C
<1> QED
  BY <1>5, <1>6, <1>7

\* A call less.
LEMMA RestOfCalls ==
    ASSUME NEW calls \in Seq(LiveCalls), calls # <<>>
    PROVE  /\ Tail(calls) \in Seq(LiveCalls) /\ Len(Tail(calls)) = Len(calls) - 1
           /\ Head(calls) = calls[1] /\ 1 \in DOMAIN calls /\ Head(calls) \in LiveCalls
           /\ Len(calls) \in Nat \ {0} /\ DOMAIN calls = 1..Len(calls)
           /\ DOMAIN Tail(calls) = 1..(Len(calls) - 1)
           /\ \A n \in 1..(Len(calls) - 1) :
                 Tail(calls)[n] = calls[n + 1] /\ n + 1 \in DOMAIN calls
BY HeadTailProperties, LenProperties, ElementOfSeq

\* And what is left of a reset is the rest of it.
LEMMA RestOfRest ==
    ASSUME NEW calls \in Seq(LiveCalls), calls # <<>>, RestOfReset(calls)
    PROVE  RestOfReset(Tail(calls))
<1>1. /\ Len(Tail(calls)) = Len(calls) - 1 /\ Len(calls) \in Nat
      /\ DOMAIN Tail(calls) = 1..(Len(calls) - 1)
      /\ \A n \in 1..(Len(calls) - 1) : Tail(calls)[n] = calls[n + 1] /\ n + 1 \in DOMAIN calls
  BY RestOfCalls
<1> SUFFICES ASSUME NEW n \in 1..(Len(calls) - 1), Len(calls) - 1 - n < 10
             PROVE  Tail(calls)[n] = Ending[10 - (Len(calls) - 1 - n)]
  BY <1>1 DEF RestOfReset
<1>2. calls[n + 1] = Ending[10 - (Len(calls) - (n + 1))]
  BY <1>1 DEF RestOfReset
<1> QED
  BY <1>1, <1>2

\* Short sequences.
LEMMA TuplesAreSequences ==
    ASSUME NEW S
    PROVE  /\ \A a \in S : <<a>> \in Seq(S) /\ Len(<<a>>) = 1
           /\ \A a, b \in S : <<a, b>> \in Seq(S) /\ Len(<<a, b>>) = 2
           /\ \A a, b, c, d \in S : <<a, b, c, d>> \in Seq(S) /\ Len(<<a, b, c, d>>) = 4
OBVIOUS

\* A call that is not of a fault.
LEMMA PlainCall ==
    ASSUME NEW do \in Plain
    PROVE  /\ Live!Call(do) \in LiveCalls /\ Live!Call(do).do = do
           /\ RightCall(Live!Call(do)) /\ Live!Call(do).do # "fault"
BY DEF LiveCalls, Live!Calls, LiveServices, LiveKinds, Plain, RightCall, Live!Call

\* q is P with the first k calls of the ending behind it; and z are the next j.
Grown(q, P, p, k) ==
    /\ q \in Seq(LiveCalls) /\ Len(q) = p + k
    /\ \A n \in 1..p : q[n] = P[n]
    /\ \A n \in 1..k : q[p + n] = Ending[n]
Piece(z, k, j) ==
    /\ z \in Seq(LiveCalls) /\ Len(z) = j
    /\ \A n \in 1..j : z[n] = Ending[k + n]

\* More of the ending after a part of it.
LEMMA EndingGrows ==
    ASSUME NEW q, NEW z, NEW P, NEW p \in Nat, NEW k \in Nat, NEW j \in Nat,
           Grown(q, P, p, k), Piece(z, k, j)
    PROVE  Grown(q \o z, P, p, k + j)
<1>0. /\ q \in Seq(LiveCalls) /\ Len(q) = p + k /\ z \in Seq(LiveCalls) /\ Len(z) = j
      /\ \A n \in 1..p : q[n] = P[n]
      /\ \A n \in 1..k : q[p + n] = Ending[n]
      /\ \A n \in 1..j : z[n] = Ending[k + n]
  BY DEF Grown, Piece
<1>1. /\ q \o z \in Seq(LiveCalls) /\ Len(q \o z) = p + (k + j)
      /\ \A n \in 1..(p + (k + j)) : (q \o z)[n] = IF n <= p + k THEN q[n] ELSE z[n - (p + k)]
  <2>1. /\ q \o z \in Seq(LiveCalls) /\ Len(q \o z) = Len(q) + Len(z)
        /\ \A n \in 1..(Len(q) + Len(z)) :
              (q \o z)[n] = IF n <= Len(q) THEN q[n] ELSE z[n - Len(q)]
    BY <1>0, ConcatProperties
  <2>2. Len(q) + Len(z) = p + (k + j)
    BY <1>0
  <2> QED
    BY <1>0, <2>1, <2>2
<1>2. ASSUME NEW n \in 1..(k + j) PROVE (q \o z)[p + n] = Ending[n]
  <2>1. CASE n <= k
    BY <1>0, <1>1, <1>2, <2>1
  <2>2. CASE n > k
    <3>1. n - k \in 1..j /\ k + (n - k) = n /\ (p + n) - (p + k) = n - k
      BY <1>2, <2>2
    <3>2. p + n \in 1..(p + (k + j)) /\ ~(p + n <= p + k)
      BY <2>2
    <3>3. (q \o z)[p + n] = z[(p + n) - (p + k)]
      BY <1>1, <3>2
    <3> QED
      BY <1>0, <3>1, <3>3
  <2>3. n \in Int /\ k \in Int /\ (n <= k \/ n > k)
    OBVIOUS
  <2> QED
    BY <2>1, <2>2, <2>3
<1>3. \A n \in 1..p : (q \o z)[n] = P[n]
  BY <1>0, <1>1
<1> QED
  BY <1>1, <1>2, <1>3 DEF Grown

\* A reset sets every fault to none and ends as it should.
LEMMA ResetCallsShape ==
    /\ Live!ResetCalls \in Seq(LiveCalls) /\ Len(Live!ResetCalls) > 10
    /\ RestOfReset(Live!ResetCalls)
    /\ \A n \in DOMAIN Live!ResetCalls :
          /\ RightCall(Live!ResetCalls[n])
          /\ Live!ResetCalls[n].do = "fault" => Live!ResetCalls[n].kind = NONE
    /\ \A s \in LiveServices : \E n \in DOMAIN Live!ResetCalls : Sets(Live!ResetCalls[n], s)
<1> DEFINE F == Live!resetFaults
           h == <<Live!Call("health")>>
           d == <<Live!Call("drain")>>
           c == Live!clearIncident
           b == <<Live!Call("start"), Live!Call("send"), Live!Call("drain"), Live!Call("freeze")>>
           P == h \o F
           Q1 == P \o b
           Q2 == Q1 \o c
           Q3 == Q2 \o d
           Q4 == Q3 \o c
           Q5 == Q4 \o h
<1>0. h \in Seq(LiveCalls) /\ Len(h) = 1
  <2>1. Live!Call("health") \in LiveCalls
    BY PlainCall DEF Plain
  <2> QED
    BY <2>1
<1>1. Piece(b, 0, 4) /\ Piece(c, 4, 2) /\ Piece(d, 6, 1) /\ Piece(c, 7, 2) /\ Piece(h, 9, 1)
  <2>1. /\ b \in Seq(LiveCalls) /\ c \in Seq(LiveCalls) /\ d \in Seq(LiveCalls)
        /\ Len(b) = 4 /\ Len(c) = 2 /\ Len(d) = 1
    <3>1. /\ Live!Call("start") \in LiveCalls /\ Live!Call("send") \in LiveCalls
          /\ Live!Call("drain") \in LiveCalls /\ Live!Call("freeze") \in LiveCalls
          /\ Live!Call("clear graph") \in LiveCalls /\ Live!Call("clear window") \in LiveCalls
      BY PlainCall DEF Plain
    <3>2. /\ Len(b) = 4 /\ b \in Seq(LiveCalls)
      BY <3>1, TuplesAreSequences
    <3>3. Len(c) = 2 /\ c \in Seq(LiveCalls)
      BY <3>1, TuplesAreSequences DEF Live!clearIncident
    <3>4. Len(d) = 1 /\ d \in Seq(LiveCalls)
      BY <3>1, TuplesAreSequences
    <3> QED
      BY <3>2, <3>3, <3>4
  <2>2. /\ h[1] = Ending[9 + 1] /\ d[1] = Ending[6 + 1]
        /\ b[1] = Ending[0 + 1] /\ b[2] = Ending[0 + 2] /\ b[3] = Ending[0 + 3]
        /\ b[4] = Ending[0 + 4]
        /\ c[1] = Ending[4 + 1] /\ c[2] = Ending[4 + 2]
        /\ c[1] = Ending[7 + 1] /\ c[2] = Ending[7 + 2]
    BY DEF Live!clearIncident, Ending
  <2> HIDE DEF h, b, c, d
  <2>3. /\ \A n \in 1..4 : b[n] = Ending[0 + n]
        /\ \A n \in 1..2 : c[n] = Ending[4 + n] /\ c[n] = Ending[7 + n]
        /\ \A n \in 1..1 : d[n] = Ending[6 + n] /\ h[n] = Ending[9 + n]
    <3>1. 1..1 = {1} /\ 1..2 = {1, 2} /\ 1..4 = {1, 2, 3, 4}
      OBVIOUS
    <3> QED
      BY <2>2, <3>1
  <2> QED
    BY <1>0, <2>1, <2>3 DEF Piece
<1>2. F \in Seq(LiveCalls) /\ Len(F) \in Nat /\ DOMAIN F = 1..Len(F)
  BY ResetFaultsShape, LenProperties
<1>3. /\ P \in Seq(LiveCalls) /\ Len(P) = 1 + Len(F)
      /\ P[1] = h[1] /\ \A n \in 1..Len(F) : P[n + 1] = F[n]
  <2>1. /\ P \in Seq(LiveCalls) /\ Len(P) = 1 + Len(F)
        /\ \A n \in 1..(1 + Len(F)) : P[n] = IF n <= 1 THEN h[n] ELSE F[n - 1]
    BY <1>0, <1>2, ConcatProperties
  <2> HIDE DEF P, F
  <2> QED
    BY <1>2, <2>1
<1> HIDE DEF F, h, d, c, b, P, Q1, Q2, Q3, Q4, Q5
<1>4. PICK p \in Nat : p = Len(P)
  BY <1>2, <1>3
<1>5. Grown(P, P, p, 0)
  BY <1>3, <1>4 DEF Grown
<1>6. Grown(Q1, P, p, 4)
  <2>1. Grown(Q1, P, p, 0 + 4)
    BY <1>1, <1>5, EndingGrows DEF Q1
  <2> QED
    BY <2>1
<1>7. Grown(Q4, P, p, 9)
  <2>1. Grown(Q2, P, p, 4 + 2)
    BY <1>1, <1>6, EndingGrows DEF Q2
  <2>2. Grown(Q2, P, p, 6)
    BY <2>1
  <2>3. Grown(Q3, P, p, 6 + 1)
    BY <1>1, <2>2, EndingGrows DEF Q3
  <2>4. Grown(Q3, P, p, 7)
    BY <2>3
  <2>5. Grown(Q4, P, p, 7 + 2)
    BY <1>1, <2>4, EndingGrows DEF Q4
  <2> QED
    BY <2>5
<1>8. /\ Q5 \in Seq(LiveCalls) /\ Len(Q5) = p + 10
      /\ \A n \in 1..p : Q5[n] = P[n]
      /\ \A n \in 1..10 : Q5[p + n] = Ending[n]
  <2>1. Grown(Q5, P, p, 9 + 1)
    BY <1>1, <1>7, EndingGrows DEF Q5
  <2>2. Grown(Q5, P, p, 10)
    BY <2>1
  <2> QED
    BY <2>2 DEF Grown
<1>9. Live!ResetCalls = Q5
  BY DEF Live!ResetCalls, Q5, Q4, Q3, Q2, Q1, P, F, h, d, c, b
<1>10. DOMAIN Q5 = 1..(p + 10) /\ p = 1 + Len(F) /\ Len(F) \in Nat
  BY <1>2, <1>3, <1>4, <1>8, LenProperties
<1>11. RestOfReset(Q5)
  <2>1. ASSUME NEW n \in DOMAIN Q5, Len(Q5) - n < 10
        PROVE  Q5[n] = Ending[10 - (Len(Q5) - n)]
    <3>1. n \in 1..(p + 10) /\ Len(Q5) = p + 10 /\ p \in Nat
      BY <1>8, <1>10, <2>1
    <3>2. n - p \in 1..10 /\ n = p + (n - p) /\ 10 - (Len(Q5) - n) = n - p
      BY <2>1, <3>1
    <3> QED
      BY <1>8, <3>2
  <2> QED
    BY <2>1 DEF RestOfReset
<1>12. \A n \in 1..10 : RightCall(Ending[n]) /\ Ending[n].do # "fault"
  <2>1. \A n \in 1..10 : Ending[n] \in {Live!Call(do) : do \in Plain}
    <3>1. 1..10 = {1, 2, 3, 4, 5, 6, 7, 8, 9, 10}
      OBVIOUS
    <3>2. /\ Ending[1] = Live!Call("start") /\ Ending[2] = Live!Call("send")
          /\ Ending[3] = Live!Call("drain") /\ Ending[4] = Live!Call("freeze")
          /\ Ending[5] = Live!Call("clear graph") /\ Ending[6] = Live!Call("clear window")
          /\ Ending[7] = Live!Call("drain") /\ Ending[8] = Live!Call("clear graph")
          /\ Ending[9] = Live!Call("clear window") /\ Ending[10] = Live!Call("health")
      BY DEF Ending
    <3> QED
      BY <3>1, <3>2 DEF Plain
  <2> QED
    BY <2>1, PlainCall
<1>13. RightCall(h[1]) /\ h[1].do # "fault"
  BY PlainCall DEF Plain, h
<1>14. ASSUME NEW n \in DOMAIN Q5
       PROVE  RightCall(Q5[n]) /\ (Q5[n].do = "fault" => Q5[n].kind = NONE)
  <2>1. n = 1 \/ (n - 1 \in 1..Len(F) /\ n = (n - 1) + 1 /\ n \in 1..p) \/ (n - p \in 1..10 /\ n = p + (n - p))
    <3>1. \A f, m \in Nat : m \in 1..(f + 1 + 10) =>
            \/ m = 1 \/ (m - 1 \in 1..f /\ m = (m - 1) + 1 /\ m \in 1..(f + 1))
            \/ (m - (f + 1) \in 1..10 /\ m = f + 1 + (m - (f + 1)))
      OBVIOUS
    <3>2. p = Len(F) + 1 /\ n \in 1..(Len(F) + 1 + 10) /\ n \in Nat
      BY <1>10, <1>14
    <3> QED
      BY <1>10, <3>1, <3>2
  <2>2. CASE n = 1
    <3>1. 1 \in 1..p
      BY <1>10
    <3>2. Q5[n] = h[1]
      BY <1>3, <1>8, <2>2, <3>1
    <3> QED
      BY <1>13, <3>2
  <2>3. CASE n - 1 \in 1..Len(F) /\ n = (n - 1) + 1 /\ n \in 1..p
    <3>1. Q5[n] = F[n - 1]
      BY <1>3, <1>8, <2>3
    <3> QED
      BY <1>2, <2>3, <3>1, ResetFaultsShape DEF F
  <2>4. CASE n - p \in 1..10 /\ n = p + (n - p)
    BY <1>8, <1>12, <2>4
  <2> QED
    BY <2>1, <2>2, <2>3, <2>4
<1>15. ASSUME NEW s \in LiveServices PROVE \E n \in DOMAIN Q5 : Sets(Q5[n], s)
  <2>1. PICK n \in 1..Len(F) : Sets(F[n], s)
    BY <1>2, ResetFaultsShape, SMTT(30) DEF F
  <2>2. n + 1 \in 1..p /\ n + 1 \in DOMAIN Q5
    BY <1>10
  <2>3. Q5[n + 1] = F[n]
    BY <1>3, <1>8, <2>2
  <2> QED
    BY <2>1, <2>2, <2>3
<1>16. Q5 \in Seq(LiveCalls) /\ Len(Q5) > 10
  BY <1>8, <1>10
<1> QED
  BY <1>9, <1>11, <1>14, <1>15, <1>16, ZenonT(60)

\* A scenario sets every fault as it should be.
LEMMA ScenarioCallsShape ==
    ASSUME NEW scenario \in Live!Scenarios
    PROVE  LET calls == Live!ApplyScenario(scenario)
           IN /\ calls \in Seq(LiveCalls)
              /\ \A n \in DOMAIN calls : RightCall(calls[n])
              /\ \A faults : Settles(faults, calls, scenario)
<1> DEFINE F == Live!resetFaults
           calls == Live!ApplyScenario(scenario)
<1>1. /\ F \in Seq(LiveCalls) /\ Len(F) \in Nat /\ DOMAIN F = 1..Len(F)
      /\ \A n \in 1..Len(F) : RightCall(F[n]) /\ F[n].do = "fault" /\ F[n].kind = NONE
      /\ \A s \in LiveServices : \E n \in 1..Len(F) : Sets(F[n], s)
  BY ResetFaultsShape, LenProperties
<1>2. CASE scenario = Live!Healthy
  <2>1. calls = F
    <3>1. calls = F \o <<>>
      BY <1>2 DEF Live!ApplyScenario
    <3> HIDE DEF F
    <3> QED
      BY <1>1, <3>1
  <2>2. \A s \in LiveServices : scenario[s] = NONE
    BY <1>2 DEF Live!Healthy, LiveServices
  <2> HIDE DEF F, calls
  <2>3. \A faults : Settles(faults, F, scenario)
    BY <1>1, <2>2 DEF Settles, Sets
  <2> QED
    BY <1>1, <2>1, <2>3 DEF calls
<1>3. CASE scenario # Live!Healthy
  <2> DEFINE x == CHOOSE y \in LiveServices : scenario[y] # NONE
             last == Live!SetFault(x, scenario[x])
  <2>1. PICK t \in LiveServices, kind \in {"latency"} : scenario = [Live!Healthy EXCEPT ![t] = kind]
    BY <1>3 DEF Live!Scenarios, LiveServices
  <2>2. /\ scenario[t] = kind /\ \A s \in LiveServices : s # t => scenario[s] = NONE
        /\ kind # NONE
    <3>1. Live!Healthy = [s \in LiveServices |-> NONE]
      BY DEF Live!Healthy, LiveServices
    <3>2. scenario = [s \in LiveServices |-> IF s = t THEN kind ELSE NONE]
      BY <2>1, <3>1
    <3> QED
      BY <1>3, <3>1, <3>2
  <2>3. x = t
    BY <2>2
  <2>4. calls = F \o <<last>>
    BY <1>3 DEF Live!ApplyScenario, LiveServices
  <2> HIDE DEF F, calls, x
  <2>5. last \in LiveCalls /\ RightCall(last) /\ last.do = "fault" /\ last.at = t /\ last.kind = kind
    BY <2>2, <2>3 DEF LiveCalls, Live!Calls, LiveServices, LiveKinds, RightCall, Live!SetFault
  <2> HIDE DEF last
  <2>6. /\ calls \in Seq(LiveCalls) /\ DOMAIN calls = 1..(Len(F) + 1)
        /\ \A n \in 1..Len(F) : calls[n] = F[n]
        /\ calls[Len(F) + 1] = last
    BY <1>1, <2>4, <2>5
  <2>7. \A n \in DOMAIN calls : RightCall(calls[n])
    BY <1>1, <2>5, <2>6
  <2>8. ASSUME NEW s \in LiveServices
        PROVE  \E n \in DOMAIN calls :
                 /\ Sets(calls[n], s) /\ calls[n].kind = scenario[s]
                 /\ \A m \in DOMAIN calls : m > n /\ Sets(calls[m], s) => calls[m].kind = scenario[s]
    <3>1. CASE s = t
      <4>1. Sets(calls[Len(F) + 1], s) /\ calls[Len(F) + 1].kind = scenario[s]
        BY <2>2, <2>5, <2>6, <3>1 DEF Sets
      <4> QED
        BY <1>1, <2>6, <4>1
    <3>2. CASE s # t
      <4>1. PICK n \in 1..Len(F) : Sets(F[n], s)
        BY <1>1
      <4>2. ~Sets(last, s)
        BY <2>5, <3>2 DEF Sets
      <4> QED
        BY <1>1, <2>2, <2>6, <3>2, <4>1, <4>2
    <3> QED
      BY <3>1, <3>2
  <2>9. \A faults : Settles(faults, calls, scenario)
    BY <2>8 DEF Settles
  <2> QED
    BY <2>6, <2>7, <2>9 DEF calls
<1> QED
  BY <1>2, <1>3

\* Traffic sets no fault.
LEMMA TrafficCallsShape ==
    /\ Live!TrafficCalls \in Seq(LiveCalls)
    /\ \A n \in DOMAIN Live!TrafficCalls :
          RightCall(Live!TrafficCalls[n]) /\ Live!TrafficCalls[n].do # "fault"
    /\ \E n \in DOMAIN Live!TrafficCalls : Live!TrafficCalls[n].do = "send"
<1>1. /\ Live!Call("send") \in LiveCalls /\ Live!Call("drain") \in LiveCalls
      /\ Live!Call("snapshot") \in LiveCalls
      /\ RightCall(Live!Call("send")) /\ RightCall(Live!Call("drain"))
      /\ RightCall(Live!Call("snapshot"))
      /\ Live!Call("send").do = "send" /\ Live!Call("drain").do = "drain"
      /\ Live!Call("snapshot").do = "snapshot"
  BY PlainCall DEF Plain
<1> QED
  BY <1>1 DEF Live!TrafficCalls

\* The faults once a call is served.
Applied(call, faults) == IF call.do = "fault" THEN [faults EXCEPT ![call.at] = call.kind] ELSE faults

\* A call served brings the faults nearer to the scenario.
LEMMA RestSettles ==
    ASSUME NEW calls \in Seq(LiveCalls), calls # <<>>, NEW scenario,
           NEW faults \in [LiveServices -> LiveKinds], RightCall(Head(calls)),
           Settles(faults, calls, scenario)
    PROVE  Settles(Applied(Head(calls), faults), Tail(calls), scenario)
<1> DEFINE call == Head(calls)
           after == Applied(call, faults)
           left == Tail(calls)
<1>1. /\ call = calls[1] /\ 1 \in DOMAIN calls /\ Len(calls) \in Nat \ {0}
      /\ DOMAIN calls = 1..Len(calls) /\ DOMAIN left = 1..(Len(calls) - 1)
      /\ \A n \in 1..(Len(calls) - 1) : left[n] = calls[n + 1] /\ n + 1 \in DOMAIN calls
  BY RestOfCalls
<1>2. \A s \in LiveServices : after[s] = IF Sets(call, s) THEN call.kind ELSE faults[s]
  BY DEF Applied, Sets, RightCall
<1> HIDE DEF call, after, left
<1> SUFFICES ASSUME NEW s \in LiveServices
             PROVE  \/ /\ after[s] = scenario[s]
                       /\ \A n \in DOMAIN left : Sets(left[n], s) => left[n].kind = scenario[s]
                    \/ \E n \in DOMAIN left :
                          /\ Sets(left[n], s) /\ left[n].kind = scenario[s]
                          /\ \A m \in DOMAIN left :
                                m > n /\ Sets(left[m], s) => left[m].kind = scenario[s]
  BY DEF Settles, call, after, left
<1>3. CASE /\ faults[s] = scenario[s]
           /\ \A n \in DOMAIN calls : Sets(calls[n], s) => calls[n].kind = scenario[s]
  <2>1. after[s] = scenario[s]
    BY <1>1, <1>2, <1>3
  <2>2. \A n \in DOMAIN left : n + 1 \in DOMAIN calls /\ left[n] = calls[n + 1]
    BY <1>1
  <2> QED
    BY <1>3, <2>1, <2>2
<1>4. CASE \E n \in DOMAIN calls :
              /\ Sets(calls[n], s) /\ calls[n].kind = scenario[s]
              /\ \A m \in DOMAIN calls : m > n /\ Sets(calls[m], s) => calls[m].kind = scenario[s]
  <2>1. PICK n \in DOMAIN calls :
              /\ Sets(calls[n], s) /\ calls[n].kind = scenario[s]
              /\ \A m \in DOMAIN calls : m > n /\ Sets(calls[m], s) => calls[m].kind = scenario[s]
    BY <1>4
  <2>2. CASE n = 1
    <3>1. \A m \in DOMAIN left : m + 1 \in DOMAIN calls /\ m + 1 > n /\ left[m] = calls[m + 1]
      BY <1>1, <2>2
    <3> QED
      BY <1>1, <1>2, <2>1, <2>2, <3>1
  <2>3. CASE n # 1
    <3>1. n - 1 \in DOMAIN left /\ left[n - 1] = calls[n]
      BY <1>1, <2>3
    <3>2. \A m \in DOMAIN left : m > n - 1 =>
            m + 1 \in DOMAIN calls /\ m + 1 > n /\ left[m] = calls[m + 1]
      BY <1>1
    <3> QED
      BY <2>1, <3>1, <3>2
  <2> QED
    BY <2>2, <2>3
<1> QED
  BY <1>3, <1>4 DEF Settles

\* What a call does where it is served.
LEMMA ServedCall ==
    ASSUME LiveTypes, NEW call \in LiveCalls, RightCall(call), operations # 0,
           Live!Serve(call)
    PROVE  /\ fault' \in [LiveServices -> LiveKinds] /\ fault' = Applied(call, fault)
           /\ phase' \in {"empty", "collecting", "frozen"}
           /\ flight' \cup baseline' \cup window' \cup graph' \subseteq Live!Batch
           /\ \A b \in flight' : b \in flight \/ (call.do = "send" /\ b.number = operations)
           /\ window' \subseteq window /\ graph' \subseteq graph
           /\ call.do = "clear graph" => graph' = {}
           /\ call.do = "clear window" => window' = {}
<1>1. fault' = Applied(call, fault) /\ fault' \in [LiveServices -> LiveKinds]
  <2>1. fault' = Applied(call, fault)
    BY DEF Live!Serve, Applied
  <2>2. call.do = "fault" => call.at \in LiveServices /\ call.kind \in LiveKinds
    BY DEF RightCall, LiveCalls, Live!Calls, LiveKinds
  <2> QED
    BY <2>1, <2>2 DEF Applied, LiveTypes
<1>2. phase' \in {"empty", "collecting", "frozen"}
  BY DEF Live!Serve, LiveTypes
<1>3. /\ window' \subseteq window /\ graph' \subseteq graph /\ baseline' \subseteq baseline
      /\ call.do = "clear graph" => graph' = {}
      /\ call.do = "clear window" => window' = {}
  BY DEF Live!Serve
<1> DEFINE batch == [number |-> operations, under |-> fault]
<1>4. batch \in Live!Batch /\ batch.number = operations
  BY DEF LiveTypes, Live!Batch, LiveServices, LiveKinds
<1>5. flight' = flight \/ (call.do = "send" /\ flight' = flight \cup {batch})
  BY DEF Live!Serve
<1> HIDE DEF batch
<1>6. flight \cup baseline \cup window \cup graph \subseteq Live!Batch
  BY DEF LiveTypes
<1> QED
  BY <1>1, <1>2, <1>3, <1>4, <1>5, <1>6

\* A scenario is a fault, or none, of each service.
LEMMA ScenariosAreFaults == Live!Scenarios \subseteq [LiveServices -> LiveKinds]
BY DEF Live!Scenarios, Live!Healthy, LiveServices, LiveKinds

\* What is asked next when little is left of a reset.
LEMMA LastCalls ==
    ASSUME NEW calls \in Seq(LiveCalls), calls # <<>>, RestOfReset(calls)
    PROVE  /\ Len(calls) <= 7 => calls[1].do # "send"
           /\ Len(calls) = 8 => calls[1].do = "drain"
           /\ Len(calls) = 3 => calls[1].do = "clear graph"
           /\ Len(calls) = 2 => calls[1].do = "clear window"
<1>1. /\ Ending[3] = Live!Call("drain") /\ Ending[4] = Live!Call("freeze")
      /\ Ending[5] = Live!Call("clear graph") /\ Ending[6] = Live!Call("clear window")
      /\ Ending[7] = Live!Call("drain") /\ Ending[8] = Live!Call("clear graph")
      /\ Ending[9] = Live!Call("clear window") /\ Ending[10] = Live!Call("health")
  BY DEF Ending
<1>2. /\ Ending[3].do = "drain" /\ Ending[4].do = "freeze"
      /\ Ending[5].do = "clear graph" /\ Ending[6].do = "clear window"
      /\ Ending[7].do = "drain" /\ Ending[8].do = "clear graph"
      /\ Ending[9].do = "clear window" /\ Ending[10].do = "health"
  <2>1. \A do : Live!Call(do).do = do
    BY DEF Live!Call
  <2> QED
    BY <1>1, <2>1
<1>3. 1 \in DOMAIN calls /\ Len(calls) \in Nat \ {0}
  BY RestOfCalls
<1> DEFINE left == Len(calls)
<1>4. left - 1 < 10 => calls[1] = Ending[10 - (left - 1)]
  BY <1>3, Zenon DEF RestOfReset
<1> HIDE DEF left
<1>5. /\ left = 1 => calls[1] = Ending[10]
      /\ left = 2 => calls[1] = Ending[9]
      /\ left = 3 => calls[1] = Ending[8]
      /\ left = 4 => calls[1] = Ending[7]
      /\ left = 5 => calls[1] = Ending[6]
      /\ left = 6 => calls[1] = Ending[5]
      /\ left = 7 => calls[1] = Ending[4]
      /\ left = 8 => calls[1] = Ending[3]
  <2>1. /\ 10 - (1 - 1) = 10 /\ 10 - (2 - 1) = 9 /\ 10 - (3 - 1) = 8 /\ 10 - (4 - 1) = 7
        /\ 10 - (5 - 1) = 6 /\ 10 - (6 - 1) = 5 /\ 10 - (7 - 1) = 4 /\ 10 - (8 - 1) = 3
    OBVIOUS
  <2> QED
    BY <1>4, <2>1
<1>6. left \in Nat \ {0}
  BY <1>3 DEF left
<1>7. left <= 7 => left \in {1, 2, 3, 4, 5, 6, 7}
  BY <1>6
<1> QED
  BY <1>2, <1>5, <1>7 DEF left

\* The demonstration begins as the invariant says.
LEMMA LiveStarts == Live!Init => LiveInv
<1> SUFFICES ASSUME Live!Init PROVE LiveInv
  OBVIOUS
<1>1. /\ op = NONE /\ live = [state |-> "idle", scenario |-> Live!Healthy] /\ lastLive = NONE
      /\ fault \in Live!Scenarios /\ phase = "empty"
      /\ baseline = {} /\ window = {} /\ graph = {} /\ flight = {} /\ late = {}
      /\ unsure = TRUE /\ resetAt = 0 /\ operations = 0
  BY DEF Live!Init, Live!Idle
<1>2. /\ Live!Healthy \in Live!Scenarios /\ fault \in [LiveServices -> LiveKinds]
  BY <1>1 DEF Live!Scenarios, Live!Healthy, LiveServices, LiveKinds
<1>3. LiveTypes
  BY <1>1, <1>2 DEF LiveTypes
<1>4. FaultsFollowed /\ TrafficFollowed /\ ResetFollowed
  BY <1>1 DEF FaultsFollowed, TrafficFollowed, ResetFollowed
<1> QED
  BY <1>1, <1>3, <1>4 DEF LiveInv, Live!LabelNeverWrong, Live!StaleStaysOut

\* An operation begins with the calls of its kind.
LEMMA StartStep ==
    ASSUME LiveInv, NEW kind \in {"reset", "scenario", "traffic"},
           NEW scenario \in Live!Scenarios \cup {NONE}, NEW calls \in Seq(LiveCalls),
           \A n \in DOMAIN calls : RightCall(calls[n]),
           Live!Start(kind, scenario, calls),
           kind # "traffic" => Settles(fault, calls, scenario),
           kind = "traffic" => scenario = live.scenario,
           kind = "traffic" => /\ \A n \in DOMAIN calls : calls[n].do # "fault"
                               /\ \E n \in DOMAIN calls : calls[n].do = "send",
           kind = "reset" => RestOfReset(calls) /\ Len(calls) > 10
    PROVE  LiveInv'
<1>1. /\ op = NONE /\ operations' = operations + 1 /\ operations' \in 0..3
      /\ op' = [kind |-> kind, scenario |-> scenario, calls |-> calls, under |-> NONE]
      /\ live' = [state |-> "running", scenario |-> scenario]
      /\ unsure' = (unsure /\ kind = "traffic")
      /\ UNCHANGED <<lastLive, fault, phase, baseline, window, graph, flight, late, resetAt>>
  BY DEF LiveInv, LiveTypes, Live!Start, Live!rca
<1>0. op' \in Live!Operations /\ op' # NONE
  <2>1. op' \in Live!Operations
    BY <1>1 DEF LiveCalls, Live!Operations
  <2> QED
    BY <2>1, InstancesAssumption DEF Live!DemoAssumption
<1>2. LiveTypes'
  <2>1. \A n \in DOMAIN op'.calls : RightCall(op'.calls[n])
    BY <1>1
  <2>2. resetAt' \in 0..operations' /\ resetAt' < operations'
    BY <1>1 DEF LiveInv, LiveTypes
  <2> QED
    BY <1>0, <1>1, <2>1, <2>2 DEF LiveInv, LiveTypes
<1>3. FaultsFollowed'
  <2>1. ASSUME ~unsure', op' # NONE, scenario # NONE PROVE Settles(fault, calls, scenario)
    <3>1. CASE kind = "traffic"
      <4>1. fault = scenario
        BY <1>1, <2>1, <3>1 DEF LiveInv, FaultsFollowed
      <4> QED
        BY <3>1, <4>1 DEF Settles, Sets
    <3> QED
      BY <3>1
  <2>2. op' = NONE /\ live'.scenario # NONE /\ ~unsure' => fault' = live'.scenario
    BY <1>0
  <2> QED
    BY <1>1, <2>1, <2>2 DEF FaultsFollowed
<1>4. TrafficFollowed'
  BY <1>1 DEF TrafficFollowed
<1>5. ResetFollowed'
  BY <1>1 DEF ResetFollowed, LiveInv
<1>6. Live!LabelNeverWrong' /\ Live!StaleStaysOut'
  BY <1>1 DEF LiveInv, Live!LabelNeverWrong, Live!StaleStaysOut
<1> QED
  BY <1>2, <1>3, <1>4, <1>5, <1>6 DEF LiveInv

\* A reset, a scenario or traffic begins.
LEMMA OperationsStart ==
    ASSUME LiveInv, Live!handleLiveReset \/ Live!handleLiveScenario \/ Live!handleLiveTraffic
    PROVE  LiveInv'
<1>1. Live!Healthy \in Live!Scenarios /\ \A s \in LiveServices : Live!Healthy[s] = NONE
  BY DEF Live!Scenarios, Live!Healthy, LiveServices
<1>2. CASE Live!handleLiveReset
  <2> DEFINE calls == Live!ResetCalls
  <2>1. /\ calls \in Seq(LiveCalls) /\ Len(calls) > 10 /\ RestOfReset(calls)
        /\ \A n \in DOMAIN calls : /\ RightCall(calls[n])
                                   /\ calls[n].do = "fault" => calls[n].kind = NONE
        /\ \A s \in LiveServices : \E n \in DOMAIN calls : Sets(calls[n], s)
    BY ResetCallsShape
  <2>2. Live!Start("reset", Live!Healthy, calls)
    BY <1>2 DEF Live!handleLiveReset
  <2> HIDE DEF calls
  <2>3. Settles(fault, calls, Live!Healthy)
    BY <1>1, <2>1 DEF Settles, Sets
  <2> QED
    BY <1>1, <2>1, <2>2, <2>3, StartStep
<1>3. CASE Live!handleLiveScenario
  <2>1. PICK scenario \in Live!Scenarios :
            Live!Start("scenario", scenario, Live!ApplyScenario(scenario))
    BY <1>3 DEF Live!handleLiveScenario
  <2> DEFINE calls == Live!ApplyScenario(scenario)
  <2>2. /\ calls \in Seq(LiveCalls) /\ \A n \in DOMAIN calls : RightCall(calls[n])
        /\ Settles(fault, calls, scenario)
    BY ScenarioCallsShape
  <2> HIDE DEF calls
  <2>3. Live!Start("scenario", scenario, calls)
    BY <2>1 DEF calls
  <2> QED
    BY <2>2, <2>3, StartStep
<1>4. CASE Live!handleLiveTraffic
  <2>1. Live!Start("traffic", live.scenario, Live!TrafficCalls)
    BY <1>4 DEF Live!handleLiveTraffic
  <2>2. live.scenario \in Live!Scenarios \cup {NONE}
    BY DEF LiveInv, LiveTypes
  <2> QED
    BY <2>1, <2>2, TrafficCallsShape, StartStep
<1> QED
  BY <1>2, <1>3, <1>4

\* What a call may do to the Collector and to the RCA service leaves nothing from
\* before the last reset.
LEMMA NothingStale ==
    ASSUME LiveInv, op # NONE, NEW call \in LiveCalls, RightCall(call), Live!Serve(call)
    PROVE  \A b \in flight' \cup window' \cup graph' : b.number > resetAt
<1>1. resetAt < operations /\ operations # 0
  BY DEF LiveInv, LiveTypes
<1>2. /\ \A b \in flight' : b \in flight \/ (call.do = "send" /\ b.number = operations)
      /\ window' \subseteq window /\ graph' \subseteq graph
  BY <1>1, ServedCall DEF LiveInv
<1> QED
  BY <1>1, <1>2 DEF LiveInv, ResetFollowed

\* The first call left is answered.
LEMMA AnsweredStep == ASSUME LiveInv, Live!CallAnswered PROVE LiveInv'
<1> DEFINE call == Head(op.calls)
           left == Tail(op.calls)
<1>1. /\ op # NONE /\ op.calls # <<>>
      /\ Live!Answered(call) /\ Live!Serve(call)
      /\ op' = [op EXCEPT !.calls = Tail(@),
                          !.under = IF call.do = "send" THEN fault ELSE @]
      /\ live' = IF op.kind = "traffic" /\ call.do = "drain"
                 THEN [live EXCEPT !.state = "analyzing"] ELSE live
      /\ UNCHANGED <<lastLive, late, unsure, resetAt, operations, lates, restarts>>
  BY DEF Live!CallAnswered, Live!counters
<1>2. op \in Live!Operations /\ op.calls \in Seq(LiveCalls) /\ operations # 0
  BY <1>1 DEF LiveInv, LiveTypes, Live!Operations, LiveCalls
<1>3. /\ left \in Seq(LiveCalls) /\ Len(left) = Len(op.calls) - 1
      /\ call = op.calls[1] /\ 1 \in DOMAIN op.calls /\ call \in LiveCalls
      /\ Len(op.calls) \in Nat \ {0} /\ DOMAIN op.calls = 1..Len(op.calls)
      /\ DOMAIN left = 1..(Len(op.calls) - 1)
      /\ \A n \in 1..(Len(op.calls) - 1) : left[n] = op.calls[n + 1] /\ n + 1 \in DOMAIN op.calls
  BY <1>1, <1>2, RestOfCalls
<1>4. RightCall(call) /\ \A n \in DOMAIN left : RightCall(left[n])
  BY <1>1, <1>3 DEF LiveInv, LiveTypes
<1>5. /\ op'.kind = op.kind /\ op'.scenario = op.scenario /\ op'.calls = left
      /\ op'.under = (IF call.do = "send" THEN fault ELSE op.under)
      /\ op' \in Live!Operations
  <2>1. fault \in [{gateway, payment} -> {"latency"} \cup {NONE}]
    BY DEF LiveInv, LiveTypes, LiveServices, LiveKinds
  <2> HIDE DEF call
  <2>2. op'.kind = op.kind /\ op'.scenario = op.scenario /\ op'.calls = left
        /\ op'.under = (IF call.do = "send" THEN fault ELSE op.under)
        /\ op' = [kind |-> op'.kind, scenario |-> op'.scenario, calls |-> op'.calls,
                  under |-> op'.under]
    BY <1>1, <1>2 DEF Live!Operations
  <2> HIDE DEF left
  <2>3. /\ op.kind \in {"reset", "scenario", "traffic"} /\ op.scenario \in Live!Scenarios \cup {NONE}
        /\ op.under \in [{gateway, payment} -> {"latency"} \cup {NONE}] \cup {NONE}
    BY <1>2 DEF Live!Operations
  <2> QED
    BY <1>3, <2>1, <2>2, <2>3 DEF Live!Operations, LiveCalls
<1> HIDE DEF call, left
<1>6. /\ fault' \in [LiveServices -> LiveKinds] /\ fault' = Applied(call, fault)
      /\ phase' \in {"empty", "collecting", "frozen"}
      /\ flight' \cup baseline' \cup window' \cup graph' \subseteq Live!Batch
      /\ \A b \in flight' : b \in flight \/ (call.do = "send" /\ b.number = operations)
      /\ window' \subseteq window /\ graph' \subseteq graph
      /\ call.do = "clear graph" => graph' = {}
      /\ call.do = "clear window" => window' = {}
  BY <1>1, <1>2, <1>3, <1>4, ServedCall DEF LiveInv
<1>7. LiveTypes'
  <2>1. live' \in [state : {"idle", "running", "analyzing", "complete", "error"},
                    scenario : Live!Scenarios \cup {NONE}]
    BY <1>1 DEF LiveInv, LiveTypes
  <2>2. \A n \in DOMAIN op'.calls : RightCall(op'.calls[n])
    BY <1>4, <1>5
  <2> QED
    BY <1>1, <1>5, <1>6, <2>1, <2>2 DEF LiveInv, LiveTypes
<1>8. FaultsFollowed'
  <2>1. op' # NONE
    BY <1>5, InstancesAssumption DEF Live!DemoAssumption
  <2>2. ASSUME ~unsure, op.scenario # NONE PROVE Settles(fault', left, op.scenario)
    <3>1. Settles(fault, op.calls, op.scenario)
      BY <1>1, <2>2 DEF LiveInv, FaultsFollowed
    <3>2. fault \in [LiveServices -> LiveKinds]
      BY DEF LiveInv, LiveTypes
    <3> QED
      BY <1>1, <1>2, <1>4, <1>6, <3>1, <3>2, RestSettles DEF call, left
  <2> QED
    BY <1>1, <1>5, <2>1, <2>2 DEF FaultsFollowed
<1>9. TrafficFollowed'
  <2> SUFFICES ASSUME op.kind = "traffic"
               PROVE  /\ \A n \in DOMAIN left : left[n].do # "fault"
                      /\ \/ unsure \/ op.scenario = NONE \/ op'.under = op.scenario
                         \/ \E n \in DOMAIN left : left[n].do = "send"
    BY <1>1, <1>5 DEF TrafficFollowed
  <2>1. /\ \A n \in DOMAIN op.calls : op.calls[n].do # "fault"
        /\ \/ unsure \/ op.scenario = NONE \/ op.under = op.scenario
           \/ \E n \in DOMAIN op.calls : op.calls[n].do = "send"
    BY <1>1 DEF LiveInv, TrafficFollowed
  <2>2. \A n \in DOMAIN left : left[n].do # "fault"
    BY <1>3, <2>1
  <2>3. CASE call.do = "send"
    <3> SUFFICES ASSUME ~unsure, op.scenario # NONE PROVE fault = op.scenario
      BY <1>5, <2>2, <2>3
    <3>1. \A s \in LiveServices : fault[s] = op.scenario[s]
      BY <1>1, <2>1 DEF LiveInv, FaultsFollowed, Settles, Sets
    <3>2. op.scenario \in [LiveServices -> LiveKinds] /\ fault \in [LiveServices -> LiveKinds]
      BY <1>2, ScenariosAreFaults DEF LiveInv, LiveTypes, Live!Operations
    <3> QED
      BY <3>1, <3>2
  <2>4. CASE call.do # "send"
    <3>1. (\E n \in DOMAIN op.calls : op.calls[n].do = "send")
            => \E n \in DOMAIN left : left[n].do = "send"
      <4> SUFFICES ASSUME NEW n \in DOMAIN op.calls, op.calls[n].do = "send"
                   PROVE  \E m \in DOMAIN left : left[m].do = "send"
        OBVIOUS
      <4>1. n # 1
        BY <1>3, <2>4
      <4>2. n - 1 \in DOMAIN left /\ left[n - 1] = op.calls[n]
        BY <1>3, <4>1
      <4> QED
        BY <4>2
    <3> QED
      BY <1>5, <2>1, <2>2, <2>4, <3>1
  <2> QED
    BY <2>3, <2>4
<1>10. ResetFollowed'
  <2>1. \A b \in flight' \cup window' \cup graph' : b.number > resetAt'
    BY <1>1, <1>3, <1>4, NothingStale
  <2> SUFFICES ASSUME op.kind = "reset"
               PROVE  /\ RestOfReset(left)
                      /\ Len(left) <= 7 => flight' = {}
                      /\ Len(left) <= 2 => graph' = {}
                      /\ Len(left) <= 1 => window' = {}
    BY <1>1, <1>5, <2>1 DEF ResetFollowed
  <2>2. /\ RestOfReset(op.calls)
        /\ Len(op.calls) <= 7 => flight = {}
        /\ Len(op.calls) <= 2 => graph = {}
        /\ Len(op.calls) <= 1 => window = {}
    BY <1>1 DEF LiveInv, ResetFollowed
  <2>3. RestOfReset(left)
    BY <1>1, <1>2, <2>2, RestOfRest DEF left
  <2>4. /\ Len(op.calls) <= 7 => call.do # "send"
        /\ Len(op.calls) = 8 => call.do = "drain"
        /\ Len(op.calls) = 3 => call.do = "clear graph"
        /\ Len(op.calls) = 2 => call.do = "clear window"
    BY <1>1, <1>2, <1>3, <2>2, LastCalls
  <2>5. /\ Len(left) <= 7 => Len(op.calls) <= 7 \/ Len(op.calls) = 8
        /\ Len(left) <= 2 => Len(op.calls) <= 2 \/ Len(op.calls) = 3
        /\ Len(left) <= 1 => Len(op.calls) <= 1 \/ Len(op.calls) = 2
    <3>1. Len(left) = Len(op.calls) - 1 /\ Len(op.calls) \in Nat
      BY <1>3
    <3>2. \A n \in Nat : /\ n - 1 <= 7 => n <= 7 \/ n = 8
                         /\ n - 1 <= 2 => n <= 2 \/ n = 3
                         /\ n - 1 <= 1 => n <= 1 \/ n = 2
      OBVIOUS
    <3> QED
      BY <3>1, <3>2
  <2>7. Len(left) <= 7 => flight' = {}
    <3>1. CASE Len(op.calls) <= 7
      BY <1>6, <2>2, <2>4, <3>1
    <3>2. CASE Len(op.calls) = 8
      <4>1. call.do = "drain"
        BY <2>4, <3>2
      <4> QED
        BY <1>1, <1>6, <4>1 DEF Live!Answered
    <3> QED
      BY <2>5, <3>1, <3>2
  <2>8. Len(left) <= 2 => graph' = {}
    <3>1. CASE Len(op.calls) <= 2
      BY <1>6, <2>2, <3>1
    <3>2. CASE Len(op.calls) = 3
      BY <1>6, <2>4, <3>2
    <3> QED
      BY <2>5, <3>1, <3>2
  <2>9. Len(left) <= 1 => window' = {}
    <3>1. CASE Len(op.calls) <= 1
      BY <1>6, <2>2, <3>1
    <3>2. CASE Len(op.calls) = 2
      BY <1>6, <2>4, <3>2
    <3> QED
      BY <2>5, <3>1, <3>2
  <2> QED
    BY <2>3, <2>7, <2>8, <2>9
<1>11. Live!LabelNeverWrong' /\ Live!StaleStaysOut'
  BY <1>1 DEF LiveInv, Live!LabelNeverWrong, Live!StaleStaysOut
<1> QED
  BY <1>7, <1>8, <1>9, <1>10, <1>11 DEF LiveInv

\* The last call of an operation was answered.
LEMMA CompleteStep == ASSUME LiveInv, Live!Complete PROVE LiveInv'
<1>1. /\ op # NONE /\ op.calls = <<>> /\ op' = NONE
      /\ live' = [state |-> IF op.kind = "traffic" THEN "complete" ELSE "idle",
                  scenario |-> op.scenario]
      /\ lastLive' = CASE op.kind = "traffic" ->
                            [label |-> op.scenario, under |-> op.under,
                             window |-> window, graph |-> graph,
                             sure |-> ~unsure, resetAt |-> resetAt]
                       [] op.kind = "reset" -> NONE
                       [] OTHER -> lastLive
      /\ resetAt' = IF op.kind = "reset" THEN operations ELSE resetAt
      /\ UNCHANGED <<fault, phase, baseline, window, graph, flight, late, unsure, operations>>
  BY DEF Live!Complete, Live!counters, Live!rca
<1>2. /\ op \in Live!Operations /\ op.scenario \in Live!Scenarios \cup {NONE}
      /\ operations \in 0..3 /\ resetAt \in 0..operations
      /\ fault \in [LiveServices -> LiveKinds]
  BY <1>1 DEF LiveInv, LiveTypes, Live!Operations
<1>3. LiveTypes'
  <2>1. live' \in [state : {"idle", "running", "analyzing", "complete", "error"},
                   scenario : Live!Scenarios \cup {NONE}]
    BY <1>1, <1>2
  <2>2. resetAt' \in 0..operations
    BY <1>1, <1>2
  <2> QED
    BY <1>1, <2>1, <2>2 DEF LiveInv, LiveTypes
<1>4. FaultsFollowed'
  <2> SUFFICES ASSUME ~unsure, op.scenario # NONE PROVE fault = op.scenario
    BY <1>1 DEF FaultsFollowed
  <2>1. \A s \in LiveServices : fault[s] = op.scenario[s]
    BY <1>1 DEF LiveInv, FaultsFollowed, Settles
  <2> QED
    BY <1>2, <2>1, ScenariosAreFaults
<1>5. TrafficFollowed'
  BY <1>1 DEF TrafficFollowed
<1>6. ResetFollowed'
  <2> SUFFICES \A b \in flight \cup window \cup graph : b.number > resetAt'
    BY <1>1 DEF ResetFollowed
  <2>1. CASE op.kind = "reset"
    <3>1. Len(op.calls) = 0
      BY <1>1
    <3> QED
      BY <1>1, <2>1, <3>1 DEF LiveInv, ResetFollowed
  <2>2. CASE op.kind # "reset"
    BY <1>1, <2>2 DEF LiveInv, ResetFollowed
  <2> QED
    BY <2>1, <2>2
<1>7. Live!LabelNeverWrong' /\ Live!StaleStaysOut'
  <2>1. CASE op.kind = "traffic"
    <3>1. lastLive' = [label |-> op.scenario, under |-> op.under,
                       window |-> window, graph |-> graph,
                       sure |-> ~unsure, resetAt |-> resetAt]
      BY <1>1, <2>1
    <3>2. unsure \/ op.scenario = NONE \/ op.under = op.scenario
      BY <1>1, <2>1 DEF LiveInv, TrafficFollowed
    <3>3. \A b \in window \cup graph : b.number > resetAt
      BY DEF LiveInv, ResetFollowed
    <3> QED
      BY <3>1, <3>2, <3>3 DEF Live!LabelNeverWrong, Live!StaleStaysOut
  <2>2. CASE op.kind # "traffic"
    <3>1. lastLive' = NONE \/ lastLive' = lastLive
      BY <1>1, <2>2
    <3> QED
      BY <3>1 DEF LiveInv, Live!LabelNeverWrong, Live!StaleStaysOut
  <2> QED
    BY <2>1, <2>2
<1> QED
  BY <1>3, <1>4, <1>5, <1>6, <1>7 DEF LiveInv

\* A call is refused, is lost or will be served later.
LEMMA FailsStep == ASSUME LiveInv, Live!CallFails PROVE LiveInv'
<1> DEFINE call == Head(op.calls)
<1>1. /\ op # NONE /\ op.calls # <<>> /\ op' = NONE
      /\ live' = [state |-> "error", scenario |-> NONE]
      /\ UNCHANGED <<lastLive, unsure, resetAt, operations>>
      /\ \/ UNCHANGED <<fault, phase, baseline, window, graph, flight, late>>
         \/ Live!Serve(call) /\ UNCHANGED late
         \/ /\ call.do \in {"fault", "start", "freeze"} /\ late' = late \cup {call}
            /\ UNCHANGED <<fault, phase, baseline, window, graph, flight>>
  BY DEF Live!CallFails, Live!Unlock, Live!Failed, Live!rca
<1>2. op.calls \in Seq(LiveCalls) /\ operations # 0
  BY <1>1 DEF LiveInv, LiveTypes, Live!Operations, LiveCalls
<1>3. call \in LiveCalls /\ RightCall(call)
  <2>1. call \in LiveCalls /\ call = op.calls[1] /\ 1 \in DOMAIN op.calls
    BY <1>1, <1>2, RestOfCalls
  <2> QED
    BY <1>1, <2>1 DEF LiveInv, LiveTypes
<1> HIDE DEF call
<1>4. /\ fault' \in [LiveServices -> LiveKinds] /\ phase' \in {"empty", "collecting", "frozen"}
      /\ flight' \cup baseline' \cup window' \cup graph' \subseteq Live!Batch
  <2>1. CASE Live!Serve(call)
    BY <1>2, <1>3, <2>1, ServedCall DEF LiveInv
  <2>2. CASE UNCHANGED <<fault, phase, baseline, window, graph, flight>>
    BY <2>2 DEF LiveInv, LiveTypes
  <2> QED
    BY <1>1, <2>1, <2>2
<1>5. \A b \in flight' \cup window' \cup graph' : b.number > resetAt'
  <2>1. CASE Live!Serve(call)
    BY <1>1, <1>3, <2>1, NothingStale
  <2>2. CASE UNCHANGED <<fault, phase, baseline, window, graph, flight>>
    BY <1>1, <2>2 DEF LiveInv, ResetFollowed
  <2> QED
    BY <1>1, <2>1, <2>2
<1>6. late' \subseteq LiveCalls /\ \A c \in late' : RightCall(c) /\ c.do # "send"
  BY <1>1, <1>3 DEF LiveInv, LiveTypes
<1>7. LiveTypes'
  BY <1>1, <1>4, <1>6 DEF LiveInv, LiveTypes
<1>8. FaultsFollowed' /\ TrafficFollowed' /\ ResetFollowed'
  BY <1>1, <1>5 DEF FaultsFollowed, TrafficFollowed, ResetFollowed
<1>9. Live!LabelNeverWrong' /\ Live!StaleStaysOut'
  BY <1>1 DEF LiveInv, Live!LabelNeverWrong, Live!StaleStaysOut
<1> QED
  BY <1>7, <1>8, <1>9 DEF LiveInv

\* A call that was given up is served: it may set a fault, but sends nothing.
LEMMA LateStep == ASSUME LiveInv, Live!ServedLate PROVE LiveInv'
<1>1. PICK call \in late : /\ Live!Serve(call) /\ late' = late \ {call} /\ unsure' = TRUE
                           /\ UNCHANGED <<op, live, lastLive, resetAt, operations>>
  BY DEF Live!ServedLate, Live!counters
<1>2. call \in LiveCalls /\ RightCall(call) /\ call.do # "send"
  BY DEF LiveInv, LiveTypes
<1>3. /\ fault' \in [LiveServices -> LiveKinds] /\ phase' \in {"empty", "collecting", "frozen"}
      /\ window' \subseteq window /\ graph' \subseteq graph /\ baseline' \subseteq baseline
      /\ flight' = flight
  <2>1. call.do = "fault" => call.at \in LiveServices /\ call.kind \in LiveKinds
    BY <1>2 DEF RightCall, LiveCalls, Live!Calls, LiveKinds
  <2>2. fault' \in [LiveServices -> LiveKinds]
    BY <1>1, <2>1 DEF Live!Serve, LiveInv, LiveTypes
  <2>3. phase' \in {"empty", "collecting", "frozen"}
    BY <1>1 DEF Live!Serve, LiveInv, LiveTypes
  <2>4. window' \subseteq window /\ graph' \subseteq graph /\ baseline' \subseteq baseline
    BY <1>1 DEF Live!Serve
  <2>5. flight' = flight
    BY <1>1, <1>2 DEF Live!Serve
  <2> QED
    BY <2>2, <2>3, <2>4, <2>5
<1>4. LiveTypes'
  BY <1>1, <1>3 DEF LiveInv, LiveTypes
<1>5. FaultsFollowed' /\ TrafficFollowed'
  BY <1>1 DEF LiveInv, FaultsFollowed, TrafficFollowed
<1>6. ResetFollowed'
  BY <1>1, <1>3 DEF LiveInv, ResetFollowed
<1>7. Live!LabelNeverWrong' /\ Live!StaleStaysOut'
  BY <1>1 DEF LiveInv, Live!LabelNeverWrong, Live!StaleStaysOut
<1> QED
  BY <1>4, <1>5, <1>6, <1>7 DEF LiveInv

\* The Collector delivers a batch.
LEMMA DeliverStep == ASSUME LiveInv, Live!Deliver PROVE LiveInv'
<1>1. PICK b \in flight :
          /\ flight' = flight \ {b} /\ graph' = graph \cup {b}
          /\ baseline' = IF phase = "collecting" THEN baseline \cup {b} ELSE baseline
          /\ window' = IF phase = "frozen" THEN window \cup {b} ELSE window
          /\ UNCHANGED <<op, live, lastLive, fault, phase, late, unsure, resetAt, operations>>
  BY DEF Live!Deliver, Live!counters
<1>2. LiveTypes'
  BY <1>1 DEF LiveInv, LiveTypes
<1>3. FaultsFollowed' /\ TrafficFollowed'
  BY <1>1 DEF LiveInv, FaultsFollowed, TrafficFollowed
<1>4. ResetFollowed'
  <2>1. \A x \in flight' \cup window' \cup graph' : x \in flight \cup window \cup graph
    BY <1>1
  <2>2. flight # {}
    BY <1>1
  <2>3. op # NONE => Len(op.calls) \in Nat
    BY LenProperties DEF LiveInv, LiveTypes, Live!Operations
  <2> QED
    BY <1>1, <2>1, <2>2, <2>3 DEF LiveInv, ResetFollowed
<1>5. Live!LabelNeverWrong' /\ Live!StaleStaysOut'
  BY <1>1 DEF LiveInv, Live!LabelNeverWrong, Live!StaleStaysOut
<1> QED
  BY <1>2, <1>3, <1>4, <1>5 DEF LiveInv

\* The demonstration is restarted.
LEMMA RestartStep == ASSUME LiveInv, Live!Restart PROVE LiveInv'
<1>1. /\ op' = NONE /\ live' = [state |-> "idle", scenario |-> Live!Healthy]
      /\ lastLive' = NONE /\ unsure' = TRUE /\ resetAt' = 0
      /\ UNCHANGED <<fault, phase, baseline, window, graph, flight, late, operations>>
  BY DEF Live!Restart, Live!Idle, Live!rca
<1>2. Live!Healthy \in Live!Scenarios
  BY DEF Live!Scenarios
<1>3. LiveTypes'
  BY <1>1, <1>2 DEF LiveInv, LiveTypes
<1>4. FaultsFollowed' /\ TrafficFollowed'
  BY <1>1 DEF FaultsFollowed, TrafficFollowed
<1>5. \A b \in flight \cup window \cup graph : b.number > 0
  BY DEF LiveInv, LiveTypes, Live!Batch
<1>6. ResetFollowed'
  BY <1>1, <1>5 DEF ResetFollowed
<1> QED
  BY <1>1, <1>3, <1>4, <1>6 DEF LiveInv, Live!LabelNeverWrong, Live!StaleStaysOut

\* Every step of the live demonstration keeps its invariant.
LEMMA LiveStep == ASSUME LiveInv, Live!Next \/ UNCHANGED liveVars PROVE LiveInv'
<1>1. CASE UNCHANGED liveVars
  BY <1>1 DEF liveVars, LiveInv, LiveTypes, FaultsFollowed, TrafficFollowed, ResetFollowed,
             Live!LabelNeverWrong, Live!StaleStaysOut
<1>2. CASE Live!Next
  BY <1>2, OperationsStart, AnsweredStep, CompleteStep, FailsStep, LateStep, DeliverStep,
     RestartStep DEF Live!Next
<1> QED
  BY <1>1, <1>2

\* Results of the live demonstration carry no wrong label and nothing from before
\* the last reset, whatever fails, is late or is started again.
THEOREM LabelsHonestHolds == SuiteSpec => []LabelsHonest
<1> DEFINE Inv == part = "live" => LiveInv
<1>1. SuiteInit => Inv
  BY LiveStarts DEF SuiteInit
<1>2. Inv /\ [SuiteNext]_suiteVars => Inv'
  <2> SUFFICES ASSUME Inv, [SuiteNext]_suiteVars, part' = "live" PROVE LiveInv'
    OBVIOUS
  <2>1. part = "live" /\ (Live!Next \/ UNCHANGED liveVars)
    BY DEF SuiteNext, suiteVars
  <2> QED
    BY <2>1, LiveStep
<1>3. Inv => LabelsHonest
  <2> SUFFICES ASSUME LiveInv PROVE Live!LiveTypeOK /\ Live!LabelNeverWrong /\ Live!StaleStaysOut
    BY DEF LabelsHonest
  <2> QED
    BY DEF LiveInv, LiveTypes, Live!LiveTypeOK, LiveServices, LiveKinds
<1> QED
  BY <1>1, <1>2, <1>3, PTL DEF SuiteSpec

-----------------------------------------------------------------------------
(* The container metrics.  Its three instances differ in their containers and   *)
(* in what a container that cannot be read does to a round.                     *)

\* What was read of a container is no later than its counter: a reset only takes
\* from the counter what the container goes on having used.
Reading == [at : Int, up : Int, total : Nat, used : Nat, boot : Int]
Ahead(r) == r.total - r.used
Earlier(r, counted) == r \in Reading /\ counted <= Ahead(r)

DockerTypes(cs) ==
    /\ now \in Int /\ uptime \in Int /\ running \subseteq cs
    /\ exporterTotal \in [cs -> Nat] /\ used \in [cs -> Nat] /\ boot \in [cs -> Int]
ReadingsFollowed(cs) ==
    /\ \A c \in cs : previous[c] # NONE => Earlier(previous[c], exporterTotal[c] - used[c])
    /\ round # NONE =>
         /\ round = [listed |-> round.listed, got |-> round.got, began |-> round.began]
         /\ round.listed \subseteq cs /\ DOMAIN round.got \subseteq cs
         /\ round.got = [c \in DOMAIN round.got |-> round.got[c]]
         /\ round.began \in Int /\ round.began <= uptime
         /\ \A c \in DOMAIN round.got :
               /\ Earlier(round.got[c], exporterTotal[c] - used[c]) /\ round.got[c].up \in round.began..uptime
               /\ previous[c] # NONE => Ahead(round.got[c]) <= Ahead(previous[c])
SamplesFollowed ==
    /\ updated \in Int
    /\ \A c \in DOMAIN samples :
          LET s == samples[c]
          IN /\ s.new.up \in s.began..updated
             /\ s.cpu # NONE =>
                   /\ s.cpu.used <= s.new.used - s.old.used
                   /\ s.cpu.seconds = s.new.at - s.old.at /\ s.cpu.seconds > 0
RatesInv(cs) == DockerTypes(cs) /\ ReadingsFollowed(cs) /\ SamplesFollowed

-----------------------------------------------------------------------------
(* What a step of an exporter does, whichever of the three *)

DockerMoves(cs) ==
    /\ DockerTypes(cs)' /\ uptime <= uptime'
    /\ \A c \in cs : exporterTotal'[c] - used'[c] <= exporterTotal[c] - used[c]
    /\ UNCHANGED <<previous, round, samples, updated>>
NothingRead == [c \in {} |-> NONE]
With(got, c, r) == [d \in DOMAIN got \cup {c} |-> IF d = c THEN r ELSE got[d]]
RoundMoves(cs) ==
    /\ UNCHANGED <<now, running, exporterTotal, used, boot, uptime, previous, samples, updated>>
    /\ \/ round' = NONE
       \/ round' = [listed |-> running, got |-> NothingRead, began |-> uptime]
       \/ /\ round # NONE
          /\ \E c \in round.listed \cap running :
                round' = [round EXCEPT !.got = With(@, c,
                            [at |-> now, up |-> uptime, total |-> exporterTotal[c],
                             used |-> used[c], boot |-> boot[c]])]
       \/ round # NONE /\ \E c \in round.listed : round' = [round EXCEPT !.listed = @ \ {c}]
Cores(old, new) ==
    IF old = NONE THEN NONE
    ELSE IF new.at <= old.at \/ new.total < old.total THEN NONE
    ELSE [used |-> new.total - old.total, seconds |-> new.at - old.at]
Commits(cs) ==
    /\ round # NONE
    /\ samples' = [c \in DOMAIN round.got |->
                     [cpu |-> Cores(previous[c], round.got[c]), began |-> round.began,
                      old |-> previous[c], new |-> round.got[c]]]
    /\ previous' = [c \in cs |-> IF c \in DOMAIN round.got THEN round.got[c] ELSE NONE]
    /\ updated' = uptime /\ round' = NONE
    /\ UNCHANGED <<now, running, exporterTotal, used, boot, uptime>>

\* None of them disturbs the readings.
LEMMA RatesMove ==
    ASSUME NEW cs, RatesInv(cs),
           DockerMoves(cs) \/ RoundMoves(cs) \/ Commits(cs)
    PROVE  RatesInv(cs)'
<1>1. CASE DockerMoves(cs)
  <2>1. ASSUME NEW r, NEW c \in cs, Earlier(r, exporterTotal[c] - used[c])
        PROVE  Earlier(r, exporterTotal'[c] - used'[c])
    <3>1. /\ exporterTotal[c] \in Int /\ used[c] \in Int /\ Ahead(r) \in Int
          /\ exporterTotal'[c] \in Int /\ used'[c] \in Int
      BY <1>1, <2>1 DEF DockerMoves, DockerTypes, RatesInv, Earlier, Reading, Ahead
    <3>2. exporterTotal'[c] - used'[c] <= exporterTotal[c] - used[c]
      BY <1>1 DEF DockerMoves
    <3> QED
      BY <2>1, <3>1, <3>2 DEF Earlier
  <2>2. ReadingsFollowed(cs)'
    <3>1. \A c \in cs : previous'[c] # NONE => Earlier(previous'[c], exporterTotal'[c] - used'[c])
      BY <1>1, <2>1 DEF DockerMoves, RatesInv, ReadingsFollowed
    <3> SUFFICES ASSUME round # NONE
                 PROVE  /\ round.began <= uptime'
                        /\ \A c \in DOMAIN round.got :
                              /\ Earlier(round.got[c], exporterTotal'[c] - used'[c]) /\ round.got[c].up \in round.began..uptime'
      BY <1>1, <3>1 DEF DockerMoves, RatesInv, ReadingsFollowed
    <3>2. /\ DOMAIN round.got \subseteq cs /\ round.began \in Int /\ round.began <= uptime
          /\ \A c \in DOMAIN round.got :
               Earlier(round.got[c], exporterTotal[c] - used[c]) /\ round.got[c].up \in round.began..uptime
      BY DEF RatesInv, ReadingsFollowed
    <3>3. uptime \in Int /\ uptime' \in Int /\ uptime <= uptime'
      BY <1>1 DEF DockerMoves, DockerTypes, RatesInv
    <3>4. \A c \in DOMAIN round.got : Earlier(round.got[c], exporterTotal'[c] - used'[c])
      BY <2>1, <3>2
    <3> QED
      BY <3>2, <3>3, <3>4
  <2>3. SamplesFollowed'
    BY <1>1 DEF DockerMoves, RatesInv, SamplesFollowed
  <2> QED
    BY <1>1, <2>2, <2>3 DEF DockerMoves, RatesInv
<1>2. CASE RoundMoves(cs)
  <2>1. DockerTypes(cs)' /\ SamplesFollowed'
    BY <1>2 DEF RoundMoves, RatesInv, DockerTypes, SamplesFollowed
  <2>2. \A c \in cs : previous'[c] # NONE => Earlier(previous'[c], exporterTotal'[c] - used'[c])
    BY <1>2 DEF RoundMoves, RatesInv, ReadingsFollowed, Earlier
  <2>3. ASSUME round' = NONE PROVE ReadingsFollowed(cs)'
    BY <2>2, <2>3 DEF ReadingsFollowed
  <2>4. ASSUME round' = [listed |-> running, got |-> NothingRead, began |-> uptime]
        PROVE  ReadingsFollowed(cs)'
    BY <1>2, <2>2, <2>4 DEF RoundMoves, RatesInv, DockerTypes, ReadingsFollowed, NothingRead
  <2>5. ASSUME round # NONE, NEW c \in round.listed \cap running,
               round' = [round EXCEPT !.got = With(@, c,
                            [at |-> now, up |-> uptime, total |-> exporterTotal[c],
                             used |-> used[c], boot |-> boot[c]])]
        PROVE  ReadingsFollowed(cs)'
    <3> DEFINE r == [at |-> now, up |-> uptime, total |-> exporterTotal[c],
                     used |-> used[c], boot |-> boot[c]]
               got == With(round.got, c, r)
    <3>1. c \in cs /\ uptime \in Int /\ exporterTotal[c] \in Nat /\ used[c] \in Nat /\ r \in Reading
      BY <2>5 DEF RatesInv, DockerTypes, Reading
    <3>2. Earlier(r, exporterTotal[c] - used[c]) /\ r.up = uptime /\ Ahead(r) = exporterTotal[c] - used[c]
      BY <3>1 DEF Earlier, Ahead
    <3> HIDE DEF r
    <3>3. /\ DOMAIN got = DOMAIN round.got \cup {c} /\ got[c] = r
          /\ \A d \in DOMAIN round.got : d # c => got[d] = round.got[d]
          /\ got = [d \in DOMAIN got |-> got[d]]
      BY DEF With
    <3>4. /\ round' = [listed |-> round'.listed, got |-> round'.got, began |-> round'.began]
          /\ round'.listed = round.listed /\ round'.got = got /\ round'.began = round.began
      BY <2>5 DEF RatesInv, ReadingsFollowed, r
    <3> HIDE DEF got
    <3>5. /\ round.listed \subseteq cs /\ DOMAIN round.got \subseteq cs
          /\ round.began \in Int /\ round.began <= uptime
          /\ \A d \in DOMAIN round.got :
               /\ Earlier(round.got[d], exporterTotal[d] - used[d]) /\ round.got[d].up \in round.began..uptime
               /\ previous[d] # NONE => Ahead(round.got[d]) <= Ahead(previous[d])
      BY <2>5 DEF RatesInv, ReadingsFollowed
    <3>6. previous[c] # NONE => Ahead(r) <= Ahead(previous[c])
      BY <3>1, <3>2 DEF RatesInv, ReadingsFollowed, Earlier
    <3>7. exporterTotal' = exporterTotal /\ used' = used
      BY <1>2 DEF RoundMoves
    <3>8. \A d \in DOMAIN got :
               /\ Earlier(got[d], exporterTotal[d] - used[d]) /\ got[d].up \in round.began..uptime
               /\ previous[d] # NONE => Ahead(got[d]) <= Ahead(previous[d])
      BY <3>1, <3>2, <3>3, <3>5, <3>6
    <3>9. DOMAIN got \subseteq cs
      BY <3>1, <3>3, <3>5
    <3> QED
      BY <1>2, <2>2, <3>3, <3>4, <3>5, <3>7, <3>8, <3>9 DEF RoundMoves, ReadingsFollowed
  <2>6. ASSUME round # NONE, NEW c \in round.listed, round' = [round EXCEPT !.listed = @ \ {c}]
        PROVE  ReadingsFollowed(cs)'
    <3>1. /\ round' = [listed |-> round'.listed, got |-> round'.got, began |-> round'.began]
          /\ round'.listed \subseteq round.listed /\ round'.got = round.got
          /\ round'.began = round.began
      BY <2>6 DEF RatesInv, ReadingsFollowed
    <3>2. exporterTotal' = exporterTotal /\ used' = used
      BY <1>2 DEF RoundMoves
    <3> QED
      BY <1>2, <2>2, <2>6, <3>1, <3>2 DEF RoundMoves, RatesInv, ReadingsFollowed
  <2> QED
    BY <1>2, <2>1, <2>3, <2>4, <2>5, <2>6 DEF RoundMoves, RatesInv
<1>3. CASE Commits(cs)
  <2>1. DockerTypes(cs)'
    BY <1>3 DEF Commits, RatesInv, DockerTypes
  <2>2. /\ round # NONE /\ DOMAIN round.got \subseteq cs /\ uptime \in Int
        /\ round.began \in Int
        /\ \A c \in DOMAIN round.got :
               /\ Earlier(round.got[c], exporterTotal[c] - used[c]) /\ round.got[c].up \in round.began..uptime
               /\ previous[c] # NONE => Ahead(round.got[c]) <= Ahead(previous[c])
        /\ \A c \in cs : previous[c] # NONE => Earlier(previous[c], exporterTotal[c] - used[c])
    BY <1>3 DEF Commits, RatesInv, ReadingsFollowed, DockerTypes
  <2>3. ReadingsFollowed(cs)'
    BY <1>3, <2>2 DEF Commits, ReadingsFollowed, Earlier
  <2>4. ASSUME NEW c \in DOMAIN round.got, Cores(previous[c], round.got[c]) # NONE
        PROVE  LET cpu == Cores(previous[c], round.got[c])
               IN /\ cpu.used <= round.got[c].used - previous[c].used
                  /\ cpu.seconds = round.got[c].at - previous[c].at /\ cpu.seconds > 0
    <3> DEFINE old == previous[c]
               new == round.got[c]
    <3>1. old # NONE /\ ~(new.at <= old.at) /\ ~(new.total < old.total)
      BY <2>4 DEF Cores
    <3>2. Cores(old, new) = [used |-> new.total - old.total, seconds |-> new.at - old.at]
      BY <3>1 DEF Cores
    <3>3. old \in Reading /\ new \in Reading /\ Ahead(new) <= Ahead(old)
      BY <2>2, <2>4, <3>1 DEF Earlier
    <3> HIDE DEF old, new
    <3>4. /\ new.at \in Int /\ old.at \in Int /\ new.total \in Nat /\ old.total \in Nat
          /\ new.used \in Nat /\ old.used \in Nat
          /\ new.total - new.used <= old.total - old.used
      BY <3>3 DEF Reading, Ahead
    <3>5. new.total - old.total <= new.used - old.used /\ new.at - old.at > 0
      BY <3>1, <3>4
    <3> QED
      BY <3>2, <3>5 DEF old, new
  <2>5. SamplesFollowed'
    <3>1. updated' = uptime /\ DOMAIN samples' = DOMAIN round.got
      BY <1>3 DEF Commits
    <3>2. ASSUME NEW c \in DOMAIN round.got
          PROVE  /\ samples'[c].cpu = Cores(previous[c], round.got[c])
                 /\ samples'[c].began = round.began
                 /\ samples'[c].old = previous[c] /\ samples'[c].new = round.got[c]
      BY <1>3, <3>2 DEF Commits
    <3> QED
      BY <2>2, <2>4, <3>1, <3>2 DEF SamplesFollowed
  <2> QED
    BY <2>1, <2>3, <2>5 DEF RatesInv
<1> QED
  BY <1>1, <1>2, <1>3

\* Exporter begins with nothing read.
LEMMA ExporterStarts == Exporter!Init => RatesInv({c1, c2})
<1> SUFFICES ASSUME Exporter!Init PROVE RatesInv({c1, c2})
  OBVIOUS
<1>1. DockerTypes({c1, c2}) /\ SamplesFollowed
  BY DEF Exporter!Init, Exporter!None, DockerTypes, SamplesFollowed
<1>2. ReadingsFollowed({c1, c2})
  BY DEF Exporter!Init, ReadingsFollowed
<1> QED
  BY <1>1, <1>2 DEF RatesInv

\* Its steps are steps of an exporter.
LEMMA ExporterMoves ==
    ASSUME RatesInv({c1, c2}), Exporter!Next
    PROVE  DockerMoves({c1, c2}) \/ RoundMoves({c1, c2}) \/ Commits({c1, c2})
<1> DEFINE cs == {c1, c2}
<1>0. /\ now \in Int /\ uptime \in Int /\ running \subseteq cs
      /\ exporterTotal \in [cs -> Nat] /\ used \in [cs -> Nat] /\ boot \in [cs -> Int]
      /\ \A c \in cs : exporterTotal[c] \in Nat /\ used[c] \in Nat /\ boot[c] \in Int
  BY DEF RatesInv, DockerTypes
<1>1. CASE Exporter!Second
  <2>1. PICK c \in running, n \in 0..1 :
            /\ exporterTotal' = [exporterTotal EXCEPT ![c] = @ + n]
            /\ used' = [used EXCEPT ![c] = @ + n]
    BY <1>1 DEF Exporter!Second
  <2>2. /\ now' \in Int /\ uptime' \in Int /\ uptime <= uptime'
        /\ UNCHANGED <<running, boot, previous, round, samples, updated>>
    BY <1>0, <1>1 DEF Exporter!Second
  <2> HIDE DEF cs
  <2>3. /\ exporterTotal' \in [cs -> Nat] /\ used' \in [cs -> Nat]
        /\ \A d \in cs : exporterTotal'[d] - used'[d] <= exporterTotal[d] - used[d]
    <3>1. c \in cs /\ exporterTotal[c] + n \in Nat /\ used[c] + n \in Nat
      BY <1>0, <2>1
    <3>2. exporterTotal' \in [cs -> Nat] /\ used' \in [cs -> Nat]
      BY <1>0, <2>1, <3>1
    <3>3. /\ \A d \in cs \ {c} : exporterTotal'[d] = exporterTotal[d] /\ used'[d] = used[d]
          /\ exporterTotal'[c] = exporterTotal[c] + n /\ used'[c] = used[c] + n
      BY <1>0, <2>1, <3>1
    <3> QED
      BY <1>0, <3>1, <3>2, <3>3
  <2>4. DockerMoves(cs)
    BY <1>0, <2>2, <2>3 DEF DockerMoves, DockerTypes
  <2> QED
    BY <2>4 DEF cs
<1>2. CASE Exporter!ClockSetBack
  <2>1. DockerMoves(cs)
    BY <1>0, <1>2 DEF Exporter!ClockSetBack, DockerMoves, DockerTypes
  <2> QED
    BY <2>1
<1>3. CASE Exporter!StopContainer
  <2>1. DockerMoves(cs)
    BY <1>0, <1>3 DEF Exporter!StopContainer, DockerMoves, DockerTypes
  <2> QED
    BY <2>1
<1>4. CASE Exporter!StartContainer
  <2>1. PICK c \in cs \ running :
          /\ running' = running \cup {c} /\ exporterTotal' = [exporterTotal EXCEPT ![c] = 0]
          /\ boot' = [boot EXCEPT ![c] = @ + 1]
          /\ UNCHANGED <<now, used, uptime, previous, round, samples, updated>>
    BY <1>4 DEF Exporter!StartContainer
  <2> HIDE DEF cs
  <2>2. /\ exporterTotal' \in [cs -> Nat] /\ boot' \in [cs -> Int]
        /\ \A d \in cs : exporterTotal'[d] <= exporterTotal[d]
    BY <1>0, <2>1
  <2>3. \A d \in cs : exporterTotal'[d] - used'[d] <= exporterTotal[d] - used[d]
    <3>1. \A d \in cs : exporterTotal'[d] \in Nat /\ used'[d] = used[d]
      BY <2>1, <2>2
    <3> QED
      BY <1>0, <2>2, <3>1
  <2>4. DockerMoves(cs)
    BY <1>0, <2>1, <2>2, <2>3 DEF DockerMoves, DockerTypes
  <2> QED
    BY <2>4 DEF cs
<1>5. CASE Exporter!List
  BY <1>5 DEF Exporter!List, Exporter!docker, Exporter!None, RoundMoves, NothingRead
<1>6. CASE Exporter!Read
  BY <1>6 DEF Exporter!Read, Exporter!Got, Exporter!docker, RoundMoves, With
<1>7. CASE Exporter!ReadFails
  BY <1>7 DEF Exporter!ReadFails, Exporter!Miss, Exporter!docker, RoundMoves
<1>8. CASE Exporter!Commit
  BY <1>8 DEF Exporter!Commit, Exporter!SampleOf, Exporter!cpuCores, Exporter!docker, Commits, Cores
<1>9. CASE Exporter!NoContainers
  BY <1>9 DEF Exporter!NoContainers, Exporter!docker, RoundMoves
<1> QED
  BY <1>1, <1>2, <1>3, <1>4, <1>5, <1>6, <1>7, <1>8, <1>9 DEF Exporter!Next

\* Long begins with nothing read.
LEMMA LongStarts == Long!Init => RatesInv({c1})
<1> SUFFICES ASSUME Long!Init PROVE RatesInv({c1})
  OBVIOUS
<1>1. DockerTypes({c1}) /\ SamplesFollowed
  BY DEF Long!Init, Long!None, DockerTypes, SamplesFollowed
<1>2. ReadingsFollowed({c1})
  BY DEF Long!Init, ReadingsFollowed
<1> QED
  BY <1>1, <1>2 DEF RatesInv

\* Its steps are steps of an exporter.
LEMMA LongMoves ==
    ASSUME RatesInv({c1}), Long!Next
    PROVE  DockerMoves({c1}) \/ RoundMoves({c1}) \/ Commits({c1})
<1> DEFINE cs == {c1}
<1>0. /\ now \in Int /\ uptime \in Int /\ running \subseteq cs
      /\ exporterTotal \in [cs -> Nat] /\ used \in [cs -> Nat] /\ boot \in [cs -> Int]
      /\ \A c \in cs : exporterTotal[c] \in Nat /\ used[c] \in Nat /\ boot[c] \in Int
  BY DEF RatesInv, DockerTypes
<1>1. CASE Long!Second
  <2>1. PICK c \in running, n \in 0..1 :
            /\ exporterTotal' = [exporterTotal EXCEPT ![c] = @ + n]
            /\ used' = [used EXCEPT ![c] = @ + n]
    BY <1>1 DEF Long!Second
  <2>2. /\ now' \in Int /\ uptime' \in Int /\ uptime <= uptime'
        /\ UNCHANGED <<running, boot, previous, round, samples, updated>>
    BY <1>0, <1>1 DEF Long!Second
  <2> HIDE DEF cs
  <2>3. /\ exporterTotal' \in [cs -> Nat] /\ used' \in [cs -> Nat]
        /\ \A d \in cs : exporterTotal'[d] - used'[d] <= exporterTotal[d] - used[d]
    <3>1. c \in cs /\ exporterTotal[c] + n \in Nat /\ used[c] + n \in Nat
      BY <1>0, <2>1
    <3>2. exporterTotal' \in [cs -> Nat] /\ used' \in [cs -> Nat]
      BY <1>0, <2>1, <3>1
    <3>3. /\ \A d \in cs \ {c} : exporterTotal'[d] = exporterTotal[d] /\ used'[d] = used[d]
          /\ exporterTotal'[c] = exporterTotal[c] + n /\ used'[c] = used[c] + n
      BY <1>0, <2>1, <3>1
    <3> QED
      BY <1>0, <3>1, <3>2, <3>3
  <2>4. DockerMoves(cs)
    BY <1>0, <2>2, <2>3 DEF DockerMoves, DockerTypes
  <2> QED
    BY <2>4 DEF cs
<1>2. CASE Long!ClockSetBack
  <2>1. DockerMoves(cs)
    BY <1>0, <1>2 DEF Long!ClockSetBack, DockerMoves, DockerTypes
  <2> QED
    BY <2>1
<1>3. CASE Long!StopContainer
  <2>1. DockerMoves(cs)
    BY <1>0, <1>3 DEF Long!StopContainer, DockerMoves, DockerTypes
  <2> QED
    BY <2>1
<1>4. CASE Long!StartContainer
  <2>1. PICK c \in cs \ running :
          /\ running' = running \cup {c} /\ exporterTotal' = [exporterTotal EXCEPT ![c] = 0]
          /\ boot' = [boot EXCEPT ![c] = @ + 1]
          /\ UNCHANGED <<now, used, uptime, previous, round, samples, updated>>
    BY <1>4 DEF Long!StartContainer
  <2> HIDE DEF cs
  <2>2. /\ exporterTotal' \in [cs -> Nat] /\ boot' \in [cs -> Int]
        /\ \A d \in cs : exporterTotal'[d] <= exporterTotal[d]
    BY <1>0, <2>1
  <2>3. \A d \in cs : exporterTotal'[d] - used'[d] <= exporterTotal[d] - used[d]
    <3>1. \A d \in cs : exporterTotal'[d] \in Nat /\ used'[d] = used[d]
      BY <2>1, <2>2
    <3> QED
      BY <1>0, <2>2, <3>1
  <2>4. DockerMoves(cs)
    BY <1>0, <2>1, <2>2, <2>3 DEF DockerMoves, DockerTypes
  <2> QED
    BY <2>4 DEF cs
<1>5. CASE Long!List
  BY <1>5 DEF Long!List, Long!docker, Long!None, RoundMoves, NothingRead
<1>6. CASE Long!Read
  BY <1>6 DEF Long!Read, Long!Got, Long!docker, RoundMoves, With
<1>7. CASE Long!ReadFails
  BY <1>7 DEF Long!ReadFails, Long!Miss, Long!docker, RoundMoves
<1>8. CASE Long!Commit
  BY <1>8 DEF Long!Commit, Long!SampleOf, Long!cpuCores, Long!docker, Commits, Cores
<1>9. CASE Long!NoContainers
  BY <1>9 DEF Long!NoContainers, Long!docker, RoundMoves
<1> QED
  BY <1>1, <1>2, <1>3, <1>4, <1>5, <1>6, <1>7, <1>8, <1>9 DEF Long!Next

\* Tolerant begins with nothing read.
LEMMA TolerantStarts == Tolerant!Init => RatesInv({c1})
<1> SUFFICES ASSUME Tolerant!Init PROVE RatesInv({c1})
  OBVIOUS
<1>1. DockerTypes({c1}) /\ SamplesFollowed
  BY DEF Tolerant!Init, Tolerant!None, DockerTypes, SamplesFollowed
<1>2. ReadingsFollowed({c1})
  BY DEF Tolerant!Init, ReadingsFollowed
<1> QED
  BY <1>1, <1>2 DEF RatesInv

\* Its steps are steps of an exporter.
LEMMA TolerantMoves ==
    ASSUME RatesInv({c1}), Tolerant!Next
    PROVE  DockerMoves({c1}) \/ RoundMoves({c1}) \/ Commits({c1})
<1> DEFINE cs == {c1}
<1>0. /\ now \in Int /\ uptime \in Int /\ running \subseteq cs
      /\ exporterTotal \in [cs -> Nat] /\ used \in [cs -> Nat] /\ boot \in [cs -> Int]
      /\ \A c \in cs : exporterTotal[c] \in Nat /\ used[c] \in Nat /\ boot[c] \in Int
  BY DEF RatesInv, DockerTypes
<1>1. CASE Tolerant!Second
  <2>1. PICK c \in running, n \in 0..1 :
            /\ exporterTotal' = [exporterTotal EXCEPT ![c] = @ + n]
            /\ used' = [used EXCEPT ![c] = @ + n]
    BY <1>1 DEF Tolerant!Second
  <2>2. /\ now' \in Int /\ uptime' \in Int /\ uptime <= uptime'
        /\ UNCHANGED <<running, boot, previous, round, samples, updated>>
    BY <1>0, <1>1 DEF Tolerant!Second
  <2> HIDE DEF cs
  <2>3. /\ exporterTotal' \in [cs -> Nat] /\ used' \in [cs -> Nat]
        /\ \A d \in cs : exporterTotal'[d] - used'[d] <= exporterTotal[d] - used[d]
    <3>1. c \in cs /\ exporterTotal[c] + n \in Nat /\ used[c] + n \in Nat
      BY <1>0, <2>1
    <3>2. exporterTotal' \in [cs -> Nat] /\ used' \in [cs -> Nat]
      BY <1>0, <2>1, <3>1
    <3>3. /\ \A d \in cs \ {c} : exporterTotal'[d] = exporterTotal[d] /\ used'[d] = used[d]
          /\ exporterTotal'[c] = exporterTotal[c] + n /\ used'[c] = used[c] + n
      BY <1>0, <2>1, <3>1
    <3> QED
      BY <1>0, <3>1, <3>2, <3>3
  <2>4. DockerMoves(cs)
    BY <1>0, <2>2, <2>3 DEF DockerMoves, DockerTypes
  <2> QED
    BY <2>4 DEF cs
<1>2. CASE Tolerant!ClockSetBack
  <2>1. DockerMoves(cs)
    BY <1>0, <1>2 DEF Tolerant!ClockSetBack, DockerMoves, DockerTypes
  <2> QED
    BY <2>1
<1>3. CASE Tolerant!StopContainer
  <2>1. DockerMoves(cs)
    BY <1>0, <1>3 DEF Tolerant!StopContainer, DockerMoves, DockerTypes
  <2> QED
    BY <2>1
<1>4. CASE Tolerant!StartContainer
  <2>1. PICK c \in cs \ running :
          /\ running' = running \cup {c} /\ exporterTotal' = [exporterTotal EXCEPT ![c] = 0]
          /\ boot' = [boot EXCEPT ![c] = @ + 1]
          /\ UNCHANGED <<now, used, uptime, previous, round, samples, updated>>
    BY <1>4 DEF Tolerant!StartContainer
  <2> HIDE DEF cs
  <2>2. /\ exporterTotal' \in [cs -> Nat] /\ boot' \in [cs -> Int]
        /\ \A d \in cs : exporterTotal'[d] <= exporterTotal[d]
    BY <1>0, <2>1
  <2>3. \A d \in cs : exporterTotal'[d] - used'[d] <= exporterTotal[d] - used[d]
    <3>1. \A d \in cs : exporterTotal'[d] \in Nat /\ used'[d] = used[d]
      BY <2>1, <2>2
    <3> QED
      BY <1>0, <2>2, <3>1
  <2>4. DockerMoves(cs)
    BY <1>0, <2>1, <2>2, <2>3 DEF DockerMoves, DockerTypes
  <2> QED
    BY <2>4 DEF cs
<1>5. CASE Tolerant!List
  BY <1>5 DEF Tolerant!List, Tolerant!docker, Tolerant!None, RoundMoves, NothingRead
<1>6. CASE Tolerant!Read
  BY <1>6 DEF Tolerant!Read, Tolerant!Got, Tolerant!docker, RoundMoves, With
<1>7. CASE Tolerant!ReadFails
  BY <1>7 DEF Tolerant!ReadFails, Tolerant!Miss, Tolerant!docker, RoundMoves
<1>8. CASE Tolerant!Commit
  BY <1>8 DEF Tolerant!Commit, Tolerant!SampleOf, Tolerant!cpuCores, Tolerant!docker, Commits, Cores
<1>9. CASE Tolerant!NoContainers
  BY <1>9 DEF Tolerant!NoContainers, Tolerant!docker, RoundMoves
<1> QED
  BY <1>1, <1>2, <1>3, <1>4, <1>5, <1>6, <1>7, <1>8, <1>9 DEF Tolerant!Next

RatesParts ==
    /\ part = "exporter" => RatesInv({c1, c2})
    /\ part \in {"long", "lenient"} => RatesInv({c1})

\* The rate served never exceeds what was used, and no reading is served twice.
THEOREM RatesHonestHolds == SuiteSpec => []RatesHonest
<1>1. SuiteInit => RatesParts
  BY ExporterStarts, LongStarts, TolerantStarts DEF SuiteInit, RatesParts
<1>2. RatesParts /\ [SuiteNext]_suiteVars => RatesParts'
  <2> SUFFICES ASSUME RatesParts, [SuiteNext]_suiteVars PROVE RatesParts'
    OBVIOUS
  <2>1. part' = part
    BY DEF SuiteNext, suiteVars
  <2>2. ASSUME NEW cs, RatesInv(cs), UNCHANGED exporterVars PROVE RatesInv(cs)'
    BY <2>2 DEF exporterVars, RatesInv, DockerTypes, ReadingsFollowed, SamplesFollowed, Earlier
  <2>3. CASE part = "exporter"
    <3>1. Exporter!Next \/ UNCHANGED exporterVars
      BY <2>3 DEF SuiteNext, suiteVars
    <3>2. RatesInv({c1, c2})'
      BY <2>2, <2>3, <3>1, ExporterMoves, RatesMove DEF RatesParts
    <3> QED
      BY <2>1, <2>3, <3>2 DEF RatesParts
  <2>4. CASE part = "long"
    <3>1. Long!Next \/ UNCHANGED exporterVars
      BY <2>4 DEF SuiteNext, suiteVars
    <3>2. RatesInv({c1})'
      BY <2>2, <2>4, <3>1, LongMoves, RatesMove DEF RatesParts
    <3> QED
      BY <2>1, <2>4, <3>2 DEF RatesParts
  <2>5. CASE part = "lenient"
    <3>1. Tolerant!Next \/ UNCHANGED exporterVars
      BY <2>5 DEF SuiteNext, suiteVars
    <3>2. RatesInv({c1})'
      BY <2>2, <2>5, <3>1, TolerantMoves, RatesMove DEF RatesParts
    <3> QED
      BY <2>1, <2>5, <3>2 DEF RatesParts
  <2> QED
    BY <2>1, <2>3, <2>4, <2>5 DEF RatesParts
<1>3. RatesParts => RatesHonest
  <2> SUFFICES ASSUME NEW cs, RatesInv(cs)
               PROVE  /\ Exporter!CpuNotOverstated /\ Exporter!NothingReplayed
                      /\ Long!CpuNotOverstated /\ Long!NothingReplayed
                      /\ Tolerant!CpuNotOverstated /\ Tolerant!NothingReplayed
    BY DEF RatesParts, RatesHonest
  <2>1. uptime \in Int /\ updated \in Int /\ SamplesFollowed
    BY DEF RatesInv, DockerTypes, SamplesFollowed
  <2>2. Exporter!CpuNotOverstated /\ Exporter!NothingReplayed
    BY <2>1 DEF SamplesFollowed, Exporter!CpuNotOverstated, Exporter!NothingReplayed,
                Exporter!Metrics, Exporter!None
  <2>3. Long!CpuNotOverstated /\ Long!NothingReplayed
    BY <2>1 DEF SamplesFollowed, Long!CpuNotOverstated, Long!NothingReplayed,
                Long!Metrics, Long!None
  <2>4. Tolerant!CpuNotOverstated /\ Tolerant!NothingReplayed
    BY <2>1 DEF SamplesFollowed, Tolerant!CpuNotOverstated, Tolerant!NothingReplayed,
                Tolerant!Metrics, Tolerant!None
  <2> QED
    BY <2>2, <2>3, <2>4
<1> QED
  BY <1>1, <1>2, <1>3, PTL DEF SuiteSpec
==============================================================================
