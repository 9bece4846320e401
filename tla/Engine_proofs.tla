--------------------------- MODULE Engine_proofs ---------------------------
(***************************************************************************)
(* The engine and the services it watches, for any traces, spans, batches, *)
(* exports, requests, trees of calls and bounds their modules admit: the   *)
(* trace graph, alone and in the receiver between its exporters, its       *)
(* detector and its diagnoses; the intake of spans; the shutdown of the    *)
(* engine; the telemetry of a service; and the calls between services.     *)
(***************************************************************************)
EXTENDS MCEngine, SequenceTheorems, FunctionTheorems, FiniteSetTheorems,
        WellFoundedInduction, TLAPS


-----------------------------------------------------------------------------
(* Sets and lists *)

\* Induction: a set with 0 and every successor has all natural numbers.
LEMMA NatSetInduction ==
  ASSUME NEW T, 0 \in T, \A n \in Nat : n \in T => n + 1 \in T
  PROVE  Nat \subseteq T
  <1> DEFINE R == OpToRel(<, Nat)
             Rest == Nat \ T
  <1>1. ASSUME Rest # {} PROVE FALSE
    <2>1. IsWellFoundedOn(R, Nat)
      BY NatLessThanWellFounded DEF R
    <2> HIDE DEF R
    <2>2. PICK x \in Rest : \A y \in Rest : <<y, x>> \notin R
      <3>1. Rest \subseteq Nat
        OBVIOUS
      <3> HIDE DEF Rest
      <3>2. QED BY <1>1, <2>1, <3>1, WFMin
    <2>3. x \in Nat /\ x # 0
      OBVIOUS
    <2>4. x - 1 \in Nat /\ x - 1 < x
      BY <2>3
    <2>5. <<x - 1, x>> \in R
      BY <2>3, <2>4 DEF R, OpToRel
    <2>6. x - 1 \in T
      BY <2>2, <2>4, <2>5
    <2>7. (x - 1) + 1 \in T
      BY <2>4, <2>6
    <2>8. QED BY <2>3, <2>7
  <1>2. QED BY <1>1


\* Finite sets and their cardinality are those of the library in every part.
LEMMA SameFinite ==
    \A S : /\ (Telemetry!IsFiniteSet(S) <=> IsFiniteSet(S))
           /\ Telemetry!Cardinality(S) = Cardinality(S)
           /\ (Intake!IsFiniteSet(S) <=> IsFiniteSet(S))
           /\ Intake!Cardinality(S) = Cardinality(S)
<1>1. \A S : Telemetry!IsFiniteSet(S) <=> IsFiniteSet(S)
  BY DEF Telemetry!IsFiniteSet, IsFiniteSet
<1>2. \A S : Telemetry!Cardinality(S) = Cardinality(S)
  BY DEF Telemetry!Cardinality, Cardinality
<1>3. \A S : Intake!IsFiniteSet(S) <=> IsFiniteSet(S)
  BY DEF Intake!IsFiniteSet, IsFiniteSet
<1>4. \A S : Intake!Cardinality(S) = Cardinality(S)
  BY DEF Intake!Cardinality, Cardinality
<1> QED
  BY <1>1, <1>2, <1>3, <1>4

-----------------------------------------------------------------------------
(* The intake of spans *)

\* A list of lists, joined one after the other.
Grown(f, lists, i) == IF i = 1 THEN lists[i] ELSE f[i - 1] \o lists[i]

\* A list of lists of elements of a set flattens to a list of them.
LEMMA FlattenElements ==
    ASSUME NEW S, NEW lists \in Seq(Seq(S))
    PROVE  Intake!FlattenSeq(lists) \in Seq(S)
<1> DEFINE N == {k \in Nat : \E f : f = [i \in 1..k |-> Grown(f, lists, i)]}
<1>1. Len(lists) \in Nat /\ \A i \in 1..Len(lists) : lists[i] \in Seq(S)
  OBVIOUS
<1>2. 0 \in N
  <2> DEFINE f == [i \in 1..0 |-> <<>>]
  <2>1. f = [i \in 1..0 |-> Grown(f, lists, i)]
    OBVIOUS
  <2> HIDE DEF f
  <2> QED
    BY <2>1
<1>3. ASSUME NEW k \in Nat, k \in N PROVE k + 1 \in N
  <2>1. PICK f : f = [i \in 1..k |-> Grown(f, lists, i)]
    BY <1>3
  <2> DEFINE h == [i \in 1..(k + 1) |-> Grown(f, lists, i)]
  <2>2. \A i \in 1..k : h[i] = f[i]
    <3>1. \A i \in 1..k : i \in 1..(k + 1)
      OBVIOUS
    <3>2. \A i \in 1..k : f[i] = Grown(f, lists, i)
      BY <2>1
    <3> QED
      BY <3>1, <3>2
  <2>3. \A i \in 1..(k + 1) : Grown(f, lists, i) = Grown(h, lists, i)
    <3>1. \A i \in 1..(k + 1) : i = 1 \/ i - 1 \in 1..k
      OBVIOUS
    <3> HIDE DEF h
    <3> QED
      BY <2>2, <3>1 DEF Grown
  <2>4. h = [i \in 1..(k + 1) |-> Grown(h, lists, i)]
    <3> DEFINE g == [i \in 1..(k + 1) |-> Grown(h, lists, i)]
    <3>1. \A i \in 1..(k + 1) : h[i] = g[i]
      BY <2>3
    <3> QED
      BY <3>1
  <2> HIDE DEF h
  <2> QED
    BY <2>4
<1>4. Len(lists) \in N
  <2> HIDE DEF N
  <2> QED
    BY <1>1, <1>2, <1>3, NatSetInduction
<1>5. \E f : f = [i \in 1..Len(lists) |-> Grown(f, lists, i)]
  BY <1>1, <1>4
<1> DEFINE flat == CHOOSE f : f = [i \in 1..Len(lists) |->
                     IF i = 1 THEN lists[i] ELSE f[i - 1] \o lists[i]]
<1>6. flat = [i \in 1..Len(lists) |-> Grown(flat, lists, i)]
  <2> QED
    BY <1>5 DEF Grown
<1>7. Intake!FlattenSeq(lists) = IF Len(lists) = 0 THEN lists ELSE flat[Len(lists)]
  BY DEF Intake!FlattenSeq
<1> HIDE DEF flat, N
<1>8. \A i \in 1..Len(lists) : flat[i] = Grown(flat, lists, i)
  BY <1>6
<1> DEFINE M == {k \in Nat : k \in 1..Len(lists) => flat[k] \in Seq(S)}
<1>9. 0 \in M
  OBVIOUS
<1>10. ASSUME NEW k \in Nat, k \in M PROVE k + 1 \in M
  <2> SUFFICES ASSUME k + 1 \in 1..Len(lists) PROVE flat[k + 1] \in Seq(S)
    OBVIOUS
  <2>1. lists[k + 1] \in Seq(S)
        /\ flat[k + 1] = IF k + 1 = 1 THEN lists[k + 1] ELSE flat[(k + 1) - 1] \o lists[k + 1]
    BY <1>1, <1>8 DEF Grown
  <2>2. CASE k = 0
    BY <2>1, <2>2
  <2>3. CASE k # 0
    <3>1. k \in 1..Len(lists) /\ (k + 1) - 1 = k /\ k + 1 # 1
      BY <1>1, <2>3
    <3>2. flat[k] \in Seq(S)
      BY <1>10, <3>1
    <3>3. flat[k + 1] = flat[k] \o lists[k + 1]
      BY <2>1, <3>1
    <3>4. flat[k] \o lists[k + 1] \in Seq(S)
      BY <2>1, <3>2
    <3> QED
      BY <3>3, <3>4
  <2> QED
    BY <2>2, <2>3
<1>11. Len(lists) \in M
  <2> HIDE DEF M
  <2> QED
    BY <1>1, <1>9, <1>10, NatSetInduction
<1>12. CASE Len(lists) = 0
  <2>1. lists = <<>>
    BY <1>12
  <2> QED
    BY <1>7, <1>12, <2>1
<1>13. CASE Len(lists) # 0
  <2>1. Len(lists) \in 1..Len(lists)
    BY <1>1, <1>13
  <2> QED
    BY <1>7, <1>11, <1>13, <2>1
<1> QED
  BY <1>12, <1>13

\* What one span may become, and an export: spans refused or with a duration.
Refined == {Intake!normalizeSpan(name, span) : name \in STRING, span \in Intake!SentSpans}

\* A span that is not refused has no negative duration.
LEMMA RefinedTimes == \A s \in Refined : s # NONE => s.duration >= 0
<1> SUFFICES ASSUME NEW name \in STRING, NEW span \in Intake!SentSpans,
                    Intake!normalizeSpan(name, span) # NONE
             PROVE  Intake!normalizeSpan(name, span).duration >= 0
  BY DEF Refined
<1>1. Half \in Nat /\ span.start \in Nat /\ span.end \in Nat
  BY InstancesAssumption
     DEF InstancesAssumption, Intake!IntakeAssumption, Intake!SentSpans
<1>2. Intake!Duration(span) >= 0
  BY <1>1 DEF Intake!Duration, Intake!unixNano, Intake!Zero
<1>3. Intake!normalizeSpan(name, span).duration = Intake!Duration(span)
  BY DEF Intake!normalizeSpan
<1> QED
  BY <1>2, <1>3

\* An export becomes a list of such spans.
LEMMA RefinedExports ==
    ASSUME NEW request \in IntakeRequests
    PROVE  Intake!Normalized(request) \in Seq(Refined)
<1>1. request \in Seq([service : STRING, spans : Seq(Intake!SentSpans)])
  BY InstancesAssumption DEF InstancesAssumption, Intake!IntakeAssumption
<1> DEFINE lists == [n \in DOMAIN request |->
        [m \in DOMAIN request[n].spans |->
            Intake!normalizeSpan(request[n].service, request[n].spans[m])]]
<1>2. ASSUME NEW n \in DOMAIN request PROVE lists[n] \in Seq(Refined)
  <2>1. request[n].service \in STRING /\ request[n].spans \in Seq(Intake!SentSpans)
    <3>1. \A S : request \in Seq(S) => request[n] \in S
      OBVIOUS
    <3>2. request[n] \in [service : STRING, spans : Seq(Intake!SentSpans)]
      BY <1>1, <3>1
    <3> QED
      BY <3>2
  <2> DEFINE given == request[n].spans
  <2>2. \A m \in DOMAIN given :
          Intake!normalizeSpan(request[n].service, given[m]) \in Refined
    <3>1. \A m \in DOMAIN given : given[m] \in Intake!SentSpans
      <4>1. given \in Seq(Intake!SentSpans)
        BY <2>1
      <4> HIDE DEF given
      <4> QED
        BY <4>1
    <3>2. \A name \in STRING, span \in Intake!SentSpans :
            Intake!normalizeSpan(name, span) \in Refined
      BY DEF Refined
    <3> HIDE DEF given
    <3> QED
      BY <2>1, <3>1, <3>2
  <2>3. DOMAIN given = 1..Len(given) /\ Len(given) \in Nat
    BY <2>1
  <2>4. [m \in DOMAIN given |-> Intake!normalizeSpan(request[n].service, given[m])]
          \in [1..Len(given) -> Refined]
    BY <2>2, <2>3
  <2>5. \A f : f \in [1..Len(given) -> Refined] => f \in Seq(Refined)
    BY <2>3
  <2> QED
    BY <2>4, <2>5
<1>3. DOMAIN request = 1..Len(request) /\ Len(request) \in Nat
  BY <1>1
<1>4. lists \in [1..Len(request) -> Seq(Refined)]
  BY <1>2, <1>3
<1>5. lists \in Seq(Seq(Refined))
  <2> HIDE DEF lists
  <2> QED
    BY <1>3, <1>4
<1>6. Intake!Normalized(request) = Intake!FlattenSeq(lists)
  BY DEF Intake!Normalized
<1> HIDE DEF lists
<1> QED
  BY <1>5, <1>6, FlattenElements

\* A function that maps no two elements of a finite set to the same has as many
\* images as the set has elements, also when the set is known by its images.
LEMMA SameNumber ==
    ASSUME NEW S, NEW T, NEW f, f \in [S -> T], IsFiniteSet(S) \/ IsFiniteSet(T),
           \A x, y \in S : f[x] = f[y] => x = y,
           \A z \in T : \E x \in S : f[x] = z
    PROVE  IsFiniteSet(S) /\ IsFiniteSet(T) /\ Cardinality(S) = Cardinality(T)
<1>1. f \in Bijection(S, T)
  BY DEF Bijection, Injection, Surjection, IsInjective
<1>2. ExistsBijection(S, T) /\ ExistsBijection(T, S)
  BY <1>1, Fun_ExistsBijSymmetric DEF ExistsBijection
<1> QED
  BY <1>2, FS_Bijection

\* Every export keeps the invariant.
LEMMA IntakeStep ==
    ASSUME Intake!IntakeInv, Intake!Next
    PROVE  Intake!IntakeInv'
<1>t. /\ intakeStats \in [received : Nat, duplicates : Nat, ignored : Nat]
      /\ sent.spans \in Nat /\ IsFiniteSet(stored) /\ IsFiniteSet(sent.business)
      /\ intakeStats.received + intakeStats.duplicates + intakeStats.ignored = sent.spans
      /\ intakeStats.received = Cardinality(stored)
      /\ {o.span : o \in observations} = sent.business
      /\ sent.business \subseteq stored
      /\ \A o, p \in observations : o.span = p.span => o = p
  BY SameFinite DEF Intake!IntakeInv, Intake!IntakeTypes, Intake!EverySpanCounted,
                    Intake!RequestsReachDetector, Intake!ObservationsFollowed
<1>0. PICK request \in IntakeRequests : Intake!Export(request)
  BY DEF Intake!Next
<1> DEFINE list == Intake!Normalized(request)
           places == DOMAIN list
           accept == {n \in places : list[n] # NONE}
           refused == {n \in places : list[n] = NONE}
           fresh == {n \in places : Intake!Fresh(list, n)}
           asked == {n \in fresh : Intake!Business(list[n])}
           Id(n) == Intake!Identity(list[n])
           new == {Id(n) : n \in fresh}
<1>1. /\ list \in Seq(Refined) /\ places = 1..Len(list) /\ Len(list) \in Nat
      /\ \A n \in places : list[n] \in Refined
  <2>1. list \in Seq(Refined)
    BY RefinedExports
  <2> HIDE DEF list
  <2> QED
    BY <2>1
<1>2. /\ stored' = stored \cup new
      /\ observations' = observations \cup {Intake!Observation(list[n]) : n \in asked}
      /\ intakeStats' = [received |-> intakeStats.received + Cardinality(fresh),
                         duplicates |-> intakeStats.duplicates + Cardinality(accept)
                                        - Cardinality(fresh),
                         ignored |-> intakeStats.ignored + Cardinality(refused)]
      /\ response' = Cardinality(refused)
      /\ sent'.spans = sent.spans + Len(list)
      /\ sent'.refused = Len(list) - Cardinality(fresh)
      /\ sent'.business = sent.business \cup {Id(n) : n \in asked}
  <2>1. Intake!Ignored(list) = Cardinality(refused)
    BY SameFinite DEF Intake!Ignored, Intake!Quantify
  <2>2. Intake!Quantify(places, LAMBDA n : list[n] # NONE) = Cardinality(accept)
    BY SameFinite DEF Intake!Quantify
  <2>3. Intake!Observed(list) = {Intake!Observation(list[n]) : n \in asked}
    <3>1. \A n \in fresh : list[n].duration >= 0
      BY <1>1, RefinedTimes DEF Intake!Fresh
    <3>2. {n \in places : Intake!Fresh(list, n) /\ Intake!Business(list[n])
                     /\ list[n].duration >= 0} = asked
      BY <3>1
    <3> QED
      BY <3>2 DEF Intake!Observed
  <2>4. {n \in fresh : list[n].kind = "server" /\ list[n].path = "business"} = asked
    BY DEF Intake!Business
  <2>5. sent' = [spans |-> sent.spans + Len(list),
                 refused |-> Len(list) - Cardinality(fresh),
                 business |-> sent.business \cup {Id(n) : n \in asked}]
    BY <1>0, <2>4, SameFinite DEF Intake!Export
  <2>6. sent'.spans = sent.spans + Len(list)
    BY <2>5
  <2>7. sent'.refused = Len(list) - Cardinality(fresh)
    BY <2>5
  <2>8. sent'.business = sent.business \cup {Id(n) : n \in asked}
    BY <2>5
  <2> QED
    BY <1>0, <2>1, <2>2, <2>3, <2>6, <2>7, <2>8, SameFinite DEF Intake!Export
<1>3. /\ \A n \in fresh : n \in places /\ list[n] # NONE /\ Id(n) \notin stored
      /\ \A m, n \in fresh : Id(m) = Id(n) => m = n
  <2>1. \A n \in fresh : n \in places /\ list[n] # NONE /\ Id(n) \notin stored
    BY DEF Intake!Fresh
  <2>2. ASSUME NEW m \in fresh, NEW n \in fresh, m < n PROVE Id(m) # Id(n)
    <3>1. m \in 1..(n - 1)
      BY <1>1, <2>1, <2>2
    <3>2. list[m] # NONE
      BY <2>1
    <3> QED
      BY <3>1, <3>2 DEF Intake!Fresh
  <2>3. \A m, n \in fresh : m \in Int /\ n \in Int
    BY <1>1, <2>1
  <2>4. \A m, n \in fresh : m = n \/ m < n \/ n < m
    BY <2>3
  <2> QED
    BY <2>1, <2>2, <2>4
<1>4. /\ IsFiniteSet(accept) /\ IsFiniteSet(refused) /\ IsFiniteSet(fresh) /\ IsFiniteSet(asked)
      /\ Cardinality(accept) \in Nat /\ Cardinality(refused) \in Nat /\ Cardinality(fresh) \in Nat
      /\ Cardinality(fresh) <= Cardinality(accept)
      /\ Cardinality(accept) + Cardinality(refused) = Len(list)
  <2> HIDE DEF list
  <2>1. IsFiniteSet(places) /\ Cardinality(places) = Len(list)
    <3>1. IsFiniteSet(1..Len(list)) /\ Cardinality(1..Len(list)) = Len(list)
      <4>1. 1 \in Int /\ Len(list) \in Int
        BY <1>1
      <4>2. /\ IsFiniteSet(1..Len(list))
            /\ Cardinality(1..Len(list))
                 = IF 1 > Len(list) THEN 0 ELSE Len(list) - 1 + 1
        BY <4>1, FS_Interval
      <4> QED
        BY <1>1, <4>2
    <3> QED
      BY <1>1, <3>1
  <2>2. accept \subseteq places /\ refused \subseteq places /\ fresh \subseteq accept /\ asked \subseteq fresh
    BY <1>3
  <2>3. accept \cup refused = places /\ accept \cap refused = {}
    OBVIOUS
  <2> HIDE DEF accept, refused, fresh, asked, places
  <2>4. /\ IsFiniteSet(accept) /\ IsFiniteSet(refused) /\ IsFiniteSet(fresh)
        /\ IsFiniteSet(asked) /\ Cardinality(fresh) <= Cardinality(accept)
    BY <2>1, <2>2, FS_Subset
  <2>5. Cardinality(places) = Cardinality(accept) + Cardinality(refused) - Cardinality({})
    BY <2>3, <2>4, FS_Union
  <2>6. Cardinality(accept) \in Nat /\ Cardinality(refused) \in Nat /\ Cardinality(fresh) \in Nat
    BY <2>4, FS_CardinalityType
  <2>7. Cardinality({}) = 0
    BY FS_EmptySet
  <2> QED
    BY <2>1, <2>4, <2>5, <2>6, <2>7
<1> HIDE DEF list
<1>5. /\ IsFiniteSet(new) /\ Cardinality(new) = Cardinality(fresh) /\ new \cap stored = {}
      /\ IsFiniteSet({Id(n) : n \in asked}) /\ {Id(n) : n \in asked} \subseteq new
  <2> DEFINE f == [n \in fresh |-> Id(n)]
  <2>1. f \in [fresh -> new] /\ \A n \in fresh : f[n] = Id(n)
    OBVIOUS
  <2>2. \A z \in new : \E n \in fresh : f[n] = z
    OBVIOUS
  <2>3. \A m, n \in fresh : f[m] = f[n] => m = n
    BY <1>3, <2>1
  <2>4. {Id(n) : n \in asked} \subseteq new /\ new \cap stored = {}
    BY <1>3
  <2> HIDE DEF f, new, fresh, asked
  <2>5. IsFiniteSet(new) /\ Cardinality(new) = Cardinality(fresh)
    BY <1>4, <2>1, <2>2, <2>3, SameNumber
  <2> QED
    BY <2>4, <2>5, FS_Subset
<1>6. /\ IsFiniteSet(stored') /\ Cardinality(stored') = Cardinality(stored) + Cardinality(fresh)
      /\ Cardinality(stored) \in Nat /\ IsFiniteSet(sent'.business)
  <2> HIDE DEF new, fresh, asked, Id
  <2>1. Cardinality(stored \cup new) = Cardinality(stored) + Cardinality(new) - Cardinality({})
    BY <1>t, <1>5, FS_Union
  <2>2. Cardinality({}) = 0 /\ Cardinality(stored) \in Nat
    BY <1>t, FS_EmptySet, FS_CardinalityType
  <2> DEFINE more == {Id(n) : n \in asked}
  <2>3. IsFiniteSet(more) /\ sent'.business = sent.business \cup more
    BY <1>2, <1>5
  <2> HIDE DEF more
  <2>4. IsFiniteSet(stored \cup new) /\ IsFiniteSet(sent.business \cup more)
    BY <1>t, <1>5, <2>3, FS_Union
  <2>5. stored' = stored \cup new
    BY <1>2
  <2>6. IsFiniteSet(stored') /\ IsFiniteSet(sent'.business)
    BY <2>3, <2>4, <2>5
  <2>7. Cardinality(stored') = Cardinality(stored) + Cardinality(fresh)
    BY <1>4, <1>5, <2>1, <2>2, <2>5
  <2> QED
    BY <2>2, <2>6, <2>7
<1>7. /\ intakeStats'.received = intakeStats.received + Cardinality(fresh)
      /\ intakeStats'.duplicates = intakeStats.duplicates + Cardinality(accept) - Cardinality(fresh)
      /\ intakeStats'.ignored = intakeStats.ignored + Cardinality(refused)
      /\ intakeStats' \in [received : Nat, duplicates : Nat, ignored : Nat]
  <2> DEFINE a == intakeStats.received + Cardinality(fresh)
             b == intakeStats.duplicates + Cardinality(accept) - Cardinality(fresh)
             c == intakeStats.ignored + Cardinality(refused)
  <2>1. a \in Nat /\ b \in Nat /\ c \in Nat
    <3> HIDE DEF fresh, accept, refused
    <3> QED
      BY <1>t, <1>4
  <2>2. intakeStats' = [received |-> a, duplicates |-> b, ignored |-> c]
    BY <1>2
  <2>3. intakeStats'.received = a /\ intakeStats'.duplicates = b /\ intakeStats'.ignored = c
    <3> HIDE DEF a, b, c
    <3> QED
      BY <2>2
  <2>4. intakeStats' \in [received : Nat, duplicates : Nat, ignored : Nat]
    <3> HIDE DEF a, b, c
    <3> QED
      BY <2>1, <2>2
  <2> QED
    BY <2>3, <2>4
<1>8. /\ sent'.spans \in Nat /\ sent'.refused \in Nat /\ response' \in Nat
      /\ response' <= sent'.refused
      /\ intakeStats'.received + intakeStats'.duplicates + intakeStats'.ignored = sent'.spans
      /\ intakeStats'.received = Cardinality(stored')
  <2> HIDE DEF fresh, accept, refused
  <2>1. /\ intakeStats.received \in Nat /\ intakeStats.duplicates \in Nat
        /\ intakeStats.ignored \in Nat
    BY <1>t
  <2>5. /\ sent'.spans = sent.spans + Len(list) /\ response' = Cardinality(refused)
        /\ sent'.refused = Len(list) - Cardinality(fresh)
    BY <1>2
  <2>6. sent.spans \in Nat
        /\ intakeStats.received + intakeStats.duplicates + intakeStats.ignored = sent.spans
    BY <1>t
  <2>7. Len(list) \in Nat
    BY <1>1
  <2>2. sent'.spans \in Nat /\ sent'.refused \in Nat /\ response' \in Nat
        /\ response' <= sent'.refused
    BY <1>4, <2>5, <2>6, <2>7
  <2>3. intakeStats'.received + intakeStats'.duplicates + intakeStats'.ignored = sent'.spans
    <3>2. (intakeStats.received + Cardinality(fresh))
             + (intakeStats.duplicates + Cardinality(accept) - Cardinality(fresh))
             + (intakeStats.ignored + Cardinality(refused)) = sent.spans + Len(list)
      <4>1. /\ Cardinality(fresh) \in Nat /\ Cardinality(accept) \in Nat
            /\ Cardinality(refused) \in Nat
            /\ Cardinality(accept) + Cardinality(refused) = Len(list)
        BY <1>4
      <4>2. intakeStats.received + intakeStats.duplicates + intakeStats.ignored = sent.spans
        BY <2>6
      <4> DEFINE r == intakeStats.received  d == intakeStats.duplicates
                 i == intakeStats.ignored   f == Cardinality(fresh)
                 a == Cardinality(accept)   e == Cardinality(refused)
      <4>3. r \in Nat /\ d \in Nat /\ i \in Nat /\ f \in Nat /\ a \in Nat /\ e \in Nat
        BY <2>1, <4>1
      <4>4. r + d + i = sent.spans /\ a + e = Len(list)
        BY <4>1, <4>2
      <4> HIDE DEF r, d, i, f, a, e
      <4>5. (r + f) + (d + a - f) + (i + e) = (r + d + i) + (a + e)
        BY <4>3
      <4> QED
        BY <4>4, <4>5 DEF r, d, i, f, a, e
    <3> QED
      BY <1>7, <2>5, <3>2
  <2>4. intakeStats'.received = Cardinality(stored')
    BY <1>t, <1>6, <1>7
  <2> QED
    BY <2>2, <2>3, <2>4
<1>9. /\ {o.span : o \in observations'} = sent'.business
      /\ sent'.business \subseteq stored'
      /\ \A o, p \in observations' : o.span = p.span => o = p
  <2>1. \A n \in asked : Intake!Observation(list[n]).span = Id(n)
    BY DEF Intake!Observation
  <2> DEFINE told == {Intake!Observation(list[n]) : n \in asked}
  <2>2. \A o \in told : \E n \in asked : o.span = Id(n) /\ o = Intake!Observation(list[n])
    BY <2>1
  <2>3. \A n \in asked : Intake!Observation(list[n]) \in told
    OBVIOUS
  <2>4. {o.span : o \in told} = {Id(n) : n \in asked}
    <3> HIDE DEF told, asked, Id
    <3> QED
      BY <2>1, <2>2, <2>3
  <2>5. \A o \in observations : o.span \in stored
    BY <1>t
  <2>6. \A o \in told : o.span \notin stored
    <3> HIDE DEF told, Id
    <3> QED
      BY <1>3, <2>2
  <2>7. \A o, p \in told : o.span = p.span => o = p
    <3> HIDE DEF told, Id
    <3>1. \A m, n \in asked : Id(m) = Id(n) => m = n
      BY <1>3
    <3> HIDE DEF asked
    <3> QED
      BY <2>2, <3>1
  <2>8. observations' = observations \cup told
    BY <1>2
  <2> HIDE DEF told
  <2>9. \A o, p \in observations' : o.span = p.span => o = p
    BY <1>t, <2>5, <2>6, <2>7, <2>8
  <2>10. {o.span : o \in observations'} = sent'.business
    <3>1. {o.span : o \in observations'}
            = {o.span : o \in observations} \cup {o.span : o \in told}
      BY <2>8
    <3> QED
      BY <1>t, <1>2, <2>4, <3>1
  <2>11. sent'.business \subseteq stored'
    BY <1>t, <1>2, <1>5
  <2> QED
    BY <2>9, <2>10, <2>11
<1>10. Cardinality(observations') = Cardinality(sent'.business)
  <2> DEFINE S == observations'
             T == sent'.business
             f == [o \in S |-> o.span]
  <2>1. f \in [S -> T] /\ \A o \in S : f[o] = o.span
    BY <1>9
  <2>2. \A z \in T : \E o \in S : f[o] = z
    BY <1>9
  <2>3. \A o, p \in S : f[o] = f[p] => o = p
    BY <1>9, <2>1
  <2>4. IsFiniteSet(T)
    BY <1>6
  <2> HIDE DEF f, S, T
  <2>5. Cardinality(S) = Cardinality(T)
    BY <2>1, <2>2, <2>3, <2>4, SameNumber
  <2> QED
    BY <2>5 DEF S, T
<1>11. Intake!IntakeTypes'
  BY <1>6, <1>7, <1>8, SameFinite DEF Intake!IntakeTypes
<1>12. Intake!EverySpanCounted' /\ Intake!RequestsReachDetector' /\ Intake!ObservationsFollowed'
  BY <1>8, <1>9, <1>10, SameFinite
     DEF Intake!EverySpanCounted, Intake!RequestsReachDetector, Intake!ObservationsFollowed
<1> QED
  BY <1>11, <1>12 DEF Intake!IntakeInv

-----------------------------------------------------------------------------
(* The telemetry of a service *)

\* Every step of a service and its tracer keeps the invariant.
LEMMA TelemetryStep ==
    ASSUME Telemetry!TelemetryInv, Telemetry!Next
    PROVE  Telemetry!TelemetryInv'
<1> USE DEF Telemetry!Paths, Telemetry!Traced, Telemetry!Measured
<1>c. NONE \notin {"business", "other", "health", "metrics"}
  BY InstancesAssumption DEF InstancesAssumption, Telemetry!TelemetryAssumption
<1>t. /\ telemetryOpen \in [ServedRequests -> Telemetry!Paths \cup {NONE}]
      /\ done \in [ServedRequests -> Telemetry!Paths \cup {NONE}]
      /\ queue \subseteq ServedRequests /\ telemetryExported \subseteq ServedRequests
      /\ lost \subseteq ServedRequests /\ telemetryMain \in {"serve", "shutdown", "flush", "exited"}
      /\ tracer \in BOOLEAN /\ broken \in BOOLEAN /\ telemetryCode \in {0, 1}
  BY DEF Telemetry!TelemetryInv, Telemetry!TelemetryTypes
<1>s. /\ \A r \in ServedRequests : telemetryOpen[r] # NONE => done[r] = NONE
      /\ {r \in ServedRequests : Telemetry!Traced(done[r])}
           = queue \cup telemetryExported \cup lost
      /\ Telemetry!IsFiniteSet(Telemetry!Counted)
      /\ counted = Telemetry!Cardinality(Telemetry!Counted)
      /\ telemetryMain \in {"flush", "exited"} /\ ~broken => Telemetry!Running = {}
      /\ telemetryMain = "exited" /\ telemetryCode = 0 => ~broken /\ queue = {}
  BY DEF Telemetry!TelemetryInv, Telemetry!SpansFollowed
<1>1. ASSUME NEW r \in ServedRequests, NEW path \in Telemetry!Paths,
             Telemetry!Accept(r, path)
      PROVE  Telemetry!TelemetryInv'
  <2>1. /\ telemetryMain = "serve" /\ done[r] = NONE
        /\ telemetryOpen' = [telemetryOpen EXCEPT ![r] = path]
        /\ UNCHANGED <<telemetryMain, done, queue, telemetryExported, lost, tracer,
                       counted, broken, telemetryCode>>
    BY <1>1 DEF Telemetry!Accept
  <2>2. Telemetry!Counted' = Telemetry!Counted
    BY <2>1 DEF Telemetry!Counted
  <2>3. Telemetry!TelemetryTypes'
    BY <1>t, <2>1 DEF Telemetry!TelemetryTypes
  <2>4. Telemetry!SpansFollowed'
    BY <1>t, <1>s, <2>1, <2>2 DEF Telemetry!SpansFollowed
  <2> QED
    BY <2>3, <2>4 DEF Telemetry!TelemetryInv
<1>2. ASSUME NEW r \in ServedRequests, Telemetry!Answer(r)
      PROVE  Telemetry!TelemetryInv'
  <2>1. /\ telemetryMain # "exited" /\ telemetryOpen[r] # NONE /\ done[r] = NONE
        /\ telemetryOpen' = [telemetryOpen EXCEPT ![r] = NONE] /\ done' = [done EXCEPT ![r] = telemetryOpen[r]]
        /\ counted' = counted + (IF telemetryOpen[r] = "business" THEN 1 ELSE 0)
        /\ UNCHANGED <<telemetryMain, telemetryExported, tracer, broken, telemetryCode>>
    BY <1>2, <1>s DEF Telemetry!Answer
  <2>2. /\ queue' \subseteq ServedRequests /\ lost' \subseteq ServedRequests
        /\ queue' \cup lost' = queue \cup lost
             \cup (IF telemetryOpen[r] \in {"business", "other"} THEN {r} ELSE {})
    <3>1. CASE ~Telemetry!Traced(telemetryOpen[r])
      <4>1. UNCHANGED <<queue, lost>>
        BY <1>2, <3>1 DEF Telemetry!Answer
      <4> QED
        BY <1>t, <3>1, <4>1
    <3>2. CASE Telemetry!Traced(telemetryOpen[r])
      <4>1. \/ queue' = queue \cup {r} /\ lost' = lost
            \/ lost' = lost \cup {r} /\ queue' = queue
        BY <1>2, <3>2 DEF Telemetry!Answer
      <4> QED
        BY <1>t, <3>2, <4>1
    <3> QED
      BY <3>1, <3>2
  <2>3. /\ done'[r] = telemetryOpen[r] /\ telemetryOpen'[r] = NONE
        /\ \A q \in ServedRequests : q # r => done'[q] = done[q] /\ telemetryOpen'[q] = telemetryOpen[q]
    BY <1>t, <2>1
  <2>4. Telemetry!TelemetryTypes'
    BY <1>t, <2>1, <2>2 DEF Telemetry!TelemetryTypes
  <2>5. \A q \in ServedRequests : telemetryOpen'[q] # NONE => done'[q] = NONE
    BY <1>s, <2>3
  <2>6. {q \in ServedRequests : Telemetry!Traced(done'[q])}
          = queue' \cup telemetryExported' \cup lost'
    <3>1. {q \in ServedRequests : Telemetry!Traced(done'[q])}
            = {q \in ServedRequests : Telemetry!Traced(done[q])}
              \cup (IF telemetryOpen[r] \in {"business", "other"} THEN {r} ELSE {})
      BY <1>c, <2>1, <2>3
    <3> QED
      BY <1>s, <2>1, <2>2, <3>1
  <2>7. /\ Telemetry!IsFiniteSet(Telemetry!Counted')
        /\ counted' = Telemetry!Cardinality(Telemetry!Counted')
    <3>1. IsFiniteSet(Telemetry!Counted) /\ counted = Cardinality(Telemetry!Counted)
      BY <1>s, SameFinite
    <3>2. CASE telemetryOpen[r] = "business"
      <4>1. Telemetry!Counted' = Telemetry!Counted \cup {r} /\ r \notin Telemetry!Counted
        BY <1>c, <2>1, <2>3, <3>2 DEF Telemetry!Counted
      <4>2. /\ IsFiniteSet(Telemetry!Counted \cup {r})
            /\ Cardinality(Telemetry!Counted \cup {r}) = Cardinality(Telemetry!Counted) + 1
        BY <3>1, <4>1, FS_AddElement
      <4> QED
        BY <2>1, <3>1, <3>2, <4>1, <4>2, SameFinite
    <3>3. CASE telemetryOpen[r] # "business"
      <4>1. Telemetry!Counted' = Telemetry!Counted
        BY <1>c, <2>1, <2>3, <3>3 DEF Telemetry!Counted
      <4>2. counted \in Nat
        BY <3>1, FS_CardinalityType
      <4> QED
        BY <1>s, <2>1, <3>3, <4>1, <4>2
    <3> QED
      BY <3>2, <3>3
  <2>8. telemetryMain' \in {"flush", "exited"} /\ ~broken' => Telemetry!Running' = {}
    BY <1>s, <2>1, <2>3 DEF Telemetry!Running
  <2>9. telemetryMain' = "exited" /\ telemetryCode' = 0 => ~broken' /\ queue' = {}
    BY <2>1
  <2> QED
    BY <2>4, <2>5, <2>6, <2>7, <2>8, <2>9 DEF Telemetry!TelemetryInv, Telemetry!SpansFollowed
<1>3. CASE Telemetry!Export
  <2>1. /\ telemetryMain # "exited" /\ queue' = {}
        /\ \/ telemetryExported' = telemetryExported \cup queue /\ lost' = lost
           \/ lost' = lost \cup queue /\ telemetryExported' = telemetryExported
        /\ UNCHANGED <<telemetryMain, telemetryOpen, done, tracer, counted, broken, telemetryCode>>
    BY <1>3 DEF Telemetry!Export
  <2>2. Telemetry!TelemetryTypes'
    BY <1>t, <2>1 DEF Telemetry!TelemetryTypes
  <2>3. {r \in ServedRequests : Telemetry!Traced(done'[r])}
          = queue' \cup telemetryExported' \cup lost'
    BY <1>s, <2>1
  <2>4. Telemetry!Counted' = Telemetry!Counted /\ Telemetry!Running' = Telemetry!Running
    BY <2>1 DEF Telemetry!Counted, Telemetry!Running
  <2> QED
    BY <1>s, <2>1, <2>2, <2>3, <2>4 DEF Telemetry!TelemetryInv, Telemetry!SpansFollowed
<1>4. CASE Telemetry!Stop \/ Telemetry!Served \/ Telemetry!ListenerFails \/ Telemetry!Exit
  <2>1. /\ UNCHANGED <<telemetryOpen, done, queue, telemetryExported, lost, counted>>
        /\ tracer' \in BOOLEAN /\ broken' \in BOOLEAN /\ telemetryCode' \in {0, 1}
        /\ \/ telemetryMain' = "shutdown"
           \/ telemetryMain' = "flush" /\ broken' = (Telemetry!Running # {})
           \/ telemetryMain' = "flush" /\ broken' = TRUE
           \/ /\ telemetryMain = "flush" /\ telemetryMain' = "exited" /\ broken' = broken
              /\ telemetryCode' = 0 => ~broken /\ queue = {}
    <3>1. CASE Telemetry!Stop
      BY <1>t, <3>1 DEF Telemetry!Stop
    <3>2. CASE Telemetry!Served
      BY <1>t, <3>2 DEF Telemetry!Served
    <3>3. CASE Telemetry!ListenerFails
      BY <1>t, <3>3 DEF Telemetry!ListenerFails
    <3>4. CASE Telemetry!Exit
      BY <1>t, <3>4 DEF Telemetry!Exit
    <3> QED
      BY <1>4, <3>1, <3>2, <3>3, <3>4
  <2>2. Telemetry!TelemetryTypes'
    BY <1>t, <2>1 DEF Telemetry!TelemetryTypes
  <2>3. Telemetry!Counted' = Telemetry!Counted /\ Telemetry!Running' = Telemetry!Running
    BY <2>1 DEF Telemetry!Counted, Telemetry!Running
  <2>4. /\ telemetryMain' \in {"flush", "exited"} /\ ~broken' => Telemetry!Running' = {}
        /\ telemetryMain' = "exited" /\ telemetryCode' = 0 => ~broken' /\ queue' = {}
    BY <1>s, <2>1, <2>3
  <2> QED
    BY <1>s, <2>1, <2>2, <2>3, <2>4 DEF Telemetry!TelemetryInv, Telemetry!SpansFollowed
<1> QED
  BY <1>1, <1>2, <1>3, <1>4 DEF Telemetry!Next

-----------------------------------------------------------------------------
(* The shutdown of the engine *)

\* Every step of the engine's life keeps its invariant.
LEMMA ShutdownStep ==
    ASSUME Shutdown!ShutdownInv, Shutdown!Next
    PROVE  Shutdown!ShutdownInv'
<1> USE DEF Shutdown!Servers, Shutdown!Errors, Shutdown!Up, Shutdown!Ends, Shutdown!Stopped
<1>i. Shutdown!ShutdownTypes /\ Shutdown!EndsFollowed /\ Shutdown!StopsFollowed
  BY DEF Shutdown!ShutdownInv
<1>1. CASE Shutdown!Signal
  <2>1. Shutdown!ShutdownTypes'
    BY <1>i, <1>1 DEF Shutdown!Signal, Shutdown!ShutdownTypes, Shutdown!EndsFollowed,
       Shutdown!StopsFollowed
  <2>2. Shutdown!EndsFollowed'
    BY <1>i, <1>1 DEF Shutdown!Signal, Shutdown!ShutdownTypes, Shutdown!EndsFollowed,
       Shutdown!StopsFollowed
  <2>3. Shutdown!StopsFollowed'
    BY <1>i, <1>1 DEF Shutdown!Signal, Shutdown!ShutdownTypes, Shutdown!EndsFollowed,
       Shutdown!StopsFollowed
  <2> QED
    BY <2>1, <2>2, <2>3 DEF Shutdown!ShutdownInv
<1>2. CASE Shutdown!TenSeconds
  <2>1. Shutdown!ShutdownTypes'
    BY <1>i, <1>2 DEF Shutdown!TenSeconds, Shutdown!ShutdownTypes, Shutdown!EndsFollowed,
       Shutdown!StopsFollowed
  <2>2. Shutdown!EndsFollowed'
    BY <1>i, <1>2 DEF Shutdown!TenSeconds, Shutdown!ShutdownTypes, Shutdown!EndsFollowed,
       Shutdown!StopsFollowed
  <2>3. Shutdown!StopsFollowed'
    BY <1>i, <1>2 DEF Shutdown!TenSeconds, Shutdown!ShutdownTypes, Shutdown!EndsFollowed,
       Shutdown!StopsFollowed
  <2> QED
    BY <2>1, <2>2, <2>3 DEF Shutdown!ShutdownInv
<1>3. CASE Shutdown!ServeReturns
  <2>1. Shutdown!ShutdownTypes'
    BY <1>i, <1>3 DEF Shutdown!ServeReturns, Shutdown!ShutdownTypes, Shutdown!EndsFollowed,
       Shutdown!StopsFollowed
  <2>2. Shutdown!EndsFollowed'
    BY <1>i, <1>3 DEF Shutdown!ServeReturns, Shutdown!ShutdownTypes, Shutdown!EndsFollowed,
       Shutdown!StopsFollowed
  <2>3. Shutdown!StopsFollowed'
    BY <1>i, <1>3 DEF Shutdown!ServeReturns, Shutdown!ShutdownTypes, Shutdown!EndsFollowed,
       Shutdown!StopsFollowed
  <2> QED
    BY <2>1, <2>2, <2>3 DEF Shutdown!ShutdownInv
<1>4. CASE Shutdown!ShutdownBegins
  <2>1. Shutdown!ShutdownTypes'
    BY ZenonT(60), <1>i, <1>4 DEF Shutdown!ShutdownBegins, Shutdown!ShutdownTypes, Shutdown!EndsFollowed,
       Shutdown!StopsFollowed
  <2>2. Shutdown!EndsFollowed'
    BY <1>i, <1>4 DEF Shutdown!ShutdownBegins, Shutdown!ShutdownTypes, Shutdown!EndsFollowed,
       Shutdown!StopsFollowed
  <2>3. Shutdown!StopsFollowed'
    BY <1>i, <1>4 DEF Shutdown!ShutdownBegins, Shutdown!ShutdownTypes, Shutdown!EndsFollowed,
       Shutdown!StopsFollowed
  <2> QED
    BY <2>1, <2>2, <2>3 DEF Shutdown!ShutdownInv
<1>5. CASE Shutdown!ShutdownDone
  <2>1. Shutdown!ShutdownTypes'
    BY <1>i, <1>5 DEF Shutdown!ShutdownDone, Shutdown!ShutdownTypes, Shutdown!EndsFollowed,
       Shutdown!StopsFollowed
  <2>2. Shutdown!EndsFollowed'
    BY <1>i, <1>5 DEF Shutdown!ShutdownDone, Shutdown!ShutdownTypes, Shutdown!EndsFollowed,
       Shutdown!StopsFollowed
  <2>3. Shutdown!StopsFollowed'
    BY <1>i, <1>5 DEF Shutdown!ShutdownDone, Shutdown!ShutdownTypes, Shutdown!EndsFollowed,
       Shutdown!StopsFollowed
  <2> QED
    BY <2>1, <2>2, <2>3 DEF Shutdown!ShutdownInv
<1>6. CASE Shutdown!ShutdownTimesOut
  <2>1. Shutdown!ShutdownTypes'
    BY <1>i, <1>6 DEF Shutdown!ShutdownTimesOut, Shutdown!ShutdownTypes, Shutdown!EndsFollowed,
       Shutdown!StopsFollowed
  <2>2. Shutdown!EndsFollowed'
    BY <1>i, <1>6 DEF Shutdown!ShutdownTimesOut, Shutdown!ShutdownTypes, Shutdown!EndsFollowed,
       Shutdown!StopsFollowed
  <2>3. Shutdown!StopsFollowed'
    BY <1>i, <1>6 DEF Shutdown!ShutdownTimesOut, Shutdown!ShutdownTypes, Shutdown!EndsFollowed,
       Shutdown!StopsFollowed
  <2> QED
    BY <2>1, <2>2, <2>3 DEF Shutdown!ShutdownInv
<1>7. CASE Shutdown!StopGRPC
  <2>1. Shutdown!ShutdownTypes'
    BY <1>i, <1>7 DEF Shutdown!StopGRPC, Shutdown!ShutdownTypes, Shutdown!EndsFollowed,
       Shutdown!StopsFollowed
  <2>2. Shutdown!EndsFollowed'
    BY <1>i, <1>7 DEF Shutdown!StopGRPC, Shutdown!ShutdownTypes, Shutdown!EndsFollowed,
       Shutdown!StopsFollowed
  <2>3. Shutdown!StopsFollowed'
    BY <1>i, <1>7 DEF Shutdown!StopGRPC, Shutdown!ShutdownTypes, Shutdown!EndsFollowed,
       Shutdown!StopsFollowed
  <2> QED
    BY <2>1, <2>2, <2>3 DEF Shutdown!ShutdownInv
<1>8. CASE Shutdown!Graceful
  <2>0. /\ main' = "join" /\ UNCHANGED <<failed, served, timer, httpErr, code, open>>
        /\ \/ UNCHANGED <<server, error, cancelled>>
           \/ /\ server' = [server EXCEPT !["grpc"] = "ended"]
              /\ error' = [error EXCEPT !["grpc"] = "stopped"] /\ cancelled' = TRUE
    BY <1>i, <1>8 DEF Shutdown!Graceful, Shutdown!ShutdownTypes
  <2>1. Shutdown!ShutdownTypes'
    BY <1>i, <2>0 DEF Shutdown!ShutdownTypes
  <2>2. Shutdown!EndsFollowed'
    BY <1>i, <1>8 DEF Shutdown!Graceful, Shutdown!ShutdownTypes, Shutdown!EndsFollowed,
       Shutdown!StopsFollowed
  <2>3. Shutdown!StopsFollowed'
    BY <1>i, <1>8 DEF Shutdown!Graceful, Shutdown!ShutdownTypes, Shutdown!EndsFollowed,
       Shutdown!StopsFollowed
  <2> QED
    BY <2>1, <2>2, <2>3 DEF Shutdown!ShutdownInv
<1>9. CASE Shutdown!Force
  <2>1. Shutdown!ShutdownTypes'
    BY ZenonT(60), <1>i, <1>9 DEF Shutdown!Force, Shutdown!ShutdownTypes, Shutdown!EndsFollowed,
       Shutdown!StopsFollowed
  <2>2. Shutdown!EndsFollowed'
    BY <1>i, <1>9 DEF Shutdown!Force, Shutdown!ShutdownTypes, Shutdown!EndsFollowed,
       Shutdown!StopsFollowed
  <2>3. Shutdown!StopsFollowed'
    BY <1>i, <1>9 DEF Shutdown!Force, Shutdown!ShutdownTypes, Shutdown!EndsFollowed,
       Shutdown!StopsFollowed
  <2> QED
    BY <2>1, <2>2, <2>3 DEF Shutdown!ShutdownInv
<1>10. CASE Shutdown!Exit
  <2>1. Shutdown!ShutdownTypes'
    BY <1>i, <1>10 DEF Shutdown!Exit, Shutdown!ShutdownTypes, Shutdown!EndsFollowed,
       Shutdown!StopsFollowed
  <2>2. Shutdown!EndsFollowed'
    BY <1>i, <1>10 DEF Shutdown!Exit, Shutdown!ShutdownTypes, Shutdown!EndsFollowed,
       Shutdown!StopsFollowed
  <2>3. Shutdown!StopsFollowed'
    BY <1>i, <1>10 DEF Shutdown!Exit, Shutdown!ShutdownTypes, Shutdown!EndsFollowed,
       Shutdown!StopsFollowed
  <2> QED
    BY <2>1, <2>2, <2>3 DEF Shutdown!ShutdownInv
<1>11. ASSUME NEW s \in Shutdown!Servers, Shutdown!Accept(s)
      PROVE  Shutdown!ShutdownInv'
  <2>a. /\ open \in [Shutdown!Servers -> Nat] /\ served \in Nat
    BY <1>i DEF Shutdown!ShutdownTypes
  <2>b. /\ server[s] = "serving" /\ served' \in Nat
        /\ open' = [open EXCEPT ![s] = open[s] + 1]
        /\ UNCHANGED <<main, cancelled, server, error, failed, timer, httpErr, code>>
    BY <2>a, <1>11 DEF Shutdown!Accept
  <2>c. open[s] + 1 \in Nat
    BY <2>a, <2>b
  <2>d. /\ open' \in [Shutdown!Servers -> Nat] /\ open'[s] = open[s] + 1
        /\ \A z \in Shutdown!Servers : z # s => open'[z] = open[z]
    BY <2>a, <2>b, <2>c
  <2>e. \A z \in Shutdown!Servers :
          open[z] = 0 /\ server[z] # "serving" => open'[z] = 0
    BY <2>a, <2>b, <2>d
  <2>1. Shutdown!ShutdownTypes'
    BY <1>i, <2>a, <2>b, <2>d DEF Shutdown!ShutdownTypes
  <2>2. Shutdown!EndsFollowed'
    BY <1>i, <2>b, <2>e DEF Shutdown!ShutdownTypes, Shutdown!EndsFollowed,
       Shutdown!StopsFollowed
  <2>3. Shutdown!StopsFollowed'
    BY <1>i, <2>b, <2>e DEF Shutdown!ShutdownTypes, Shutdown!StopsFollowed
  <2> QED
    BY <2>1, <2>2, <2>3 DEF Shutdown!ShutdownInv
<1>12. ASSUME NEW s \in Shutdown!Servers, Shutdown!Finish(s)
      PROVE  Shutdown!ShutdownInv'
  <2>a. /\ open \in [Shutdown!Servers -> Nat] /\ served \in Nat
    BY <1>i DEF Shutdown!ShutdownTypes
  <2>b. /\ open[s] > 0 /\ served' = served
        /\ open' = [open EXCEPT ![s] = open[s] - 1]
        /\ UNCHANGED <<main, cancelled, server, error, failed, timer, httpErr, code>>
    BY <2>a, <1>12 DEF Shutdown!Finish
  <2>c. open[s] - 1 \in Nat
    BY <2>a, <2>b
  <2>d. /\ open' \in [Shutdown!Servers -> Nat] /\ open'[s] = open[s] - 1
        /\ \A z \in Shutdown!Servers : z # s => open'[z] = open[z]
    BY <2>a, <2>b, <2>c
  <2>e. \A z \in Shutdown!Servers :
          open[z] = 0 /\ server[z] # "serving" => open'[z] = 0
    BY <2>a, <2>b, <2>d
  <2>1. Shutdown!ShutdownTypes'
    BY <1>i, <2>a, <2>b, <2>d DEF Shutdown!ShutdownTypes
  <2>2. Shutdown!EndsFollowed'
    BY <1>i, <2>b, <2>e DEF Shutdown!ShutdownTypes, Shutdown!EndsFollowed,
       Shutdown!StopsFollowed
  <2>3. Shutdown!StopsFollowed'
    BY <1>i, <2>b, <2>e DEF Shutdown!ShutdownTypes, Shutdown!StopsFollowed
  <2> QED
    BY <2>1, <2>2, <2>3 DEF Shutdown!ShutdownInv
<1>13. ASSUME NEW s \in Shutdown!Servers, Shutdown!Breaks(s)
      PROVE  Shutdown!ShutdownInv'
  <2>1. Shutdown!ShutdownTypes'
    BY <1>i, <1>13 DEF Shutdown!Breaks, Shutdown!ShutdownTypes, Shutdown!EndsFollowed,
       Shutdown!StopsFollowed
  <2>2. Shutdown!EndsFollowed'
    BY <1>i, <1>13 DEF Shutdown!Breaks, Shutdown!ShutdownTypes, Shutdown!EndsFollowed,
       Shutdown!StopsFollowed
  <2>3. Shutdown!StopsFollowed'
    BY <1>i, <1>13 DEF Shutdown!Breaks, Shutdown!ShutdownTypes, Shutdown!EndsFollowed,
       Shutdown!StopsFollowed
  <2> QED
    BY <2>1, <2>2, <2>3 DEF Shutdown!ShutdownInv
<1> QED
  BY <1>1, <1>2, <1>3, <1>4, <1>5, <1>6, <1>7, <1>8, <1>9, <1>10, <1>11, <1>12, <1>13 DEF Shutdown!Next, Shutdown!Step

-----------------------------------------------------------------------------
(* The calls between the services *)

\* Every step of the calls between the services keeps the invariant, whatever
\* is called in parallel and whoever hides what it heard.
LEMMA ParallelStep ==
    ASSUME InParallel!CallsInv, InParallel!Next
    PROVE  InParallel!CallsInv'
<1> USE DEF InParallel!Codes, InParallel!Lost, InParallel!Heard, InParallel!Failed
<1>c. /\ NONE \notin Calls \cup {0, 200, 500, 502}
      /\ CallServiceOf \in [Calls -> CallServices] /\ RootCall \in Calls
      /\ CallParent \in [Calls -> Calls \cup {NONE}] /\ CallParent[RootCall] = NONE
  BY InstancesAssumption DEF InstancesAssumption, InParallel!CallsAssumption
<1>i. /\ InParallel!CallTypes /\ InParallel!CallsFollowed /\ InParallel!OkMeansServed /\ InParallel!ErrorsHaveOrigin
      /\ InParallel!NoneLeftBehind
  BY DEF InParallel!CallsInv
<1>t. /\ config \in [CallServices -> InParallel!Configs] /\ taken \in [Calls -> InParallel!Configs]
      /\ pc \in [Calls -> {"idle", "delay", "inject", "calling", "done"}]
      /\ sequentialCancelled \in [Calls -> BOOLEAN]
      /\ status \in [Calls -> InParallel!Codes \cup {NONE}] /\ recorded \in [Calls -> InParallel!Codes \cup {NONE}]
      /\ heard \in [Calls -> InParallel!Codes \cup {NONE, InParallel!Lost}]
  BY <1>i DEF InParallel!CallTypes
<1>1. ASSUME NEW s \in CallServices, NEW value \in InParallel!Configs, InParallel!SetConfig(s, value)
      PROVE  InParallel!CallsInv'
  <2>1. InParallel!CallTypes'
    BY <1>t, <1>1 DEF InParallel!SetConfig, InParallel!CallTypes
  <2> QED
    BY <1>i, <1>1, <2>1 DEF InParallel!SetConfig, InParallel!CallsInv, InParallel!CallsFollowed, InParallel!OkMeansServed,
       InParallel!ErrorsHaveOrigin, InParallel!NoneLeftBehind, InParallel!Reports
<1>2. ASSUME NEW c \in Calls, InParallel!Arrive(c)
      PROVE  InParallel!CallsInv'
  <2>1. /\ pc[c] = "idle" /\ pc' = [pc EXCEPT ![c] = pc'[c]] /\ pc'[c] \in {"delay", "inject"}
        /\ c # RootCall => pc[CallParent[c]] = "calling"
        /\ taken' \in [Calls -> InParallel!Configs] /\ \A d \in Calls : d # c => taken'[d] = taken[d]
        /\ UNCHANGED <<config, sequentialCancelled, status, recorded, heard>>
    BY <1>c, <1>t, <1>2 DEF InParallel!Arrive, InParallel!Turn
  <2>2. InParallel!CallTypes'
    BY <1>t, <2>1 DEF InParallel!CallTypes
  <2>3. \A d \in Calls : d # c => pc'[d] = pc[d]
    BY <1>t, <2>1
  <2>4. status[c] = NONE /\ recorded[c] = NONE
    BY <1>i, <2>1 DEF InParallel!CallsFollowed
  <2>5. InParallel!CallsFollowed'
    <3>1. ASSUME NEW a \in Calls, pc'[a] \in {"idle", "delay", "inject"},
                 NEW d \in InParallel!Children(a)
          PROVE  pc'[d] = "idle"
      <4>1. d \in Calls /\ CallParent[d] = a
        BY DEF InParallel!Children
      <4>2. pc[a] \in {"idle", "delay", "inject"}
        BY <2>1, <2>3, <3>1
      <4>3. d # c
        BY <1>c, <2>1, <4>1, <4>2
      <4> QED
        BY <1>i, <2>3, <4>1, <4>2, <4>3 DEF InParallel!CallsFollowed
    <3> QED
      BY <1>i, <2>1, <2>3, <3>1 DEF InParallel!CallsFollowed
  <2>6. InParallel!OkMeansServed' /\ InParallel!ErrorsHaveOrigin'
    BY <1>c, <1>i, <2>1, <2>4 DEF InParallel!OkMeansServed, InParallel!ErrorsHaveOrigin, InParallel!Reports
  <2>7. InParallel!NoneLeftBehind'
    <3>1. ASSUME NEW a \in Calls, pc'[a] = "done", NEW d \in InParallel!Children(a)
          PROVE  heard'[d] # NONE \/ pc'[d] = "idle"
      <4>1. pc[a] = "done" /\ d \in Calls /\ CallParent[d] = a
        BY <2>1, <2>3, <3>1 DEF InParallel!Children
      <4>2. d # c
        BY <1>c, <2>1, <4>1
      <4> QED
        BY <1>i, <2>1, <2>3, <4>1, <4>2 DEF InParallel!NoneLeftBehind
    <3> QED
      BY <3>1 DEF InParallel!NoneLeftBehind
  <2> QED
    BY <2>2, <2>5, <2>6, <2>7 DEF InParallel!CallsInv
<1>3. ASSUME NEW c \in Calls, InParallel!Unreachable(c) \/ InParallel!GiveUp(c)
      PROVE  InParallel!CallsInv'
  <2>1. /\ heard[c] = NONE /\ heard' = [heard EXCEPT ![c] = 0]
        /\ sequentialCancelled' \in [Calls -> BOOLEAN]
        /\ UNCHANGED <<config, pc, taken, status, recorded>>
    <3>1. CASE InParallel!Unreachable(c)
      BY <1>t, <3>1 DEF InParallel!Unreachable, InParallel!Turn
    <3>2. CASE InParallel!GiveUp(c)
      BY <1>t, <3>2 DEF InParallel!GiveUp
    <3> QED
      BY <1>3, <3>1, <3>2
  <2>2. InParallel!CallTypes'
    BY <1>t, <2>1 DEF InParallel!CallTypes
  <2>3. heard'[c] = 0 /\ \A d \in Calls : d # c => heard'[d] = heard[d]
    BY <1>t, <2>1
  <2>4. InParallel!CallsFollowed'
    BY <1>c, <1>i, <2>1, <2>3 DEF InParallel!CallsFollowed
  <2>5. \A a \in Calls : \A d \in InParallel!Children(a) : d \in Calls
    BY DEF InParallel!Children
  <2>6. InParallel!OkMeansServed'
    BY <1>c, <1>i, <2>1, <2>3, <2>5 DEF InParallel!OkMeansServed, InParallel!Reports
  <2>7. InParallel!ErrorsHaveOrigin'
    BY <1>c, <1>i, <2>1, <2>3, <2>5 DEF InParallel!ErrorsHaveOrigin
  <2>8. InParallel!NoneLeftBehind'
    BY <1>c, <1>i, <2>1, <2>3, <2>5 DEF InParallel!NoneLeftBehind
  <2> QED
    BY <2>2, <2>4, <2>6, <2>7, <2>8 DEF InParallel!CallsInv
<1>4. ASSUME NEW c \in Calls, InParallel!DelayOver(c) \/ InParallel!Pass(c)
      PROVE  InParallel!CallsInv'
  <2>1. /\ pc[c] \in {"delay", "inject"} /\ pc' = [pc EXCEPT ![c] = pc'[c]]
        /\ pc'[c] \in {"inject", "calling"}
        /\ UNCHANGED <<config, taken, sequentialCancelled, status, recorded, heard>>
    BY <1>t, <1>4 DEF InParallel!DelayOver, InParallel!Pass
  <2>2. InParallel!CallTypes'
    BY <1>t, <2>1 DEF InParallel!CallTypes
  <2>3. \A d \in Calls : d # c => pc'[d] = pc[d]
    BY <1>t, <2>1
  <2>5. \A a \in Calls : \A d \in InParallel!Children(a) : d \in Calls
    BY DEF InParallel!Children
  <2>4. InParallel!CallsFollowed'
    <3>1. ASSUME NEW a \in Calls, pc'[a] \in {"idle", "delay", "inject"},
                 NEW d \in InParallel!Children(a)
          PROVE  pc'[d] = "idle"
      <4>1. pc[a] \in {"idle", "delay", "inject"}
        BY <2>1, <2>3, <3>1
      <4>2. pc[d] = "idle"
        BY <1>i, <4>1 DEF InParallel!CallsFollowed
      <4> QED
        BY <2>1, <2>3, <2>5, <4>2
    <3> QED
      BY <1>i, <2>1, <2>3, <3>1 DEF InParallel!CallsFollowed
  <2>6. InParallel!OkMeansServed' /\ InParallel!ErrorsHaveOrigin'
    BY <1>i, <2>1 DEF InParallel!OkMeansServed, InParallel!ErrorsHaveOrigin, InParallel!Reports
  <2>7. InParallel!NoneLeftBehind'
    <3>1. ASSUME NEW a \in Calls, pc'[a] = "done", NEW d \in InParallel!Children(a)
          PROVE  heard'[d] # NONE \/ pc'[d] = "idle"
      <4>1. pc[a] = "done"
        BY <2>1, <2>3, <3>1
      <4>2. heard[d] # NONE \/ pc[d] = "idle"
        BY <1>i, <4>1 DEF InParallel!NoneLeftBehind
      <4> QED
        BY <2>1, <2>3, <2>5, <4>2
    <3> QED
      BY <3>1 DEF InParallel!NoneLeftBehind
  <2> QED
    BY <2>2, <2>4, <2>6, <2>7 DEF InParallel!CallsInv
<1>5. ASSUME NEW c \in Calls, InParallel!DelayCancelled(c)
      PROVE  InParallel!CallsInv'
  <2>1. /\ pc[c] = "delay" /\ pc' = [pc EXCEPT ![c] = "done"]
        /\ recorded' = [recorded EXCEPT ![c] = 200]
        /\ UNCHANGED <<config, taken, sequentialCancelled, status, heard>>
    BY <1>5 DEF InParallel!DelayCancelled
  <2>2. InParallel!CallTypes'
    BY <1>t, <2>1 DEF InParallel!CallTypes
  <2>3. /\ pc'[c] = "done" /\ \A d \in Calls : d # c => pc'[d] = pc[d]
        /\ recorded'[c] = 200 /\ \A d \in Calls : d # c => recorded'[d] = recorded[d]
    BY <1>t, <2>1
  <2>5. \A a \in Calls : \A d \in InParallel!Children(a) : d \in Calls
    BY DEF InParallel!Children
  <2>8. \A d \in InParallel!Children(c) : pc[d] = "idle" /\ pc'[d] = "idle"
    BY <1>i, <2>1, <2>3, <2>5 DEF InParallel!CallsFollowed
  <2>4. InParallel!CallsFollowed'
    BY <1>i, <2>1, <2>3, <2>5, <2>8 DEF InParallel!CallsFollowed
  <2>6. InParallel!OkMeansServed' /\ InParallel!ErrorsHaveOrigin'
    BY <1>i, <2>1, <2>3 DEF InParallel!OkMeansServed, InParallel!ErrorsHaveOrigin, InParallel!Reports
  <2>7. InParallel!NoneLeftBehind'
    <3>1. ASSUME NEW a \in Calls, pc'[a] = "done", NEW d \in InParallel!Children(a)
          PROVE  heard'[d] # NONE \/ pc'[d] = "idle"
      <4>1. CASE a = c
        BY <2>8, <4>1
      <4>2. CASE a # c
        <5>1. heard[d] # NONE \/ pc[d] = "idle"
          BY <1>i, <2>3, <3>1, <4>2 DEF InParallel!NoneLeftBehind
        <5>2. d = c => heard[d] # NONE
          BY <2>1, <5>1
        <5> QED
          BY <2>1, <2>3, <2>5, <5>1, <5>2
      <4> QED
        BY <4>1, <4>2
    <3> QED
      BY <3>1 DEF InParallel!NoneLeftBehind
  <2> QED
    BY <2>2, <2>4, <2>6, <2>7 DEF InParallel!CallsInv
<1>6. ASSUME NEW c \in Calls, InParallel!InjectError(c) \/ InParallel!Respond(c)
      PROVE  InParallel!CallsInv'
  <2>1. PICK result \in InParallel!Codes :
         /\ pc[c] \in {"inject", "calling"} /\ InParallel!Answer(c, result)
         /\ pc[c] = "calling" => InParallel!AllHeard(c) /\ result = InParallel!StatusOf(c)
         /\ pc[c] = "inject" => result = 500 /\ taken[c].errors # "never"
    BY <1>6 DEF InParallel!InjectError, InParallel!Respond, InParallel!StatusOf
  <2>2. /\ pc' = [pc EXCEPT ![c] = "done"] /\ status' = [status EXCEPT ![c] = result]
        /\ recorded' = [recorded EXCEPT ![c] = result]
        /\ heard' = [heard EXCEPT ![c] = IF @ = NONE THEN result ELSE @]
        /\ UNCHANGED <<config, taken, sequentialCancelled>>
    BY <2>1 DEF InParallel!Answer
  <2>3. InParallel!CallTypes'
    BY <1>t, <2>2 DEF InParallel!CallTypes
  <2>4. /\ pc'[c] = "done" /\ status'[c] = result /\ recorded'[c] = result
        /\ heard[c] = NONE => heard'[c] = result
        /\ heard[c] # NONE => heard'[c] = heard[c]
        /\ \A d \in Calls : d # c =>
             /\ pc'[d] = pc[d] /\ status'[d] = status[d] /\ recorded'[d] = recorded[d]
             /\ heard'[d] = heard[d]
    BY <1>t, <2>2
  <2>5. \A a \in Calls : \A d \in InParallel!Children(a) : d \in Calls
    BY DEF InParallel!Children
  <2>6. /\ status[c] = NONE /\ recorded[c] = NONE /\ heard[c] \in {NONE, 0}
    BY <1>i, <2>1 DEF InParallel!CallsFollowed
  <2>7. /\ \A d \in InParallel!Children(c) : heard[d] # NONE \/ pc[d] = "idle"
        /\ result = 200 /\ c \notin AlwaysOk => \A d \in InParallel!Children(c) : heard[d] = 200
        /\ result = 502 => \E d \in InParallel!Children(c) : heard[d] \in {500, 502, 0}
    <3>1. CASE pc[c] = "inject"
      BY <1>i, <2>1, <3>1 DEF InParallel!CallsFollowed
    <3>2. CASE pc[c] = "calling"
      <4>1. /\ \A d \in InParallel!Children(c) : heard[d] # NONE
            /\ result = InParallel!StatusOf(c)
        BY <2>1, <3>2 DEF InParallel!AllHeard
      <4>2. \A d \in InParallel!Children(c) : heard[d] \in {200, 500, 502, 0}
        BY <1>t, <2>5, <4>1
      <4> QED
        BY <4>1, <4>2 DEF InParallel!StatusOf
    <3> QED
      BY <2>1, <3>1, <3>2
  <2>8. \A d \in Calls : (heard[d] # NONE => heard'[d] = heard[d])
                         /\ (heard[d] \in InParallel!Codes => status'[d] = status[d])
    BY <1>c, <2>4, <2>6
  <2>9. InParallel!CallsFollowed'
    <3>1. ASSUME NEW a \in Calls, pc'[a] \in {"idle", "delay", "inject"},
                 NEW d \in InParallel!Children(a)
          PROVE  pc'[d] = "idle"
      <4>1. a # c /\ pc[a] = pc'[a]
        BY <2>4, <3>1
      <4>2. pc[d] = "idle"
        BY <1>i, <3>1, <4>1 DEF InParallel!CallsFollowed
      <4>3. d # c
        BY <2>1, <4>2
      <4> QED
        BY <2>4, <2>5, <4>2, <4>3
    <3>2. \A a \in Calls : pc'[a] # "done" =>
             status'[a] = NONE /\ recorded'[a] = NONE /\ heard'[a] \in {NONE, 0}
      BY <1>i, <2>4 DEF InParallel!CallsFollowed
    <3>3. \A a \in Calls : heard'[a] \in InParallel!Codes => status'[a] = heard'[a]
      BY <1>c, <1>i, <2>4, <2>6 DEF InParallel!CallsFollowed
    <3> QED
      BY <3>1, <3>2, <3>3 DEF InParallel!CallsFollowed
  <2>10. InParallel!OkMeansServed'
    <3>1. ASSUME NEW a \in Calls, status'[a] = 200, a \notin AlwaysOk, NEW d \in InParallel!Children(a)
          PROVE  status'[d] = 200 /\ heard'[d] = 200
      <4>1. heard[d] = 200
        <5>1. CASE a = c
          BY <2>4, <2>7, <3>1, <5>1
        <5>2. CASE a # c
          BY <1>i, <2>4, <3>1, <5>2 DEF InParallel!OkMeansServed, InParallel!Reports
        <5> QED
          BY <5>1, <5>2
      <4>2. status[d] = 200
        BY <1>i, <2>5, <4>1 DEF InParallel!CallsFollowed
      <4> QED
        BY <1>c, <2>5, <2>8, <4>1, <4>2
    <3> QED
      BY <3>1 DEF InParallel!OkMeansServed, InParallel!Reports
  <2>11. InParallel!ErrorsHaveOrigin'
    <3>1. ASSUME NEW a \in Calls, recorded'[a] \in {500, 502}
          PROVE  \/ recorded'[a] = 500 /\ taken'[a].errors # "never"
                 \/ \E d \in InParallel!Children(a) : heard'[d] \in {500, 502, 0}
      <4>1. \/ recorded'[a] = 500 /\ taken[a].errors # "never"
            \/ \E d \in InParallel!Children(a) : heard[d] \in {500, 502, 0}
        <5>1. CASE a = c
          <6>1. result = 500 => pc[c] = "inject"
            BY <2>1 DEF InParallel!StatusOf
          <6> QED
            BY <2>1, <2>4, <2>7, <3>1, <5>1, <6>1
        <5>2. CASE a # c
          BY <1>i, <2>4, <3>1, <5>2 DEF InParallel!ErrorsHaveOrigin
        <5> QED
          BY <5>1, <5>2
      <4> QED
        BY <1>c, <2>2, <2>5, <2>8, <4>1
    <3> QED
      BY <3>1 DEF InParallel!ErrorsHaveOrigin
  <2>12. InParallel!NoneLeftBehind'
    <3>1. ASSUME NEW a \in Calls, pc'[a] = "done", NEW d \in InParallel!Children(a)
          PROVE  heard'[d] # NONE \/ pc'[d] = "idle"
      <4>1. heard[d] # NONE \/ pc[d] = "idle"
        <5>1. CASE a = c
          BY <2>7, <5>1
        <5>2. CASE a # c
          BY <1>i, <2>4, <3>1, <5>2 DEF InParallel!NoneLeftBehind
        <5> QED
          BY <5>1, <5>2
      <4>2. pc[d] = "idle" => d # c
        BY <2>1
      <4> QED
        BY <2>4, <2>5, <2>8, <4>1, <4>2
    <3> QED
      BY <3>1 DEF InParallel!NoneLeftBehind
  <2> QED
    BY <2>3, <2>9, <2>10, <2>11, <2>12 DEF InParallel!CallsInv
<1> QED
  BY <1>1, <1>2, <1>3, <1>4, <1>5, <1>6 DEF InParallel!Next, InParallel!Handle

\* Every step of the calls between the services keeps the invariant where
\* every handler calls in turn and reports what it heard.
LEMMA SequentialStep ==
    ASSUME Sequential!CallsInv, Sequential!Next
    PROVE  Sequential!CallsInv'
<1> USE DEF Sequential!Codes, Sequential!Lost, Sequential!Heard, Sequential!Failed
<1>c. /\ NONE \notin Calls \cup {0, 200, 500, 502}
      /\ CallServiceOf \in [Calls -> CallServices] /\ RootCall \in Calls
      /\ CallParent \in [Calls -> Calls \cup {NONE}] /\ CallParent[RootCall] = NONE
  BY InstancesAssumption DEF InstancesAssumption, Sequential!CallsAssumption
<1>i. /\ Sequential!CallTypes /\ Sequential!CallsFollowed /\ Sequential!OkMeansServed /\ Sequential!ErrorsHaveOrigin
      /\ Sequential!NoneLeftBehind
  BY DEF Sequential!CallsInv
<1>t. /\ config \in [CallServices -> Sequential!Configs] /\ taken \in [Calls -> Sequential!Configs]
      /\ pc \in [Calls -> {"idle", "delay", "inject", "calling", "done"}]
      /\ sequentialCancelled \in [Calls -> BOOLEAN]
      /\ status \in [Calls -> Sequential!Codes \cup {NONE}] /\ recorded \in [Calls -> Sequential!Codes \cup {NONE}]
      /\ heard \in [Calls -> Sequential!Codes \cup {NONE, Sequential!Lost}]
  BY <1>i DEF Sequential!CallTypes
<1>1. ASSUME NEW s \in CallServices, NEW value \in Sequential!Configs, Sequential!SetConfig(s, value)
      PROVE  Sequential!CallsInv'
  <2>1. Sequential!CallTypes'
    BY <1>t, <1>1 DEF Sequential!SetConfig, Sequential!CallTypes
  <2> QED
    BY <1>i, <1>1, <2>1 DEF Sequential!SetConfig, Sequential!CallsInv, Sequential!CallsFollowed, Sequential!OkMeansServed,
       Sequential!ErrorsHaveOrigin, Sequential!NoneLeftBehind, Sequential!Reports
<1>2. ASSUME NEW c \in Calls, Sequential!Arrive(c)
      PROVE  Sequential!CallsInv'
  <2>1. /\ pc[c] = "idle" /\ pc' = [pc EXCEPT ![c] = pc'[c]] /\ pc'[c] \in {"delay", "inject"}
        /\ c # RootCall => pc[CallParent[c]] = "calling"
        /\ taken' \in [Calls -> Sequential!Configs] /\ \A d \in Calls : d # c => taken'[d] = taken[d]
        /\ UNCHANGED <<config, sequentialCancelled, status, recorded, heard>>
    BY <1>c, <1>t, <1>2 DEF Sequential!Arrive, Sequential!Turn
  <2>2. Sequential!CallTypes'
    BY <1>t, <2>1 DEF Sequential!CallTypes
  <2>3. \A d \in Calls : d # c => pc'[d] = pc[d]
    BY <1>t, <2>1
  <2>4. status[c] = NONE /\ recorded[c] = NONE
    BY <1>i, <2>1 DEF Sequential!CallsFollowed
  <2>5. Sequential!CallsFollowed'
    <3>1. ASSUME NEW a \in Calls, pc'[a] \in {"idle", "delay", "inject"},
                 NEW d \in Sequential!Children(a)
          PROVE  pc'[d] = "idle"
      <4>1. d \in Calls /\ CallParent[d] = a
        BY DEF Sequential!Children
      <4>2. pc[a] \in {"idle", "delay", "inject"}
        BY <2>1, <2>3, <3>1
      <4>3. d # c
        BY <1>c, <2>1, <4>1, <4>2
      <4> QED
        BY <1>i, <2>3, <4>1, <4>2, <4>3 DEF Sequential!CallsFollowed
    <3> QED
      BY <1>i, <2>1, <2>3, <3>1 DEF Sequential!CallsFollowed
  <2>6. Sequential!OkMeansServed' /\ Sequential!ErrorsHaveOrigin'
    BY <1>c, <1>i, <2>1, <2>4 DEF Sequential!OkMeansServed, Sequential!ErrorsHaveOrigin, Sequential!Reports
  <2>7. Sequential!NoneLeftBehind'
    <3>1. ASSUME NEW a \in Calls, pc'[a] = "done", NEW d \in Sequential!Children(a)
          PROVE  heard'[d] # NONE \/ pc'[d] = "idle"
      <4>1. pc[a] = "done" /\ d \in Calls /\ CallParent[d] = a
        BY <2>1, <2>3, <3>1 DEF Sequential!Children
      <4>2. d # c
        BY <1>c, <2>1, <4>1
      <4> QED
        BY <1>i, <2>1, <2>3, <4>1, <4>2 DEF Sequential!NoneLeftBehind
    <3> QED
      BY <3>1 DEF Sequential!NoneLeftBehind
  <2> QED
    BY <2>2, <2>5, <2>6, <2>7 DEF Sequential!CallsInv
<1>3. ASSUME NEW c \in Calls, Sequential!Unreachable(c) \/ Sequential!GiveUp(c)
      PROVE  Sequential!CallsInv'
  <2>1. /\ heard[c] = NONE /\ heard' = [heard EXCEPT ![c] = 0]
        /\ sequentialCancelled' \in [Calls -> BOOLEAN]
        /\ UNCHANGED <<config, pc, taken, status, recorded>>
    <3>1. CASE Sequential!Unreachable(c)
      BY <1>t, <3>1 DEF Sequential!Unreachable, Sequential!Turn
    <3>2. CASE Sequential!GiveUp(c)
      BY <1>t, <3>2 DEF Sequential!GiveUp
    <3> QED
      BY <1>3, <3>1, <3>2
  <2>2. Sequential!CallTypes'
    BY <1>t, <2>1 DEF Sequential!CallTypes
  <2>3. heard'[c] = 0 /\ \A d \in Calls : d # c => heard'[d] = heard[d]
    BY <1>t, <2>1
  <2>4. Sequential!CallsFollowed'
    BY <1>c, <1>i, <2>1, <2>3 DEF Sequential!CallsFollowed
  <2>5. \A a \in Calls : \A d \in Sequential!Children(a) : d \in Calls
    BY DEF Sequential!Children
  <2>6. Sequential!OkMeansServed'
    BY <1>c, <1>i, <2>1, <2>3, <2>5 DEF Sequential!OkMeansServed, Sequential!Reports
  <2>7. Sequential!ErrorsHaveOrigin'
    BY <1>c, <1>i, <2>1, <2>3, <2>5 DEF Sequential!ErrorsHaveOrigin
  <2>8. Sequential!NoneLeftBehind'
    BY <1>c, <1>i, <2>1, <2>3, <2>5 DEF Sequential!NoneLeftBehind
  <2> QED
    BY <2>2, <2>4, <2>6, <2>7, <2>8 DEF Sequential!CallsInv
<1>4. ASSUME NEW c \in Calls, Sequential!DelayOver(c) \/ Sequential!Pass(c)
      PROVE  Sequential!CallsInv'
  <2>1. /\ pc[c] \in {"delay", "inject"} /\ pc' = [pc EXCEPT ![c] = pc'[c]]
        /\ pc'[c] \in {"inject", "calling"}
        /\ UNCHANGED <<config, taken, sequentialCancelled, status, recorded, heard>>
    BY <1>t, <1>4 DEF Sequential!DelayOver, Sequential!Pass
  <2>2. Sequential!CallTypes'
    BY <1>t, <2>1 DEF Sequential!CallTypes
  <2>3. \A d \in Calls : d # c => pc'[d] = pc[d]
    BY <1>t, <2>1
  <2>5. \A a \in Calls : \A d \in Sequential!Children(a) : d \in Calls
    BY DEF Sequential!Children
  <2>4. Sequential!CallsFollowed'
    <3>1. ASSUME NEW a \in Calls, pc'[a] \in {"idle", "delay", "inject"},
                 NEW d \in Sequential!Children(a)
          PROVE  pc'[d] = "idle"
      <4>1. pc[a] \in {"idle", "delay", "inject"}
        BY <2>1, <2>3, <3>1
      <4>2. pc[d] = "idle"
        BY <1>i, <4>1 DEF Sequential!CallsFollowed
      <4> QED
        BY <2>1, <2>3, <2>5, <4>2
    <3> QED
      BY <1>i, <2>1, <2>3, <3>1 DEF Sequential!CallsFollowed
  <2>6. Sequential!OkMeansServed' /\ Sequential!ErrorsHaveOrigin'
    BY <1>i, <2>1 DEF Sequential!OkMeansServed, Sequential!ErrorsHaveOrigin, Sequential!Reports
  <2>7. Sequential!NoneLeftBehind'
    <3>1. ASSUME NEW a \in Calls, pc'[a] = "done", NEW d \in Sequential!Children(a)
          PROVE  heard'[d] # NONE \/ pc'[d] = "idle"
      <4>1. pc[a] = "done"
        BY <2>1, <2>3, <3>1
      <4>2. heard[d] # NONE \/ pc[d] = "idle"
        BY <1>i, <4>1 DEF Sequential!NoneLeftBehind
      <4> QED
        BY <2>1, <2>3, <2>5, <4>2
    <3> QED
      BY <3>1 DEF Sequential!NoneLeftBehind
  <2> QED
    BY <2>2, <2>4, <2>6, <2>7 DEF Sequential!CallsInv
<1>5. ASSUME NEW c \in Calls, Sequential!DelayCancelled(c)
      PROVE  Sequential!CallsInv'
  <2>1. /\ pc[c] = "delay" /\ pc' = [pc EXCEPT ![c] = "done"]
        /\ recorded' = [recorded EXCEPT ![c] = 200]
        /\ UNCHANGED <<config, taken, sequentialCancelled, status, heard>>
    BY <1>5 DEF Sequential!DelayCancelled
  <2>2. Sequential!CallTypes'
    BY <1>t, <2>1 DEF Sequential!CallTypes
  <2>3. /\ pc'[c] = "done" /\ \A d \in Calls : d # c => pc'[d] = pc[d]
        /\ recorded'[c] = 200 /\ \A d \in Calls : d # c => recorded'[d] = recorded[d]
    BY <1>t, <2>1
  <2>5. \A a \in Calls : \A d \in Sequential!Children(a) : d \in Calls
    BY DEF Sequential!Children
  <2>8. \A d \in Sequential!Children(c) : pc[d] = "idle" /\ pc'[d] = "idle"
    BY <1>i, <2>1, <2>3, <2>5 DEF Sequential!CallsFollowed
  <2>4. Sequential!CallsFollowed'
    BY <1>i, <2>1, <2>3, <2>5, <2>8 DEF Sequential!CallsFollowed
  <2>6. Sequential!OkMeansServed' /\ Sequential!ErrorsHaveOrigin'
    BY <1>i, <2>1, <2>3 DEF Sequential!OkMeansServed, Sequential!ErrorsHaveOrigin, Sequential!Reports
  <2>7. Sequential!NoneLeftBehind'
    <3>1. ASSUME NEW a \in Calls, pc'[a] = "done", NEW d \in Sequential!Children(a)
          PROVE  heard'[d] # NONE \/ pc'[d] = "idle"
      <4>1. CASE a = c
        BY <2>8, <4>1
      <4>2. CASE a # c
        <5>1. heard[d] # NONE \/ pc[d] = "idle"
          BY <1>i, <2>3, <3>1, <4>2 DEF Sequential!NoneLeftBehind
        <5>2. d = c => heard[d] # NONE
          BY <2>1, <5>1
        <5> QED
          BY <2>1, <2>3, <2>5, <5>1, <5>2
      <4> QED
        BY <4>1, <4>2
    <3> QED
      BY <3>1 DEF Sequential!NoneLeftBehind
  <2> QED
    BY <2>2, <2>4, <2>6, <2>7 DEF Sequential!CallsInv
<1>6. ASSUME NEW c \in Calls, Sequential!InjectError(c) \/ Sequential!Respond(c)
      PROVE  Sequential!CallsInv'
  <2>1. PICK result \in Sequential!Codes :
         /\ pc[c] \in {"inject", "calling"} /\ Sequential!Answer(c, result)
         /\ pc[c] = "calling" => Sequential!AllHeard(c) /\ result = Sequential!StatusOf(c)
         /\ pc[c] = "inject" => result = 500 /\ taken[c].errors # "never"
    BY <1>6 DEF Sequential!InjectError, Sequential!Respond, Sequential!StatusOf
  <2>2. /\ pc' = [pc EXCEPT ![c] = "done"] /\ status' = [status EXCEPT ![c] = result]
        /\ recorded' = [recorded EXCEPT ![c] = result]
        /\ heard' = [heard EXCEPT ![c] = IF @ = NONE THEN result ELSE @]
        /\ UNCHANGED <<config, taken, sequentialCancelled>>
    BY <2>1 DEF Sequential!Answer
  <2>3. Sequential!CallTypes'
    BY <1>t, <2>2 DEF Sequential!CallTypes
  <2>4. /\ pc'[c] = "done" /\ status'[c] = result /\ recorded'[c] = result
        /\ heard[c] = NONE => heard'[c] = result
        /\ heard[c] # NONE => heard'[c] = heard[c]
        /\ \A d \in Calls : d # c =>
             /\ pc'[d] = pc[d] /\ status'[d] = status[d] /\ recorded'[d] = recorded[d]
             /\ heard'[d] = heard[d]
    BY <1>t, <2>2
  <2>5. \A a \in Calls : \A d \in Sequential!Children(a) : d \in Calls
    BY DEF Sequential!Children
  <2>6. /\ status[c] = NONE /\ recorded[c] = NONE /\ heard[c] \in {NONE, 0}
    BY <1>i, <2>1 DEF Sequential!CallsFollowed
  <2>7. /\ \A d \in Sequential!Children(c) : heard[d] # NONE \/ pc[d] = "idle"
        /\ result = 200 /\ c \notin {} => \A d \in Sequential!Children(c) : heard[d] = 200
        /\ result = 502 => \E d \in Sequential!Children(c) : heard[d] \in {500, 502, 0}
    <3>1. CASE pc[c] = "inject"
      BY <1>i, <2>1, <3>1 DEF Sequential!CallsFollowed
    <3>2. CASE pc[c] = "calling"
      <4>1. /\ \A d \in Sequential!Children(c) : heard[d] # NONE
            /\ result = Sequential!StatusOf(c)
        BY <2>1, <3>2 DEF Sequential!AllHeard
      <4>2. \A d \in Sequential!Children(c) : heard[d] \in {200, 500, 502, 0}
        BY <1>t, <2>5, <4>1
      <4> QED
        BY <4>1, <4>2 DEF Sequential!StatusOf
    <3> QED
      BY <2>1, <3>1, <3>2
  <2>8. \A d \in Calls : (heard[d] # NONE => heard'[d] = heard[d])
                         /\ (heard[d] \in Sequential!Codes => status'[d] = status[d])
    BY <1>c, <2>4, <2>6
  <2>9. Sequential!CallsFollowed'
    <3>1. ASSUME NEW a \in Calls, pc'[a] \in {"idle", "delay", "inject"},
                 NEW d \in Sequential!Children(a)
          PROVE  pc'[d] = "idle"
      <4>1. a # c /\ pc[a] = pc'[a]
        BY <2>4, <3>1
      <4>2. pc[d] = "idle"
        BY <1>i, <3>1, <4>1 DEF Sequential!CallsFollowed
      <4>3. d # c
        BY <2>1, <4>2
      <4> QED
        BY <2>4, <2>5, <4>2, <4>3
    <3>2. \A a \in Calls : pc'[a] # "done" =>
             status'[a] = NONE /\ recorded'[a] = NONE /\ heard'[a] \in {NONE, 0}
      BY <1>i, <2>4 DEF Sequential!CallsFollowed
    <3>3. \A a \in Calls : heard'[a] \in Sequential!Codes => status'[a] = heard'[a]
      BY <1>c, <1>i, <2>4, <2>6 DEF Sequential!CallsFollowed
    <3> QED
      BY <3>1, <3>2, <3>3 DEF Sequential!CallsFollowed
  <2>10. Sequential!OkMeansServed'
    <3>1. ASSUME NEW a \in Calls, status'[a] = 200, a \notin {}, NEW d \in Sequential!Children(a)
          PROVE  status'[d] = 200 /\ heard'[d] = 200
      <4>1. heard[d] = 200
        <5>1. CASE a = c
          BY <2>4, <2>7, <3>1, <5>1
        <5>2. CASE a # c
          BY <1>i, <2>4, <3>1, <5>2 DEF Sequential!OkMeansServed, Sequential!Reports
        <5> QED
          BY <5>1, <5>2
      <4>2. status[d] = 200
        BY <1>i, <2>5, <4>1 DEF Sequential!CallsFollowed
      <4> QED
        BY <1>c, <2>5, <2>8, <4>1, <4>2
    <3> QED
      BY <3>1 DEF Sequential!OkMeansServed, Sequential!Reports
  <2>11. Sequential!ErrorsHaveOrigin'
    <3>1. ASSUME NEW a \in Calls, recorded'[a] \in {500, 502}
          PROVE  \/ recorded'[a] = 500 /\ taken'[a].errors # "never"
                 \/ \E d \in Sequential!Children(a) : heard'[d] \in {500, 502, 0}
      <4>1. \/ recorded'[a] = 500 /\ taken[a].errors # "never"
            \/ \E d \in Sequential!Children(a) : heard[d] \in {500, 502, 0}
        <5>1. CASE a = c
          <6>1. result = 500 => pc[c] = "inject"
            BY <2>1 DEF Sequential!StatusOf
          <6> QED
            BY <2>1, <2>4, <2>7, <3>1, <5>1, <6>1
        <5>2. CASE a # c
          BY <1>i, <2>4, <3>1, <5>2 DEF Sequential!ErrorsHaveOrigin
        <5> QED
          BY <5>1, <5>2
      <4> QED
        BY <1>c, <2>2, <2>5, <2>8, <4>1
    <3> QED
      BY <3>1 DEF Sequential!ErrorsHaveOrigin
  <2>12. Sequential!NoneLeftBehind'
    <3>1. ASSUME NEW a \in Calls, pc'[a] = "done", NEW d \in Sequential!Children(a)
          PROVE  heard'[d] # NONE \/ pc'[d] = "idle"
      <4>1. heard[d] # NONE \/ pc[d] = "idle"
        <5>1. CASE a = c
          BY <2>7, <5>1
        <5>2. CASE a # c
          BY <1>i, <2>4, <3>1, <5>2 DEF Sequential!NoneLeftBehind
        <5> QED
          BY <5>1, <5>2
      <4>2. pc[d] = "idle" => d # c
        BY <2>1
      <4> QED
        BY <2>4, <2>5, <2>8, <4>1, <4>2
    <3> QED
      BY <3>1 DEF Sequential!NoneLeftBehind
  <2> QED
    BY <2>3, <2>9, <2>10, <2>11, <2>12 DEF Sequential!CallsInv
<1> QED
  BY <1>1, <1>2, <1>3, <1>4, <1>5, <1>6 DEF Sequential!Next, Sequential!Handle

-----------------------------------------------------------------------------
(* The trace graph *)

\* The types of what the store holds of a trace.
SpanTypeOK ==
    /\ live \subseteq TraceIds
    /\ spans \in [TraceIds -> SUBSET Span]
    /\ linked \in [TraceIds -> SUBSET SpanIds]
    /\ batch \in Seq(Span) \cup {NONE}

\* A trace outside the store holds nothing.
EmptyOutside == \A t \in TraceIds \ live : spans[t] = {} /\ linked[t] = {}

\* The children whose parent is among the spans.
Waiting(set) == {s.id : s \in {c \in set : c.parent \in {p.id : p \in set}}}

\* A child is linked exactly when its parent is there.
LinkInv ==
    /\ SpanTypeOK
    /\ EmptyOutside
    /\ SpansDistinct
    /\ \A t \in TraceIds : linked[t] = Waiting(spans[t])


\* Adding a span of a new identifier to a set whose links are complete: the
\* links it completes are all that is missing.
LEMMA NewLinksComplete ==
    ASSUME NEW set \in SUBSET Span, NEW s \in Span,
           s.id \notin {r.id : r \in set},
           \A q, r \in set : q.id = r.id => q = r
    PROVE  Waiting(set \cup {s})
             = Waiting(set) \cup {c.id : c \in NewLinks(set \cup {s}, Waiting(set), s)}
<1> DEFINE all == set \cup {s}
<1> DEFINE new == NewLinks(all, Waiting(set), s)
<1>1. Waiting(set) \subseteq Waiting(all)
  BY DEF Waiting
<1>2. {c.id : c \in new} \subseteq Waiting(all)
  BY DEF NewLinks, Linkable, Waiting
<1>3. ASSUME NEW c \in all, c.parent \in {p.id : p \in all}
      PROVE  c.id \in Waiting(set) \/ c \in new
  <2>1. CASE c = s
    <3>1. s.id \notin Waiting(set)
      BY DEF Waiting
    <3> QED
      BY <1>3, <2>1, <3>1 DEF NewLinks, Linkable
  <2>2. CASE c # s /\ c.parent = s.id
    <3>1. c.id \in Waiting(set) \/ c.id \notin Waiting(set)
      OBVIOUS
    <3> QED
      BY <1>3, <2>2, <3>1 DEF NewLinks, Linkable
  <2>3. CASE c # s /\ c.parent # s.id
    <3>1. c \in set /\ c.parent \in {p.id : p \in set}
      BY <1>3, <2>3
    <3> QED
      BY <3>1 DEF Waiting
  <2> QED
    BY <2>1, <2>2, <2>3
<1>4. Waiting(all) \subseteq Waiting(set) \cup {c.id : c \in new}
  BY <1>3 DEF Waiting
<1> QED
  BY <1>1, <1>2, <1>4

\* Dropping traces keeps what the invariant says of each trace.
LEMMA DropKeeps ==
    ASSUME NEW gone \in SUBSET live, LinkInv, Drop(gone), live' = live \ gone,
           batch' \in Seq(Span) \cup {NONE}
    PROVE  LinkInv'
<1> USE DEF LinkInv, SpanTypeOK
<1>1. \A t \in TraceIds : /\ spans'[t] = IF t \in gone THEN {} ELSE spans[t]
                          /\ linked'[t] = IF t \in gone THEN {} ELSE linked[t]
  BY DEF Drop
<1>2. SpanTypeOK'
  BY DEF Drop
<1>3. EmptyOutside'
  BY <1>1 DEF EmptyOutside
<1>4. SpansDistinct'
  BY <1>1 DEF SpansDistinct
<1>5. \A t \in TraceIds : linked'[t] = Waiting(spans'[t])
  <2>1. Waiting({}) = {}
    BY DEF Waiting
  <2> QED
    BY <1>1, <2>1
<1> QED
  BY <1>2, <1>3, <1>4, <1>5

\* So does taking in a span, in whatever place of its trace.
LEMMA TakeKeeps ==
    ASSUME GraphAssumption, LinkInv, Take
    PROVE  LinkInv'
<1> USE DEF LinkInv, SpanTypeOK
<1> DEFINE s == Head(batch)
           t0 == s.trace
           gone == Evicted(t0)
           set == spans[t0] \cup {s}
           links == NewLinks(set, linked[t0], s)
<1>1. batch \in Seq(Span) /\ s \in Span /\ batch' \in Seq(Span) /\ t0 \in TraceIds
  <2>1. batch # NONE /\ batch # <<>> /\ batch' = Tail(batch)
    BY DEF Take
  <2>2. batch \in Seq(Span)
    BY <2>1
  <2>3. s \in Span /\ Tail(batch) \in Seq(Span)
    BY <2>1, <2>2
  <2>4. t0 \in TraceIds
    BY <2>3 DEF Span
  <2> QED
    BY <2>1, <2>2, <2>3, <2>4
<1>2. live' = (live \ gone) \cup {t0} /\ gone \subseteq live \ {t0}
  BY DEF Take, Evicted, Oldest
<1>3. CASE ~Fresh(s)
  <2>1. spans' = spans /\ linked' = linked
    BY <1>3 DEF Take
  <2>2. t0 \in live
    BY <1>1, <1>3 DEF EmptyOutside, Fresh, Ids
  <2>3. gone = {}
    BY <2>2 DEF Evicted
  <2>4. live' = live
    BY <1>2, <2>2, <2>3
  <2> QED
    BY <1>1, <2>1, <2>4 DEF EmptyOutside, SpansDistinct
<1>4. CASE Fresh(s)
  <2>1. /\ spans' = [t \in TraceIds |-> IF t = t0 THEN set
                                        ELSE IF t \in gone THEN {} ELSE spans[t]]
        /\ linked' = [t \in TraceIds |->
                         IF t = t0 THEN linked[t] \cup {c.id : c \in links}
                         ELSE IF t \in gone THEN {} ELSE linked[t]]
    BY <1>4 DEF Take
  <2>2. \A c \in links : c.id \in SpanIds
    BY <1>1 DEF NewLinks, Linkable, Span
  <2>3. SpanTypeOK'
    <3>1. set \in SUBSET Span
      BY <1>1
    <3>2. spans' \in [TraceIds -> SUBSET Span]
      BY <2>1, <3>1
    <3>3. {c.id : c \in links} \in SUBSET SpanIds
      <4> HIDE DEF links, LinkInv, SpanTypeOK
      <4> QED
        BY <2>2
    <3>4. linked' \in [TraceIds -> SUBSET SpanIds]
      BY <2>1, <3>3
    <3>5. live' \subseteq TraceIds
      BY <1>1, <1>2
    <3> QED
      BY <1>1, <3>2, <3>4, <3>5
  <2>4. EmptyOutside'
    BY <1>2, <2>1 DEF EmptyOutside
  <2>5. SpansDistinct'
    BY <1>1, <1>4, <2>1 DEF SpansDistinct, Fresh, Ids
  <2>6. Waiting(set) = linked[t0] \cup {c.id : c \in links}
    <3>1. s.id \notin {r.id : r \in spans[t0]}
      BY <1>4 DEF Fresh, Ids
    <3>2. \A q, r \in spans[t0] : q.id = r.id => q = r
      BY <1>1 DEF SpansDistinct
    <3>3. spans[t0] \in SUBSET Span /\ linked[t0] = Waiting(spans[t0])
      BY <1>1
    <3>4. Waiting(set) = Waiting(spans[t0])
                           \cup {c.id : c \in NewLinks(set, Waiting(spans[t0]), s)}
      <4> DEFINE old == spans[t0]
      <4>1. /\ old \in SUBSET Span /\ s \in Span
            /\ s.id \notin {r.id : r \in old}
            /\ \A q, r \in old : q.id = r.id => q = r
        BY <1>1, <3>1, <3>2, <3>3
      <4> HIDE DEF old, s, LinkInv, SpanTypeOK
      <4>2. Waiting(old \cup {s})
              = Waiting(old) \cup {c.id : c \in NewLinks(old \cup {s}, Waiting(old), s)}
        BY <4>1, NewLinksComplete
      <4> QED
        BY <4>2 DEF old
    <3> QED
      BY <3>3, <3>4
  <2>7. ASSUME NEW t \in TraceIds
        PROVE  linked'[t] = Waiting(spans'[t])
    <3>1. CASE t = t0
      BY <2>1, <2>6, <3>1
    <3>2. CASE t # t0 /\ t \in gone
      <4>1. spans'[t] = {} /\ linked'[t] = {}
        BY <2>1, <3>2
      <4> QED
        BY <4>1 DEF Waiting
    <3>3. CASE t # t0 /\ t \notin gone
      <4>1. spans'[t] = spans[t] /\ linked'[t] = linked[t]
        BY <2>1, <3>3
      <4> QED
        BY <4>1
    <3> QED
      BY <3>1, <3>2, <3>3
  <2> QED
    BY <2>3, <2>4, <2>5, <2>7
<1> QED
  BY <1>3, <1>4

\* An empty store links nothing.
LEMMA InitLinkInv == Init => LinkInv
  BY DEF Init, LinkInv, SpanTypeOK, EmptyOutside, SpansDistinct, Waiting

\* Whatever the store does next.
LEMMA NextLinkInv ==
    ASSUME GraphAssumption, LinkInv, [Next]_vars
    PROVE  LinkInv'
<1>1. CASE Begin
  BY <1>1, DropKeeps DEF Begin, Cleanup, Expired, GraphAssumption
<1>2. CASE Take
  BY <1>2, TakeKeeps
<1>3. CASE End
  BY <1>3 DEF End, store, LinkInv, SpanTypeOK, EmptyOutside, SpansDistinct
<1>4. CASE Read
  BY <1>4, DropKeeps DEF Read, Cleanup, Expired, LinkInv, SpanTypeOK
<1>5. CASE Reset
  BY <1>5, DropKeeps DEF Reset, LinkInv, SpanTypeOK
<1>6. CASE Tick
  BY <1>6 DEF Tick, store, LinkInv, SpanTypeOK, EmptyOutside, SpansDistinct
<1>7. CASE UNCHANGED vars
  BY <1>7 DEF vars, store, LinkInv, SpanTypeOK, EmptyOutside, SpansDistinct
<1> QED
  BY <1>1, <1>2, <1>3, <1>4, <1>5, <1>6, <1>7 DEF Next


\* The links are right as long as the store runs.
LEMMA LinkInvHolds == Spec => []LinkInv
<1> USE GraphAssumption
<1>1. Init => LinkInv
  BY InitLinkInv
<1>2. LinkInv /\ [Next]_vars => LinkInv'
  BY NextLinkInv
<1> QED
  BY <1>1, <1>2, PTL DEF Spec

\* In every trace the linked children are those whose parent has arrived.
THEOREM GraphLinksExactly == Spec => []LinkedExactly
<1>1. LinkInv => LinkedExactly
  BY DEF LinkInv, LinkedExactly, Waiting, Ids
<1> QED
  BY <1>1, LinkInvHolds, PTL

\* No span identifier is used twice in a trace.
THEOREM GraphSpansDistinct == Spec => []SpansDistinct
<1>1. LinkInv => SpansDistinct
  BY DEF LinkInv
<1> QED
  BY <1>1, LinkInvHolds, PTL

-----------------------------------------------------------------------------
(* What was seen, and the bound of the store *)

\* A set of natural numbers has a least one, and a bounded one a greatest.
LEMMA LeastAndGreatest ==
    ASSUME NEW S \in SUBSET Nat, S # {}
    PROVE  /\ \E x \in S : \A y \in S : x <= y
           /\ \A b \in Nat : S \subseteq 0..b => \E x \in S : \A y \in S : y <= x
<1>1. ASSUME NEW T \in SUBSET Nat, T # {} PROVE \E x \in T : \A y \in T : x <= y
  <2>1. IsWellFoundedOn(OpToRel(<, Nat), Nat)
    BY NatLessThanWellFounded
  <2>2. PICK x \in T : \A y \in T : <<y, x>> \notin OpToRel(<, Nat)
    BY <1>1, <2>1, WFMin
  <2>3. \A y \in T : ~(y < x)
    BY <2>2 DEF OpToRel
  <2>4. \A y \in T : x \in Nat /\ y \in Nat
    OBVIOUS
  <2> QED
    BY <2>3, <2>4
<1>2. ASSUME NEW b \in Nat, S \subseteq 0..b PROVE \E x \in S : \A y \in S : y <= x
  <2> DEFINE T == {b - x : x \in S}
  <2>1. \A x \in S : x \in Nat /\ x <= b /\ b - x \in Nat
    BY <1>2
  <2>2. T \in SUBSET Nat /\ T # {}
    BY <2>1
  <2>3. PICK z \in T : \A y \in T : z <= y
    <3> HIDE DEF T
    <3> QED
      BY <1>1, <2>2
  <2>4. PICK x \in S : z = b - x
    OBVIOUS
  <2>5. \A y \in S : b - x <= b - y
    BY <2>3, <2>4
  <2>6. \A y \in S : y <= x
    BY <2>1, <2>5
  <2> QED
    BY <2>6
<1> QED
  BY <1>1, <1>2

\* The least and the greatest time of some times.
LEMMA FirstAndLast ==
    ASSUME NEW S \in SUBSET Times, S # {}
    PROVE  /\ Min(S) \in S /\ Max(S) \in S
           /\ \A x \in S : Min(S) <= x /\ x <= Max(S)
<1>1. MaxTime \in Nat /\ S \in SUBSET Nat /\ S \subseteq 0..MaxTime
  BY GraphAssumption DEF GraphAssumption, Times
<1>2. /\ \E x \in S : \A y \in S : x <= y
      /\ \E x \in S : \A y \in S : y <= x
  BY <1>1, LeastAndGreatest
<1>3. Min(S) \in S /\ \A x \in S : Min(S) <= x
  BY <1>2 DEF Min
<1>4. Max(S) \in S /\ \A x \in S : x <= Max(S)
  <2>1. PICK m \in S : \A y \in S : y <= m
    BY <1>2
  <2> QED
    BY <1>1, <2>1 DEF Max
<1> QED
  BY <1>3, <1>4

\* A full store has a least recently updated trace.
LEMMA OldestThere ==
    ASSUME LinkInv, StoreInv, live # {}
    PROVE  Oldest # {}
<1>1. /\ live \subseteq TraceIds /\ \A t \in live : updated[t] \in Nat /\ Rank[t] \in Nat
      /\ \A t, u \in live : Rank[t] = Rank[u] => t = u
  BY GraphAssumption DEF GraphAssumption, LinkInv, SpanTypeOK, StoreInv, Times
<1> DEFINE S == {updated[t] : t \in live}
<1>2. S \in SUBSET Nat /\ S # {}
  BY <1>1
<1>3. PICK a \in S : \A y \in S : a <= y
  <2> HIDE DEF S
  <2> QED
    BY <1>2, LeastAndGreatest
<1> DEFINE R == {Rank[t] : t \in {t \in live : updated[t] = a}}
<1>4. R \in SUBSET Nat /\ R # {}
  BY <1>1
<1>5. PICK r \in R : \A y \in R : r <= y
  <2> HIDE DEF R
  <2> QED
    BY <1>4, LeastAndGreatest
<1>6. PICK t \in live : updated[t] = a /\ Rank[t] = r
  OBVIOUS
<1>7. ASSUME NEW u \in live \ {t}
      PROVE  updated[t] < updated[u] \/ (updated[t] = updated[u] /\ Rank[t] < Rank[u])
  <2>1. a <= updated[u]
    BY <1>3
  <2>2. updated[u] = a => r <= Rank[u]
    BY <1>5
  <2>3. Rank[u] # Rank[t]
    BY <1>1
  <2> HIDE DEF S, R
  <2> QED
    BY <1>1, <1>6, <2>1, <2>2, <2>3
<1> QED
  BY <1>6, <1>7 DEF Oldest

\* Dropping traces of the store leaves nothing of them to be known.
LEMMA DropHistory ==
    ASSUME NEW gone \in SUBSET live, LinkInv, HistoryInv, Drop(gone),
           now' = now, seen' = seen
    PROVE  HistoryInv'
<1>1. /\ live \subseteq TraceIds /\ spans \in [TraceIds -> SUBSET Span]
      /\ episode \in [TraceIds -> Nat] /\ seen \subseteq [span : Span, episode : Nat]
      /\ \A c \in seen : c.episode <= episode[c.span.trace]
      /\ \A t \in TraceIds, s \in Span :
           s \in spans[t] <=> s.trace = t /\ Entry(s, episode[t]) \in seen
  BY DEF LinkInv, SpanTypeOK, HistoryInv
<1>2. /\ episode' \in [TraceIds -> Nat]
      /\ \A t \in TraceIds : /\ spans'[t] = IF t \in gone THEN {} ELSE spans[t]
                             /\ episode'[t] = IF t \in gone THEN episode[t] + 1 ELSE episode[t]
  BY <1>1 DEF Drop
<1>3. \A c \in seen : c.span.trace \in TraceIds /\ c.episode \in Nat
  BY <1>1 DEF Span
<1>4. \A t \in TraceIds : episode[t] \in Nat
  BY <1>1
<1>5. \A c \in seen : c.episode <= episode'[c.span.trace]
  BY <1>1, <1>2, <1>3, <1>4
<1>6. ASSUME NEW t \in TraceIds, NEW s \in Span
      PROVE  s \in spans'[t] <=> s.trace = t /\ Entry(s, episode'[t]) \in seen
  <2>1. CASE t \in gone
    <3>1. spans'[t] = {} /\ episode'[t] = episode[t] + 1
      BY <1>2, <2>1
    <3>2. Entry(s, episode[t] + 1) \in seen => s.trace # t
      <4>1. Entry(s, episode[t] + 1).episode = episode[t] + 1
            /\ Entry(s, episode[t] + 1).span = s
        BY DEF Entry
      <4>2. ASSUME Entry(s, episode[t] + 1) \in seen, s.trace = t PROVE FALSE
        <5>1. episode[t] + 1 <= episode[t]
          BY <1>1, <4>1, <4>2
        <5> QED
          BY <1>4, <5>1
      <4> QED
        BY <4>2
    <3> QED
      BY <3>1, <3>2
  <2>2. CASE t \notin gone
    BY <1>1, <1>2, <2>2
  <2> QED
    BY <2>1, <2>2
<1> QED
  BY <1>2, <1>5, <1>6 DEF HistoryInv

\* A span taken in adds itself to what was seen.
LEMMA TakeHistory ==
    ASSUME LinkInv, HistoryInv, Take
    PROVE  HistoryInv'
<1> DEFINE s == Head(batch)
           t0 == s.trace
           gone == Evicted(t0)
           set == spans[t0] \cup {s}
<1>1. s \in Span /\ t0 \in TraceIds
  <2>1. batch # NONE /\ batch # <<>> /\ batch \in Seq(Span)
    BY DEF Take, LinkInv, SpanTypeOK
  <2>2. s \in Span
    BY <2>1
  <2> QED
    BY <2>2 DEF Span
<1>2. gone \subseteq live \ {t0} /\ t0 \notin gone
  BY DEF Evicted, Oldest
<1>3. /\ live \subseteq TraceIds /\ spans \in [TraceIds -> SUBSET Span]
      /\ episode \in [TraceIds -> Nat] /\ seen \subseteq [span : Span, episode : Nat]
      /\ IsFiniteSet(seen) /\ now \in Times
      /\ \A c \in seen : c.episode <= episode[c.span.trace]
      /\ \A t \in TraceIds, r \in Span :
           r \in spans[t] <=> r.trace = t /\ Entry(r, episode[t]) \in seen
      /\ \A c, d \in seen : c.episode = d.episode /\ c.span.trace = d.span.trace
                            /\ c.span.id = d.span.id => c = d
  BY DEF LinkInv, SpanTypeOK, HistoryInv
<1>4. now' = now /\ episode' = [t \in TraceIds |-> IF t \in gone THEN episode[t] + 1 ELSE episode[t]]
  BY DEF Take
<1>5. CASE ~Fresh(s)
  <2>1. spans' = spans /\ seen' = seen
    BY <1>5 DEF Take
  <2>2. t0 \in live
    BY <1>1, <1>5 DEF LinkInv, EmptyOutside, Fresh, Ids
  <2>3. gone = {}
    BY <2>2 DEF Evicted
  <2>4. episode' = episode
    BY <1>3, <1>4, <2>3
  <2> QED
    BY <1>3, <1>4, <2>1, <2>4 DEF HistoryInv
<1>6. CASE Fresh(s)
  <2> DEFINE new == Entry(s, episode[t0])
  <2>1. spans' = [t \in TraceIds |-> IF t = t0 THEN set ELSE IF t \in gone THEN {} ELSE spans[t]]
        /\ seen' = seen \cup {new}
    BY <1>6 DEF Take, Entry
  <2>2. /\ episode' \in [TraceIds -> Nat] /\ episode'[t0] = episode[t0]
        /\ \A t \in TraceIds : episode[t] \in Nat
        /\ \A t \in TraceIds : episode'[t] = IF t \in gone THEN episode[t] + 1 ELSE episode[t]
    BY <1>1, <1>2, <1>3, <1>4
  <2>3. /\ new \in [span : Span, episode : Nat] /\ new.span = s /\ new.episode = episode[t0]
    BY <1>1, <2>2 DEF Entry
  <2>4. \A c \in seen : c.span.trace \in TraceIds /\ c.span \in Span /\ c.episode \in Nat
                        /\ c = Entry(c.span, c.episode)
    BY <1>3 DEF Span, Entry
  <2>5. \A c \in seen' : c.episode <= episode'[c.span.trace]
    <3>1. new.episode <= episode'[new.span.trace]
      BY <1>1, <2>2, <2>3
    <3>2. \A c \in seen : c.episode <= episode'[c.span.trace]
      BY <1>3, <2>2, <2>4
    <3> HIDE DEF new
    <3> QED
      BY <2>1, <3>1, <3>2
  <2>6. ASSUME NEW c \in seen, c.episode = episode[t0], c.span.trace = t0
        PROVE  c.span.id # s.id
    <3>1. c.span \in spans[t0]
      BY <1>1, <1>3, <2>4, <2>6
    <3> QED
      BY <1>6, <3>1 DEF Fresh, Ids
  <2>7. \A c, d \in seen' : c.episode = d.episode /\ c.span.trace = d.span.trace
                            /\ c.span.id = d.span.id => c = d
    <3> HIDE DEF new
    <3> QED
      BY <1>3, <2>1, <2>3, <2>6
  <2>8. IsFiniteSet(seen')
    BY <1>3, <2>1, FS_AddElement
  <2>9. ASSUME NEW t \in TraceIds, NEW r \in Span
        PROVE  r \in spans'[t] <=> r.trace = t /\ Entry(r, episode'[t]) \in seen'
    <3>0. Entry(r, episode'[t]) = new <=> r = s /\ episode'[t] = episode[t0]
      BY DEF Entry
    <3>1. CASE t = t0
      <4>1. spans'[t] = spans[t0] \cup {s} /\ episode'[t] = episode[t0]
        BY <2>1, <2>2, <3>1
      <4> HIDE DEF new
      <4> QED
        BY <1>3, <2>1, <3>0, <3>1, <4>1
    <3>2. CASE t # t0 /\ t \in gone
      <4>1. spans'[t] = {} /\ episode'[t] = episode[t] + 1
        BY <2>1, <2>2, <3>2
      <4>2. ASSUME r.trace = t, Entry(r, episode[t] + 1) \in seen' PROVE FALSE
        <5>1. Entry(r, episode[t] + 1).span = r /\ Entry(r, episode[t] + 1).episode = episode[t] + 1
          BY DEF Entry
        <5>2. Entry(r, episode[t] + 1) # new
          BY <2>3, <3>2, <4>2, <5>1
        <5>3. Entry(r, episode[t] + 1) \in seen
          BY <2>1, <4>2, <5>2
        <5>4. episode[t] + 1 <= episode[t]
          BY <1>3, <4>2, <5>1, <5>3
        <5> QED
          BY <2>2, <5>4
      <4> QED
        BY <4>1, <4>2
    <3>3. CASE t # t0 /\ t \notin gone
      <4>1. spans'[t] = spans[t] /\ episode'[t] = episode[t]
        BY <2>1, <2>2, <3>3
      <4>2. r.trace = t => Entry(r, episode[t]) # new
        BY <3>3 DEF Entry
      <4> HIDE DEF new
      <4> QED
        BY <1>3, <2>1, <4>1, <4>2
    <3> QED
      BY <3>1, <3>2, <3>3
  <2> QED
    BY <1>3, <1>4, <2>1, <2>2, <2>3, <2>5, <2>7, <2>8, <2>9 DEF HistoryInv
<1> QED
  BY <1>5, <1>6

-----------------------------------------------------------------------------
(* The edges *)

\* Without a span taken in the edges still count what was seen.
LEMMA EdgesStay ==
    ASSUME EdgesInv, UNCHANGED <<seen, edges, nodes>>,
           \A t \in TraceIds : spans'[t] \subseteq spans[t]
    PROVE  EdgesInv'
<1>1. \A a, b \in Services : CallsSeen(a, b)' = CallsSeen(a, b)
  BY DEF CallsSeen
<1>2. EdgesCountCalls' /\ EdgesSound'
  BY <1>1 DEF EdgesInv, EdgesCountCalls, EdgesSound
<1>3. \A t \in TraceIds : \A s \in spans'[t] : s.service \in nodes'
  BY DEF EdgesInv
<1>4. edges' \in [Pairs -> [n : Nat, first : Times, last : Times]]
  BY DEF EdgesInv
<1> QED
  BY <1>2, <1>3, <1>4 DEF EdgesInv

\* The links that a new span completes are the calls it makes known.
LEMMA LinksAreCalls ==
    ASSUME NEW old \in SUBSET Span, NEW s \in Span, s.id \notin {r.id : r \in old},
           \A q, r \in old : q.id = r.id => q = r,
           NEW set, set = old \cup {s}
    PROVE  /\ \A q, r \in set : q.id = r.id => q = r
           /\ NewLinks(set, Waiting(old), s)
                = {c \in set : /\ c.parent \in {p.id : p \in set}
                               /\ c = s \/ c.parent = s.id}
           /\ \A c \in set, p \in set : p.id = c.parent => ParentIn(set, c) = p
<1>1. \A q, r \in set : q.id = r.id => q = r
  OBVIOUS
<1>2. \A c \in set, p \in set : p.id = c.parent => ParentIn(set, c) = p
  <2> SUFFICES ASSUME NEW c \in set, NEW p \in set, p.id = c.parent
               PROVE  ParentIn(set, c) = p
    OBVIOUS
  <2> DEFINE q == CHOOSE q \in set : q.id = c.parent
  <2>1. q \in set /\ q.id = c.parent
    OBVIOUS
  <2>2. q = p
    <3> HIDE DEF q
    <3> QED
      BY <1>1, <2>1
  <2> QED
    BY <2>2 DEF ParentIn
<1>3. ASSUME NEW c \in set, c = s \/ c.parent = s.id
      PROVE  c.id \notin Waiting(old)
  <2> SUFFICES ASSUME NEW d \in old, d.id = c.id, NEW p \in old, d.parent = p.id PROVE FALSE
    BY DEF Waiting
  <2>1. d = c
    BY <1>1
  <2>2. c # s
    BY <2>1
  <2>3. p.id = s.id
    BY <1>3, <2>1, <2>2
  <2> QED
    BY <2>3
<1>4. \A c \in set : c.id = s.id <=> c = s
  BY <1>1
<1> DEFINE right == {c \in set : c.parent \in {p.id : p \in set} /\ (c = s \/ c.parent = s.id)}
<1>5. \A c \in set : c \in NewLinks(set, Waiting(old), s) <=> c \in right
  BY <1>3, <1>4 DEF NewLinks, Linkable
<1>6. NewLinks(set, Waiting(old), s) \subseteq set /\ right \subseteq set
  BY DEF NewLinks, Linkable
<1>7. NewLinks(set, Waiting(old), s) = right
  <2> HIDE DEF right
  <2> QED
    BY <1>5, <1>6
<1> QED
  BY <1>1, <1>2, <1>7

\* A span taken in adds to the edges the calls it makes known, each once.
LEMMA TakeEdges ==
    ASSUME LinkInv, HistoryInv, HistoryInv', EdgesInv, Take, Fresh(Head(batch))
    PROVE  EdgesInv'
<1> DEFINE s == Head(batch)
           t0 == s.trace
           e == episode[t0]
           old == spans[t0]
           set == old \cup {s}
           links == NewLinks(set, linked[t0], s)
<1>1. s \in Span /\ t0 \in TraceIds /\ old \in SUBSET Span /\ linked[t0] = Waiting(old)
      /\ spans \in [TraceIds -> SUBSET Span]
  <2>1. batch # NONE /\ batch # <<>> /\ batch \in Seq(Span)
    BY DEF Take, LinkInv, SpanTypeOK
  <2>2. s \in Span
    BY <2>1
  <2>3. spans \in [TraceIds -> SUBSET Span]
    BY DEF LinkInv, SpanTypeOK
  <2>4. t0 \in TraceIds
    BY <2>2 DEF Span
  <2>5. linked[t0] = Waiting(old)
    BY <2>4 DEF LinkInv
  <2> QED
    BY <2>2, <2>3, <2>4, <2>5
<1>2. s.id \notin {r.id : r \in old} /\ \A q, r \in old : q.id = r.id => q = r
  BY <1>1 DEF Fresh, Ids, LinkInv, SpansDistinct
<1>3. /\ \A q, r \in set : q.id = r.id => q = r
      /\ links = {c \in set : /\ c.parent \in {p.id : p \in set}
                              /\ c = s \/ c.parent = s.id}
      /\ \A c \in set, p \in set : p.id = c.parent => ParentIn(set, c) = p
  <2>1. links = NewLinks(set, Waiting(old), s) /\ set = old \cup {s}
    BY <1>1
  <2> HIDE DEF s, t0, old, set, links
  <2> QED
    BY <1>1, <1>2, <2>1, LinksAreCalls
<1>4. /\ Observe(set, links) /\ nodes' = nodes \cup {s.service}
      /\ seen' = seen \cup {Entry(s, e)} /\ now' = now
      /\ spans'[t0] = set
      /\ \A t \in TraceIds : (spans'[t] = set /\ t = t0) \/ spans'[t] \subseteq spans[t]
      /\ episode'[t0] = e
  <2>1. Observe(set, links) /\ nodes' = nodes \cup {s.service}
    BY DEF Take
  <2>2. seen' = seen \cup {Entry(s, e)} /\ now' = now
    BY DEF Take, Entry
  <2>3. spans' = [t \in TraceIds |-> IF t = t0 THEN set
                                     ELSE IF t \in Evicted(t0) THEN {} ELSE spans[t]]
    BY DEF Take
  <2>4. t0 \notin Evicted(t0)
    BY DEF Evicted, Oldest
  <2>5. episode' = [t \in TraceIds |-> IF t \in Evicted(t0) THEN episode[t] + 1 ELSE episode[t]]
    BY DEF Take
  <2>6. spans'[t0] = set /\ episode'[t0] = e
    BY <1>1, <2>3, <2>4, <2>5
  <2>7. \A t \in TraceIds : (spans'[t] = set /\ t = t0) \/ spans'[t] \subseteq spans[t]
    BY <2>3
  <2> HIDE DEF s, set, e, links
  <2> QED
    BY <2>1, <2>2, <2>6, <2>7
<1>5. \A c \in Span : c \in set <=> c.trace = t0 /\ Entry(c, e) \in seen'
  BY <1>1, <1>4 DEF HistoryInv
<1>6. \A c \in Span : c \in old <=> c.trace = t0 /\ Entry(c, e) \in seen
  BY <1>1 DEF HistoryInv
<1>7. /\ seen' \subseteq [span : Span, episode : Nat] /\ IsFiniteSet(seen) /\ e \in Nat
      /\ seen \subseteq [span : Span, episode : Nat] /\ now \in Times
  BY <1>1 DEF HistoryInv
<1>8. \A x \in seen' : x.span \in Span /\ x = Entry(x.span, x.episode)
  BY <1>7 DEF Entry
<1>9. \A c : Entry(c, e).span = c /\ Entry(c, e).episode = e
  BY DEF Entry
<1> DEFINE Made(a, b) == {c \in links : EdgeOf(set, c) = <<a, b>> /\ a # b}
<1>10. \A c \in links : /\ c \in set /\ c \in Span /\ ParentIn(set, c) \in set
                        /\ ParentIn(set, c).id = c.parent
                        /\ ParentIn(set, c) \in Span
  <2> SUFFICES ASSUME NEW c \in links
               PROVE  /\ c \in set /\ c \in Span /\ ParentIn(set, c) \in set
                      /\ ParentIn(set, c).id = c.parent /\ ParentIn(set, c) \in Span
    OBVIOUS
  <2>1. c \in set /\ \E p \in set : p.id = c.parent
    BY <1>3
  <2>2. PICK p \in set : p.id = c.parent
    BY <2>1
  <2>3. ParentIn(set, c) = p
    BY <1>3, <2>1, <2>2
  <2> QED
    BY <1>1, <2>1, <2>2, <2>3
<1> HIDE DEF s, t0, e, old, set, links
<1>11. ASSUME NEW a \in Services, NEW b \in Services, a # b
       PROVE  CallsSeen(a, b)' = CallsSeen(a, b) \cup {Entry(c, e) : c \in Made(a, b)}
  <2>1. CallsSeen(a, b) \subseteq CallsSeen(a, b)'
    BY <1>4 DEF CallsSeen
  <2>2. ASSUME NEW c \in Made(a, b) PROVE Entry(c, e) \in CallsSeen(a, b)'
    <3> DEFINE p == ParentIn(set, c)
    <3>1. c \in set /\ p \in set /\ p.id = c.parent /\ c \in Span /\ p \in Span
      BY <1>10
    <3>2. p.service = a /\ c.service = b
      BY DEF EdgeOf
    <3> HIDE DEF p
    <3>3. /\ Entry(c, e) \in seen' /\ Entry(p, e) \in seen' /\ c.trace = t0 /\ p.trace = t0
      BY <1>5, <3>1
    <3> QED
      BY <1>9, <3>1, <3>2, <3>3 DEF CallsSeen
  <2>3. ASSUME NEW x \in CallsSeen(a, b)', x \notin CallsSeen(a, b)
        PROVE  \E c \in Made(a, b) : x = Entry(c, e)
    <3>1. /\ x \in seen' /\ x.span.service = b
          /\ \E y \in seen' : /\ y.episode = x.episode /\ y.span.trace = x.span.trace
                              /\ y.span.id = x.span.parent /\ y.span.service = a
      BY <2>3 DEF CallsSeen
    <3>2. PICK y \in seen' : /\ y.episode = x.episode /\ y.span.trace = x.span.trace
                             /\ y.span.id = x.span.parent /\ y.span.service = a
      BY <3>1
    <3>3. x \notin seen \/ y \notin seen
      BY <2>3, <3>1, <3>2 DEF CallsSeen
    <3>4. x = Entry(s, e) \/ y = Entry(s, e)
      BY <1>4, <3>1, <3>2, <3>3
    <3>5. x.episode = e /\ y.episode = e /\ x.span.trace = t0 /\ y.span.trace = t0
          /\ (x.span = s \/ y.span = s)
      BY <1>9, <3>2, <3>4 DEF t0
    <3>6. x.span \in set /\ y.span \in set /\ x = Entry(x.span, e)
      BY <1>5, <1>8, <3>1, <3>2, <3>5
    <3>7. x.span \in links
      BY <1>3, <3>2, <3>5, <3>6
    <3>8. ParentIn(set, x.span) = y.span
      BY <1>3, <3>2, <3>6
    <3>9. EdgeOf(set, x.span) = <<a, b>>
      BY <3>1, <3>2, <3>8 DEF EdgeOf
    <3> QED
      BY <1>11, <3>6, <3>7, <3>9
  <2> HIDE DEF Made
  <2>4. CallsSeen(a, b)' \subseteq CallsSeen(a, b) \cup {Entry(c, e) : c \in Made(a, b)}
    BY <2>3
  <2>5. {Entry(c, e) : c \in Made(a, b)} \subseteq CallsSeen(a, b)'
    BY <2>2
  <2> QED
    BY <2>1, <2>4, <2>5
<1>12. ASSUME NEW a \in Services, NEW b \in Services, NEW c \in Made(a, b)
       PROVE  Entry(c, e) \notin CallsSeen(a, b)
  <2> SUFFICES ASSUME Entry(c, e) \in CallsSeen(a, b) PROVE FALSE
    OBVIOUS
  <2>1. PICK y \in seen : Entry(c, e) \in seen /\ y.episode = e /\ y.span.trace = c.trace
                          /\ y.span.id = c.parent
    BY <1>9 DEF CallsSeen
  <2>2. c \in set /\ c \in Span /\ (c = s \/ c.parent = s.id)
    BY <1>3, <1>10
  <2>3. c.trace = t0
    BY <1>5, <2>2
  <2>4. c \in old
    BY <1>6, <2>1, <2>2, <2>3
  <2>5. y.span \in old
    <3>1. y \in seen'
      BY <1>4
    <3> QED
      BY <1>6, <1>8, <2>1, <2>3, <3>1
  <2> QED
    BY <1>2, <2>1, <2>2, <2>4, <2>5
<1>13. ASSUME NEW a \in Services, NEW b \in Services, a # b
       PROVE  /\ IsFiniteSet(Made(a, b)) /\ Cardinality(Made(a, b)) \in Nat
              /\ Cardinality(CallsSeen(a, b)')
                   = Cardinality(CallsSeen(a, b)) + Cardinality(Made(a, b))
              /\ Cardinality(CallsSeen(a, b)) \in Nat
  <2> DEFINE S == Made(a, b)
             T == {Entry(c, e) : c \in S}
             f == [c \in S |-> Entry(c, e)]
             A == CallsSeen(a, b)
             B == CallsSeen(a, b)'
  <2>1. f \in [S -> T] /\ \A z \in T : \E c \in S : f[c] = z
    OBVIOUS
  <2>2. \A c, d \in S : f[c] = f[d] => c = d
    <3>1. \A c \in S : f[c] = Entry(c, e)
      OBVIOUS
    <3> HIDE DEF f
    <3> QED
      BY <1>9, <3>1
  <2>3. A \subseteq seen /\ B = A \cup T /\ A \cap T = {}
    <3>1. A \cap T = {}
      BY <1>12
    <3>2. A \subseteq seen
      BY DEF CallsSeen
    <3> QED
      BY <1>11, <1>13, <3>1, <3>2
  <2>4. T \subseteq seen'
    <3>1. B \subseteq seen'
      BY DEF CallsSeen
    <3> HIDE DEF A, B, T
    <3> QED
      BY <2>3, <3>1
  <2>5. IsFiniteSet(seen')
    BY DEF HistoryInv
  <2> HIDE DEF S, T, f, A, B
  <2>6. IsFiniteSet(T) /\ IsFiniteSet(A)
    BY <1>7, <2>3, <2>4, <2>5, FS_Subset
  <2>7. IsFiniteSet(S) /\ Cardinality(S) = Cardinality(T)
    BY <2>1, <2>2, <2>6, SameNumber
  <2>8. Cardinality(B) = Cardinality(A) + Cardinality(T) - Cardinality({})
    BY <2>3, <2>6, FS_Union
  <2>9. Cardinality({}) = 0 /\ Cardinality(A) \in Nat /\ Cardinality(S) \in Nat
    BY <2>6, <2>7, FS_EmptySet, FS_CardinalityType
  <2>10. Cardinality(B) = Cardinality(A) + Cardinality(S)
    BY <2>7, <2>8, <2>9
  <2> QED
    BY <2>7, <2>9, <2>10 DEF S, A, B
<1>14. \A c \in links : ObservedAt(c) \in Times
  <2>1. \A c \in links : c.start \in Times
    BY <1>10 DEF Span
  <2> QED
    BY <1>7, <2>1 DEF ObservedAt
<1>15. ASSUME NEW a \in Services, NEW b \in Services
       PROVE  LET new == Made(a, b)
                  at == {ObservedAt(c) : c \in new}
                  was == edges[<<a, b>>]
              IN  edges'[<<a, b>>] =
                    IF new = {} THEN was
                    ELSE [n |-> was.n + Cardinality(new),
                          first |-> Min(at \cup (IF was.n = 0 THEN {} ELSE {was.first})),
                          last |-> Max(at \cup (IF was.n = 0 THEN {} ELSE {was.last}))]
  <2>1. <<a, b>> \in Pairs /\ <<a, b>>[1] = a /\ <<a, b>>[2] = b
    BY DEF Pairs
  <2> QED
    BY <1>4, <2>1 DEF Observe
<1>16. ASSUME NEW a \in Services, NEW b \in Services
       PROVE  /\ edges'[<<a, b>>] \in [n : Nat, first : Times, last : Times]
              /\ edges'[<<a, b>>].n = IF a = b THEN 0 ELSE Cardinality(CallsSeen(a, b)')
              /\ edges'[<<a, b>>].n > 0 => /\ a \in nodes' /\ b \in nodes'
                                           /\ edges'[<<a, b>>].first <= edges'[<<a, b>>].last
  <2> DEFINE was == edges[<<a, b>>]
  <2>1. /\ was \in [n : Nat, first : Times, last : Times]
        /\ was.n = IF a = b THEN 0 ELSE Cardinality(CallsSeen(a, b))
        /\ was.n > 0 => a \in nodes /\ b \in nodes /\ was.first <= was.last
    <3>1. <<a, b>> \in Pairs /\ <<a, b>>[1] = a /\ <<a, b>>[2] = b
      BY DEF Pairs
    <3> QED
      BY <3>1 DEF EdgesInv, EdgesCountCalls, EdgesSound
  <2>2. CASE Made(a, b) = {}
    <3>1. edges'[<<a, b>>] = was
      BY <1>15, <2>2
    <3>2. a # b => CallsSeen(a, b)' = CallsSeen(a, b)
      <4>1. {Entry(c, e) : c \in Made(a, b)} = {}
        BY <2>2
      <4> QED
        BY <1>11, <4>1
    <3>3. nodes \subseteq nodes'
      BY <1>4
    <3> HIDE DEF was
    <3> QED
      BY <2>1, <3>1, <3>2, <3>3
  <2>3. CASE Made(a, b) # {}
    <3>1. a # b
      BY <2>3
    <3> DEFINE new == Made(a, b)
               at == {ObservedAt(c) : c \in new}
               firsts == at \cup (IF was.n = 0 THEN {} ELSE {was.first})
               lasts == at \cup (IF was.n = 0 THEN {} ELSE {was.last})
    <3>2. edges'[<<a, b>>] = [n |-> was.n + Cardinality(new),
                              first |-> Min(firsts), last |-> Max(lasts)]
      BY <1>15, <2>3
    <3>3. at # {} /\ at \subseteq Times
      <4>1. new \subseteq links
        OBVIOUS
      <4> HIDE DEF new
      <4> QED
        BY <1>14, <2>3, <4>1 DEF new
    <3>4. was.n \in Nat /\ was.first \in Times /\ was.last \in Times
      BY <2>1
    <3> HIDE DEF was, at
    <3>5. firsts \in SUBSET Times /\ lasts \in SUBSET Times /\ firsts # {} /\ lasts # {}
          /\ at \subseteq firsts /\ at \subseteq lasts
      BY <3>3, <3>4
    <3> HIDE DEF firsts, lasts
    <3>6. /\ Min(firsts) \in Times /\ Max(lasts) \in Times
          /\ \A x \in at : Min(firsts) <= x /\ x <= Max(lasts)
      BY <3>5, FirstAndLast
    <3>7. Min(firsts) <= Max(lasts)
      <4>1. PICK x \in at : TRUE
        BY <3>3
      <4>2. Min(firsts) <= x /\ x <= Max(lasts) /\ x \in Times
        BY <3>3, <3>6, <4>1
      <4>3. \A y \in Times : y \in Nat
        BY GraphAssumption DEF GraphAssumption, Times
      <4> QED
        BY <3>6, <4>2, <4>3
    <3>8. a \in nodes' /\ b \in nodes'
      <4>1. PICK c \in new : TRUE
        BY <2>3
      <4> DEFINE p == ParentIn(set, c)
      <4>2. c \in set /\ p \in set
        BY <1>10, <4>1
      <4>3. p.service = a /\ c.service = b
        BY <4>1 DEF EdgeOf
      <4> HIDE DEF p
      <4>4. \A r \in set : r.service \in nodes'
        <5>1. \A r \in old : r.service \in nodes
          BY <1>1 DEF EdgesInv, old
        <5> QED
          BY <1>4, <5>1 DEF set
      <4> QED
        BY <4>2, <4>3, <4>4
    <3>9. /\ Cardinality(new) \in Nat
          /\ Cardinality(CallsSeen(a, b)') = Cardinality(CallsSeen(a, b)) + Cardinality(new)
      BY <1>13, <3>1
    <3> HIDE DEF new
    <3>10. was.n + Cardinality(new) \in Nat
           /\ was.n + Cardinality(new) = Cardinality(CallsSeen(a, b)')
      BY <2>1, <3>1, <3>4, <3>9 DEF was
    <3>11. /\ edges'[<<a, b>>].n = was.n + Cardinality(new)
           /\ edges'[<<a, b>>].first = Min(firsts) /\ edges'[<<a, b>>].last = Max(lasts)
      BY <3>2
    <3>12. edges'[<<a, b>>] \in [n : Nat, first : Times, last : Times]
      BY <3>2, <3>6, <3>10
    <3> QED
      BY <3>1, <3>7, <3>8, <3>10, <3>11, <3>12
  <2> QED
    BY <2>2, <2>3
<1>17. edges' \in [Pairs -> [n : Nat, first : Times, last : Times]]
  <2>1. \A x \in Pairs : edges'[x] \in [n : Nat, first : Times, last : Times]
    BY <1>16 DEF Pairs
  <2>2. edges' = [x \in Pairs |-> edges'[x]]
    BY <1>4 DEF Observe
  <2> QED
    BY <2>1, <2>2
<1>18. EdgesCountCalls'
  BY <1>16 DEF EdgesCountCalls
<1>19. EdgesSound'
  <2> SUFFICES ASSUME NEW x \in Pairs, edges'[x].n > 0
               PROVE  {x[1], x[2]} \subseteq nodes' /\ edges'[x].first <= edges'[x].last
    BY DEF EdgesSound
  <2>1. x = <<x[1], x[2]>> /\ x[1] \in Services /\ x[2] \in Services
    BY DEF Pairs
  <2> QED
    BY <1>16, <2>1
<1>20. \A t \in TraceIds : \A r \in spans'[t] : r.service \in nodes'
  <2>1. \A t \in TraceIds : \A r \in spans[t] : r.service \in nodes
    BY DEF EdgesInv
  <2>2. \A r \in set : r.service \in nodes'
    BY <1>1, <1>4, <2>1 DEF old, set
  <2> QED
    BY <1>4, <2>1, <2>2
<1> QED
  BY <1>17, <1>18, <1>19, <1>20 DEF EdgesInv

-----------------------------------------------------------------------------
(* Every operation of the store *)

\* What every step of the graph keeps.
GraphInv == LinkInv /\ HistoryInv /\ EdgesInv /\ StoreInv

\* Dropping traces keeps the bound of the store.
LEMMA DropStore ==
    ASSUME LinkInv, StoreInv, live' \subseteq live, UNCHANGED <<now, updated>>,
           nodes' \subseteq nodes, accepted' \in Seq([span : Span, episode : Nat])
    PROVE  StoreInv'
<1>1. IsFiniteSet(live') /\ Cardinality(live') <= Cardinality(live)
  BY FS_Subset DEF StoreInv
<1>2. Cardinality(live') \in Nat /\ Cardinality(live) \in Nat
  BY <1>1, FS_CardinalityType DEF StoreInv
<1>3. MaxTraces \in Nat
  BY GraphAssumption DEF GraphAssumption
<1>4. Cardinality(live') <= MaxTraces
  BY <1>1, <1>2, <1>3 DEF StoreInv
<1> QED
  BY <1>1, <1>4 DEF StoreInv

\* A trace taken in makes the store no larger than its bound.
LEMMA TakeStore ==
    ASSUME LinkInv, HistoryInv, StoreInv, Take
    PROVE  StoreInv'
<1> DEFINE s == Head(batch)
           t0 == s.trace
           gone == Evicted(t0)
<1>1. s \in Span /\ t0 \in TraceIds /\ s.service \in Services
  <2>1. batch # NONE /\ batch # <<>> /\ batch \in Seq(Span)
    BY DEF Take, LinkInv, SpanTypeOK
  <2>2. s \in Span
    BY <2>1
  <2> QED
    BY <2>2 DEF Span
<1>2. /\ live' = (live \ gone) \cup {t0} /\ now' = now
      /\ updated' = [updated EXCEPT ![t0] = now]
  BY DEF Take, Touched
<1>3. MaxTraces \in Nat \ {0} /\ now \in Times /\ Times \subseteq Nat
  BY GraphAssumption DEF GraphAssumption, HistoryInv, Times
<1>4. /\ IsFiniteSet(live) /\ Cardinality(live) <= MaxTraces /\ Cardinality(live) \in Nat
      /\ updated \in [TraceIds -> Times] /\ \A t \in TraceIds : updated[t] <= now
      /\ nodes \subseteq Services /\ accepted \in Seq([span : Span, episode : Nat])
  BY FS_CardinalityType DEF StoreInv
<1>5. updated' \in [TraceIds -> Times] /\ \A t \in TraceIds : updated'[t] <= now'
  <2>1. \A t \in TraceIds : updated'[t] = IF t = t0 THEN now ELSE updated[t]
    BY <1>2, <1>4
  <2>2. now <= now
    BY <1>3
  <2>3. updated' \in [TraceIds -> Times]
    BY <1>1, <1>2, <1>3, <1>4
  <2> QED
    BY <1>2, <1>4, <2>1, <2>2, <2>3
<1>6. nodes' \subseteq Services /\ accepted' \in Seq([span : Span, episode : Nat])
  <2>1. CASE Fresh(s)
    <3>1. /\ nodes' = nodes \cup {s.service}
          /\ accepted' = Append(accepted, [span |-> s, episode |-> episode[t0]])
      BY <2>1 DEF Take
    <3>2. episode[t0] \in Nat
      BY <1>1 DEF HistoryInv
    <3>3. [span |-> s, episode |-> episode[t0]] \in [span : Span, episode : Nat]
      BY <1>1, <3>2
    <3> HIDE DEF s, t0
    <3>4. \A S, list, x : list \in Seq(S) /\ x \in S => Append(list, x) \in Seq(S)
      OBVIOUS
    <3>5. accepted' \in Seq([span : Span, episode : Nat])
      BY <1>4, <3>1, <3>3, <3>4
    <3> QED
      BY <1>1, <1>4, <3>1, <3>5
  <2>2. CASE ~Fresh(s)
    BY <1>4, <2>2 DEF Take
  <2> QED
    BY <2>1, <2>2
<1>7. IsFiniteSet(live') /\ Cardinality(live') <= MaxTraces
  <2> DEFINE kept == live \ gone
  <2>1. IsFiniteSet(kept) /\ Cardinality(kept) \in Nat /\ Cardinality(kept) <= Cardinality(live)
        /\ (kept # live => Cardinality(kept) < Cardinality(live))
    <3>1. kept \in SUBSET live
      OBVIOUS
    <3> HIDE DEF kept
    <3>2. IsFiniteSet(kept) /\ Cardinality(kept) <= Cardinality(live)
          /\ (Cardinality(live) = Cardinality(kept) => live = kept)
      BY <1>4, <3>1, FS_Subset
    <3>3. Cardinality(kept) \in Nat
      BY <3>2, FS_CardinalityType
    <3> QED
      BY <1>4, <3>2, <3>3
  <2>2. /\ IsFiniteSet(kept \cup {t0})
        /\ Cardinality(kept \cup {t0})
             = IF t0 \in kept THEN Cardinality(kept) ELSE Cardinality(kept) + 1
    <3> HIDE DEF kept, t0
    <3> QED
      BY <2>1, FS_AddElement
  <2>3. CASE t0 \in live
    <3>1. gone = {} /\ t0 \in kept
      BY <2>3 DEF Evicted
    <3> QED
      BY <1>2, <1>3, <1>4, <2>1, <2>2, <3>1
  <2>4. CASE t0 \notin live /\ Cardinality(live) < MaxTraces
    BY <1>2, <1>3, <1>4, <2>1, <2>2, <2>4
  <2>5. CASE t0 \notin live /\ ~(Cardinality(live) < MaxTraces)
    <3>1. gone = Oldest /\ gone \subseteq live
      BY <2>5 DEF Evicted, Oldest
    <3>2. live # {}
      <4>1. Cardinality({}) = 0 /\ 0 < MaxTraces
        BY <1>3, FS_EmptySet
      <4>2. live = {} => Cardinality(live) < MaxTraces
        BY <4>1
      <4> QED
        BY <2>5, <4>2
    <3>3. gone # {}
      BY <3>1, <3>2, OldestThere
    <3>4. kept # live
      BY <3>1, <3>3
    <3> QED
      BY <1>2, <1>3, <1>4, <2>1, <2>2, <3>4
  <2> QED
    BY <2>3, <2>4, <2>5
<1> QED
  BY <1>5, <1>6, <1>7 DEF StoreInv

\* Every step of the graph keeps its invariant.
LEMMA GraphStep ==
    ASSUME GraphInv, [Next]_vars
    PROVE  GraphInv'
<1>0. LinkInv /\ HistoryInv /\ EdgesInv /\ StoreInv
  BY DEF GraphInv
<1>1. LinkInv'
  BY <1>0, GraphAssumption, NextLinkInv
<1>2. accepted \in Seq([span : Span, episode : Nat]) /\ <<>> \in Seq([span : Span, episode : Nat])
  BY <1>0 DEF StoreInv
<1>3. CASE Begin \/ Read
  <2>1. /\ Drop(Expired) /\ live' = live \ Expired /\ Expired \in SUBSET live
        /\ UNCHANGED <<now, updated, nodes, edges, seen>>
        /\ accepted' \in Seq([span : Span, episode : Nat])
    BY <1>2, <1>3 DEF Begin, Read, Cleanup, Expired
  <2>2. \A t \in TraceIds : spans'[t] \subseteq spans[t]
    BY <2>1 DEF Drop
  <2>3. EdgesInv'
    BY <1>0, <2>1, <2>2, EdgesStay
  <2>4. HistoryInv' /\ StoreInv'
    BY <1>0, <2>1, DropHistory, DropStore
  <2> QED
    BY <1>1, <2>3, <2>4 DEF GraphInv
<1>4. CASE Take
  <2>1. HistoryInv' /\ StoreInv'
    BY <1>0, <1>4, TakeHistory, TakeStore
  <2>2. CASE Fresh(Head(batch))
    BY <1>0, <1>1, <1>4, <2>1, <2>2, TakeEdges DEF GraphInv
  <2>3. CASE ~Fresh(Head(batch))
    <3>1. UNCHANGED <<seen, edges, nodes, spans>>
      BY <1>4, <2>3 DEF Take
    <3>2. EdgesInv'
      BY <1>0, <3>1, EdgesStay
    <3> QED
      BY <1>1, <2>1, <3>2 DEF GraphInv
  <2> QED
    BY <2>2, <2>3
<1>5. CASE End \/ UNCHANGED vars
  <2>1. UNCHANGED <<now, live, spans, updated, nodes, edges, accepted, episode, seen>>
    BY <1>5 DEF End, vars, store, history
  <2>2. HistoryInv'
    BY <1>0, <2>1 DEF HistoryInv
  <2>3. EdgesInv'
    BY <1>0, <2>1, EdgesStay
  <2>4. StoreInv'
    BY <1>0, <2>1 DEF StoreInv
  <2> QED
    BY <1>1, <2>2, <2>3, <2>4 DEF GraphInv
<1>6. CASE Reset
  <2>1. /\ live' = {} /\ nodes' = {} /\ edges' = [x \in Pairs |-> NoEdge] /\ Drop(live)
        /\ seen' = {} /\ UNCHANGED <<now, updated, accepted>>
    BY <1>6 DEF Reset
  <2>2. StoreInv'
    BY <1>0, <1>2, <2>1, DropStore
  <2>3. \A t \in TraceIds : spans'[t] = {}
    BY <1>0, <2>1 DEF Drop, LinkInv, EmptyOutside
  <2>4. episode' \in [TraceIds -> Nat] /\ now' \in Times
    BY <1>0, <2>1 DEF Drop, HistoryInv
  <2>5. HistoryInv'
    BY <2>1, <2>3, <2>4, FS_EmptySet DEF HistoryInv
  <2>6. EdgesInv'
    <3>1. NoEdge \in [n : Nat, first : Times, last : Times] /\ NoEdge.n = 0
      BY GraphAssumption DEF GraphAssumption, Times, NoEdge
    <3>2. edges' \in [Pairs -> [n : Nat, first : Times, last : Times]]
          /\ \A x \in Pairs : edges'[x].n = 0
      BY <2>1, <3>1
    <3>3. \A a, b \in Services : CallsSeen(a, b)' = {}
      BY <2>1 DEF CallsSeen
    <3>4. EdgesCountCalls'
      <4>1. \A a, b \in Services : <<a, b>> \in Pairs
        BY DEF Pairs
      <4> QED
        BY <3>2, <3>3, <4>1, FS_EmptySet DEF EdgesCountCalls
    <3>5. EdgesSound'
      BY <3>2 DEF EdgesSound
    <3> QED
      BY <2>3, <3>2, <3>4, <3>5 DEF EdgesInv
  <2> QED
    BY <1>1, <2>2, <2>5, <2>6 DEF GraphInv
<1>7. CASE Tick
  <2>1. /\ now' = now + 1 /\ now < MaxTime
        /\ UNCHANGED <<live, spans, updated, nodes, edges, accepted, episode, seen>>
    BY <1>7 DEF Tick, store, history
  <2>2. now \in Nat /\ MaxTime \in Nat /\ now' \in Times
        /\ \A t \in TraceIds : updated[t] <= now /\ updated[t] \in Nat
    BY <1>0, <2>1, GraphAssumption DEF GraphAssumption, HistoryInv, StoreInv, Times
  <2>3. HistoryInv'
    BY <1>0, <2>1, <2>2 DEF HistoryInv
  <2>4. EdgesInv'
    BY <1>0, <2>1, EdgesStay
  <2>5. \A t \in TraceIds : updated'[t] <= now'
    BY <2>1, <2>2
  <2>6. StoreInv'
    BY <1>0, <2>1, <2>5 DEF StoreInv
  <2> QED
    BY <1>1, <2>3, <2>4, <2>6 DEF GraphInv
<1> QED
  BY <1>3, <1>4, <1>5, <1>6, <1>7 DEF Next

\* An empty store.
LEMMA GraphStarts == Init => GraphInv
<1> SUFFICES ASSUME Init PROVE GraphInv
  OBVIOUS
<1>1. LinkInv
  BY InitLinkInv
<1>2. 1 \in Times /\ 0 \in Times /\ MaxTraces \in Nat
  BY GraphAssumption DEF GraphAssumption, Times
<1>3. IsFiniteSet({}) /\ Cardinality({}) = 0
  BY FS_EmptySet
<1>4. HistoryInv
  BY <1>2, <1>3 DEF Init, HistoryInv
<1>5. StoreInv
  <2>1. accepted \in Seq([span : Span, episode : Nat])
    BY DEF Init
  <2> QED
    BY <1>2, <1>3, <2>1 DEF Init, StoreInv
<1>6. EdgesInv
  <2>1. NoEdge \in [n : Nat, first : Times, last : Times] /\ NoEdge.n = 0
    BY <1>2 DEF NoEdge
  <2>2. edges \in [Pairs -> [n : Nat, first : Times, last : Times]]
        /\ \A x \in Pairs : edges[x].n = 0
    BY <2>1 DEF Init
  <2>3. \A a, b \in Services : CallsSeen(a, b) = {} /\ <<a, b>> \in Pairs
    BY DEF Init, CallsSeen, Pairs
  <2>4. \A a, b \in Services : edges[<<a, b>>].n = 0 /\ Cardinality(CallsSeen(a, b)) = 0
    BY <1>3, <2>2, <2>3
  <2>5. EdgesSound
    BY <2>2 DEF EdgesSound
  <2>6. EdgesCountCalls
    BY <2>4 DEF EdgesCountCalls
  <2> QED
    BY <2>2, <2>5, <2>6 DEF Init, EdgesInv
<1> QED
  BY <1>1, <1>4, <1>5, <1>6 DEF GraphInv

-----------------------------------------------------------------------------
(* The receiver: samples between the store and the detector *)

\* What is known after a step.
KnownNext(x) ==
    /\ x \in Sample /\ x.episode <= episode'[x.span.trace]
    /\ x.episode = episode'[x.span.trace] => x.span \in spans'[x.span.trace]

\* What is known stays known, or its trace is dropped.
LEMMA KnownStays ==
    ASSUME GraphInv, [Next]_vars
    PROVE  \A x : Known(x) => KnownNext(x)
<1> SUFFICES ASSUME NEW x, Known(x) PROVE KnownNext(x)
  OBVIOUS
<1>1. /\ x \in Sample /\ x.episode <= episode[x.span.trace]
      /\ x.episode = episode[x.span.trace] => x.span \in spans[x.span.trace]
      /\ x.span.trace \in TraceIds /\ x.episode \in Nat
  BY DEF Known, Sample, Span
<1>2. /\ episode[x.span.trace] \in Nat /\ live \subseteq TraceIds
      /\ episode \in [TraceIds -> Nat] /\ spans \in [TraceIds -> SUBSET Span]
  BY <1>1 DEF GraphInv, HistoryInv, LinkInv, SpanTypeOK
<1>3. \/ UNCHANGED <<spans, episode>>
      \/ \E gone \in SUBSET live : Drop(gone)
      \/ Take
  BY DEF Next, Begin, End, Read, Reset, Tick, Cleanup, Expired, vars, store, history
<1>4. CASE UNCHANGED <<spans, episode>>
  BY <1>1, <1>4 DEF Known, KnownNext
<1>5. ASSUME NEW gone \in SUBSET live, Drop(gone) PROVE KnownNext(x)
  <2>1. /\ spans'[x.span.trace] = IF x.span.trace \in gone THEN {} ELSE spans[x.span.trace]
        /\ episode'[x.span.trace] = IF x.span.trace \in gone THEN episode[x.span.trace] + 1
                                    ELSE episode[x.span.trace]
    BY <1>1, <1>5 DEF Drop
  <2> QED
    BY <1>1, <1>2, <2>1 DEF Known, KnownNext
<1>6. CASE Take
  <2> DEFINE s == Head(batch)
             gone == Evicted(s.trace)
  <2>1. /\ episode'[x.span.trace] = IF x.span.trace \in gone THEN episode[x.span.trace] + 1
                                    ELSE episode[x.span.trace]
        /\ \/ spans' = spans
           \/ spans' = [t \in TraceIds |-> IF t = s.trace THEN spans[s.trace] \cup {s}
                                           ELSE IF t \in gone THEN {} ELSE spans[t]]
    BY <1>1, <1>6 DEF Take
  <2>2. x.span.trace \notin gone => spans[x.span.trace] \subseteq spans'[x.span.trace]
    BY <1>1, <2>1
  <2> HIDE DEF gone
  <2> QED
    BY <1>1, <1>2, <2>1, <2>2 DEF Known, KnownNext
<1> QED
  BY <1>3, <1>4, <1>5, <1>6

\* A sample accepted by the store is known, and was not before.
LEMMA AcceptedIsNew ==
    ASSUME GraphInv, GraphInv', Take, Fresh(Head(batch))
    PROVE  LET x == Entry(Head(batch), episode[Head(batch).trace])
           IN  accepted' = Append(accepted, x) /\ KnownNext(x) /\ ~Known(x)
<1> DEFINE s == Head(batch)
           e == episode[s.trace]
           x == Entry(s, e)
<1>1. s \in Span /\ s.trace \in TraceIds
  <2>1. batch # NONE /\ batch # <<>> /\ batch \in Seq(Span)
    BY DEF Take, GraphInv, LinkInv, SpanTypeOK
  <2>2. s \in Span
    BY <2>1
  <2> QED
    BY <2>2 DEF Span
<1>2. e \in Nat
  BY <1>1 DEF GraphInv, HistoryInv
<1>3. x \in Sample /\ x.span = s /\ x.episode = e
  BY <1>1, <1>2 DEF Entry, Sample
<1>4. accepted' = Append(accepted, x) /\ seen' = seen \cup {x}
  BY DEF Take, Entry
<1>5. ~Known(x)
  BY <1>1, <1>3 DEF Known, Fresh, Ids
<1>6. KnownNext(x)
  <2>1. s.trace \notin Evicted(s.trace)
    BY DEF Evicted, Oldest
  <2>2. episode' = [t \in TraceIds |-> IF t \in Evicted(s.trace) THEN episode[t] + 1
                                       ELSE episode[t]]
    BY DEF Take
  <2>3. episode'[s.trace] = e
    BY <1>1, <2>1, <2>2
  <2>4. x \in seen'
    BY <1>4
  <2>5. s \in spans'[s.trace]
    BY <1>1, <2>3, <2>4 DEF GraphInv, HistoryInv
  <2> HIDE DEF x, e
  <2> QED
    BY <1>2, <1>3, <2>3, <2>5 DEF Known, KnownNext
<1> QED
  BY <1>4, <1>5, <1>6

\* Steps of the store that hand nothing over keep the samples known and apart.
LEMMA SamplesStay ==
    ASSUME GraphInv, [Next]_vars, SamplesKnown, HandedOnce,
           UNCHANGED <<phase, current, observed, export>>,
           \/ accepted' = accepted /\ (batch' # NONE => batch # NONE)
           \/ accepted' = <<>>,
           reader' \in [pc : {"idle", "graph", "samples", "answered"}, refs : SUBSET Sample,
                        traces : SUBSET Span],
           reader'.refs \subseteq reader.refs
    PROVE  SamplesKnown' /\ HandedOnce'
<1>1. \A x : Known(x) => KnownNext(x)
  BY KnownStays
<1>2. \A n \in DOMAIN accepted' : KnownNext(accepted'[n])
  BY <1>1 DEF SamplesKnown
<1>3. SamplesKnown'
  BY <1>1, <1>2 DEF SamplesKnown, Known, KnownNext
<1>4. HandedOnce'
  BY DEF HandedOnce, Once, Apart
<1> QED
  BY <1>3, <1>4

\* A sample accepted is nowhere else yet.
LEMMA IngestKeeps ==
    ASSUME GraphInv, GraphInv', SamplesKnown, HandedOnce, Ingest
    PROVE  SamplesKnown' /\ HandedOnce'
<1>0. Take /\ UNCHANGED <<phase, current, observed, export, reader>> /\ [Next]_vars
  BY DEF Ingest, detector, Next
<1>1. CASE ~Fresh(Head(batch))
  <2>1. accepted' = accepted /\ batch # NONE
    BY <1>0, <1>1 DEF Take
  <2> QED
    BY <1>0, <2>1, SamplesStay DEF SamplesKnown
<1>2. CASE Fresh(Head(batch))
  <2> DEFINE x == Entry(Head(batch), episode[Head(batch).trace])
  <2>1. accepted' = Append(accepted, x) /\ KnownNext(x) /\ ~Known(x) /\ batch # NONE
    BY <1>0, <1>2, AcceptedIsNew DEF Take
  <2>2. \A y : Known(y) => KnownNext(y)
    BY <1>0, KnownStays
  <2>3. accepted \in Seq(Sample) /\ \A n \in DOMAIN accepted : Known(accepted[n])
    BY DEF GraphInv, StoreInv, Sample, SamplesKnown
  <2> HIDE DEF x
  <2>4. \A n \in DOMAIN accepted' : \/ n \in DOMAIN accepted /\ accepted'[n] = accepted[n]
                                    \/ n = Len(accepted) + 1 /\ accepted'[n] = x
    BY <2>1, <2>3
  <2>5. SamplesKnown'
    <3>1. \A n \in DOMAIN accepted' : KnownNext(accepted'[n])
      BY <2>1, <2>2, <2>3, <2>4
    <3> QED
      BY <1>0, <2>2, <3>1 DEF SamplesKnown, Known, KnownNext
  <2>6. /\ \A n \in DOMAIN accepted : accepted[n] # x
        /\ \A n \in DOMAIN observed : observed[n] # x
        /\ \A t \in Threads : \A n \in DOMAIN export[t].todo : export[t].todo[n] # x
    BY <2>1, <2>3 DEF SamplesKnown
  <2>7. Once(accepted)'
    BY <2>1, <2>4, <2>6 DEF HandedOnce, Once
  <2>8. Apart(accepted, observed)' /\ \A t \in Threads : Apart(accepted, export[t].todo)'
    BY <1>0, <2>1, <2>4, <2>6 DEF HandedOnce, Apart
  <2>9. HandedOnce'
    BY <1>0, <2>7, <2>8 DEF HandedOnce, Once, Apart
  <2> QED
    BY <2>5, <2>9
<1> QED
  BY <1>1, <1>2

\* The batch is handed to its export with the lock.
LEMMA IngestedKeeps ==
    ASSUME GraphInv, SamplesKnown, HandedOnce, Ingested
    PROVE  SamplesKnown' /\ HandedOnce'
<1>1. /\ End /\ UNCHANGED <<phase, current, observed, reader>> /\ [Next]_vars
      /\ export' = [export EXCEPT ![owner] = [pc |-> "observe", todo |-> accepted]]
      /\ accepted' = accepted /\ batch # NONE /\ batch' = NONE
  <2>1. End /\ UNCHANGED <<phase, current, observed, reader>>
        /\ export' = [export EXCEPT ![owner] = [pc |-> "observe", todo |-> accepted]]
    BY DEF Ingested, detector
  <2>2. batch # NONE
    BY <2>1, GraphAssumption DEF End, GraphAssumption
  <2> QED
    BY <2>1, <2>2 DEF End, Next
<1>2. \A x : Known(x) => KnownNext(x)
  BY <1>1, KnownStays
<1>3. accepted \in Seq(Sample) /\ \A n \in DOMAIN accepted : Known(accepted[n])
  BY DEF GraphInv, StoreInv, Sample, SamplesKnown
<1>4. \A t \in Threads : export'[t].todo = IF t = owner THEN accepted ELSE export[t].todo
  BY <1>1 DEF SamplesKnown
<1>5. SamplesKnown'
  <2>1. [pc |-> "observe", todo |-> accepted]
          \in [pc : {"idle", "ingest", "observe"}, todo : Seq(Sample)]
    BY <1>3
  <2>2. export' \in [Threads -> [pc : {"idle", "ingest", "observe"}, todo : Seq(Sample)]]
    BY <1>1, <2>1 DEF SamplesKnown
  <2>3. \A t \in Threads : \A n \in DOMAIN export'[t].todo : KnownNext(export'[t].todo[n])
    BY <1>2, <1>3, <1>4 DEF SamplesKnown
  <2> QED
    BY <1>1, <1>2, <1>3, <2>2, <2>3 DEF SamplesKnown, Known, KnownNext
<1>6. HandedOnce'
  BY <1>1, <1>4 DEF HandedOnce, Once, Apart
<1> QED
  BY <1>5, <1>6

\* What a bounded list has after a value was added was in it, or is the value.
LEMMA BoundedElements ==
    ASSUME NEW S, NEW list \in Seq(S), NEW x \in S, NEW limit
    PROVE  /\ D!AppendBounded(list, x, limit) \in Seq(S)
           /\ \A n \in DOMAIN D!AppendBounded(list, x, limit) :
                \/ D!AppendBounded(list, x, limit)[n] = x
                \/ \E m \in DOMAIN list : D!AppendBounded(list, x, limit)[n] = list[m]
<1> DEFINE added == D!AppendBounded(list, x, limit)
<1>1. \A l \in Seq(S) : /\ Append(l, x) \in Seq(S)
                        /\ \A n \in DOMAIN Append(l, x) :
                             Append(l, x)[n] = x \/ (n \in DOMAIN l /\ Append(l, x)[n] = l[n])
  OBVIOUS
<1>2. CASE Len(list) < limit
  BY <1>1, <1>2 DEF D!AppendBounded
<1>3. CASE ~(Len(list) < limit) /\ list # <<>>
  <2>1. Tail(list) \in Seq(S)
        /\ \A n \in DOMAIN Tail(list) : n + 1 \in DOMAIN list /\ Tail(list)[n] = list[n + 1]
    BY <1>3
  <2>2. added = Append(Tail(list), x)
    BY <1>3 DEF D!AppendBounded
  <2> QED
    BY <1>1, <2>1, <2>2
<1>4. CASE ~(Len(list) < limit) /\ list = <<>>
  <2>1. added = Append(Tail(list), x)
    BY <1>4 DEF D!AppendBounded
  <2>2. Tail(list) \in Seq(S) /\ DOMAIN Tail(list) = {}
    BY <1>4
  <2> QED
    BY <1>1, <2>1, <2>2
<1> QED
  BY <1>2, <1>3, <1>4

\* The observation of a sample takes it out of its export, for good.
LEMMA ObserveKeeps ==
    ASSUME GraphInv, SamplesKnown, HandedOnce, NEW t \in Threads, ObserveSpan(t)
    PROVE  SamplesKnown' /\ HandedOnce'
<1> DEFINE todo == export[t].todo
           x == Head(todo)
<1>1. /\ todo # <<>> /\ todo \in Seq(Sample) /\ export[t].pc = "observe"
      /\ \A n \in DOMAIN todo : Known(todo[n])
  BY DEF ObserveSpan, SamplesKnown
<1>2. /\ x \in Sample /\ Known(x) /\ 1 \in DOMAIN todo /\ x = todo[1]
      /\ Tail(todo) \in Seq(Sample)
      /\ \A n \in DOMAIN Tail(todo) : n + 1 \in DOMAIN todo /\ Tail(todo)[n] = todo[n + 1]
                                      /\ n + 1 # 1 /\ n \in Nat
  <2> HIDE DEF todo
  <2> QED
    BY <1>1
<1>3. /\ UNCHANGED <<reader, batch, accepted, spans, episode>>
      /\ export' = [export EXCEPT ![t].todo = Tail(@)]
      /\ \A u \in Threads : export'[u].todo = IF u = t THEN Tail(todo) ELSE export[u].todo
      /\ export' \in [Threads -> [pc : {"idle", "ingest", "observe"}, todo : Seq(Sample)]]
  <2>1. /\ UNCHANGED <<reader, batch, accepted, spans, episode>>
        /\ export' = [export EXCEPT ![t].todo = Tail(@)]
    BY DEF ObserveSpan, vars, store, history
  <2>2. export' = [export EXCEPT ![t] = [export[t] EXCEPT !.todo = Tail(todo)]]
    BY <2>1
  <2>3. export[t] \in [pc : {"idle", "ingest", "observe"}, todo : Seq(Sample)]
    BY DEF SamplesKnown
  <2>4. [export[t] EXCEPT !.todo = Tail(todo)]
          \in [pc : {"idle", "ingest", "observe"}, todo : Seq(Sample)]
    BY <1>2, <2>3
  <2>5. [export[t] EXCEPT !.todo = Tail(todo)].todo = Tail(todo)
    BY <2>3
  <2> HIDE DEF todo
  <2> QED
    BY <2>1, <2>2, <2>4, <2>5 DEF SamplesKnown
<1>4. \/ /\ current' = current \/ \E k \in Services :
                current' = [current EXCEPT ![k] = D!AppendBounded(@, x, Window)]
         /\ observed' = Append(observed, x)
      \/ current' = current /\ observed' = observed
  <2>1. CASE IsServer(x.span)
    <3>1. D!Observe(x.span.service, x) /\ observed' = Append(observed, x)
      BY <2>1 DEF ObserveSpan
    <3>2. x.span.service \in Services
      BY <1>2 DEF Sample, Span
    <3>3. phase \in {"empty", "collecting", "frozen"}
      BY DEF SamplesKnown
    <3>4. current' = current
          \/ current' = [current EXCEPT ![x.span.service] = D!AppendBounded(@, x, Window)]
      BY <3>1, <3>3 DEF D!Observe, D!vars
    <3> QED
      BY <3>1, <3>2, <3>4
  <2>2. CASE ~IsServer(x.span)
    BY <2>2 DEF ObserveSpan, detector
  <2> QED
    BY <2>1, <2>2
<1>5. phase' \in {"empty", "collecting", "frozen"}
  <2>1. phase \in {"empty", "collecting", "frozen"}
    BY DEF SamplesKnown
  <2> QED
    BY <2>1 DEF ObserveSpan, detector, D!Observe, D!vars
<1>6. \A y : Known(y) => KnownNext(y)
  BY <1>3 DEF Known, KnownNext
<1>7. /\ current' \in [Services -> Seq(Sample)]
      /\ \A k \in Services : \A n \in DOMAIN current'[k] : Known(current'[k][n])
  <2>1. /\ current \in [Services -> Seq(Sample)]
        /\ \A k \in Services : \A n \in DOMAIN current[k] : Known(current[k][n])
    BY DEF SamplesKnown
  <2>2. ASSUME NEW k \in Services,
               current' = [current EXCEPT ![k] = D!AppendBounded(@, x, Window)]
        PROVE  /\ current' \in [Services -> Seq(Sample)]
               /\ \A j \in Services : \A n \in DOMAIN current'[j] : Known(current'[j][n])
    <3> DEFINE added == D!AppendBounded(current[k], x, Window)
    <3>1. /\ added \in Seq(Sample)
          /\ \A n \in DOMAIN added : added[n] = x \/ \E m \in DOMAIN current[k] : added[n] = current[k][m]
      BY <1>2, <2>1, BoundedElements
    <3>2. \A j \in Services : current'[j] = IF j = k THEN added ELSE current[j]
      BY <2>1, <2>2
    <3>3. current' \in [Services -> Seq(Sample)]
      BY <2>1, <2>2, <3>1
    <3> HIDE DEF added, x
    <3> QED
      BY ZenonT(60), <1>2, <2>1, <3>1, <3>2, <3>3
  <2> QED
    BY <1>4, <2>1, <2>2
<1> HIDE DEF x, todo
<1>8. observed \in Seq(Sample) /\ \A n \in DOMAIN observed : Known(observed[n])
  BY DEF SamplesKnown
<1>9. /\ observed' \in Seq(Sample)
      /\ \A n \in DOMAIN observed' : \/ n \in DOMAIN observed /\ observed'[n] = observed[n]
                                     \/ n = Len(observed) + 1 /\ observed'[n] = x
  <2>1. CASE observed' = observed
    BY <1>8, <2>1
  <2>2. CASE observed' = Append(observed, x)
    BY <1>2, <1>8, <2>2
  <2> QED
    BY <1>4, <2>1, <2>2
<1>10. SamplesKnown'
  <2>1. \A n \in DOMAIN observed' : Known(observed'[n])
    BY <1>2, <1>8, <1>9
  <2>2. \A u \in Threads : \A n \in DOMAIN export'[u].todo : Known(export'[u].todo[n])
    BY <1>1, <1>2, <1>3 DEF SamplesKnown
  <2>3. /\ \A n \in DOMAIN accepted : Known(accepted[n])
        /\ \A y \in reader.refs : Known(y)
        /\ reader \in [pc : {"idle", "graph", "samples", "answered"}, refs : SUBSET Sample,
                       traces : SUBSET Span]
    BY DEF SamplesKnown
  <2>4. /\ \A n \in DOMAIN observed' : KnownNext(observed'[n])
        /\ \A u \in Threads : \A n \in DOMAIN export'[u].todo : KnownNext(export'[u].todo[n])
        /\ \A n \in DOMAIN accepted' : KnownNext(accepted'[n])
        /\ \A y \in reader'.refs : KnownNext(y)
        /\ \A k \in Services : \A n \in DOMAIN current'[k] : KnownNext(current'[k][n])
    BY <1>3, <1>6, <1>7, <2>1, <2>2, <2>3
  <2> QED
    BY <1>3, <1>5, <1>7, <1>9, <2>3, <2>4 DEF SamplesKnown, Known, KnownNext
<1>11. /\ Once(observed) /\ \A u \in Threads : Once(export[u].todo) /\ Apart(observed, export[u].todo)
       /\ \A u, v \in Threads : u # v => Apart(export[u].todo, export[v].todo)
       /\ batch # NONE => /\ Once(accepted) /\ Apart(accepted, observed)
                          /\ \A u \in Threads : Apart(accepted, export[u].todo)
  BY DEF HandedOnce
<1>12. export[t].todo = todo
  BY DEF todo
<1>13. \A u \in Threads : \A n \in DOMAIN export'[u].todo :
         \E m \in DOMAIN export[u].todo :
            export'[u].todo[n] = export[u].todo[m] /\ (u = t => m # 1)
  BY <1>2, <1>3, <1>12
<1>14. \A u \in Threads : Once(export'[u].todo)
  BY <1>2, <1>3, <1>11, <1>12 DEF Once
<1>15. /\ \A n \in DOMAIN observed : observed[n] # x
       /\ \A u \in Threads : \A n \in DOMAIN export'[u].todo : export'[u].todo[n] # x
       /\ batch # NONE => \A n \in DOMAIN accepted : accepted[n] # x
  <2>1. ASSUME NEW u \in Threads, NEW n \in DOMAIN export'[u].todo
        PROVE  export'[u].todo[n] # x
    <3>1. PICK m \in DOMAIN export[u].todo :
             export'[u].todo[n] = export[u].todo[m] /\ (u = t => m # 1)
      BY <1>13
    <3> QED
      BY <1>2, <1>11, <1>12, <3>1 DEF Once, Apart
  <2>2. \A n \in DOMAIN observed : observed[n] # x
    BY <1>2, <1>11, <1>12 DEF Apart
  <2>3. batch # NONE => \A n \in DOMAIN accepted : accepted[n] # x
    BY <1>2, <1>11, <1>12 DEF Apart
  <2> QED
    BY <2>1, <2>2, <2>3
<1>16. Once(observed')
  BY <1>8, <1>9, <1>11, <1>15 DEF Once
<1>17. \A u \in Threads : Apart(observed', export'[u].todo)
  BY <1>9, <1>11, <1>13, <1>15 DEF Apart
<1>18. \A u, v \in Threads : u # v => Apart(export'[u].todo, export'[v].todo)
  BY <1>11, <1>13 DEF Apart
<1>19. batch # NONE => /\ Apart(accepted, observed')
                       /\ \A u \in Threads : Apart(accepted, export'[u].todo)
  BY <1>9, <1>11, <1>13, <1>15 DEF Apart
<1>20. HandedOnce'
  BY <1>3, <1>11, <1>14, <1>16, <1>17, <1>18, <1>19 DEF HandedOnce, Once, Apart
<1> QED
  BY <1>10, <1>20

\* An Export call that begins or ends moves no sample.
LEMMA ExportKeeps ==
    ASSUME GraphInv, SamplesKnown, HandedOnce, NEW t \in Threads, Export(t) \/ Exported(t)
    PROVE  SamplesKnown' /\ HandedOnce'
<1>1. /\ [Next]_vars /\ UNCHANGED <<detector, reader, observed>>
      /\ \E place \in {"idle", "ingest"} : export' = [export EXCEPT ![t].pc = place]
  BY DEF Export, Exported, Next
<1>2. PICK place \in {"idle", "ingest"} : export' = [export EXCEPT ![t].pc = place]
  BY <1>1
<1>3. /\ export' \in [Threads -> [pc : {"idle", "ingest", "observe"}, todo : Seq(Sample)]]
      /\ \A u \in Threads : export'[u].todo = export[u].todo
  <2>1. export[t] \in [pc : {"idle", "ingest", "observe"}, todo : Seq(Sample)]
    BY DEF SamplesKnown
  <2>2. /\ [export[t] EXCEPT !.pc = place] \in [pc : {"idle", "ingest", "observe"}, todo : Seq(Sample)]
        /\ [export[t] EXCEPT !.pc = place].todo = export[t].todo
    BY <2>1
  <2>3. export' = [export EXCEPT ![t] = [export[t] EXCEPT !.pc = place]]
    BY <1>2
  <2> QED
    BY <2>2, <2>3 DEF SamplesKnown
<1>4. \/ accepted' = accepted /\ batch' = batch
      \/ accepted' = <<>>
  BY DEF Export, Exported, Begin, vars
<1>5. \A y : Known(y) => KnownNext(y)
  BY <1>1, KnownStays
<1>6. \A n \in DOMAIN accepted' : KnownNext(accepted'[n])
  BY <1>4, <1>5 DEF SamplesKnown
<1>7. SamplesKnown'
  <2>1. \A u \in Threads : \A n \in DOMAIN export'[u].todo : KnownNext(export'[u].todo[n])
    BY <1>3, <1>5 DEF SamplesKnown
  <2>2. /\ \A n \in DOMAIN observed' : KnownNext(observed'[n])
        /\ \A y \in reader'.refs : KnownNext(y)
        /\ \A k \in Services : \A n \in DOMAIN current'[k] : KnownNext(current'[k][n])
    BY <1>1, <1>5 DEF SamplesKnown, detector
  <2> QED
    BY <1>1, <1>3, <1>6, <2>1, <2>2 DEF SamplesKnown, Known, KnownNext, detector
<1>8. HandedOnce'
  BY <1>1, <1>3, <1>4 DEF HandedOnce, Once, Apart
<1> QED
  BY <1>7, <1>8

\* The requests for the baseline and the window forget samples, and make none.
LEMMA BaselineKeeps ==
    ASSUME SamplesKnown, HandedOnce, DebugBaseline
    PROVE  SamplesKnown' /\ HandedOnce'
<1>1. /\ current' = [k \in Services |-> <<>>] /\ UNCHANGED <<vars, export, reader, observed>>
      /\ phase' \in {"empty", "collecting", "frozen"}
  BY DEF DebugBaseline, D!StartBaseline, D!FreezeBaseline, D!ResetCurrent, D!NoSamples,
         SamplesKnown
<1>2. \A y : Known(y) => KnownNext(y)
  BY <1>1 DEF Known, KnownNext, vars, store, history
<1>3. current' \in [Services -> Seq(Sample)] /\ \A k \in Services : DOMAIN current'[k] = {}
  BY <1>1
<1>4. SamplesKnown'
  <2>1. UNCHANGED <<accepted, spans, episode>>
    BY <1>1 DEF vars, store, history
  <2> QED
    BY <1>1, <1>2, <1>3, <2>1 DEF SamplesKnown, Known, KnownNext
<1>5. HandedOnce'
  BY <1>1 DEF HandedOnce, Once, Apart, vars
<1> QED
  BY <1>4, <1>5

\* What a diagnosis reads of the detector is known.
LEMMA ReadSamplesKeeps ==
    ASSUME SamplesKnown, HandedOnce, ReadSamples
    PROVE  SamplesKnown' /\ HandedOnce'
<1>1. /\ UNCHANGED <<vars, detector, export, observed>>
      /\ reader' = [reader EXCEPT !.pc = "samples", !.refs = CurrentRefs]
  BY DEF ReadSamples
<1>2. \A x \in CurrentRefs : Known(x)
  BY DEF CurrentRefs, SamplesKnown
<1>3. CurrentRefs \in SUBSET Sample
  BY <1>2 DEF Known
<1>4. /\ reader' \in [pc : {"idle", "graph", "samples", "answered"}, refs : SUBSET Sample,
                      traces : SUBSET Span]
      /\ reader'.refs = CurrentRefs
  BY <1>1, <1>3 DEF SamplesKnown
<1>5. UNCHANGED <<accepted, spans, episode, phase, current, batch>>
  BY <1>1 DEF vars, store, history, detector
<1>6. SamplesKnown'
  <2>1. \A x \in reader'.refs : KnownNext(x)
    BY <1>2, <1>4, <1>5 DEF Known, KnownNext
  <2> QED
    BY <1>1, <1>4, <1>5, <2>1 DEF SamplesKnown, Known, KnownNext
<1>7. HandedOnce'
  BY <1>1, <1>5 DEF HandedOnce, Once, Apart
<1> QED
  BY <1>6, <1>7

\* What an answer misses was dropped, and stays so.
LEMMA MissingKept ==
    ASSUME GraphInv, [Next]_vars, SamplesKnown, MissingWereDropped, reader' = reader
    PROVE  MissingWereDropped'
<1> SUFFICES ASSUME reader.pc = "answered", NEW x \in reader.refs \ Covered
             PROVE  x.episode < episode'[x.span.trace]
  BY DEF MissingWereDropped, Covered
<1>1. x.episode < episode[x.span.trace]
  BY DEF MissingWereDropped
<1>2. x \in Sample /\ x.span.trace \in TraceIds /\ x.episode \in Nat
  <2>1. x \in Sample
    BY DEF SamplesKnown, Known
  <2> QED
    BY <2>1 DEF Sample, Span
<1>3. episode[x.span.trace] \in Nat
  BY <1>2 DEF GraphInv, HistoryInv
<1>4. episode'[x.span.trace] = episode[x.span.trace] \/ episode'[x.span.trace] = episode[x.span.trace] + 1
  <2>1. \/ UNCHANGED episode
        \/ \E gone \in SUBSET live : Drop(gone)
        \/ Take
    BY DEF Next, Begin, End, Read, Reset, Tick, Cleanup, Expired, vars, store, history
  <2> QED
    BY <1>2, <2>1 DEF Drop, Take
<1> QED
  BY <1>1, <1>2, <1>3, <1>4

\* What every step of the service keeps.
RcaInv == GraphInv /\ SamplesKnown /\ HandedOnce /\ MissingWereDropped

\* Whatever the receiver does next.
LEMMA RcaStep ==
    ASSUME RcaInv, [ServiceNext]_svars
    PROVE  RcaInv'
<1>0. GraphInv /\ SamplesKnown /\ HandedOnce /\ MissingWereDropped
  BY DEF RcaInv
<1>1. [Next]_vars
  BY DEF ServiceNext, svars, Export, ObserveSpan, Exported, Ingest, Ingested, DebugReset,
         DebugBaseline, ReadGraph, ReadSamples, ReadTraces, Answer, Age, Next
<1>2. GraphInv'
  BY <1>0, <1>1, GraphStep
<1>3. reader \in [pc : {"idle", "graph", "samples", "answered"}, refs : SUBSET Sample,
                  traces : SUBSET Span]
  BY <1>0 DEF SamplesKnown
<1>4. ASSUME NEW t \in Threads, Export(t) \/ ObserveSpan(t) \/ Exported(t) PROVE RcaInv'
  <2>1. SamplesKnown' /\ HandedOnce'
    BY <1>0, <1>4, ExportKeeps, ObserveKeeps
  <2>2. reader' = reader
    BY <1>4 DEF Export, ObserveSpan, Exported
  <2> QED
    BY <1>0, <1>1, <1>2, <2>1, <2>2, MissingKept DEF RcaInv
<1>5. CASE Ingest \/ Ingested \/ DebugBaseline
  <2>1. SamplesKnown' /\ HandedOnce'
    BY <1>0, <1>2, <1>5, IngestKeeps, IngestedKeeps, BaselineKeeps
  <2>2. reader' = reader
    BY <1>5 DEF Ingest, Ingested, DebugBaseline
  <2> QED
    BY <1>0, <1>1, <1>2, <2>1, <2>2, MissingKept DEF RcaInv
<1>6. CASE DebugReset \/ Age \/ UNCHANGED svars
  <2>1. /\ UNCHANGED <<phase, current, observed, export, reader>> /\ accepted' = accepted
        /\ batch' = batch
    BY <1>6 DEF DebugReset, Age, svars, Reset, Tick, detector, vars
  <2>2. SamplesKnown' /\ HandedOnce'
    BY <1>0, <1>1, <1>3, <2>1, SamplesStay
  <2> QED
    BY <1>0, <1>1, <1>2, <2>1, <2>2, MissingKept DEF RcaInv
<1>7. NoReading \in [pc : {"idle", "graph", "samples", "answered"}, refs : SUBSET Sample,
                     traces : SUBSET Span]
      /\ NoReading.refs = {} /\ NoReading.pc = "idle"
  BY DEF NoReading
<1>8. CASE ReadGraph \/ Answer
  <2>1. /\ UNCHANGED <<phase, current, observed, export>> /\ accepted' = accepted
        /\ batch' = batch
        /\ reader' = NoReading \/ reader' = [NoReading EXCEPT !.pc = "graph"]
    BY <1>8 DEF ReadGraph, Answer, Read, detector, vars
  <2>2. /\ reader' \in [pc : {"idle", "graph", "samples", "answered"}, refs : SUBSET Sample,
                        traces : SUBSET Span]
        /\ reader'.refs \subseteq reader.refs /\ reader'.pc # "answered"
    BY <1>7, <2>1 DEF NoReading
  <2>3. SamplesKnown' /\ HandedOnce'
    BY <1>0, <1>1, <2>1, <2>2, SamplesStay
  <2> QED
    BY <1>2, <2>2, <2>3 DEF RcaInv, MissingWereDropped
<1>9. CASE ReadSamples
  <2>1. SamplesKnown' /\ HandedOnce'
    BY <1>0, <1>9, ReadSamplesKeeps
  <2>2. reader'.pc # "answered"
    BY <1>3, <1>9 DEF ReadSamples
  <2> QED
    BY <1>2, <2>1, <2>2 DEF RcaInv, MissingWereDropped
<1>10. CASE ReadTraces
  <2> DEFINE found == UNION {spans'[x.span.trace] : x \in reader.refs}
  <2>1. /\ UNCHANGED <<phase, current, observed, export>> /\ accepted' = accepted
        /\ batch' = batch
        /\ reader' = [reader EXCEPT !.pc = "answered", !.traces = found]
    BY <1>10 DEF ReadTraces, Read, detector
  <2>2. \A x \in reader.refs : x \in Sample /\ x.span.trace \in TraceIds
    <3>1. \A x \in reader.refs : x \in Sample
      BY <1>3
    <3> QED
      BY <3>1 DEF Sample, Span
  <2>3. found \in SUBSET Span
    <3>1. spans' \in [TraceIds -> SUBSET Span]
      BY <1>2 DEF GraphInv, LinkInv, SpanTypeOK
    <3> QED
      BY <2>2, <3>1
  <2>4. /\ reader' \in [pc : {"idle", "graph", "samples", "answered"}, refs : SUBSET Sample,
                        traces : SUBSET Span]
        /\ reader'.refs = reader.refs /\ reader'.traces = found
    <3> HIDE DEF found
    <3> QED
      BY <1>3, <2>1, <2>3
  <2>5. SamplesKnown' /\ HandedOnce'
    BY <1>0, <1>1, <2>1, <2>4, SamplesStay
  <2>6. MissingWereDropped'
    <3> SUFFICES ASSUME NEW x \in reader.refs, x \notin Covered'
                 PROVE  x.episode < episode'[x.span.trace]
      BY <2>4 DEF MissingWereDropped
    <3>1. KnownNext(x)
      BY <1>0, <1>1, KnownStays DEF SamplesKnown
    <3>2. x.span \notin spans'[x.span.trace]
      <4> SUFFICES ASSUME x.span \in spans'[x.span.trace] PROVE FALSE
        OBVIOUS
      <4>1. x.span \in found
        OBVIOUS
      <4> QED
        BY <2>4, <4>1 DEF Covered
    <3>3. x.episode \in Nat /\ episode'[x.span.trace] \in Nat
      BY <1>2, <2>2 DEF Sample, GraphInv, HistoryInv
    <3> QED
      BY <3>1, <3>2, <3>3 DEF KnownNext
  <2> QED
    BY <1>2, <2>5, <2>6 DEF RcaInv
<1> QED
  BY <1>4, <1>5, <1>6, <1>8, <1>9, <1>10 DEF ServiceNext

\* The store and the detector begin empty.
LEMMA RcaStarts == ServiceInit => RcaInv
<1> SUFFICES ASSUME ServiceInit PROVE RcaInv
  OBVIOUS
<1>1. GraphInv
  BY GraphStarts DEF ServiceInit
<1>2. /\ phase = "empty" /\ current = [k \in Services |-> <<>>] /\ accepted = <<>>
      /\ observed = <<>> /\ reader = NoReading /\ batch = NONE
      /\ export = [t \in Threads |-> [pc |-> "idle", todo |-> <<>>]]
  BY DEF ServiceInit, Init, D!Init, D!NoSamples
<1>3. SamplesKnown
  <2>1. [pc |-> "idle", todo |-> <<>>] \in [pc : {"idle", "ingest", "observe"}, todo : Seq(Sample)]
    OBVIOUS
  <2>2. export \in [Threads -> [pc : {"idle", "ingest", "observe"}, todo : Seq(Sample)]]
        /\ \A t \in Threads : export[t].todo = <<>>
    BY <1>2, <2>1
  <2>3. current \in [Services -> Seq(Sample)] /\ \A k \in Services : current[k] = <<>>
    BY <1>2
  <2>4. /\ reader \in [pc : {"idle", "graph", "samples", "answered"}, refs : SUBSET Sample,
                       traces : SUBSET Span]
        /\ reader.refs = {}
    BY <1>2 DEF NoReading
  <2> QED
    BY <1>2, <2>2, <2>3, <2>4 DEF SamplesKnown
<1>4. HandedOnce
  BY <1>2 DEF HandedOnce, Once, Apart
<1>5. MissingWereDropped
  BY <1>2 DEF MissingWereDropped, NoReading
<1> QED
  BY <1>1, <1>3, <1>4, <1>5 DEF RcaInv

\* The invariant of the receiver is inductive.
LEMMA RcaInvHolds == ServiceSpec => []RcaInv
<1>1. RcaInv /\ [ServiceNext]_svars => RcaInv'
  BY RcaStep
<1> QED
  BY <1>1, RcaStarts, PTL DEF ServiceSpec

\* However many exporters, resets, requests for a baseline and diagnoses run at
\* once: the graph counts each call once, the detector is told of each span once
\* for each time the store took its trace in, and what a diagnosis misses was
\* dropped; for any spans, batches, lifetimes and bounds.
THEOREM GraphSoundHolds == ServiceSpec => []GraphSound
<1>1. RcaInv => GraphSound
  <2> SUFFICES ASSUME RcaInv PROVE GraphSound
    OBVIOUS
  <2>1. LinkInv /\ HistoryInv /\ EdgesInv /\ StoreInv /\ HandedOnce /\ MissingWereDropped
    BY DEF RcaInv, GraphInv
  <2>2. GraphTypeOK
    <3>1. \A n \in DOMAIN accepted : accepted[n].span \in Span
      <4>1. accepted \in Seq(Sample)
        BY <2>1 DEF StoreInv, Sample
      <4>2. \A n \in DOMAIN accepted : accepted[n] \in Sample
        BY <4>1
      <4> QED
        BY <4>2 DEF Sample
    <3> QED
      BY <2>1, <3>1 DEF LinkInv, SpanTypeOK, StoreInv, GraphTypeOK
  <2>3. SpansDistinct /\ OnlyLiveHeld
    BY <2>1 DEF LinkInv, EmptyOutside, StoreInv, OnlyLiveHeld
  <2>4. ObservedOnce
    BY <2>1 DEF HandedOnce, Once, ObservedOnce
  <2> QED
    BY <2>1, <2>2, <2>3, <2>4 DEF EdgesInv, GraphSound
<1> QED
  BY <1>1, RcaInvHolds, PTL

-----------------------------------------------------------------------------
(* The suite *)

\* What every step of the parts keeps, the graph and the detector apart.
EngineInv ==
    /\ part = "intake" => Intake!IntakeInv
    /\ part = "shutdown" => Shutdown!ShutdownInv
    /\ part = "telemetry" => Telemetry!TelemetryInv
    /\ part = "sequential" => Sequential!CallsInv
    /\ part = "parallel" => InParallel!CallsInv

\* Nothing has been exported.
LEMMA IntakeStarts == Intake!Init => Intake!IntakeInv
<1> SUFFICES ASSUME Intake!Init PROVE Intake!IntakeInv
  OBVIOUS
<1>1. IsFiniteSet({}) /\ Cardinality({}) = 0
  BY FS_EmptySet
<1>2. /\ stored = {} /\ observations = {} /\ response = 0 /\ intakeStats.received = 0
      /\ intakeStats.duplicates = 0 /\ intakeStats.ignored = 0 /\ sent.spans = 0
      /\ sent.refused = 0 /\ sent.business = {}
      /\ intakeStats \in [received : Nat, duplicates : Nat, ignored : Nat]
  BY DEF Intake!Init
<1>3. Intake!IntakeTypes
  BY <1>1, <1>2, SameFinite DEF Intake!IntakeTypes
<1>4. Intake!EverySpanCounted /\ Intake!RequestsReachDetector /\ Intake!ObservationsFollowed
  BY <1>1, <1>2, SameFinite
     DEF Intake!EverySpanCounted, Intake!RequestsReachDetector, Intake!ObservationsFollowed
<1> QED
  BY <1>3, <1>4 DEF Intake!IntakeInv

\* Both servers serve.
LEMMA ShutdownStarts == Shutdown!Init => Shutdown!ShutdownInv
<1> SUFFICES ASSUME Shutdown!Init PROVE Shutdown!ShutdownInv
  OBVIOUS
<1> USE DEF Shutdown!Init, Shutdown!Servers, Shutdown!Errors
<1>1. Shutdown!ShutdownTypes
  BY DEF Shutdown!ShutdownTypes
<1>2. Shutdown!EndsFollowed /\ Shutdown!StopsFollowed
  BY DEF Shutdown!EndsFollowed, Shutdown!StopsFollowed
<1> QED
  BY <1>1, <1>2 DEF Shutdown!ShutdownInv

\* A service has answered nothing.
LEMMA TelemetryStarts == Telemetry!Init => Telemetry!TelemetryInv
<1> SUFFICES ASSUME Telemetry!Init PROVE Telemetry!TelemetryInv
  OBVIOUS
<1> USE DEF Telemetry!Paths, Telemetry!Traced, Telemetry!Measured
<1>c. NONE \notin {"business", "other", "health", "metrics"}
  BY InstancesAssumption DEF InstancesAssumption, Telemetry!TelemetryAssumption
<1>1. Telemetry!TelemetryTypes
  BY DEF Telemetry!Init, Telemetry!TelemetryTypes
<1>2. Telemetry!Counted = {}
  BY <1>c DEF Telemetry!Init, Telemetry!Counted
<1>3. Telemetry!IsFiniteSet({}) /\ Telemetry!Cardinality({}) = 0
  BY SameFinite, FS_EmptySet
<1>4. Telemetry!SpansFollowed
  BY <1>c, <1>2, <1>3 DEF Telemetry!Init, Telemetry!SpansFollowed
<1> QED
  BY <1>1, <1>4 DEF Telemetry!TelemetryInv

\* No call has begun, whatever calls on in parallel.
LEMMA CallsStart == Sequential!Init => Sequential!CallsInv /\ InParallel!CallsInv
<1> SUFFICES ASSUME Sequential!Init PROVE Sequential!CallsInv /\ InParallel!CallsInv
  OBVIOUS
<1>c. NONE \notin {0, 200, 500, 502}
  BY InstancesAssumption DEF InstancesAssumption, InParallel!CallsAssumption
<1>1. Sequential!CallsInv
  BY <1>c DEF Sequential!Init, Sequential!CallsInv, Sequential!CallTypes, Sequential!CallsFollowed,
     Sequential!OkMeansServed, Sequential!ErrorsHaveOrigin, Sequential!NoneLeftBehind,
     Sequential!Configs, Sequential!NoFault, Sequential!Codes, Sequential!Lost, Sequential!Children
<1>2. InParallel!CallsInv
  BY <1>c DEF Sequential!Init, InParallel!CallsInv, InParallel!CallTypes, InParallel!CallsFollowed,
     InParallel!OkMeansServed, InParallel!ErrorsHaveOrigin, InParallel!NoneLeftBehind,
     Sequential!NoFault, InParallel!Configs, InParallel!Codes, InParallel!Lost,
     InParallel!Children
<1> QED
  BY <1>1, <1>2

\* A step that leaves the variables of a part alone keeps its invariant.
LEMMA EnginePartsStutter ==
    /\ Intake!IntakeInv /\ UNCHANGED intakeVars => Intake!IntakeInv'
    /\ Shutdown!ShutdownInv /\ UNCHANGED shutdownVars => Shutdown!ShutdownInv'
    /\ Telemetry!TelemetryInv /\ UNCHANGED telemetryVars => Telemetry!TelemetryInv'
    /\ Sequential!CallsInv /\ UNCHANGED sequentialVars => Sequential!CallsInv'
    /\ InParallel!CallsInv /\ UNCHANGED sequentialVars => InParallel!CallsInv'
<1>1. Intake!IntakeInv /\ UNCHANGED intakeVars => Intake!IntakeInv'
  BY DEF intakeVars, Intake!IntakeInv, Intake!IntakeTypes, Intake!EverySpanCounted,
         Intake!RequestsReachDetector, Intake!ObservationsFollowed
<1>2. Shutdown!ShutdownInv /\ UNCHANGED shutdownVars => Shutdown!ShutdownInv'
  BY DEF shutdownVars, Shutdown!ShutdownInv, Shutdown!ShutdownTypes, Shutdown!EndsFollowed,
         Shutdown!StopsFollowed
<1>3. Telemetry!TelemetryInv /\ UNCHANGED telemetryVars => Telemetry!TelemetryInv'
  BY DEF telemetryVars, Telemetry!TelemetryInv, Telemetry!TelemetryTypes, Telemetry!Counted,
         Telemetry!SpansFollowed, Telemetry!Running
<1>4. Sequential!CallsInv /\ UNCHANGED sequentialVars => Sequential!CallsInv'
  BY DEF sequentialVars, Sequential!CallsInv, Sequential!CallTypes, Sequential!CallsFollowed,
     Sequential!OkMeansServed, Sequential!ErrorsHaveOrigin, Sequential!NoneLeftBehind,
     Sequential!Heard
<1>5. InParallel!CallsInv /\ UNCHANGED sequentialVars => InParallel!CallsInv'
  BY DEF sequentialVars, InParallel!CallsInv, InParallel!CallTypes, InParallel!CallsFollowed,
     InParallel!OkMeansServed, InParallel!ErrorsHaveOrigin, InParallel!NoneLeftBehind,
     InParallel!Heard
<1> QED
  BY <1>1, <1>2, <1>3, <1>4, <1>5

\* The invariant of the parts is inductive.
LEMMA EngineInvHolds == SuiteSpec => []EngineInv
<1>1. SuiteInit => EngineInv
  BY IntakeStarts, ShutdownStarts, TelemetryStarts, CallsStart DEF SuiteInit, EngineInv
<1>2. EngineInv /\ [SuiteNext]_suiteVars => EngineInv'
  <2> SUFFICES ASSUME EngineInv, [SuiteNext]_suiteVars PROVE EngineInv'
    OBVIOUS
  <2>1. part' = part
    BY DEF SuiteNext, suiteVars
  <2>2. part = "intake" => Intake!IntakeInv'
    <3> SUFFICES ASSUME part = "intake" PROVE Intake!IntakeInv'
      OBVIOUS
    <3>1. Intake!Next \/ UNCHANGED intakeVars
      BY DEF SuiteNext, suiteVars
    <3> QED
      BY <3>1, IntakeStep, EnginePartsStutter DEF EngineInv
  <2>3. part = "shutdown" => Shutdown!ShutdownInv'
    <3> SUFFICES ASSUME part = "shutdown" PROVE Shutdown!ShutdownInv'
      OBVIOUS
    <3>1. Shutdown!Next \/ UNCHANGED shutdownVars
      BY DEF SuiteNext, suiteVars
    <3> QED
      BY <3>1, ShutdownStep, EnginePartsStutter DEF EngineInv
  <2>4. part = "telemetry" => Telemetry!TelemetryInv'
    <3> SUFFICES ASSUME part = "telemetry" PROVE Telemetry!TelemetryInv'
      OBVIOUS
    <3>1. Telemetry!Next \/ UNCHANGED telemetryVars
      BY DEF SuiteNext, suiteVars
    <3> QED
      BY <3>1, TelemetryStep, EnginePartsStutter DEF EngineInv
  <2>5. part = "sequential" => Sequential!CallsInv'
    <3> SUFFICES ASSUME part = "sequential" PROVE Sequential!CallsInv'
      OBVIOUS
    <3>1. Sequential!Next \/ UNCHANGED sequentialVars
      BY DEF SuiteNext, suiteVars
    <3> QED
      BY <3>1, SequentialStep, EnginePartsStutter DEF EngineInv
  <2>6. part = "parallel" => InParallel!CallsInv'
    <3> SUFFICES ASSUME part = "parallel" PROVE InParallel!CallsInv'
      OBVIOUS
    <3>1. InParallel!Next \/ UNCHANGED sequentialVars
      BY DEF SuiteNext, suiteVars
    <3> QED
      BY <3>1, ParallelStep, EnginePartsStutter DEF EngineInv
  <2> QED
    BY <2>1, <2>2, <2>3, <2>4, <2>5, <2>6 DEF EngineInv
<1> QED
  BY <1>1, <1>2, PTL DEF SuiteSpec

\* Every span sent is counted once, every stored request reaches the detector, a
\* clean exit of a service leaves nothing uncounted or unsent, and one of the
\* engine cuts nobody off: for any exports, requests, queue and times.
THEOREM NothingUncountedHolds == SuiteSpec => []NothingUncounted
<1>1. EngineInv => NothingUncounted
  <2> SUFFICES ASSUME EngineInv PROVE NothingUncounted
    OBVIOUS
  <2>1. part = "intake" => Intake!EverySpanCounted /\ Intake!RequestsReachDetector
    BY DEF EngineInv, Intake!IntakeInv
  <2>2. part = "shutdown" => Shutdown!FailureReported /\ Shutdown!CleanExit
    <3> SUFFICES ASSUME Shutdown!ShutdownInv
                 PROVE  Shutdown!FailureReported /\ Shutdown!CleanExit
      BY DEF EngineInv
    <3> QED
      BY DEF Shutdown!ShutdownInv, Shutdown!ShutdownTypes, Shutdown!EndsFollowed,
             Shutdown!StopsFollowed, Shutdown!FailureReported, Shutdown!CleanExit,
             Shutdown!Servers, Shutdown!Up
  <2>3. part = "telemetry" => Telemetry!NothingLeftBehind /\ Telemetry!CountsAgree
    <3> SUFFICES ASSUME Telemetry!TelemetryInv, telemetryMain = "exited", telemetryCode = 0
                 PROVE  /\ Telemetry!Running = {}
                        /\ {r \in ServedRequests : Telemetry!Traced(done[r])}
                             = telemetryExported \cup lost
                        /\ lost = {} => counted = Telemetry!Cardinality(
                             {r \in telemetryExported : done[r] = "business"})
      BY DEF EngineInv, Telemetry!NothingLeftBehind, Telemetry!CountsAgree
    <3>1. /\ Telemetry!Running = {} /\ queue = {}
          /\ {r \in ServedRequests : Telemetry!Traced(done[r])}
               = queue \cup telemetryExported \cup lost
          /\ counted = Telemetry!Cardinality(Telemetry!Counted)
      BY DEF Telemetry!TelemetryInv, Telemetry!SpansFollowed
    <3>2. lost = {} => {r \in telemetryExported : done[r] = "business"} = Telemetry!Counted
      BY <3>1 DEF Telemetry!Counted, Telemetry!Traced
    <3> QED
      BY <3>1, <3>2
  <2> QED
    BY <2>1, <2>2, <2>3 DEF NothingUncounted
<1> QED
  BY <1>1, EngineInvHolds, PTL

\* Across the services a failure, a timeout or a lost connection is never taken
\* for success, a server error has its origin below, and a handler outlives none
\* of its calls: for every tree of calls, whatever is parallel in it.
THEOREM FailuresHeardHolds == SuiteSpec => []FailuresHeard
<1>1. EngineInv => FailuresHeard
  BY DEF EngineInv, FailuresHeard, Sequential!CallsInv, InParallel!CallsInv
<1> QED
  BY <1>1, EngineInvHolds, PTL
=============================================================================
