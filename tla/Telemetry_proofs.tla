-------------------------- MODULE Telemetry_proofs ---------------------------
(* Proofs about live analyses: the registry of evidence, the requests that   *)
(* share and reuse results, the profiles they are of, the two sources that   *)
(* add to them, and the collection and decoding of their telemetry.          *)
EXTENDS MCTelemetry, SequenceTheorems, FiniteSetTheorems,
        WellFoundedInduction, TLAPS

-----------------------------------------------------------------------------
(* The elements at some places of a sequence *)

Rank(P, n) == Cardinality({m \in P : m <= n})
Place(P, i) == CHOOSE n \in P : Rank(P, n) = i
Kept(s, places) ==
    [i \in 1..Cardinality(places) |->
        s[CHOOSE n \in places : Cardinality({m \in places : m <= n}) = i]]

\* Every place has a rank of its own, and every rank up to their number a place.
LEMMA RanksOfPlaces ==
  ASSUME NEW len \in Nat, NEW P \in SUBSET (1..len)
  PROVE  /\ IsFiniteSet(P) /\ Cardinality(P) \in Nat /\ Cardinality(P) <= len
         /\ \A n \in P : Rank(P, n) \in 1..Cardinality(P)
         /\ \A m, n \in P : m < n => Rank(P, m) < Rank(P, n)
         /\ \A i \in 1..Cardinality(P) : \E n \in P : Rank(P, n) = i
  <1> DEFINE Upto(n) == {m \in P : m <= n}
  <1>1. IsFiniteSet(1..len) /\ Cardinality(1..len) = len
    BY FS_Interval
  <1>2. IsFiniteSet(P) /\ Cardinality(P) <= len
    BY <1>1, FS_Subset
  <1>3. Cardinality(P) \in Nat
    BY <1>2, FS_CardinalityType
  <1>4. \A n : IsFiniteSet(Upto(n)) /\ Cardinality(Upto(n)) \in Nat
               /\ Cardinality(Upto(n)) <= Cardinality(P)
    <2> TAKE n
    <2>1. Upto(n) \in SUBSET P
      OBVIOUS
    <2> HIDE DEF Upto
    <2>2. QED BY <1>2, <2>1, FS_Subset, FS_CardinalityType
  <1>5. ASSUME NEW n \in P PROVE Rank(P, n) \in 1..Cardinality(P)
    <2>1. n \in Upto(n)
      BY <1>5
    <2>2. Cardinality(Upto(n)) # 0
      <3> HIDE DEF Upto
      <3>1. QED BY <1>4, <2>1, FS_EmptySet
    <2>3. Rank(P, n) = Cardinality(Upto(n))
      BY DEF Rank
    <2> HIDE DEF Upto
    <2>4. QED BY <1>3, <1>4, <2>2, <2>3
  <1>6. ASSUME NEW m \in P, NEW n \in P, m < n PROVE Rank(P, m) < Rank(P, n)
    <2>1. Upto(m) \in SUBSET (Upto(n) \ {n}) /\ n \in Upto(n)
      <3>1. \A i \in P : i \in Int
        OBVIOUS
      <3>2. \A i \in P : i <= m => i <= n /\ i # n
        BY <1>6, <3>1
      <3>3. n <= n
        BY <3>1
      <3>4. QED BY <3>2, <3>3
    <2>2. Rank(P, m) = Cardinality(Upto(m)) /\ Rank(P, n) = Cardinality(Upto(n))
      BY DEF Rank
    <2> HIDE DEF Upto
    <2>3. IsFiniteSet(Upto(n) \ {n})
          /\ Cardinality(Upto(n) \ {n}) = Cardinality(Upto(n)) - 1
      BY <1>4, <2>1, FS_RemoveElement
    <2>4. Cardinality(Upto(m)) <= Cardinality(Upto(n)) - 1
      BY <2>1, <2>3, FS_Subset
    <2>5. QED BY <1>4, <2>2, <2>4
  <1>7. \A i \in 1..Cardinality(P) : \E n \in P : Rank(P, n) = i
    <2> DEFINE r == [n \in P |-> Rank(P, n)]
    <2>1. r \in [P -> 1..Cardinality(P)]
      BY <1>5
    <2>2. ASSUME NEW m \in P, NEW n \in P, r[m] = r[n] PROVE m = n
      <3>1. m \in Int /\ n \in Int
        OBVIOUS
      <3>2. Rank(P, m) = Rank(P, n) /\ Rank(P, m) \in Int
        BY <1>5, <2>2
      <3>3. ~(m < n) /\ ~(n < m)
        BY <1>6, <3>2
      <3>4. QED BY <3>1, <3>3
    <2>3. r \in Injection(P, 1..Cardinality(P))
      <3> HIDE DEF r
      <3>1. QED BY <2>1, <2>2 DEF Injection, IsInjective
    <2>4. IsFiniteSet(1..Cardinality(P)) /\ Cardinality(1..Cardinality(P)) = Cardinality(P)
      BY <1>3, FS_Interval
    <2>5. r \in Surjection(P, 1..Cardinality(P))
      <3> HIDE DEF r
      <3>1. QED BY <2>3, <2>4, FS_Injection
    <2>6. QED BY <2>5 DEF Surjection
  <1>8. QED BY <1>2, <1>3, <1>5, <1>6, <1>7

\* What is kept is what is at the places, once each.
LEMMA KeptIs ==
  ASSUME NEW T, NEW s \in Seq(T), NEW P \in SUBSET DOMAIN s
  PROVE  /\ Kept(s, P) \in Seq(T)
         /\ Len(Kept(s, P)) <= Len(s)
         /\ \E f \in [DOMAIN Kept(s, P) -> P] :
              /\ \A i \in DOMAIN Kept(s, P) : Kept(s, P)[i] = s[f[i]]
              /\ \A i, j \in DOMAIN Kept(s, P) : f[i] = f[j] => i = j
              /\ \A n \in P : \E i \in DOMAIN Kept(s, P) : f[i] = n
  <1> DEFINE c == Cardinality(P)
             K == Kept(s, P)
  <1>1. DOMAIN s = 1..Len(s) /\ Len(s) \in Nat /\ \A n \in DOMAIN s : s[n] \in T
    OBVIOUS
  <1>2. P \in SUBSET (1..Len(s))
    BY <1>1
  <1>3. /\ c \in Nat /\ c <= Len(s)
        /\ \A n \in P : Rank(P, n) \in 1..c
        /\ \A i \in 1..c : \E n \in P : Rank(P, n) = i
        /\ \A m, n \in P : m < n => Rank(P, m) < Rank(P, n)
    BY <1>1, <1>2, RanksOfPlaces
  <1>4. \A i \in 1..c : Place(P, i) \in P /\ Rank(P, Place(P, i)) = i
    BY <1>3 DEF Place
  <1>5. K = [i \in 1..c |-> s[Place(P, i)]]
    BY DEF Kept, Place, Rank
  <1> DEFINE f == [i \in 1..c |-> Place(P, i)]
  <1>6. f \in [1..c -> P]
    BY <1>4
  <1>7. \A i \in 1..c : K[i] = s[f[i]]
    BY <1>5
  <1>8. \A i, j \in 1..c : f[i] = f[j] => i = j
    BY <1>4
  <1>9. ASSUME NEW n \in P PROVE \E i \in 1..c : f[i] = n
    <2>1. Rank(P, n) \in 1..c
      BY <1>3
    <2>2. f[Rank(P, n)] \in P /\ Rank(P, f[Rank(P, n)]) = Rank(P, n)
      BY <1>4, <2>1
    <2> DEFINE m == f[Rank(P, n)]
    <2>3. m \in P /\ Rank(P, m) = Rank(P, n)
      BY <2>2
    <2> HIDE DEF m
    <2>4. m \in Int /\ n \in Int /\ Rank(P, m) \in Int /\ Rank(P, n) \in Int
      BY <1>2, <2>1, <2>3
    <2>5. m = n
      BY <1>3, <2>3, <2>4
    <2>6. QED BY <2>1, <2>5 DEF m
  <1>10. DOMAIN K = 1..c /\ K \in [1..c -> T]
    <2>1. \A i \in 1..c : s[Place(P, i)] \in T
      BY <1>1, <1>4
    <2>2. QED BY <1>5, <2>1
  <1>11. K \in Seq(T) /\ Len(K) = c
    <2> HIDE DEF K, c
    <2>1. QED BY <1>3, <1>10
  <1> HIDE DEF f, K, c
  <1>12. K \in Seq(T) /\ Len(K) <= Len(s)
         /\ \E g \in [DOMAIN K -> P] :
              /\ \A i \in DOMAIN K : K[i] = s[g[i]]
              /\ \A i, j \in DOMAIN K : g[i] = g[j] => i = j
              /\ \A n \in P : \E i \in DOMAIN K : g[i] = n
    <2>1. f \in [DOMAIN K -> P]
      BY <1>6, <1>10
    <2>2. /\ \A i \in DOMAIN K : K[i] = s[f[i]]
          /\ \A i, j \in DOMAIN K : f[i] = f[j] => i = j
      BY <1>7, <1>8, <1>10
    <2>3. \A n \in P : \E i \in DOMAIN K : f[i] = n
      BY <1>9, <1>10
    <2>4. K \in Seq(T) /\ Len(K) <= Len(s)
      BY <1>3, <1>11
    <2>5. QED BY <2>1, <2>2, <2>3, <2>4
  <1>13. QED BY <1>12 DEF K

\* Both modules keep what is at the places in this way.
LEMMA KeptAlike ==
  \A s, P : Registry!Kept(s, P) = Kept(s, P) /\ Requests!Kept(s, P) = Kept(s, P)
  <1>1. \A s, P : Registry!Kept(s, P) = Kept(s, P)
    BY Zenon DEF Kept, Registry!Kept, Registry!Cardinality, Cardinality
  <1>2. \A s, P : Requests!Kept(s, P) = Kept(s, P)
    BY Zenon DEF Kept, Requests!Kept, Requests!Cardinality, Cardinality
  <1>3. QED BY <1>1, <1>2

-----------------------------------------------------------------------------
(* The registry of evidence *)

CatalogueParts == {"core", "context", "http"}
Catalogue == [id : 1..MaxAnalyses, size : 0..MaxEntryBytes, parts : SUBSET CatalogueParts,
              expires : Nat]
Stages == {"idle", "project", "context", "http", "save", "respond"}
\* Until then an analysis may still put its catalogue.
Putting == {"project", "context", "http"}
Elements(es) == {es[n] : n \in DOMAIN es}
OneOfEach(es) == \A m, n \in DOMAIN es : es[m].id = es[n].id => m = n

RegistryTyped ==
    /\ entries \in Seq(Catalogue)
    /\ slot \in Threads \cup {NONE}
    /\ at \in [Threads -> [stage : Stages, id : 0..MaxAnalyses, since : Nat]]
    /\ ids \in 0..MaxAnalyses
    /\ status \in [1..MaxAnalyses -> SUBSET CatalogueParts]
    /\ DOMAIN saved = 1..MaxAnalyses
    /\ deleting \in SUBSET (1..MaxAnalyses) /\ deleted \in SUBSET (1..MaxAnalyses)
    /\ now \in Nat

\* Who is at work holds the slot and has an identifier of its own, of which
\* nothing is saved before its time and there is no catalogue at the start.
AnalysesApart ==
    \A t \in Threads : at[t].stage # "idle" =>
        /\ slot = t /\ at[t].id \in 1..ids
        /\ at[t].stage # "respond" =>
             saved[at[t].id] = NONE /\ at[t].id \notin deleting \cup deleted
        /\ at[t].stage = "project" =>
             status[at[t].id] = {} /\ \A e \in Elements(entries) : e.id # at[t].id
\* What has not begun has left nothing.
NothingAhead ==
    /\ \A id \in 1..MaxAnalyses : id > ids =>
         saved[id] = NONE /\ status[id] = {} /\ id \notin deleting \cup deleted
    /\ \A e \in Elements(entries) : e.id <= ids
\* The status is of the catalogue, where it is in the registry or is saved.
StatusAgrees ==
    /\ \A e \in Elements(entries) : e.parts \ {"core"} = status[e.id]
    /\ \A id \in 1..MaxAnalyses : saved[id] # NONE => saved[id] \ {"core"} = status[id]
DeletedGone ==
    /\ \A id \in deleting \cup deleted : saved[id] = NONE
    /\ \A e \in Elements(entries) : e.id \notin deleted
RegistryInv ==
    /\ RegistryTyped /\ Registry!RegistryBounded
    /\ AnalysesApart /\ NothingAhead /\ StatusAgrees /\ DeletedGone

\* A set of numbers that is not empty has a least one.
LEMMA LeastOne ==
  ASSUME NEW S \in SUBSET Nat, S # {}
  PROVE  \E n \in S : \A m \in S : n <= m
  <1> DEFINE R == OpToRel(<, Nat)
  <1>1. IsWellFoundedOn(R, Nat)
    BY NatLessThanWellFounded
  <1> HIDE DEF R
  <1>2. PICK n \in S : \A m \in S : <<m, n>> \notin R
    BY <1>1, WFMin
  <1>3. \A m \in S : ~(m < n)
    BY <1>2 DEF R, OpToRel
  <1>4. QED BY <1>3

\* The bytes of some catalogues, each with its identifier.
ByteSet(es) == UNION {{e.id} \X (1..e.size) : e \in Elements(es)}

LEMMA BytesAre ==
  \A es : Registry!Bytes(es) = Cardinality(ByteSet(es))
  <1>1. \A S : Registry!Cardinality(S) = Cardinality(S)
    BY DEF Registry!Cardinality, Cardinality
  <1>2. \A es : Registry!Range(es) = Elements(es)
    BY DEF Registry!Range, Elements
  <1>3. QED BY <1>1, <1>2 DEF Registry!Bytes, ByteSet

\* Fewer catalogues have no more bytes, and none have none.
LEMMA FewerBytes ==
  ASSUME NEW es \in Seq(Catalogue), NEW fs \in Seq(Catalogue), MaxAnalyses \in Nat,
         MaxEntryBytes \in Nat, Elements(fs) \subseteq Elements(es)
  PROVE  /\ Registry!Bytes(fs) <= Registry!Bytes(es)
         /\ Registry!Bytes(fs) \in Nat /\ Registry!Bytes(es) \in Nat
  <1> DEFINE All == (1..MaxAnalyses) \X (1..MaxEntryBytes)
  <1>1. ByteSet(fs) \subseteq ByteSet(es)
    BY DEF ByteSet
  <1>2. ByteSet(es) \subseteq All
    <2>1. \A e \in Elements(es) : e \in Catalogue
      BY DEF Elements
    <2>2. \A e \in Catalogue : {e.id} \X (1..e.size) \subseteq All
      BY DEF Catalogue
    <2> HIDE DEF All
    <2>3. QED BY <2>1, <2>2 DEF ByteSet
  <1>3. IsFiniteSet(All)
    <2>1. IsFiniteSet(1..MaxAnalyses) /\ IsFiniteSet(1..MaxEntryBytes)
      BY FS_Interval
    <2>2. QED BY <2>1, FS_Product
  <1> HIDE DEF All
  <1>4. IsFiniteSet(ByteSet(es))
    BY <1>2, <1>3, FS_Subset
  <1>5. Cardinality(ByteSet(fs)) <= Cardinality(ByteSet(es)) /\ IsFiniteSet(ByteSet(fs))
    BY <1>1, <1>4, FS_Subset
  <1>6. Cardinality(ByteSet(fs)) \in Nat /\ Cardinality(ByteSet(es)) \in Nat
    BY <1>4, <1>5, FS_CardinalityType
  <1>7. QED BY <1>5, <1>6, BytesAre

LEMMA NoBytes == Registry!Bytes(<<>>) = 0
  <1>1. ByteSet(<<>>) = {}
    BY DEF ByteSet, Elements
  <1>2. QED BY <1>1, BytesAre, FS_EmptySet

\* Catalogues at some places: of those there are, still one of each.
LEMMA SomeKept ==
  ASSUME NEW es \in Seq(Catalogue), NEW P \in SUBSET DOMAIN es
  PROVE  /\ Registry!Kept(es, P) \in Seq(Catalogue)
         /\ Len(Registry!Kept(es, P)) <= Len(es)
         /\ \A e \in Elements(Registry!Kept(es, P)) : \E n \in P : e = es[n]
         /\ \A n \in P : es[n] \in Elements(Registry!Kept(es, P))
         /\ OneOfEach(es) => OneOfEach(Registry!Kept(es, P))
  <1> DEFINE K == Kept(es, P)
  <1>1. K \in Seq(Catalogue) /\ Len(K) <= Len(es)
    BY KeptIs
  <1>2. PICK f \in [DOMAIN K -> P] :
              /\ \A i \in DOMAIN K : K[i] = es[f[i]]
              /\ \A i, j \in DOMAIN K : f[i] = f[j] => i = j
              /\ \A n \in P : \E i \in DOMAIN K : f[i] = n
    BY KeptIs
  <1>3. Registry!Kept(es, P) = K
    BY KeptAlike
  <1> HIDE DEF K
  <1>4. \A e \in Elements(K) : \E n \in P : e = es[n]
    BY <1>2 DEF Elements
  <1>5. \A n \in P : es[n] \in Elements(K)
    BY <1>2 DEF Elements
  <1>6. OneOfEach(es) => OneOfEach(K)
    BY <1>2 DEF OneOfEach
  <1>7. QED BY <1>1, <1>3, <1>4, <1>5, <1>6

\* What is evicted is the oldest, and the rest fits.
LEMMA EvictFits ==
  ASSUME NEW es \in Seq(Catalogue), Registry!RegistryAssumption
  PROVE  /\ Registry!Evict(es) \in Seq(Catalogue)
         /\ Elements(Registry!Evict(es)) \subseteq Elements(es)
         /\ OneOfEach(es) => OneOfEach(Registry!Evict(es))
         /\ Len(Registry!Evict(es)) <= MaxEntries
         /\ Registry!Bytes(Registry!Evict(es)) <= MaxBytes
  <1> DEFINE fits(n) == LET rest == SubSeq(es, n, Len(es))
                        IN Len(rest) <= MaxEntries /\ Registry!Bytes(rest) <= MaxBytes
             Fitting == {n \in 1..Len(es) + 1 : fits(n)}
             first == CHOOSE n \in 1..Len(es) + 1 : fits(n) /\ \A m \in 1..n - 1 : ~fits(m)
             rest == SubSeq(es, first, Len(es))
  <1>1. Len(es) \in Nat /\ MaxEntries \in Nat /\ MaxBytes \in Nat
    BY DEF Registry!RegistryAssumption
  <1>2. Len(es) + 1 \in Fitting
    <2>1. SubSeq(es, Len(es) + 1, Len(es)) = <<>>
      BY <1>1
    <2>2. fits(Len(es) + 1)
      <3>1. Len(<<>>) <= MaxEntries /\ Registry!Bytes(<<>>) <= MaxBytes
        BY <1>1, NoBytes
      <3>2. QED BY ONLY <2>1, <3>1
    <2> HIDE DEF fits
    <2>3. QED BY <1>1, <2>2
  <1>3. \E n \in 1..Len(es) + 1 : fits(n) /\ \A m \in 1..n - 1 : ~fits(m)
    <2> HIDE DEF fits
    <2>1. Fitting \in SUBSET Nat /\ Fitting # {}
      BY <1>1, <1>2
    <2>2. PICK n \in Fitting : \A m \in Fitting : n <= m
      <3> HIDE DEF Fitting
      <3>1. QED BY <2>1, LeastOne
    <2>3. n \in 1..Len(es) + 1 /\ fits(n)
      OBVIOUS
    <2>4. \A m \in 1..n - 1 : ~fits(m)
      <3>1. \A m \in 1..n - 1 : m \in 1..Len(es) + 1 /\ ~(n <= m)
        BY <1>1, <2>3
      <3>2. QED BY <2>2, <3>1
    <2>5. QED BY <2>3, <2>4
  <1>4. first \in 1..Len(es) + 1 /\ fits(first)
    <2> HIDE DEF fits
    <2>1. QED BY <1>3
  <1>5. Registry!Evict(es) = rest
    BY DEF Registry!Evict
  <1>6. Len(rest) <= MaxEntries /\ Registry!Bytes(rest) <= MaxBytes
    <2> HIDE DEF first
    <2>1. QED BY <1>4
  <1> HIDE DEF first, fits
  <1>7. /\ rest \in Seq(Catalogue)
        /\ \A i \in DOMAIN rest : first + i - 1 \in DOMAIN es /\ rest[i] = es[first + i - 1]
    BY <1>1, <1>4
  <1>8. DOMAIN rest \subseteq Int /\ first \in Int
    BY <1>1, <1>4, <1>7
  <1> HIDE DEF rest
  <1>9. Elements(rest) \subseteq Elements(es)
    BY <1>7 DEF Elements
  <1>10. OneOfEach(es) => OneOfEach(rest)
    <2> SUFFICES ASSUME OneOfEach(es), NEW m \in DOMAIN rest, NEW n \in DOMAIN rest,
                        rest[m].id = rest[n].id
                 PROVE  m = n
      BY DEF OneOfEach
    <2>1. first + m - 1 = first + n - 1
      BY <1>7 DEF OneOfEach
    <2>2. QED BY <1>8, <2>1
  <1>11. QED BY <1>5, <1>6, <1>7, <1>9, <1>10

\* After an analysis has put its catalogue, the registry has that one or none of
\* it, and of the others no more than before.
LEMMA AfterPut ==
  ASSUME Registry!RegistryAssumption, RegistryTyped, OneOfEach(entries),
         NEW id \in 1..MaxAnalyses, NEW size \in Nat, Registry!MayPut(size),
         NEW parts \in SUBSET CatalogueParts
  PROVE  LET then == Registry!After(id, size, parts)
         IN /\ then \in Seq(Catalogue) /\ OneOfEach(then)
            /\ Len(then) <= MaxEntries /\ Registry!Bytes(then) <= MaxBytes
            /\ \A e \in Elements(then) :
                 \/ e.id = id /\ e.parts = parts
                 \/ e \in Elements(entries) /\ e.id # id
  <1> DEFINE pruned == Registry!Pruned
             others == Registry!Without(pruned, id)
             new == [id |-> id, size |-> size, parts |-> parts, expires |-> now + Ttl]
             all == Append(others, new)
  <1>1. new \in Catalogue
    BY DEF Catalogue, Registry!MayPut, Registry!RegistryAssumption, RegistryTyped
  <1>2. entries \in Seq(Catalogue)
    BY DEF RegistryTyped
  <1>3. /\ pruned \in Seq(Catalogue) /\ OneOfEach(pruned)
        /\ Elements(pruned) \subseteq Elements(entries)
    <2> DEFINE P == {n \in DOMAIN entries : entries[n].expires > now}
    <2>1. pruned = Registry!Kept(entries, P) /\ P \in SUBSET DOMAIN entries
      BY DEF Registry!Pruned
    <2> HIDE DEF P, pruned
    <2>2. pruned \in Seq(Catalogue) /\ OneOfEach(pruned)
          /\ \A e \in Elements(pruned) : \E n \in P : e = entries[n]
      BY <1>2, <2>1, SomeKept
    <2>3. QED BY <2>1, <2>2 DEF Elements
  <1> HIDE DEF pruned
  <1>4. /\ others \in Seq(Catalogue) /\ OneOfEach(others)
        /\ \A e \in Elements(others) : e \in Elements(pruned) /\ e.id # id
    <2> DEFINE P == {n \in DOMAIN pruned : pruned[n].id # id}
    <2>1. others = Registry!Kept(pruned, P) /\ P \in SUBSET DOMAIN pruned
      BY DEF Registry!Without
    <2>2. \A n \in P : pruned[n] \in Elements(pruned) /\ pruned[n].id # id
      BY DEF Elements
    <2> HIDE DEF P, others
    <2>3. others \in Seq(Catalogue) /\ OneOfEach(others)
          /\ \A e \in Elements(others) : \E n \in P : e = pruned[n]
      BY <1>3, <2>1, SomeKept
    <2>4. QED BY <2>2, <2>3
  <1> HIDE DEF others
  <1>5. new.id = id /\ new.parts = parts
    OBVIOUS
  <1> HIDE DEF new
  <1>6. /\ all \in Seq(Catalogue) /\ DOMAIN all = 1..Len(others) + 1
        /\ all[Len(others) + 1] = new
        /\ \A n \in 1..Len(others) : n \in DOMAIN others /\ all[n] = others[n]
        /\ Len(others) \in Nat
    BY <1>1, <1>4
  <1> HIDE DEF all
  <1>7. \A e \in Elements(all) : e = new \/ e \in Elements(others)
    <2> SUFFICES ASSUME NEW n \in DOMAIN all PROVE all[n] = new \/ all[n] \in Elements(others)
      BY DEF Elements
    <2>1. n \in 1..Len(others) \/ n = Len(others) + 1
      BY <1>6
    <2>2. QED BY <1>6, <2>1 DEF Elements
  <1>8. OneOfEach(all)
    <2> SUFFICES ASSUME NEW m \in DOMAIN all, NEW n \in DOMAIN all, all[m].id = all[n].id
                 PROVE  m = n
      BY DEF OneOfEach
    <2>1. \A k \in 1..Len(others) : all[k].id # id
      BY <1>4, <1>6 DEF Elements
    <2>2. CASE m \in 1..Len(others) /\ n \in 1..Len(others)
      BY <1>4, <1>6, <2>2 DEF OneOfEach
    <2>3. CASE m = Len(others) + 1 /\ n \in 1..Len(others)
      BY <1>5, <1>6, <2>1, <2>3
    <2>4. CASE m \in 1..Len(others) /\ n = Len(others) + 1
      BY <1>5, <1>6, <2>1, <2>4
    <2>5. CASE m = Len(others) + 1 /\ n = Len(others) + 1
      BY <2>5
    <2>6. QED BY <1>6, <2>2, <2>3, <2>4, <2>5
  <1>9. Registry!After(id, size, parts) = Registry!Evict(all)
    BY DEF Registry!After, all, others, pruned, new
  <1>10. /\ Registry!Evict(all) \in Seq(Catalogue) /\ OneOfEach(Registry!Evict(all))
         /\ Len(Registry!Evict(all)) <= MaxEntries
         /\ Registry!Bytes(Registry!Evict(all)) <= MaxBytes
         /\ Elements(Registry!Evict(all)) \subseteq Elements(all)
    BY <1>6, <1>8, EvictFits
  <1>11. \A e \in Elements(all) : \/ e.id = id /\ e.parts = parts
                                  \/ e \in Elements(entries) /\ e.id # id
    BY <1>3, <1>4, <1>5, <1>7
  <1>12. QED BY <1>9, <1>10, <1>11

\* What is read back is in the registry.
LEMMA ReadBackIs ==
  ASSUME RegistryTyped, NEW id, Registry!Has(id)
  PROVE  Registry!Get(id) \in Elements(entries) /\ Registry!Get(id).id = id
         /\ Registry!Get(id) \in Catalogue
  <1> DEFINE pruned == Registry!Pruned
             P == {n \in DOMAIN entries : entries[n].expires > now}
             n == CHOOSE n \in DOMAIN pruned : pruned[n].id = id
  <1>1. pruned = Registry!Kept(entries, P) /\ P \in SUBSET DOMAIN entries
        /\ entries \in Seq(Catalogue)
    BY DEF Registry!Pruned, RegistryTyped
  <1>2. \E m \in DOMAIN pruned : pruned[m].id = id
    BY DEF Registry!Has
  <1>3. Registry!Get(id) = pruned[n]
    BY DEF Registry!Get
  <1> HIDE DEF P, pruned
  <1>4. n \in DOMAIN pruned /\ pruned[n].id = id
    BY <1>2
  <1> HIDE DEF n
  <1>5. /\ pruned \in Seq(Catalogue)
        /\ \A e \in Elements(pruned) : \E m \in P : e = entries[m]
    BY <1>1, SomeKept
  <1>6. pruned[n] \in Elements(pruned) /\ pruned[n] \in Catalogue
    BY <1>4, <1>5 DEF Elements
  <1>7. QED BY <1>1, <1>3, <1>4, <1>5, <1>6 DEF Elements

\* At the start there is nothing.
LEMMA RegistryInit ==
  ASSUME Registry!RegistryAssumption, Registry!Init
  PROVE  RegistryInv
  <1>1. Registry!Bytes(<<>>) = 0
    BY NoBytes
  <1>2. RegistryTyped
    BY DEF Registry!RegistryAssumption, Registry!Init, RegistryTyped, Registry!Ids,
       Registry!Idle, Stages
  <1>3. Registry!RegistryBounded
    BY <1>1 DEF Registry!RegistryAssumption, Registry!Init, Registry!RegistryBounded
  <1>4. AnalysesApart /\ NothingAhead /\ StatusAgrees /\ DeletedGone
    BY DEF Registry!Init, AnalysesApart, NothingAhead, StatusAgrees, DeletedGone,
       Registry!Ids, Registry!Idle, Elements
  <1>5. QED BY <1>2, <1>3, <1>4 DEF RegistryInv

\* A step in which an analysis may put its catalogue, and the status with it.
LEMMA PutKeeps ==
  ASSUME Registry!RegistryAssumption, RegistryInv, NEW t \in Threads,
         at[t].stage \in Putting, NEW stage_ \in {"context", "http", "save"},
         at' = [at EXCEPT ![t].stage = stage_],
         UNCHANGED <<slot, ids, saved, deleting, deleted, now>>,
         status' \in [1..MaxAnalyses -> SUBSET CatalogueParts],
         \A id \in 1..MaxAnalyses : id # at[t].id => status'[id] = status[id],
         entries' \in Seq(Catalogue), OneOfEach(entries'),
         Len(entries') <= MaxEntries, Registry!Bytes(entries') <= MaxBytes,
         \A e \in Elements(entries') :
            \/ e.id = at[t].id /\ e.parts \ {"core"} = status'[at[t].id]
            \/ e \in Elements(entries) /\ e.id # at[t].id
  PROVE  RegistryInv'
  <1> DEFINE id == at[t].id
  <1>1. /\ slot = t /\ id \in 1..ids /\ id \in 1..MaxAnalyses /\ ids \in Nat
        /\ saved[id] = NONE /\ id \notin deleting \cup deleted
    <2>1. at[t].stage # "idle" /\ at[t].stage # "respond"
      BY DEF Putting
    <2>2. ids \in 0..MaxAnalyses /\ MaxAnalyses \in Nat
      BY DEF RegistryInv, RegistryTyped, Registry!RegistryAssumption
    <2>3. QED BY <2>1, <2>2 DEF RegistryInv, AnalysesApart
  <1>2. /\ DOMAIN at = Threads
        /\ at' = [u \in Threads |-> IF u = t THEN [at[t] EXCEPT !.stage = stage_] ELSE at[u]]
        /\ at'[t].stage = stage_ /\ at'[t].id = id
        /\ \A u \in Threads : u # t => at'[u] = at[u]
    BY DEF RegistryInv, RegistryTyped
  <1>3. \A u \in Threads : at'[u].stage # "idle" => u = t
    <2>1. \A u \in Threads : at[u].stage # "idle" => slot = u
      BY DEF RegistryInv, AnalysesApart
    <2>2. QED BY <1>1, <1>2, <2>1
  <1>4. RegistryTyped'
    <2>1. at' \in [Threads -> [stage : Stages, id : 0..MaxAnalyses, since : Nat]]
      <3>1. at[t] \in [stage : Stages, id : 0..MaxAnalyses, since : Nat]
        BY DEF RegistryInv, RegistryTyped
      <3>2. stage_ \in Stages
        BY DEF Stages
      <3>3. QED BY <3>1, <3>2 DEF RegistryInv, RegistryTyped
    <2>2. QED BY <2>1 DEF RegistryInv, RegistryTyped
  <1>5. Registry!RegistryBounded'
    BY DEF Registry!RegistryBounded, OneOfEach
  <1> HIDE DEF id
  <1>6. AnalysesApart'
    <2> SUFFICES ASSUME NEW u \in Threads, at'[u].stage # "idle"
                 PROVE  /\ slot' = u /\ at'[u].id \in 1..ids'
                        /\ at'[u].stage # "respond" =>
                             saved'[at'[u].id] = NONE /\ at'[u].id \notin deleting' \cup deleted'
                        /\ at'[u].stage # "project"
      BY DEF AnalysesApart
    <2>1. u = t
      BY <1>3
    <2>2. QED BY <1>1, <1>2, <2>1
  <1>7. NothingAhead'
    <2>1. \A i \in 1..MaxAnalyses : i > ids => i # id
      BY <1>1
    <2>2. \A i \in 1..MaxAnalyses : i > ids =>
            saved[i] = NONE /\ status'[i] = {} /\ i \notin deleting \cup deleted
      BY <2>1 DEF RegistryInv, NothingAhead, id
    <2>3. \A e \in Elements(entries') : e.id <= ids
      BY <1>1 DEF RegistryInv, NothingAhead, id
    <2>4. QED BY <2>2, <2>3 DEF NothingAhead
  <1>8. StatusAgrees'
    <2>1. \A e \in Elements(entries') : e.parts \ {"core"} = status'[e.id]
      <3> SUFFICES ASSUME NEW e \in Elements(entries') PROVE e.parts \ {"core"} = status'[e.id]
        OBVIOUS
      <3>1. CASE e \in Elements(entries) /\ e.id # id
        <4>1. e.id \in 1..MaxAnalyses
          <5>1. \A n \in DOMAIN entries : entries[n] \in Catalogue
            BY DEF RegistryInv, RegistryTyped
          <5>2. e \in Catalogue
            BY <3>1, <5>1 DEF Elements
          <5>3. QED BY <5>2 DEF Catalogue
        <4>2. QED BY <3>1, <4>1 DEF RegistryInv, StatusAgrees, id
      <3>2. QED BY <3>1 DEF id
    <2>2. \A i \in 1..MaxAnalyses : saved[i] # NONE => saved[i] \ {"core"} = status'[i]
      BY <1>1 DEF RegistryInv, StatusAgrees, id
    <2>3. QED BY <2>1, <2>2 DEF StatusAgrees
  <1>9. DeletedGone'
    BY <1>1 DEF RegistryInv, DeletedGone, id
  <1>10. QED BY <1>4, <1>5, <1>6, <1>7, <1>8, <1>9 DEF RegistryInv

\* The catalogue is projected, or not.
LEMMA ProjectKeeps ==
  ASSUME Registry!RegistryAssumption, RegistryInv, NEW t \in Threads, Registry!Project(t)
  PROVE  RegistryInv'
  <1> DEFINE id == at[t].id
  <1>1. /\ at[t].stage = "project" /\ at' = [at EXCEPT ![t].stage = "context"]
        /\ UNCHANGED <<slot, ids, status, saved, deleting, deleted, now>>
    BY DEF Registry!Project
  <1>2. /\ id \in 1..MaxAnalyses /\ status[id] = {}
        /\ \A e \in Elements(entries) : e.id # id
    BY <1>1 DEF RegistryInv, AnalysesApart, RegistryTyped
  <1>3. /\ entries \in Seq(Catalogue) /\ OneOfEach(entries)
        /\ Len(entries) <= MaxEntries /\ Registry!Bytes(entries) <= MaxBytes
        /\ RegistryTyped /\ status \in [1..MaxAnalyses -> SUBSET CatalogueParts]
    BY DEF RegistryInv, RegistryTyped, Registry!RegistryBounded, OneOfEach
  <1>4. \/ entries' = entries
        \/ \E size \in Sizes : Registry!MayPut(size)
                             /\ entries' = Registry!After(id, size, {"core"})
    BY DEF Registry!Project
  <1> HIDE DEF id
  <1>5. /\ entries' \in Seq(Catalogue) /\ OneOfEach(entries')
        /\ Len(entries') <= MaxEntries /\ Registry!Bytes(entries') <= MaxBytes
        /\ \A e \in Elements(entries') :
             \/ e.id = id /\ e.parts \ {"core"} = status[id]
             \/ e \in Elements(entries) /\ e.id # id
    <2>1. CASE entries' = entries
      BY <1>2, <1>3, <2>1
    <2>2. CASE \E size \in Sizes : Registry!MayPut(size)
                             /\ entries' = Registry!After(id, size, {"core"})
      <3>1. PICK size \in Sizes : Registry!MayPut(size)
                             /\ entries' = Registry!After(id, size, {"core"})
        BY <2>2
      <3>2. size \in Nat /\ {"core"} \in SUBSET CatalogueParts
        BY DEF Registry!RegistryAssumption, CatalogueParts
      <3>3. /\ entries' \in Seq(Catalogue) /\ OneOfEach(entries')
            /\ Len(entries') <= MaxEntries /\ Registry!Bytes(entries') <= MaxBytes
            /\ \A e \in Elements(entries') :
                 \/ e.id = id /\ e.parts = {"core"}
                 \/ e \in Elements(entries) /\ e.id # id
        BY <1>2, <1>3, <3>1, <3>2, AfterPut
      <3>4. QED BY <1>2, <3>3
    <2>3. QED BY <1>4, <2>1, <2>2
  <1>6. at[t].stage \in Putting /\ "context" \in {"context", "http", "save"}
    BY <1>1 DEF Putting
  <1>7. QED BY <1>1, <1>3, <1>5, <1>6, PutKeeps DEF id

\* A stage reads the catalogue back, adds its part and puts it again, or not.
LEMMA EnrichKeeps ==
  ASSUME Registry!RegistryAssumption, RegistryInv, NEW t \in Threads,
         at[t].stage \in Putting, at[t].stage # "project",
         NEW p \in {"context", "http"}, NEW stage_ \in {"http", "save"},
         \/ Registry!Enrich(t, p, stage_)
         \/ at' = [at EXCEPT ![t].stage = stage_] /\ UNCHANGED <<entries, status>>,
         UNCHANGED <<slot, ids, saved, deleting, deleted, now>>
  PROVE  RegistryInv'
  <1> DEFINE id == at[t].id
             size == Registry!Get(id).size + 1
             parts == Registry!Get(id).parts \cup {p}
  <1>1. /\ entries \in Seq(Catalogue) /\ OneOfEach(entries)
        /\ Len(entries) <= MaxEntries /\ Registry!Bytes(entries) <= MaxBytes
        /\ RegistryTyped /\ status \in [1..MaxAnalyses -> SUBSET CatalogueParts]
    BY DEF RegistryInv, RegistryTyped, Registry!RegistryBounded, OneOfEach
  <1>2. id \in 1..MaxAnalyses
    <2>1. at[t].stage # "idle"
      BY DEF Putting
    <2>2. id \in 1..ids /\ ids \in 0..MaxAnalyses /\ MaxAnalyses \in Nat
      BY <2>1 DEF RegistryInv, AnalysesApart, RegistryTyped, Registry!RegistryAssumption
    <2>3. QED BY <2>2
  <1>3. \A e \in Elements(entries) : e.parts \ {"core"} = status[e.id]
    BY DEF RegistryInv, StatusAgrees
  <1>4. at' = [at EXCEPT ![t].stage = stage_]
    BY DEF Registry!Enrich
  <1>5. \/ entries' = entries /\ status' = status
        \/ /\ Registry!Has(id) /\ Registry!MayPut(size)
           /\ entries' = Registry!After(id, size, parts)
           /\ status' = [status EXCEPT ![id] = @ \cup {p}]
    BY DEF Registry!Enrich
  <1> HIDE DEF id, size, parts
  <1>6. /\ status' \in [1..MaxAnalyses -> SUBSET CatalogueParts]
        /\ \A i \in 1..MaxAnalyses : i # id => status'[i] = status[i]
        /\ entries' \in Seq(Catalogue) /\ OneOfEach(entries')
        /\ Len(entries') <= MaxEntries /\ Registry!Bytes(entries') <= MaxBytes
        /\ \A e \in Elements(entries') :
             \/ e.id = id /\ e.parts \ {"core"} = status'[id]
             \/ e \in Elements(entries) /\ e.id # id
    <2>1. CASE entries' = entries /\ status' = status
      BY <1>1, <1>3, <2>1
    <2>2. CASE /\ Registry!Has(id) /\ Registry!MayPut(size)
               /\ entries' = Registry!After(id, size, parts)
               /\ status' = [status EXCEPT ![id] = @ \cup {p}]
      <3>1. /\ Registry!Get(id) \in Elements(entries) /\ Registry!Get(id).id = id
            /\ Registry!Get(id) \in Catalogue
        BY <1>1, <2>2, ReadBackIs
      <3>2. size \in Nat /\ parts \in SUBSET CatalogueParts
        BY <3>1 DEF size, parts, Catalogue, CatalogueParts
      <3>3. parts \ {"core"} = status[id] \cup {p}
        BY <1>3, <3>1 DEF parts
      <3>4. /\ entries' \in Seq(Catalogue) /\ OneOfEach(entries')
            /\ Len(entries') <= MaxEntries /\ Registry!Bytes(entries') <= MaxBytes
            /\ \A e \in Elements(entries') :
                 \/ e.id = id /\ e.parts = parts
                 \/ e \in Elements(entries) /\ e.id # id
        BY <1>1, <1>2, <2>2, <3>2, AfterPut
      <3>5. /\ status' \in [1..MaxAnalyses -> SUBSET CatalogueParts]
            /\ status'[id] = status[id] \cup {p}
            /\ \A i \in 1..MaxAnalyses : i # id => status'[i] = status[i]
        BY <1>1, <1>2, <2>2 DEF CatalogueParts
      <3>6. QED BY <3>3, <3>4, <3>5
    <2>3. QED BY <1>5, <2>1, <2>2
  <1>7. stage_ \in {"context", "http", "save"}
    OBVIOUS
  <1>8. QED BY <1>4, <1>6, <1>7, PutKeeps DEF id

\* Every step of the registry, of an analysis and of a deletion keeps it.
LEMMA RegistryStep ==
  ASSUME Registry!RegistryAssumption, RegistryInv, Registry!Next
  PROVE  RegistryInv'
  <1> USE DEF Registry!Ids
  <1>0. /\ RegistryTyped /\ Registry!RegistryBounded /\ AnalysesApart /\ NothingAhead
        /\ StatusAgrees /\ DeletedGone /\ MaxAnalyses \in Nat /\ NONE \notin Threads
    BY DEF RegistryInv, Registry!RegistryAssumption
  <1>1. ASSUME NEW t \in Threads, Registry!Begin(t) PROVE RegistryInv'
    <2>1. /\ at[t].stage = "idle" /\ slot = NONE /\ ids < MaxAnalyses
          /\ slot' = t /\ ids' = ids + 1
          /\ at' = [at EXCEPT ![t] = [stage |-> "project", id |-> ids + 1, since |-> now]]
          /\ UNCHANGED <<entries, status, saved, deleting, deleted, now>>
      BY <1>1 DEF Registry!Begin
    <2>2. /\ at'[t] = [stage |-> "project", id |-> ids + 1, since |-> now]
          /\ \A u \in Threads : u # t => at'[u] = at[u] /\ at[u].stage = "idle"
      BY <1>0, <2>1 DEF RegistryTyped, AnalysesApart
    <2>3. ids \in Nat /\ ids' \in 1..MaxAnalyses
      BY <1>0, <2>1 DEF RegistryTyped
    <2>4. RegistryTyped'
      <3>1. [stage |-> "project", id |-> ids + 1, since |-> now]
              \in [stage : Stages, id : 0..MaxAnalyses, since : Nat]
        BY <1>0, <2>1, <2>3 DEF RegistryTyped, Stages
      <3>2. QED BY <1>0, <2>1, <2>3, <3>1 DEF RegistryTyped
    <2>5. AnalysesApart'
      <3> SUFFICES ASSUME NEW u \in Threads, at'[u].stage # "idle"
                   PROVE  /\ slot' = u /\ at'[u].id \in 1..ids'
                          /\ saved'[at'[u].id] = NONE /\ at'[u].id \notin deleting' \cup deleted'
                          /\ status'[at'[u].id] = {}
                          /\ \A e \in Elements(entries') : e.id # at'[u].id
        BY DEF AnalysesApart
      <3>1. u = t /\ at'[u].id = ids + 1
        BY <2>2
      <3>2. \A e \in Elements(entries) : e.id <= ids /\ e.id # ids + 1
        <4>1. \A e \in Elements(entries) : e.id <= ids /\ e.id \in Nat
          <5>1. \A n \in DOMAIN entries : entries[n] \in Catalogue
            BY <1>0 DEF RegistryTyped
          <5>2. QED BY <1>0, <5>1 DEF NothingAhead, Elements, Catalogue
        <4>2. QED BY <2>3, <4>1
      <3>3. /\ saved[ids + 1] = NONE /\ status[ids + 1] = {}
            /\ ids + 1 \notin deleting \cup deleted
        BY <1>0, <2>1, <2>3 DEF NothingAhead
      <3>4. QED BY <2>1, <2>3, <3>1, <3>2, <3>3
    <2>6. NothingAhead'
      <3>1. \A e \in Elements(entries) : e.id <= ids + 1
        <4>1. \A n \in DOMAIN entries : entries[n] \in Catalogue
          BY <1>0 DEF RegistryTyped
        <4>2. \A e \in Elements(entries) : e.id <= ids /\ e.id \in Nat
          BY <1>0, <4>1 DEF NothingAhead, Elements, Catalogue
        <4>3. QED BY <2>3, <4>2
      <3>2. \A i \in 1..MaxAnalyses : i > ids + 1 => i > ids
        BY <2>3
      <3>3. QED BY <1>0, <2>1, <3>1, <3>2 DEF NothingAhead
    <2>7. Registry!RegistryBounded' /\ StatusAgrees' /\ DeletedGone'
      BY <1>0, <2>1 DEF Registry!RegistryBounded, StatusAgrees, DeletedGone
    <2>8. QED BY <2>4, <2>5, <2>6, <2>7 DEF RegistryInv
  <1>2. ASSUME NEW t \in Threads, Registry!Project(t) PROVE RegistryInv'
    BY <1>2, ProjectKeeps
  <1>3. ASSUME NEW t \in Threads, Registry!Context(t) PROVE RegistryInv'
    <2>1. at[t].stage \in Putting /\ at[t].stage # "project"
      BY <1>3 DEF Registry!Context, Putting
    <2>2. /\ \/ Registry!Enrich(t, "context", "http")
             \/ at' = [at EXCEPT ![t].stage = "http"] /\ UNCHANGED <<entries, status>>
          /\ UNCHANGED <<slot, ids, saved, deleting, deleted, now>>
      BY <1>3 DEF Registry!Context
    <2>3. "context" \in {"context", "http"} /\ "http" \in {"http", "save"}
      OBVIOUS
    <2>4. QED BY <2>1, <2>2, <2>3, EnrichKeeps
  <1>4. ASSUME NEW t \in Threads, Registry!Http(t) PROVE RegistryInv'
    <2>1. at[t].stage \in Putting /\ at[t].stage # "project"
      BY <1>4 DEF Registry!Http, Putting
    <2>2. /\ \/ Registry!Enrich(t, "http", "save")
             \/ at' = [at EXCEPT ![t].stage = "save"] /\ UNCHANGED <<entries, status>>
          /\ UNCHANGED <<slot, ids, saved, deleting, deleted, now>>
      BY <1>4 DEF Registry!Http
    <2>3. "http" \in {"context", "http"} /\ "save" \in {"http", "save"}
      OBVIOUS
    <2>4. QED BY <2>1, <2>2, <2>3, EnrichKeeps
  <1>5. ASSUME NEW t \in Threads, Registry!Save(t) PROVE RegistryInv'
    <2> DEFINE id == at[t].id
    <2>1. /\ at[t].stage = "save" /\ at' = [at EXCEPT ![t].stage = "respond"]
          /\ UNCHANGED <<entries, slot, ids, status, deleting, deleted, now>>
      BY <1>5 DEF Registry!Save
    <2>2. \/ saved' = saved
          \/ Registry!Has(id) /\ saved' = [saved EXCEPT ![id] = Registry!Get(id).parts]
      BY <1>5 DEF Registry!Save
    <2>3. /\ slot = t /\ id \in 1..ids /\ id \in 1..MaxAnalyses
          /\ id \notin deleting \cup deleted
      BY <1>0, <2>1 DEF AnalysesApart, RegistryTyped
    <2>4. /\ at'[t].stage = "respond" /\ at'[t].id = id
          /\ \A u \in Threads : u # t => at'[u] = at[u] /\ at[u].stage = "idle"
      BY <1>0, <2>1, <2>3 DEF RegistryTyped, AnalysesApart
    <2> HIDE DEF id
    <2>5. /\ DOMAIN saved' = 1..MaxAnalyses
          /\ \A i \in 1..MaxAnalyses : i # id => saved'[i] = saved[i]
          /\ saved'[id] = saved[id] \/ saved'[id] \ {"core"} = status[id]
      <3>1. CASE saved' = saved
        BY <1>0, <3>1 DEF RegistryTyped
      <3>2. CASE Registry!Has(id) /\ saved' = [saved EXCEPT ![id] = Registry!Get(id).parts]
        <4>1. Registry!Get(id) \in Elements(entries) /\ Registry!Get(id).id = id
          BY <1>0, <3>2, ReadBackIs
        <4>2. Registry!Get(id).parts \ {"core"} = status[id]
          BY <1>0, <4>1 DEF StatusAgrees
        <4>3. QED BY <1>0, <2>3, <3>2, <4>2 DEF RegistryTyped
      <3>3. QED BY <2>2, <3>1, <3>2
    <2>6. RegistryTyped'
      <3>1. at' \in [Threads -> [stage : Stages, id : 0..MaxAnalyses, since : Nat]]
        BY <1>0, <2>1 DEF RegistryTyped, Stages
      <3>2. QED BY <1>0, <2>1, <2>5, <3>1 DEF RegistryTyped
    <2>7. AnalysesApart'
      BY <2>1, <2>3, <2>4 DEF AnalysesApart
    <2>8. NothingAhead'
      <3>1. \A i \in 1..MaxAnalyses : i > ids => i # id
        BY <1>0, <2>3 DEF RegistryTyped
      <3>2. QED BY <1>0, <2>1, <2>5, <3>1 DEF NothingAhead
    <2>9. StatusAgrees'
      BY <1>0, <2>1, <2>5 DEF StatusAgrees
    <2>10. DeletedGone'
      <3>1. \A i \in deleting \cup deleted : i # id /\ i \in 1..MaxAnalyses
        BY <1>0, <2>3 DEF RegistryTyped
      <3>2. QED BY <1>0, <2>1, <2>5, <3>1 DEF DeletedGone
    <2>11. Registry!RegistryBounded'
      BY <1>0, <2>1 DEF Registry!RegistryBounded
    <2>12. QED BY <2>6, <2>7, <2>8, <2>9, <2>10, <2>11 DEF RegistryInv
  <1>6. ASSUME NEW t \in Threads, Registry!Respond(t) PROVE RegistryInv'
    <2>1. /\ at[t].stage = "respond" /\ slot' = NONE
          /\ at' = [at EXCEPT ![t] = Registry!Idle]
          /\ UNCHANGED <<entries, ids, status, saved, deleting, deleted, now>>
      BY <1>6 DEF Registry!Respond
    <2>2. /\ at'[t] = Registry!Idle
          /\ \A u \in Threads : u # t => at'[u] = at[u] /\ at[u].stage = "idle"
      BY <1>0, <2>1 DEF RegistryTyped, AnalysesApart
    <2>3. RegistryTyped'
      <3>1. Registry!Idle \in [stage : Stages, id : 0..MaxAnalyses, since : Nat]
        BY <1>0 DEF Registry!Idle, Stages
      <3>2. QED BY <1>0, <2>1, <3>1 DEF RegistryTyped
    <2>4. AnalysesApart'
      BY <2>1, <2>2 DEF AnalysesApart, Registry!Idle
    <2>5. NothingAhead' /\ StatusAgrees' /\ DeletedGone' /\ Registry!RegistryBounded'
      BY <1>0, <2>1 DEF NothingAhead, StatusAgrees, DeletedGone, Registry!RegistryBounded
    <2>6. QED BY <2>3, <2>4, <2>5 DEF RegistryInv
  <1>7. ASSUME NEW id \in 1..MaxAnalyses, Registry!DeleteSaved(id) PROVE RegistryInv'
    <2>1. /\ saved[id] # NONE /\ saved' = [saved EXCEPT ![id] = NONE]
          /\ deleting' = deleting \cup {id}
          /\ UNCHANGED <<entries, slot, at, ids, status, deleted, now>>
      BY <1>7 DEF Registry!DeleteSaved
    <2>2. /\ DOMAIN saved' = 1..MaxAnalyses /\ saved'[id] = NONE
          /\ \A i \in 1..MaxAnalyses : i # id => saved'[i] = saved[i]
      BY <1>0, <2>1 DEF RegistryTyped
    <2>3. RegistryTyped'
      BY <1>0, <2>1, <2>2 DEF RegistryTyped
    <2>4. AnalysesApart'
      <3>1. \A u \in Threads : at[u].stage # "idle" /\ at[u].stage # "respond"
              => at[u].id # id /\ at[u].id \in 1..MaxAnalyses
        BY <1>0, <2>1 DEF AnalysesApart, RegistryTyped
      <3>2. QED BY <1>0, <2>1, <2>2, <3>1 DEF AnalysesApart
    <2>5. NothingAhead'
      <3>1. ~(id > ids)
        BY <1>0, <2>1 DEF NothingAhead
      <3>2. QED BY <1>0, <2>1, <2>2, <3>1 DEF NothingAhead
    <2>6. StatusAgrees'
      BY <1>0, <2>1, <2>2 DEF StatusAgrees
    <2>7. DeletedGone'
      <3>1. deleting \cup deleted \subseteq 1..MaxAnalyses
        BY <1>0 DEF RegistryTyped
      <3>2. QED BY <1>0, <2>1, <2>2, <3>1 DEF DeletedGone
    <2>8. Registry!RegistryBounded'
      BY <1>0, <2>1 DEF Registry!RegistryBounded
    <2>9. QED BY <2>3, <2>4, <2>5, <2>6, <2>7, <2>8 DEF RegistryInv
  <1>8. ASSUME NEW id \in 1..MaxAnalyses, Registry!EvictAnalysis(id) PROVE RegistryInv'
    <2> DEFINE P == {n \in DOMAIN entries : entries[n].id # id}
    <2>1. /\ id \in deleting /\ deleting' = deleting \ {id} /\ deleted' = deleted \cup {id}
          /\ entries' = Registry!Without(entries, id)
          /\ UNCHANGED <<slot, at, ids, status, saved, now>>
      BY <1>8 DEF Registry!EvictAnalysis
    <2>2. entries' = Registry!Kept(entries, P) /\ P \in SUBSET DOMAIN entries
          /\ entries \in Seq(Catalogue)
      BY <1>0, <2>1 DEF Registry!Without, RegistryTyped
    <2>3. \A n \in P : entries[n] \in Elements(entries) /\ entries[n].id # id
      BY DEF Elements
    <2> HIDE DEF P
    <2>4. OneOfEach(entries)
      BY <1>0 DEF Registry!RegistryBounded, OneOfEach
    <2>5. /\ entries' \in Seq(Catalogue) /\ OneOfEach(entries')
          /\ Len(entries') <= Len(entries)
          /\ \A e \in Elements(entries') : e \in Elements(entries) /\ e.id # id
      BY <2>2, <2>3, <2>4, SomeKept
    <2>6. Registry!RegistryBounded'
      <3>1. Elements(entries') \subseteq Elements(entries) /\ MaxEntryBytes \in Nat
        BY <2>5 DEF Registry!RegistryAssumption
      <3>2. /\ Registry!Bytes(entries') <= Registry!Bytes(entries)
             /\ Registry!Bytes(entries') \in Nat /\ Registry!Bytes(entries) \in Nat
        BY <1>0, <2>2, <2>5, <3>1, FewerBytes
      <3>3. /\ Len(entries') \in Nat /\ Len(entries) \in Nat
            /\ MaxEntries \in Nat /\ MaxBytes \in Nat
        BY <2>2, <2>5 DEF Registry!RegistryAssumption
      <3>4. Len(entries') <= MaxEntries /\ Registry!Bytes(entries') <= MaxBytes
        BY <1>0, <2>5, <3>2, <3>3 DEF Registry!RegistryBounded
      <3>5. QED BY <2>5, <3>4 DEF Registry!RegistryBounded, OneOfEach
    <2>7. RegistryTyped'
      BY <1>0, <2>1, <2>5 DEF RegistryTyped
    <2>8. AnalysesApart'
      <3>1. deleting' \cup deleted' = deleting \cup deleted
        BY <2>1
      <3>2. QED BY <1>0, <2>1, <2>5, <3>1 DEF AnalysesApart
    <2>9. NothingAhead'
      <3>1. deleting' \cup deleted' = deleting \cup deleted
        BY <2>1
      <3>2. QED BY <1>0, <2>1, <2>5, <3>1 DEF NothingAhead
    <2>10. StatusAgrees'
      BY <1>0, <2>1, <2>5 DEF StatusAgrees
    <2>11. DeletedGone'
      BY <1>0, <2>1, <2>5 DEF DeletedGone
    <2>12. QED BY <2>6, <2>7, <2>8, <2>9, <2>10, <2>11 DEF RegistryInv
  <1>9. ASSUME Registry!Tick PROVE RegistryInv'
    <2>1. now' = now + 1 /\ UNCHANGED <<entries, slot, at, ids, status, saved, deleting, deleted>>
      BY <1>9 DEF Registry!Tick
    <2>2. RegistryTyped'
      BY <1>0, <2>1 DEF RegistryTyped
    <2>3. QED BY <1>0, <2>1, <2>2 DEF RegistryInv, AnalysesApart, NothingAhead, StatusAgrees,
            DeletedGone, Registry!RegistryBounded
  <1>10. QED
    BY <1>1, <1>2, <1>3, <1>4, <1>5, <1>6, <1>7, <1>8, <1>9 DEF Registry!Next

\* The invariant has what the run checks of the registry.
LEMMA RegistrySound ==
  ASSUME RegistryInv
  PROVE  /\ Registry!RegistryBounded
         /\ Registry!StatusTellsCatalogue
         /\ Registry!DeletedNotServed
  <1>1. ASSUME NEW id, Registry!Has(id)
        PROVE  /\ Registry!Get(id) \in Elements(entries) /\ Registry!Get(id).id = id
    BY <1>1, ReadBackIs DEF RegistryInv
  <1>2. Registry!StatusTellsCatalogue
    <2> SUFFICES ASSUME NEW id \in 1..MaxAnalyses, Registry!Served(id) # NONE
                 PROVE  status[id] = Registry!Served(id) \ {"core"}
      BY DEF Registry!StatusTellsCatalogue, Registry!Ids
    <2>1. CASE Registry!Has(id)
      BY <1>1, <2>1 DEF Registry!Served, RegistryInv, StatusAgrees
    <2>2. CASE ~Registry!Has(id)
      BY <2>2 DEF Registry!Served, RegistryInv, StatusAgrees
    <2>3. QED BY <2>1, <2>2
  <1>3. Registry!DeletedNotServed
    <2> SUFFICES ASSUME NEW id \in deleted PROVE Registry!Served(id) = NONE
      BY DEF Registry!DeletedNotServed
    <2>1. ~Registry!Has(id)
      BY <1>1 DEF RegistryInv, DeletedGone
    <2>2. QED BY <2>1 DEF Registry!Served, RegistryInv, DeletedGone
  <1>4. QED BY <1>2, <1>3 DEF RegistryInv

-----------------------------------------------------------------------------
(* Requests that share and reuse an analysis *)

CacheEntry == [key : Keys, flight : Flights, expires : Nat]
Tombstone == [flight : Flights, expires : Nat]
\* Until then a result may still get into the cache.
OnTheWay == {"owner", "collecting", "saved", "caching"}

\* One thread computes, and who collects is who has the slot.
OwnersApart ==
    /\ \A c \in Callers : caller[c].pc \in Requests!Owning =>
         /\ caller[c].flight = pending /\ pending \in Flights
         /\ \A d \in Callers : caller[d].pc \in Requests!Owning => d = c
    /\ pending # Nobody => \E c \in Callers : caller[c].pc \in Requests!Owning
    /\ \A c \in Callers : reuseSlot = c <=> caller[c].pc \in {"collecting", "saved"}
\* Whose request is not idle has a computation for its key, which is as far as
\* the one who carries it.
FlightsFollow ==
    \A c \in Callers : caller[c].pc # "idle" =>
        LET flight == flights[caller[c].flight] IN
        /\ caller[c].flight \in Flights /\ caller[c].key \in Keys
        /\ flight.state # "new" /\ flight.key = caller[c].key
        /\ caller[c].pc \in {"owner", "collecting"} => flight.state = "flying"
        /\ caller[c].pc = "saved" => flight.state \in {"flying", "saved"}
        /\ caller[c].pc = "caching" => flight.state = "computed"
\* Who joins the computation under way is one.
OneJoins ==
    /\ \A c \in Callers : caller[c].pc = "waiting" /\ caller[c].flight = pending
          => flights[pending].joined
    /\ \A c, d \in Callers :
          /\ caller[c].pc = "waiting" /\ caller[d].pc = "waiting"
          /\ caller[c].flight = pending /\ caller[d].flight = pending
          => c = d
\* What is cached was computed for its key, and is neither deleted nor set aside.
CacheTrue ==
    \A e \in Elements(cache) :
        /\ flights[e.flight].state = "computed" /\ flights[e.flight].key = e.key
        /\ e.flight \notin evicted \cup flushed
        /\ \A c \in Callers : caller[c].pc \in OnTheWay => caller[c].flight # e.flight
\* What is on its way was not set aside, and if it is deleted there is a
\* tombstone that has not expired.
WayGuarded ==
    /\ \A c \in Callers : caller[c].pc \in OnTheWay =>
         /\ caller[c].flight \notin flushed
         /\ caller[c].flight \in evicted =>
              \E d \in Elements(tombstones) :
                 d.flight = caller[c].flight /\ d.expires > clock
    /\ \A f \in evicted : flights[f].state \in {"saved", "computed"}
    /\ \A f \in flushed : flights[f].state = "computed"
OneTombEach ==
    \A m, n \in DOMAIN tombstones : tombstones[m].flight = tombstones[n].flight => m = n
RequestsInv ==
    /\ Requests!RequestsTypeOK
    /\ OwnersApart /\ FlightsFollow /\ OneJoins /\ CacheTrue /\ WayGuarded /\ OneTombEach

\* At some places of the cache, or of the tombstones, is what was there.
LEMMA ThoseKept ==
  ASSUME NEW T, NEW s \in Seq(T), NEW P \in SUBSET DOMAIN s
  PROVE  /\ Requests!Kept(s, P) \in Seq(T)
         /\ \A e \in Elements(Requests!Kept(s, P)) : \E n \in P : e = s[n]
         /\ \A n \in P : s[n] \in Elements(Requests!Kept(s, P))
         /\ \E f \in [DOMAIN Requests!Kept(s, P) -> DOMAIN s] :
              /\ \A i \in DOMAIN Requests!Kept(s, P) : Requests!Kept(s, P)[i] = s[f[i]]
              /\ \A i, j \in DOMAIN Requests!Kept(s, P) : f[i] = f[j] => i = j
  <1> DEFINE K == Kept(s, P)
  <1>1. K \in Seq(T)
    BY KeptIs
  <1>2. PICK f \in [DOMAIN K -> P] :
              /\ \A i \in DOMAIN K : K[i] = s[f[i]]
              /\ \A i, j \in DOMAIN K : f[i] = f[j] => i = j
              /\ \A n \in P : \E i \in DOMAIN K : f[i] = n
    BY KeptIs
  <1>3. Requests!Kept(s, P) = K
    BY KeptAlike
  <1> HIDE DEF K
  <1>4. \A e \in Elements(K) : \E n \in P : e = s[n]
    BY <1>2 DEF Elements
  <1>5. \A n \in P : s[n] \in Elements(K)
    BY <1>2 DEF Elements
  <1>6. f \in [DOMAIN K -> DOMAIN s]
    BY <1>2
  <1>7. QED BY <1>1, <1>2, <1>3, <1>4, <1>5, <1>6

\* What has not expired, without a key, or without a flight.
LEMMA CacheKept ==
  ASSUME NEW s \in Seq(CacheEntry), NEW k, NEW f
  PROVE  /\ Requests!Unexpired(s) \in Seq(CacheEntry)
         /\ Elements(Requests!Unexpired(s)) \subseteq Elements(s)
         /\ Requests!WithoutKey(s, k) \in Seq(CacheEntry)
         /\ \A e \in Elements(Requests!WithoutKey(s, k)) : e \in Elements(s) /\ e.key # k
         /\ Requests!WithoutFlight(s, f) \in Seq(CacheEntry)
         /\ \A e \in Elements(Requests!WithoutFlight(s, f)) : e \in Elements(s) /\ e.flight # f
  <1>1. /\ Requests!Unexpired(s) \in Seq(CacheEntry)
        /\ Elements(Requests!Unexpired(s)) \subseteq Elements(s)
    <2> DEFINE P == {n \in DOMAIN s : s[n].expires > clock}
    <2>1. Requests!Unexpired(s) = Requests!Kept(s, P) /\ P \in SUBSET DOMAIN s
      BY DEF Requests!Unexpired
    <2> HIDE DEF P
    <2>2. QED BY <2>1, ThoseKept DEF Elements
  <1>2. /\ Requests!WithoutKey(s, k) \in Seq(CacheEntry)
        /\ \A e \in Elements(Requests!WithoutKey(s, k)) : e \in Elements(s) /\ e.key # k
    <2> DEFINE P == {n \in DOMAIN s : s[n].key # k}
    <2>1. Requests!WithoutKey(s, k) = Requests!Kept(s, P) /\ P \in SUBSET DOMAIN s
      BY DEF Requests!WithoutKey
    <2>2. \A n \in P : s[n] \in Elements(s) /\ s[n].key # k
      BY DEF Elements
    <2> HIDE DEF P
    <2>3. QED BY <2>1, <2>2, ThoseKept
  <1>3. /\ Requests!WithoutFlight(s, f) \in Seq(CacheEntry)
        /\ \A e \in Elements(Requests!WithoutFlight(s, f)) : e \in Elements(s) /\ e.flight # f
    <2> DEFINE P == {n \in DOMAIN s : s[n].flight # f}
    <2>1. Requests!WithoutFlight(s, f) = Requests!Kept(s, P) /\ P \in SUBSET DOMAIN s
      BY DEF Requests!WithoutFlight
    <2>2. \A n \in P : s[n] \in Elements(s) /\ s[n].flight # f
      BY DEF Elements
    <2> HIDE DEF P
    <2>3. QED BY <2>1, <2>2, ThoseKept
  <1>4. QED BY <1>1, <1>2, <1>3

\* The types, with the names of this module.
LEMMA RequestsTypes ==
  Requests!RequestsTypeOK <=>
    /\ clock \in 0..MaxClock
    /\ cache \in Seq(CacheEntry) /\ tombstones \in Seq(Tombstone)
    /\ pending \in Flights \cup {Nobody}
    /\ reuseSlot \in Callers \cup {Nobody, Replayer}
    /\ flights \in [Flights -> Requests!Flight]
    /\ caller \in [Callers -> Requests!Caller]
    /\ evicted \in SUBSET Flights /\ flushed \in SUBSET Flights
  BY DEF Requests!RequestsTypeOK, CacheEntry, Tombstone

\* What a look at the cache leaves in it, and what a refresh sets aside.
LEMMA LookKeeps ==
  ASSUME RequestsInv, NEW k \in Keys, NEW refresh \in BOOLEAN,
         cache' = Requests!Pruned(k, refresh), Requests!Flush(k, refresh)
  PROVE  /\ cache' \in Seq(CacheEntry) /\ flushed' \in SUBSET Flights
         /\ \A e \in Elements(cache') : e \in Elements(cache) /\ e.flight \notin flushed'
         /\ \A f \in flushed' : f \in flushed \/ \E e \in Elements(cache) : e.flight = f
  <1>1. cache \in Seq(CacheEntry) /\ flushed \in SUBSET Flights
    BY RequestsTypes DEF RequestsInv
  <1>2. \A e \in Elements(cache) : e \in CacheEntry
    BY <1>1 DEF Elements
  <1>3. /\ Requests!Unexpired(cache) \in Seq(CacheEntry)
        /\ Elements(Requests!Unexpired(cache)) \subseteq Elements(cache)
    BY <1>1, CacheKept
  <1>4. \A e \in Elements(cache) : e.flight \notin flushed /\ flights[e.flight].key = e.key
    BY DEF RequestsInv, CacheTrue
  <1>5. \A e \in Requests!Cached(k) : e \in Elements(cache) /\ e.key = k
    BY DEF Requests!Cached, Elements
  <1>6. CASE refresh
    <2>1. /\ cache' = Requests!WithoutKey(Requests!Unexpired(cache), k)
          /\ flushed' = flushed \cup {e.flight : e \in Requests!Cached(k)}
      BY <1>6 DEF Requests!Pruned, Requests!Flush
    <2>2. /\ cache' \in Seq(CacheEntry)
          /\ \A e \in Elements(cache') : e \in Elements(cache) /\ e.key # k
      BY <1>3, <2>1, CacheKept
    <2>3. \A e \in Elements(cache') : e.flight \notin flushed'
      BY <1>4, <1>5, <2>1, <2>2
    <2>4. \A f \in flushed' : f \in flushed \/ \E e \in Elements(cache) : e.flight = f
      BY <1>5, <2>1
    <2>5. flushed' \in SUBSET Flights
      BY <1>1, <1>2, <2>4 DEF CacheEntry
    <2>6. QED BY <2>2, <2>3, <2>4, <2>5
  <1>7. CASE ~refresh
    <2>1. cache' = Requests!Unexpired(cache) /\ flushed' = flushed
      BY <1>7 DEF Requests!Pruned, Requests!Flush
    <2>2. QED BY <1>1, <1>3, <1>4, <2>1
  <1>8. QED BY <1>6, <1>7

\* At the start nothing is asked for.
LEMMA RequestsInit ==
  ASSUME Requests!RequestsAssumption, Requests!Init
  PROVE  RequestsInv
  <1> USE DEF Requests!Init
  <1>1. Requests!RequestsTypeOK
    <2>1. Requests!NewFlight \in Requests!Flight
      BY DEF Requests!NewFlight, Requests!Flight
    <2>2. Requests!IdleCaller \in Requests!Caller
      BY DEF Requests!IdleCaller, Requests!Caller, Requests!PC
    <2>3. clock \in 0..MaxClock
      BY DEF Requests!RequestsAssumption
    <2>4. QED BY <2>1, <2>2, <2>3, RequestsTypes
  <1>2. \A c \in Callers : caller[c].pc = "idle" /\ caller[c].flight = Nobody
    BY DEF Requests!IdleCaller
  <1>3. \A c \in Callers : reuseSlot # c
    BY DEF Requests!RequestsAssumption
  <1>4. Elements(cache) = {} /\ Elements(tombstones) = {} /\ DOMAIN tombstones = {}
    BY DEF Elements
  <1>5. QED
    BY <1>1, <1>2, <1>3, <1>4 DEF RequestsInv, OwnersApart, FlightsFollow, OneJoins, CacheTrue,
       WayGuarded, OneTombEach, Requests!Owning, OnTheWay

\* The invariant has what the run checks of the requests.
LEMMA RequestsSound ==
  ASSUME Requests!RequestsAssumption, RequestsInv
  PROVE  /\ Requests!RequestsTypeOK /\ Requests!OneComputation /\ Requests!ReuseWithinScope
         /\ Requests!DeletedNotCached /\ Requests!NoStaleFallback
  <1>1. \A S : Requests!Cardinality(S) = Cardinality(S)
    BY DEF Requests!Cardinality, Cardinality
  <1>2. Requests!OneComputation
    <2> DEFINE Owners == {c \in Callers : caller[c].pc \in Requests!Owning}
               Joined == {c \in Callers : Requests!At(c, "waiting")
                                             /\ caller[c].flight = pending}
    <2>1. Cardinality(Owners) = (IF pending = Nobody THEN 0 ELSE 1)
      <3>1. CASE pending = Nobody
        <4>1. Owners = {}
          BY <3>1 DEF RequestsInv, OwnersApart, Requests!RequestsAssumption
        <4>2. QED BY <3>1, <4>1, FS_EmptySet
      <3>2. CASE pending # Nobody
        <4>1. PICK c \in Callers : caller[c].pc \in Requests!Owning
          BY <3>2 DEF RequestsInv, OwnersApart
        <4>2. Owners = {c}
          BY <4>1 DEF RequestsInv, OwnersApart
        <4>3. QED BY <3>2, <4>2, FS_Singleton
      <3>3. QED BY <3>1, <3>2
    <2>2. Cardinality(Joined) <= 1
      <3>1. \A c, d \in Joined : c = d
        BY DEF RequestsInv, OneJoins, Requests!At
      <3>2. Joined = {} \/ \E c : Joined = {c}
        BY <3>1
      <3> HIDE DEF Joined
      <3>3. Cardinality(Joined) = 0 \/ Cardinality(Joined) = 1
        BY <3>2, FS_EmptySet, FS_Singleton
      <3>4. QED BY <3>3
    <2>3. /\ \A c \in Callers : caller[c].pc \in Requests!Owning => caller[c].flight = pending
          /\ \A c \in Callers : reuseSlot = c <=> caller[c].pc \in {"collecting", "saved"}
      BY DEF RequestsInv, OwnersApart
    <2>4. Requests!Cardinality(Owners) = Cardinality(Owners)
          /\ Requests!Cardinality(Joined) = Cardinality(Joined)
      BY <1>1
    <2>5. QED BY <2>1, <2>2, <2>3, <2>4 DEF Requests!OneComputation
  <1>3. Requests!ReuseWithinScope
    BY DEF Requests!ReuseWithinScope, RequestsInv, FlightsFollow, Requests!At, Requests!MyFlight
  <1>4. Requests!DeletedNotCached /\ Requests!NoStaleFallback
    BY DEF Requests!DeletedNotCached, Requests!NoStaleFallback, RequestsInv, CacheTrue, Elements
  <1>5. QED BY <1>2, <1>3, <1>4 DEF RequestsInv

\* A step of the thread that computes, before it leaves.
LEMMA OwnerMoves ==
  ASSUME Requests!RequestsAssumption, RequestsInv,
         NEW c \in Callers, caller[c].pc \in Requests!Owning,
         NEW r \in Requests!Caller, caller' = [caller EXCEPT ![c] = r],
         NEW g \in Requests!Flight, flights' = [flights EXCEPT ![pending] = g],
         UNCHANGED <<clock, pending, tombstones, evicted, flushed>>,
         r.pc \in Requests!Owning, r.key = caller[c].key, r.flight = caller[c].flight,
         r.pc \in OnTheWay => caller[c].pc \in OnTheWay,
         g.key = flights[pending].key, g.joined = flights[pending].joined, g.state # "new",
         flights[pending].state \in {"saved", "computed"} => g.state \in {"saved", "computed"},
         flights[pending].state = "computed" => g.state = "computed",
         r.pc \in {"owner", "collecting"} => g.state = "flying",
         r.pc = "saved" => g.state \in {"flying", "saved"},
         r.pc = "caching" => g.state = "computed",
         reuseSlot' \in Callers \cup {Nobody, Replayer},
         reuseSlot' = c <=> r.pc \in {"collecting", "saved"},
         \A d \in Callers : d # c => reuseSlot' # d,
         cache' \in Seq(CacheEntry),
         \A e \in Elements(cache') :
            \/ e \in Elements(cache)
            \/ /\ e.flight = pending /\ e.key = r.key /\ g.state = "computed"
               /\ r.pc \notin OnTheWay /\ pending \notin evicted \cup flushed
  PROVE  RequestsInv'
  <1>1. /\ Requests!RequestsTypeOK /\ OwnersApart /\ FlightsFollow /\ OneJoins /\ CacheTrue
        /\ WayGuarded /\ OneTombEach
    BY DEF RequestsInv
  <1>2. /\ flights \in [Flights -> Requests!Flight] /\ caller \in [Callers -> Requests!Caller]
        /\ evicted \in SUBSET Flights /\ flushed \in SUBSET Flights
        /\ cache \in Seq(CacheEntry)
    BY <1>1, RequestsTypes
  <1>3. /\ pending \in Flights /\ caller[c].flight = pending
        /\ \A d \in Callers : caller[d].pc \in Requests!Owning => d = c
    BY <1>1 DEF OwnersApart
  <1>4. /\ caller' \in [Callers -> Requests!Caller] /\ caller'[c] = r
        /\ \A d \in Callers : d # c => caller'[d] = caller[d]
    BY <1>2
  <1>5. /\ flights' \in [Flights -> Requests!Flight] /\ flights'[pending] = g
        /\ \A f \in Flights : f # pending => flights'[f] = flights[f]
    BY <1>2, <1>3
  <1>6. /\ flights[pending].key = caller[c].key /\ caller[c].key \in Keys
        /\ r.pc # "idle" /\ r.pc # "waiting"
        /\ "idle" \notin Requests!Owning /\ OnTheWay \subseteq Requests!Owning
        /\ "collecting" \in Requests!Owning /\ "saved" \in Requests!Owning
    BY <1>1, <1>3 DEF FlightsFollow, Requests!Owning, OnTheWay
  <1>7. Requests!RequestsTypeOK'
    BY <1>1, <1>4, <1>5, RequestsTypes DEF Requests!RequestsTypeOK, CacheEntry
  <1>8. OwnersApart'
    <2>1. \A d \in Callers : caller'[d].pc \in Requests!Owning => d = c
      BY <1>3, <1>4
    <2>2. \A d \in Callers : reuseSlot' = d <=> caller'[d].pc \in {"collecting", "saved"}
      <3> SUFFICES ASSUME NEW d \in Callers
                   PROVE  reuseSlot' = d <=> caller'[d].pc \in {"collecting", "saved"}
        OBVIOUS
      <3>1. CASE d = c
        BY <1>4, <3>1
      <3>2. CASE d # c
        BY <1>6, <2>1, <3>2
      <3>3. QED BY <3>1, <3>2
    <2>3. QED BY <1>3, <1>4, <2>1, <2>2 DEF OwnersApart
  <1>9. FlightsFollow'
    <2> SUFFICES ASSUME NEW d \in Callers, caller'[d].pc # "idle"
                 PROVE  LET flight == flights'[caller'[d].flight] IN
                        /\ caller'[d].flight \in Flights /\ caller'[d].key \in Keys
                        /\ flight.state # "new" /\ flight.key = caller'[d].key
                        /\ caller'[d].pc \in {"owner", "collecting"} => flight.state = "flying"
                        /\ caller'[d].pc = "saved" => flight.state \in {"flying", "saved"}
                        /\ caller'[d].pc = "caching" => flight.state = "computed"
      BY DEF FlightsFollow
    <2>1. CASE d = c
      BY <1>3, <1>4, <1>5, <1>6, <2>1
    <2>2. CASE d # c
      <3>1. caller'[d] = caller[d] /\ caller[d].pc \notin Requests!Owning
        BY <1>3, <1>4, <2>2
      <3>2. /\ caller[d].flight \in Flights /\ caller[d].key \in Keys
            /\ flights[caller[d].flight].state # "new"
            /\ flights[caller[d].flight].key = caller[d].key
        BY <1>1, <3>1 DEF FlightsFollow
      <3>3. /\ flights'[caller[d].flight].state # "new"
            /\ flights'[caller[d].flight].key = caller[d].key
        BY <1>5, <3>2
      <3>4. QED BY <3>1, <3>2, <3>3 DEF Requests!Owning
    <2>3. QED BY <2>1, <2>2
  <1>10. OneJoins'
    <2>1. \A d \in Callers : caller'[d].pc = "waiting" => caller'[d] = caller[d]
      BY <1>4, <1>6
    <2>2. flights'[pending].joined = flights[pending].joined
      BY <1>5
    <2>3. QED BY <1>1, <2>1, <2>2 DEF OneJoins
  <1>11. \A f \in Flights : /\ flights'[f].key = flights[f].key
                           /\ (flights[f].state = "computed" => flights'[f].state = "computed")
                           /\ (flights[f].state \in {"saved", "computed"}
                                => flights'[f].state \in {"saved", "computed"})
    BY <1>5
  <1>12. \A d \in Callers : caller'[d].pc \in OnTheWay =>
            d = c /\ caller[d].pc \in OnTheWay /\ caller'[d].flight = caller[d].flight
    BY <1>3, <1>4, <1>6
  <1>13. CacheTrue'
    <2> SUFFICES ASSUME NEW e \in Elements(cache')
                 PROVE  /\ flights'[e.flight].state = "computed" /\ flights'[e.flight].key = e.key
                        /\ e.flight \notin evicted \cup flushed
                        /\ \A d \in Callers : caller'[d].pc \in OnTheWay
                              => caller'[d].flight # e.flight
      BY DEF CacheTrue
    <2>1. CASE e \in Elements(cache)
      <3>1. e.flight \in Flights
        <4>1. e \in CacheEntry
          BY <1>2, <2>1 DEF Elements
        <4>2. QED BY <4>1 DEF CacheEntry
      <3>2. QED BY <1>1, <1>11, <1>12, <2>1, <3>1 DEF CacheTrue
    <2>2. CASE /\ e.flight = pending /\ e.key = r.key /\ g.state = "computed"
               /\ r.pc \notin OnTheWay /\ pending \notin evicted \cup flushed
      <3>1. flights'[e.flight].state = "computed" /\ flights'[e.flight].key = e.key
        BY <1>5, <1>6, <2>2
      <3>2. \A d \in Callers : caller'[d].pc \notin OnTheWay
        BY <1>4, <1>12, <2>2
      <3>3. QED BY <2>2, <3>1, <3>2
    <2>3. QED BY <2>1, <2>2
  <1>14. WayGuarded'
    <2>1. \A f \in evicted : flights'[f].state \in {"saved", "computed"}
      BY <1>1, <1>2, <1>11 DEF WayGuarded
    <2>2. \A f \in flushed : flights'[f].state = "computed"
      BY <1>1, <1>2, <1>11 DEF WayGuarded
    <2>3. QED BY <1>1, <1>12, <2>1, <2>2 DEF WayGuarded
  <1>15. OneTombEach'
    BY <1>1 DEF OneTombEach
  <1>16. QED BY <1>7, <1>8, <1>9, <1>10, <1>13, <1>14, <1>15 DEF RequestsInv

\* A request that is answered from the cache or by another, or ends.
LEMMA OthersMove ==
  ASSUME RequestsInv, NEW c \in Callers, caller[c].pc \notin Requests!Owning,
         NEW r \in Requests!Caller, caller' = [caller EXCEPT ![c] = r],
         r.pc \in {"idle", "answered"},
         r.pc # "idle" => /\ r.flight \in Flights /\ r.key \in Keys
                          /\ flights[r.flight].state # "new"
                          /\ flights[r.flight].key = r.key,
         UNCHANGED <<clock, pending, tombstones, reuseSlot, flights, evicted, flushed>>,
         cache' \in Seq(CacheEntry), Elements(cache') \subseteq Elements(cache)
  PROVE  RequestsInv'
  <1>1. /\ Requests!RequestsTypeOK /\ OwnersApart /\ FlightsFollow /\ OneJoins /\ CacheTrue
        /\ WayGuarded /\ OneTombEach
    BY DEF RequestsInv
  <1>2. /\ flights \in [Flights -> Requests!Flight] /\ caller \in [Callers -> Requests!Caller]
    BY <1>1, RequestsTypes
  <1>3. /\ caller' \in [Callers -> Requests!Caller] /\ caller'[c] = r
        /\ \A d \in Callers : d # c => caller'[d] = caller[d]
    BY <1>2
  <1>4. /\ OnTheWay \subseteq Requests!Owning /\ "waiting" \notin Requests!Owning
        /\ "collecting" \in Requests!Owning /\ "saved" \in Requests!Owning
        /\ r.pc \notin Requests!Owning /\ r.pc # "waiting"
    BY DEF Requests!Owning, OnTheWay
  <1>5. Requests!RequestsTypeOK'
    BY <1>1, <1>3, RequestsTypes DEF Requests!RequestsTypeOK, CacheEntry
  <1>6. \A d \in Callers : /\ caller'[d].pc \in Requests!Owning <=> caller[d].pc \in Requests!Owning
                           /\ (caller'[d].pc \in Requests!Owning => caller'[d] = caller[d])
                           /\ (caller'[d].pc = "waiting" => caller'[d] = caller[d])
    BY <1>3, <1>4
  <1>7. OwnersApart'
    <2>1. \A d \in Callers : /\ caller'[d].pc \in {"collecting", "saved"}
                                <=> caller[d].pc \in {"collecting", "saved"}
      BY <1>4, <1>6
    <2>2. QED BY <1>1, <1>6, <2>1 DEF OwnersApart
  <1>8. FlightsFollow'
    <2>1. /\ r.pc \notin {"owner", "collecting"} /\ r.pc # "saved" /\ r.pc # "caching"
      BY <1>4 DEF Requests!Owning
    <2>2. QED BY <1>1, <1>3, <2>1 DEF FlightsFollow
  <1>9. OneJoins'
    BY <1>1, <1>6 DEF OneJoins
  <1>10. CacheTrue' /\ WayGuarded' /\ OneTombEach'
    <2>1. \A d \in Callers : caller'[d].pc \in OnTheWay => caller'[d] = caller[d]
      BY <1>4, <1>6
    <2>2. QED BY <1>1, <2>1 DEF CacheTrue, WayGuarded, OneTombEach
  <1>11. QED BY <1>5, <1>7, <1>8, <1>9, <1>10 DEF RequestsInv

\* Whoever is answered gets what was computed, or the request ends.
LEMMA AnswerIs ==
  ASSUME Requests!RequestsTypeOK, NEW c \in Callers, Requests!Answer(c)
  PROVE  \E r \in Requests!Caller :
            /\ caller' = [caller EXCEPT ![c] = r]
            /\ r.pc \in {"idle", "answered"}
            /\ r.pc # "idle" => r.flight = caller[c].flight /\ r.key = caller[c].key
  <1>1. caller \in [Callers -> Requests!Caller]
    BY RequestsTypes
  <1>2. CASE Requests!MyFlight(c).state = "computed"
    <2> DEFINE r == [caller[c] EXCEPT !.pc = "answered"]
    <2>1. caller' = [caller EXCEPT ![c] = r]
      BY <1>1, <1>2 DEF Requests!Answer, Requests!Goto
    <2>2. /\ r \in Requests!Caller /\ r.pc = "answered"
          /\ r.flight = caller[c].flight /\ r.key = caller[c].key
      BY <1>1 DEF Requests!Caller, Requests!PC
    <2> HIDE DEF r
    <2>3. QED BY <2>1, <2>2
  <1>3. CASE Requests!MyFlight(c).state # "computed"
    <2>1. caller' = [caller EXCEPT ![c] = Requests!IdleCaller]
      BY <1>3 DEF Requests!Answer
    <2>2. Requests!IdleCaller \in Requests!Caller /\ Requests!IdleCaller.pc = "idle"
      BY DEF Requests!IdleCaller, Requests!Caller, Requests!PC
    <2>3. QED BY <2>1, <2>2
  <1>4. QED BY <1>2, <1>3

\* The place of the computation is given back.
LEMMA LeaveKeeps ==
  ASSUME Requests!RequestsAssumption, RequestsInv, NEW c \in Callers, Requests!Leave(c)
  PROVE  RequestsInv'
  <1>1. /\ Requests!RequestsTypeOK /\ OwnersApart /\ FlightsFollow /\ OneJoins /\ CacheTrue
        /\ WayGuarded /\ OneTombEach
    BY DEF RequestsInv
  <1>2. /\ caller[c].pc = "leaving" /\ pending' = Nobody
        /\ flights' = [flights EXCEPT ![caller[c].flight].event = TRUE]
        /\ UNCHANGED <<clock, cache, tombstones, reuseSlot, evicted, flushed>>
    BY DEF Requests!Leave, Requests!At
  <1>3. PICK r \in Requests!Caller :
            /\ caller' = [caller EXCEPT ![c] = r]
            /\ r.pc \in {"idle", "answered"}
            /\ r.pc # "idle" => r.flight = caller[c].flight /\ r.key = caller[c].key
    BY <1>1, AnswerIs DEF Requests!Leave
  <1>4. /\ flights \in [Flights -> Requests!Flight] /\ caller \in [Callers -> Requests!Caller]
        /\ cache \in Seq(CacheEntry) /\ evicted \in SUBSET Flights /\ flushed \in SUBSET Flights
    BY <1>1, RequestsTypes
  <1>5. /\ caller' \in [Callers -> Requests!Caller] /\ caller'[c] = r
        /\ \A d \in Callers : d # c => caller'[d] = caller[d]
    BY <1>3, <1>4
  <1>6. /\ "leaving" \in Requests!Owning /\ OnTheWay \subseteq Requests!Owning
        /\ "collecting" \in Requests!Owning /\ "saved" \in Requests!Owning
        /\ r.pc \notin Requests!Owning /\ r.pc # "waiting"
    BY <1>3 DEF Requests!Owning, OnTheWay
  <1>7. \A d \in Callers : d # c => caller[d].pc \notin Requests!Owning
    BY <1>1, <1>2, <1>6 DEF OwnersApart
  <1>8. \A d \in Callers : caller'[d].pc \notin Requests!Owning
    BY <1>5, <1>6, <1>7
  <1>9. caller[c].flight \in Flights
    BY <1>1, <1>2 DEF FlightsFollow
  <1>10. /\ flights' \in [Flights -> Requests!Flight]
         /\ \A f \in Flights : /\ flights'[f].state = flights[f].state
                               /\ flights'[f].key = flights[f].key
                               /\ flights'[f].joined = flights[f].joined
    <2>1. [flights[caller[c].flight] EXCEPT !.event = TRUE] \in Requests!Flight
      BY <1>4, <1>9 DEF Requests!Flight
    <2>2. QED BY <1>2, <1>4, <1>9, <2>1 DEF Requests!Flight
  <1>11. Requests!RequestsTypeOK'
    BY <1>1, <1>2, <1>5, <1>10, RequestsTypes DEF Requests!RequestsTypeOK
  <1>12. OwnersApart'
    <2>1. \A d \in Callers : reuseSlot # d
      <3>1. \A d \in Callers : caller[d].pc \notin {"collecting", "saved"}
        BY <1>2, <1>6, <1>7
      <3>2. QED BY <1>1, <3>1 DEF OwnersApart
    <2>2. \A d \in Callers : caller'[d].pc \notin {"collecting", "saved"}
      BY <1>6, <1>8
    <2>3. QED BY <1>2, <1>8, <2>1, <2>2 DEF OwnersApart
  <1>13. FlightsFollow'
    <2> SUFFICES ASSUME NEW d \in Callers, caller'[d].pc # "idle"
                 PROVE  /\ caller'[d].flight \in Flights /\ caller'[d].key \in Keys
                        /\ flights'[caller'[d].flight].state # "new"
                        /\ flights'[caller'[d].flight].key = caller'[d].key
      BY <1>8 DEF FlightsFollow, Requests!Owning
    <2>1. /\ caller[d].pc # "idle" /\ caller'[d].flight = caller[d].flight
          /\ caller'[d].key = caller[d].key
      BY <1>2, <1>3, <1>5
    <2>2. QED BY <1>1, <1>10, <2>1 DEF FlightsFollow
  <1>14. OneJoins'
    <2>1. \A d \in Callers : caller'[d].pc = "waiting" => caller'[d].flight # Nobody
      BY <1>13 DEF FlightsFollow, Requests!RequestsAssumption
    <2>2. QED BY <1>2, <2>1 DEF OneJoins
  <1>15. CacheTrue' /\ WayGuarded' /\ OneTombEach'
    <2>1. \A d \in Callers : caller'[d].pc \notin OnTheWay
      BY <1>6, <1>8
    <2>2. \A e \in Elements(cache) : e.flight \in Flights
      <3>1. \A e \in Elements(cache) : e \in CacheEntry
        BY <1>4 DEF Elements
      <3>2. QED BY <3>1 DEF CacheEntry
    <2>3. CacheTrue'
      BY <1>1, <1>2, <1>10, <2>1, <2>2 DEF CacheTrue
    <2>4. WayGuarded'
      BY <1>1, <1>2, <1>4, <1>10, <2>1 DEF WayGuarded
    <2>5. QED BY <1>1, <1>2, <2>3, <2>4 DEF OneTombEach
  <1>16. QED BY <1>11, <1>12, <1>13, <1>14, <1>15 DEF RequestsInv

\* A request that takes on no computation has looked at the cache all the same.
LEMMA RefuseKeeps ==
  ASSUME RequestsInv, NEW c \in Callers, NEW k \in Keys, NEW refresh \in BOOLEAN,
         Requests!Refuse(c, k, refresh)
  PROVE  RequestsInv'
  <1>1. /\ Requests!RequestsTypeOK /\ OwnersApart /\ FlightsFollow /\ OneJoins /\ CacheTrue
        /\ WayGuarded /\ OneTombEach
    BY DEF RequestsInv
  <1>2. /\ cache' = Requests!Pruned(k, refresh) /\ Requests!Flush(k, refresh)
        /\ UNCHANGED <<clock, pending, tombstones, reuseSlot, flights, caller, evicted>>
    BY DEF Requests!Refuse
  <1>3. /\ cache' \in Seq(CacheEntry) /\ flushed' \in SUBSET Flights
        /\ \A e \in Elements(cache') : e \in Elements(cache) /\ e.flight \notin flushed'
        /\ \A f \in flushed' : f \in flushed \/ \E e \in Elements(cache) : e.flight = f
    BY <1>2, LookKeeps
  <1>4. Requests!RequestsTypeOK'
    BY <1>1, <1>2, <1>3, RequestsTypes DEF Requests!RequestsTypeOK, CacheEntry
  <1>5. OwnersApart' /\ FlightsFollow' /\ OneJoins' /\ OneTombEach'
    BY <1>1, <1>2 DEF OwnersApart, FlightsFollow, OneJoins, OneTombEach
  <1>6. CacheTrue'
    BY <1>1, <1>2, <1>3 DEF CacheTrue
  <1>7. WayGuarded'
    BY <1>1, <1>2, <1>3 DEF WayGuarded, CacheTrue
  <1>8. QED BY <1>4, <1>5, <1>6, <1>7 DEF RequestsInv

\* What a request asks is written into its place.
LEMMA AskingIs ==
  ASSUME Requests!RequestsTypeOK, NEW c \in Callers, NEW k \in Keys, NEW refresh \in BOOLEAN,
         NEW p \in Requests!PC, NEW f \in Flights, Requests!Asking(c, k, refresh, p, f),
         Requests!RequestsAssumption
  PROVE  /\ caller' \in [Callers -> Requests!Caller]
         /\ caller'[c].pc = p /\ caller'[c].key = k /\ caller'[c].flight = f
         /\ \A d \in Callers : d # c => caller'[d] = caller[d]
         /\ \E r \in Requests!Caller : /\ caller' = [caller EXCEPT ![c] = r]
                                     /\ r.pc = p /\ r.key = k /\ r.flight = f
  <1> DEFINE r == [pc |-> p, key |-> k, refresh |-> refresh, flight |-> f,
                   since |-> IF p = "waiting" THEN clock ELSE 0,
                   before |-> IF refresh THEN Requests!Started ELSE {}]
  <1>1. clock \in Nat /\ caller \in [Callers -> Requests!Caller]
    BY RequestsTypes DEF Requests!RequestsAssumption
  <1>2. Requests!Started \in SUBSET Flights
    BY DEF Requests!Started
  <1>3. r \in Requests!Caller
    BY <1>1, <1>2 DEF Requests!Caller
  <1>4. caller' = [caller EXCEPT ![c] = r]
    BY DEF Requests!Asking
  <1>5. r.pc = p /\ r.key = k /\ r.flight = f
    OBVIOUS
  <1> HIDE DEF r
  <1>6. QED BY <1>1, <1>3, <1>4, <1>5

\* A request that joins the computation of its key is the only one.
LEMMA JoinKeeps ==
  ASSUME Requests!RequestsAssumption, RequestsInv, NEW c \in Callers, NEW k \in Keys,
         NEW refresh \in BOOLEAN, Requests!Join(c, k, refresh)
  PROVE  RequestsInv'
  <1>1. /\ Requests!RequestsTypeOK /\ OwnersApart /\ FlightsFollow /\ OneJoins /\ CacheTrue
        /\ WayGuarded /\ OneTombEach
    BY DEF RequestsInv
  <1>2. /\ caller[c].pc = "idle" /\ pending # Nobody
        /\ flights[pending].key = k /\ ~flights[pending].joined
        /\ cache' = Requests!Pruned(k, refresh) /\ Requests!Flush(k, refresh)
        /\ flights' = [flights EXCEPT ![pending].joined = TRUE]
        /\ Requests!Asking(c, k, refresh, "waiting", pending)
        /\ UNCHANGED <<clock, pending, tombstones, reuseSlot, evicted>>
    BY DEF Requests!Join, Requests!At
  <1>3. /\ cache' \in Seq(CacheEntry) /\ flushed' \in SUBSET Flights
        /\ \A e \in Elements(cache') : e \in Elements(cache) /\ e.flight \notin flushed'
        /\ \A f \in flushed' : f \in flushed \/ \E e \in Elements(cache) : e.flight = f
    BY <1>2, LookKeeps
  <1>4. /\ flights \in [Flights -> Requests!Flight] /\ cache \in Seq(CacheEntry)
        /\ evicted \in SUBSET Flights /\ flushed \in SUBSET Flights
        /\ pending \in Flights
    BY <1>1, <1>2, RequestsTypes
  <1>5. /\ caller' \in [Callers -> Requests!Caller]
        /\ caller'[c].pc = "waiting" /\ caller'[c].key = k /\ caller'[c].flight = pending
        /\ \A d \in Callers : d # c => caller'[d] = caller[d]
    <2>1. "waiting" \in Requests!PC
      BY DEF Requests!PC
    <2>2. QED BY <1>1, <1>2, <1>4, <2>1, AskingIs
  <1>6. /\ "waiting" \notin Requests!Owning /\ "idle" \notin Requests!Owning
        /\ OnTheWay \subseteq Requests!Owning
        /\ "collecting" \in Requests!Owning /\ "saved" \in Requests!Owning
    BY DEF Requests!Owning, OnTheWay
  <1>7. \A d \in Callers : /\ caller'[d].pc \in Requests!Owning <=> caller[d].pc \in Requests!Owning
                           /\ (caller'[d].pc \in Requests!Owning => caller'[d] = caller[d])
    BY <1>2, <1>5, <1>6
  <1>8. /\ flights' \in [Flights -> Requests!Flight] /\ flights'[pending].joined
        /\ \A f \in Flights : /\ flights'[f].state = flights[f].state
                              /\ flights'[f].key = flights[f].key
    <2>1. [flights[pending] EXCEPT !.joined = TRUE] \in Requests!Flight
      BY <1>4 DEF Requests!Flight
    <2>2. QED BY <1>2, <1>4, <2>1 DEF Requests!Flight
  <1>9. Requests!RequestsTypeOK'
    BY <1>1, <1>2, <1>3, <1>5, <1>8, RequestsTypes DEF Requests!RequestsTypeOK, CacheEntry
  <1>10. OwnersApart'
    <2>1. \A d \in Callers : /\ caller'[d].pc \in {"collecting", "saved"}
                                <=> caller[d].pc \in {"collecting", "saved"}
      BY <1>6, <1>7
    <2>2. QED BY <1>1, <1>2, <1>7, <2>1 DEF OwnersApart
  <1>11. flights[pending].state # "new"
    <2>1. PICK d \in Callers : caller[d].pc \in Requests!Owning
      BY <1>1, <1>2 DEF OwnersApart
    <2>2. caller[d].flight = pending /\ caller[d].pc # "idle"
      BY <1>1, <1>6, <2>1 DEF OwnersApart
    <2>3. QED BY <1>1, <2>2 DEF FlightsFollow
  <1>12. FlightsFollow'
    <2> SUFFICES ASSUME NEW d \in Callers, caller'[d].pc # "idle"
                 PROVE  LET flight == flights'[caller'[d].flight] IN
                        /\ caller'[d].flight \in Flights /\ caller'[d].key \in Keys
                        /\ flight.state # "new" /\ flight.key = caller'[d].key
                        /\ caller'[d].pc \in {"owner", "collecting"} => flight.state = "flying"
                        /\ caller'[d].pc = "saved" => flight.state \in {"flying", "saved"}
                        /\ caller'[d].pc = "caching" => flight.state = "computed"
      BY DEF FlightsFollow
    <2>1. CASE d = c
      BY <1>2, <1>4, <1>5, <1>8, <1>11, <2>1
    <2>2. CASE d # c
      <3>1. caller'[d] = caller[d]
        BY <1>5, <2>2
      <3>2. QED BY <1>1, <1>8, <3>1 DEF FlightsFollow
    <2>3. QED BY <2>1, <2>2
  <1>13. OneJoins'
    <2>1. \A d \in Callers : d # c => ~(caller[d].pc = "waiting" /\ caller[d].flight = pending)
      BY <1>1, <1>2 DEF OneJoins
    <2>2. \A d \in Callers : caller'[d].pc = "waiting" /\ caller'[d].flight = pending' => d = c
      BY <1>2, <1>5, <2>1
    <2>3. QED BY <1>2, <1>8, <2>2 DEF OneJoins
  <1>14. \A e \in Elements(cache) : e.flight \in Flights
    <2>1. \A e \in Elements(cache) : e \in CacheEntry
      BY <1>4 DEF Elements
    <2>2. QED BY <2>1 DEF CacheEntry
  <1>15. \A d \in Callers : caller'[d].pc \in OnTheWay => caller'[d] = caller[d]
    BY <1>6, <1>7
  <1>16. CacheTrue'
    BY <1>1, <1>2, <1>3, <1>8, <1>14, <1>15 DEF CacheTrue
  <1>17. WayGuarded'
    <2>1. \A d \in Callers : caller'[d].pc \in OnTheWay => caller'[d].flight \notin flushed'
      BY <1>1, <1>3, <1>15 DEF WayGuarded, CacheTrue
    <2>2. \A f \in flushed' : flights'[f].state = "computed"
      BY <1>1, <1>3, <1>4, <1>8, <1>14 DEF WayGuarded, CacheTrue
    <2>3. \A f \in evicted : flights'[f].state \in {"saved", "computed"}
      BY <1>1, <1>4, <1>8 DEF WayGuarded
    <2>4. QED BY <1>1, <1>2, <1>15, <2>1, <2>2, <2>3 DEF WayGuarded
  <1>18. OneTombEach'
    BY <1>1, <1>2 DEF OneTombEach
  <1>19. QED BY <1>9, <1>10, <1>12, <1>13, <1>16, <1>17, <1>18 DEF RequestsInv

\* A request that finds nothing under way computes, with a computation of its own.
LEMMA OwnKeeps ==
  ASSUME Requests!RequestsAssumption, RequestsInv, NEW c \in Callers, NEW k \in Keys,
         NEW refresh \in BOOLEAN, NEW f \in Flights, Requests!Own(c, k, refresh, f)
  PROVE  RequestsInv'
  <1>1. /\ Requests!RequestsTypeOK /\ OwnersApart /\ FlightsFollow /\ OneJoins /\ CacheTrue
        /\ WayGuarded /\ OneTombEach
    BY DEF RequestsInv
  <1>2. /\ caller[c].pc = "idle" /\ pending = Nobody /\ pending' = f
        /\ flights[f].state = "new"
        /\ cache' = Requests!Pruned(k, refresh) /\ Requests!Flush(k, refresh)
        /\ flights' = [flights EXCEPT ![f].state = "flying", ![f].key = k]
        /\ Requests!Asking(c, k, refresh, "owner", f)
        /\ UNCHANGED <<clock, tombstones, reuseSlot, evicted>>
    BY DEF Requests!Own, Requests!At
  <1>3. /\ cache' \in Seq(CacheEntry) /\ flushed' \in SUBSET Flights
        /\ \A e \in Elements(cache') : e \in Elements(cache) /\ e.flight \notin flushed'
        /\ \A g \in flushed' : g \in flushed \/ \E e \in Elements(cache) : e.flight = g
    BY <1>2, LookKeeps
  <1>4. /\ flights \in [Flights -> Requests!Flight] /\ cache \in Seq(CacheEntry)
        /\ evicted \in SUBSET Flights /\ flushed \in SUBSET Flights
    BY <1>1, RequestsTypes
  <1>5. /\ caller' \in [Callers -> Requests!Caller]
        /\ caller'[c].pc = "owner" /\ caller'[c].key = k /\ caller'[c].flight = f
        /\ \A d \in Callers : d # c => caller'[d] = caller[d]
    <2>1. "owner" \in Requests!PC
      BY DEF Requests!PC
    <2>2. QED BY <1>1, <1>2, <2>1, AskingIs
  <1>6. /\ "owner" \in Requests!Owning /\ "idle" \notin Requests!Owning
        /\ OnTheWay \subseteq Requests!Owning
        /\ "collecting" \in Requests!Owning /\ "saved" \in Requests!Owning
    BY DEF Requests!Owning, OnTheWay
  <1>7. /\ \A d \in Callers : caller[d].pc \notin Requests!Owning
        /\ \A d \in Callers : caller'[d].pc \in Requests!Owning => d = c
    BY <1>1, <1>2, <1>5 DEF OwnersApart, Requests!RequestsAssumption
  <1>8. /\ flights' \in [Flights -> Requests!Flight]
        /\ flights'[f].state = "flying" /\ flights'[f].key = k
        /\ \A g \in Flights : g # f => flights'[g] = flights[g]
    <2>1. /\ [flights[f] EXCEPT !.state = "flying", !.key = k] \in Requests!Flight
          /\ [flights[f] EXCEPT !.state = "flying", !.key = k].state = "flying"
          /\ [flights[f] EXCEPT !.state = "flying", !.key = k].key = k
      BY <1>4 DEF Requests!Flight
    <2>2. flights' = [flights EXCEPT ![f] = [flights[f] EXCEPT !.state = "flying", !.key = k]]
      BY <1>2, <1>4 DEF Requests!Flight
    <2>3. QED BY <1>4, <2>1, <2>2
  <1>9. Requests!RequestsTypeOK'
    BY <1>1, <1>2, <1>3, <1>5, <1>8, RequestsTypes DEF Requests!RequestsTypeOK, CacheEntry
  <1>10. OwnersApart'
    <2>1. \A d \in Callers : caller'[d].pc \notin {"collecting", "saved"}
      BY <1>5, <1>6, <1>7
    <2>2. \A d \in Callers : reuseSlot # d
      BY <1>1, <1>6, <1>7 DEF OwnersApart
    <2>3. QED BY <1>2, <1>5, <1>6, <1>7, <2>1, <2>2 DEF OwnersApart
  <1>11. FlightsFollow'
    <2> SUFFICES ASSUME NEW d \in Callers, caller'[d].pc # "idle"
                 PROVE  LET flight == flights'[caller'[d].flight] IN
                        /\ caller'[d].flight \in Flights /\ caller'[d].key \in Keys
                        /\ flight.state # "new" /\ flight.key = caller'[d].key
                        /\ caller'[d].pc \in {"owner", "collecting"} => flight.state = "flying"
                        /\ caller'[d].pc = "saved" => flight.state \in {"flying", "saved"}
                        /\ caller'[d].pc = "caching" => flight.state = "computed"
      BY DEF FlightsFollow
    <2>1. CASE d = c
      BY <1>5, <1>8, <2>1
    <2>2. CASE d # c
      <3>1. caller'[d] = caller[d]
        BY <1>5, <2>2
      <3>2. caller[d].flight # f
        BY <1>1, <1>2, <3>1 DEF FlightsFollow
      <3>3. QED BY <1>1, <1>8, <3>1, <3>2 DEF FlightsFollow
    <2>3. QED BY <2>1, <2>2
  <1>12. \A d \in Callers : ~(caller'[d].pc = "waiting" /\ caller'[d].flight = f)
    <2> SUFFICES ASSUME NEW d \in Callers, caller'[d].pc = "waiting", caller'[d].flight = f
                 PROVE  FALSE
      OBVIOUS
    <2>1. caller'[d] = caller[d]
      BY <1>5
    <2>2. QED BY <1>1, <1>2, <2>1 DEF FlightsFollow
  <1>13. OneJoins'
    BY <1>2, <1>12 DEF OneJoins
  <1>14. \A e \in Elements(cache) : e.flight \in Flights /\ e.flight # f
    <2>1. \A e \in Elements(cache) : e \in CacheEntry
      BY <1>4 DEF Elements
    <2>2. QED BY <1>1, <1>2, <2>1 DEF CacheEntry, CacheTrue
  <1>15. f \notin evicted /\ f \notin flushed'
    BY <1>1, <1>2, <1>3, <1>14 DEF WayGuarded
  <1>16. \A d \in Callers : caller'[d].pc \in OnTheWay => caller'[d].flight = f
    BY <1>5, <1>6, <1>7
  <1>17. CacheTrue'
    BY <1>1, <1>2, <1>3, <1>8, <1>14, <1>16 DEF CacheTrue
  <1>18. WayGuarded'
    <2>1. \A g \in flushed' : flights'[g].state = "computed"
      BY <1>1, <1>3, <1>4, <1>8, <1>14, <1>15 DEF WayGuarded, CacheTrue
    <2>2. \A g \in evicted : flights'[g].state \in {"saved", "computed"}
      BY <1>1, <1>4, <1>8, <1>15 DEF WayGuarded
    <2>3. QED BY <1>2, <1>15, <1>16, <2>1, <2>2 DEF WayGuarded
  <1>19. OneTombEach'
    BY <1>1, <1>2 DEF OneTombEach
  <1>20. QED BY <1>9, <1>10, <1>11, <1>13, <1>17, <1>18, <1>19 DEF RequestsInv

\* A result that is still fresh answers the request for its key.
LEMMA HitKeeps ==
  ASSUME Requests!RequestsAssumption, RequestsInv, NEW c \in Callers, NEW k \in Keys,
         Requests!Hit(c, k)
  PROVE  RequestsInv'
  <1>1. Requests!RequestsTypeOK /\ CacheTrue
    BY DEF RequestsInv
  <1>2. PICK e \in Requests!Cached(k) :
          /\ cache' = Append(Requests!WithoutKey(Requests!Unexpired(cache), k), e)
          /\ Requests!Asking(c, k, FALSE, "answered", e.flight)
    BY DEF Requests!Hit
  <1>3. /\ caller[c].pc = "idle"
        /\ UNCHANGED <<clock, pending, tombstones, reuseSlot, flights, evicted, flushed>>
    BY DEF Requests!Hit, Requests!At
  <1>4. cache \in Seq(CacheEntry)
    BY <1>1, RequestsTypes
  <1>5. e \in Elements(cache) /\ e \in CacheEntry /\ e.key = k
    BY <1>4 DEF Requests!Cached, Elements
  <1>6. e.flight \in Flights /\ flights[e.flight].state = "computed" /\ flights[e.flight].key = k
    BY <1>1, <1>5 DEF CacheEntry, CacheTrue
  <1>7. /\ cache' \in Seq(CacheEntry) /\ Elements(cache') \subseteq Elements(cache)
    <2> DEFINE W == Requests!WithoutKey(Requests!Unexpired(cache), k)
    <2>1. Requests!Unexpired(cache) \in Seq(CacheEntry)
          /\ Elements(Requests!Unexpired(cache)) \subseteq Elements(cache)
      BY <1>4, CacheKept
    <2>2. W \in Seq(CacheEntry) /\ Elements(W) \subseteq Elements(cache)
      BY <2>1, CacheKept
    <2>3. cache' = Append(W, e)
      BY <1>2
    <2> HIDE DEF W
    <2>4. cache' \in Seq(CacheEntry)
      BY <1>5, <2>2, <2>3
    <2>5. Elements(cache') \subseteq Elements(cache)
      BY <1>5, <2>2, <2>3 DEF Elements
    <2>6. QED BY <2>4, <2>5
  <1>8. PICK r \in Requests!Caller : /\ caller' = [caller EXCEPT ![c] = r]
                                   /\ r.pc = "answered" /\ r.key = k /\ r.flight = e.flight
    <2>1. "answered" \in Requests!PC /\ FALSE \in BOOLEAN /\ e.flight \in Flights
      BY <1>6 DEF Requests!PC
    <2>2. Requests!Asking(c, k, FALSE, "answered", e.flight)
      BY <1>2
    <2>3. ASSUME NEW refresh \in BOOLEAN, NEW f \in Flights, refresh = FALSE, f = e.flight
          PROVE  \E r \in Requests!Caller : /\ caller' = [caller EXCEPT ![c] = r]
                                            /\ r.pc = "answered" /\ r.key = k /\ r.flight = f
      <3>1. Requests!Asking(c, k, refresh, "answered", f)
        BY <2>2, <2>3
      <3>2. QED BY <1>1, <2>1, <3>1, AskingIs
    <2>4. QED BY <2>1, <2>3
  <1>9. caller[c].pc \notin Requests!Owning
    BY <1>3 DEF Requests!Owning
  <1>10. QED BY <1>3, <1>6, <1>7, <1>8, <1>9, OthersMove

\* Who goes on changes nothing else of its request.
LEMMA GotoIs ==
  ASSUME Requests!RequestsTypeOK, NEW c \in Callers, NEW p \in Requests!PC,
         Requests!Goto(c, p)
  PROVE  \E r \in Requests!Caller :
            /\ caller' = [caller EXCEPT ![c] = r]
            /\ r.pc = p /\ r.key = caller[c].key /\ r.flight = caller[c].flight
  <1> DEFINE r == [caller[c] EXCEPT !.pc = p]
  <1>1. caller \in [Callers -> Requests!Caller]
    BY RequestsTypes
  <1>2. /\ r \in Requests!Caller /\ r.pc = p
        /\ r.key = caller[c].key /\ r.flight = caller[c].flight
    BY <1>1 DEF Requests!Caller
  <1>3. caller' = [caller EXCEPT ![c] = r]
    BY <1>1 DEF Requests!Goto
  <1> HIDE DEF r
  <1>4. QED BY <1>2, <1>3

\* What a computation has come to changes nothing else of it.
LEMMA ComesTo ==
  ASSUME Requests!RequestsTypeOK, pending \in Flights,
         NEW w \in {"flying", "saved", "computed", "failed"},
         flights' = [flights EXCEPT ![pending].state = w]
  PROVE  \E g \in Requests!Flight :
            /\ flights' = [flights EXCEPT ![pending] = g]
            /\ g.state = w /\ g.key = flights[pending].key /\ g.joined = flights[pending].joined
  <1> DEFINE g == [flights[pending] EXCEPT !.state = w]
  <1>1. flights \in [Flights -> Requests!Flight]
    BY RequestsTypes
  <1>2. /\ g \in Requests!Flight /\ g.state = w
        /\ g.key = flights[pending].key /\ g.joined = flights[pending].joined
    BY <1>1 DEF Requests!Flight
  <1>3. flights' = [flights EXCEPT ![pending] = g]
    BY <1>1
  <1> HIDE DEF g
  <1>4. QED BY <1>2, <1>3

\* Who computes does so in the place, and alone.
LEMMA OwnerIs ==
  ASSUME RequestsInv, NEW c \in Callers, caller[c].pc \in Requests!Owning
  PROVE  /\ pending \in Flights /\ caller[c].flight = pending
         /\ flights[pending] \in Requests!Flight /\ flights[pending].state # "new"
         /\ flights = [flights EXCEPT ![pending] = flights[pending]]
         /\ cache \in Seq(CacheEntry)
         /\ \A d \in Callers : d # c => reuseSlot # d
         /\ reuseSlot \in Callers \cup {Nobody, Replayer}
  <1>1. Requests!RequestsTypeOK /\ OwnersApart /\ FlightsFollow
    BY DEF RequestsInv
  <1>2. flights \in [Flights -> Requests!Flight] /\ cache \in Seq(CacheEntry)
        /\ reuseSlot \in Callers \cup {Nobody, Replayer}
    BY <1>1, RequestsTypes
  <1>3. pending \in Flights /\ caller[c].flight = pending
    BY <1>1 DEF OwnersApart
  <1>4. flights[pending].state # "new"
    BY <1>1, <1>3 DEF FlightsFollow, Requests!Owning
  <1>5. \A d \in Callers : d # c => reuseSlot # d
    BY <1>1 DEF OwnersApart, Requests!Owning
  <1>6. flights[pending] \in Requests!Flight
    BY <1>2, <1>3
  <1>7. flights = [flights EXCEPT ![pending] = flights[pending]]
    BY <1>2, <1>3
  <1>8. QED BY <1>2, <1>3, <1>4, <1>5, <1>6, <1>7

\* The slot is taken, or the computation fails without it.
LEMMA AcquireKeeps ==
  ASSUME Requests!RequestsAssumption, RequestsInv, NEW c \in Callers, Requests!AcquireSlot(c)
  PROVE  RequestsInv'
  <1>1. Requests!RequestsTypeOK /\ OwnersApart /\ FlightsFollow
    BY DEF RequestsInv
  <1>2. /\ caller[c].pc = "owner" /\ caller[c].pc \in Requests!Owning
        /\ UNCHANGED <<clock, cache, pending, tombstones, evicted, flushed>>
    BY DEF Requests!AcquireSlot, Requests!At, Requests!Owning
  <1>3. /\ pending \in Flights /\ caller[c].flight = pending
        /\ flights[pending] \in Requests!Flight
        /\ flights = [flights EXCEPT ![pending] = flights[pending]]
        /\ cache \in Seq(CacheEntry)
        /\ \A d \in Callers : d # c => reuseSlot # d
        /\ reuseSlot \in Callers \cup {Nobody, Replayer}
    BY <1>2, OwnerIs
  <1>4. flights[pending].state = "flying" /\ reuseSlot # c
    BY <1>1, <1>2, <1>3 DEF FlightsFollow, OwnersApart
  <1>5. {"collecting", "leaving"} \subseteq Requests!PC \cap Requests!Owning
        /\ Nobody \notin Callers
    BY DEF Requests!PC, Requests!Owning, Requests!RequestsAssumption
  <1>6. CASE reuseSlot = Nobody
    <2>1. reuseSlot' = c /\ Requests!Goto(c, "collecting") /\ UNCHANGED flights
      BY <1>6 DEF Requests!AcquireSlot
    <2>2. PICK r \in Requests!Caller :
            /\ caller' = [caller EXCEPT ![c] = r]
            /\ r.pc = "collecting" /\ r.key = caller[c].key /\ r.flight = caller[c].flight
      BY <1>1, <1>5, <2>1, GotoIs
    <2>3. r.pc \in Requests!Owning
      BY <1>5, <2>2
    <2>4. r.pc \in OnTheWay => caller[c].pc \in OnTheWay
      BY <1>2 DEF OnTheWay
    <2>5. flights' = [flights EXCEPT ![pending] = flights[pending]]
      BY <1>3, <2>1
    <2>6. cache' \in Seq(CacheEntry) /\ Elements(cache') = Elements(cache)
      BY <1>2, <1>3
    <2>7. \A d \in Callers : d # c => reuseSlot' # d
      BY <2>1
    <2>8. QED BY <1>2, <1>3, <1>4, <2>1, <2>2, <2>3, <2>4, <2>5, <2>6, <2>7, OwnerMoves
  <1>7. CASE reuseSlot # Nobody
    <2>1. /\ flights' = [flights EXCEPT ![pending].state = "failed"]
          /\ Requests!Goto(c, "leaving") /\ UNCHANGED reuseSlot
      BY <1>3, <1>7 DEF Requests!AcquireSlot
    <2>2. PICK r \in Requests!Caller :
            /\ caller' = [caller EXCEPT ![c] = r]
            /\ r.pc = "leaving" /\ r.key = caller[c].key /\ r.flight = caller[c].flight
      BY <1>1, <1>5, <2>1, GotoIs
    <2>3. PICK g \in Requests!Flight :
            /\ flights' = [flights EXCEPT ![pending] = g]
            /\ g.state = "failed" /\ g.key = flights[pending].key
            /\ g.joined = flights[pending].joined
      BY <1>1, <1>3, <2>1, ComesTo
    <2>4. r.pc \in Requests!Owning
      BY <1>5, <2>2
    <2>5. r.pc \notin OnTheWay
      BY <2>2 DEF OnTheWay
    <2>6. cache' \in Seq(CacheEntry) /\ Elements(cache') = Elements(cache)
      BY <1>2, <1>3
    <2>7. QED BY <1>2, <1>3, <1>4, <2>1, <2>2, <2>3, <2>4, <2>5, <2>6, OwnerMoves
  <1>8. QED BY <1>6, <1>7

\* Collection fails, or has been saved, or returns: the slot is free in the end.
LEMMA CollectKeeps ==
  ASSUME Requests!RequestsAssumption, RequestsInv, NEW c \in Callers,
         \/ Requests!CollectFails(c)
         \/ Requests!Return(c)
  PROVE  RequestsInv'
  <1>1. Requests!RequestsTypeOK /\ OwnersApart /\ FlightsFollow
    BY DEF RequestsInv
  <1>2. PICK p \in {"leaving", "caching"}, w \in {"failed", "computed"} :
        /\ \/ caller[c].pc = "collecting" /\ p = "leaving" /\ w = "failed"
           \/ caller[c].pc = "saved" /\ p = "caching" /\ w = "computed"
        /\ reuseSlot' = Nobody
        /\ flights' = [flights EXCEPT ![caller[c].flight].state = w]
        /\ Requests!Goto(c, p)
        /\ UNCHANGED <<clock, cache, pending, tombstones, evicted, flushed>>
    BY DEF Requests!CollectFails, Requests!Return, Requests!At
  <1>3. caller[c].pc \in Requests!Owning
    BY <1>2 DEF Requests!Owning
  <1>4. /\ pending \in Flights /\ caller[c].flight = pending /\ cache \in Seq(CacheEntry)
    BY <1>3, OwnerIs
  <1>5. /\ caller[c].pc = "collecting" => flights[pending].state = "flying"
        /\ caller[c].pc = "saved" => flights[pending].state \in {"flying", "saved"}
    BY <1>1, <1>4 DEF FlightsFollow
  <1>6. PICK r \in Requests!Caller :
            /\ caller' = [caller EXCEPT ![c] = r]
            /\ r.pc = p /\ r.key = caller[c].key /\ r.flight = caller[c].flight
    <2>1. p \in Requests!PC
      BY DEF Requests!PC
    <2>2. QED BY <1>1, <1>2, <2>1, GotoIs
  <1>7. PICK g \in Requests!Flight :
            /\ flights' = [flights EXCEPT ![pending] = g]
            /\ g.state = w /\ g.key = flights[pending].key
            /\ g.joined = flights[pending].joined
    BY <1>1, <1>2, <1>4, ComesTo
  <1>8. r.pc \in Requests!Owning
    BY <1>6 DEF Requests!Owning
  <1>9. r.pc \in OnTheWay => caller[c].pc \in OnTheWay
    BY <1>2 DEF OnTheWay
  <1>10. /\ Nobody \notin Callers
         /\ reuseSlot' \in Callers \cup {Nobody, Replayer}
         /\ \A d \in Callers : reuseSlot' # d
    BY <1>2 DEF Requests!RequestsAssumption
  <1>11. cache' \in Seq(CacheEntry) /\ Elements(cache') = Elements(cache)
    BY <1>2, <1>4
  <1>12. /\ g.state # "new"
         /\ flights[pending].state \in {"saved", "computed"} => g.state \in {"saved", "computed"}
         /\ flights[pending].state = "computed" => g.state = "computed"
         /\ r.pc = "caching" => g.state = "computed"
         /\ r.pc \notin {"owner", "collecting", "saved"}
    BY <1>2, <1>5, <1>6, <1>7
  <1>13. QED
    BY <1>2, <1>3, <1>4, <1>6, <1>7, <1>8, <1>9, <1>10, <1>11, <1>12, OwnerMoves

\* The snapshot of a computation is saved, or cannot be.
LEMMA SaveKeeps ==
  ASSUME Requests!RequestsAssumption, RequestsInv, NEW c \in Callers, Requests!Save(c)
  PROVE  RequestsInv'
  <1>1. Requests!RequestsTypeOK /\ OwnersApart /\ FlightsFollow
    BY DEF RequestsInv
  <1>2. /\ caller[c].pc = "collecting" /\ caller[c].pc \in Requests!Owning
        /\ \/ flights' = [flights EXCEPT ![caller[c].flight].state = "saved"]
           \/ UNCHANGED flights
        /\ Requests!Goto(c, "saved")
        /\ UNCHANGED <<clock, cache, pending, tombstones, reuseSlot, evicted, flushed>>
    BY DEF Requests!Save, Requests!At, Requests!Owning
  <1>3. /\ pending \in Flights /\ caller[c].flight = pending
        /\ flights[pending] \in Requests!Flight
        /\ flights = [flights EXCEPT ![pending] = flights[pending]]
        /\ cache \in Seq(CacheEntry)
        /\ \A d \in Callers : d # c => reuseSlot # d
        /\ reuseSlot \in Callers \cup {Nobody, Replayer}
    BY <1>2, OwnerIs
  <1>4. flights[pending].state = "flying" /\ reuseSlot = c
    BY <1>1, <1>2, <1>3 DEF FlightsFollow, OwnersApart
  <1>5. PICK r \in Requests!Caller :
            /\ caller' = [caller EXCEPT ![c] = r]
            /\ r.pc = "saved" /\ r.key = caller[c].key /\ r.flight = caller[c].flight
    <2>1. "saved" \in Requests!PC
      BY DEF Requests!PC
    <2>2. QED BY <1>1, <1>2, <2>1, GotoIs
  <1>6. PICK g \in Requests!Flight :
            /\ flights' = [flights EXCEPT ![pending] = g]
            /\ g.state \in {"flying", "saved"} /\ g.key = flights[pending].key
            /\ g.joined = flights[pending].joined
    <2>1. CASE flights' = [flights EXCEPT ![caller[c].flight].state = "saved"]
      BY <1>1, <1>3, <2>1, ComesTo
    <2>2. CASE UNCHANGED flights
      BY <1>3, <1>4, <2>2
    <2>3. QED BY <1>2, <2>1, <2>2
  <1>7. r.pc \in Requests!Owning
    BY <1>5 DEF Requests!Owning
  <1>8. r.pc \in OnTheWay => caller[c].pc \in OnTheWay
    BY <1>2 DEF OnTheWay
  <1>9. cache' \in Seq(CacheEntry) /\ Elements(cache') = Elements(cache)
    BY <1>2, <1>3
  <1>10. QED BY <1>2, <1>3, <1>4, <1>5, <1>6, <1>7, <1>8, <1>9, OwnerMoves

\* A result gets into the cache only if it was neither deleted nor set aside on the way.
LEMMA PutInCacheKeeps ==
  ASSUME Requests!RequestsAssumption, RequestsInv, NEW c \in Callers, Requests!PutInCache(c)
  PROVE  RequestsInv'
  <1>1. Requests!RequestsTypeOK /\ OwnersApart /\ FlightsFollow /\ WayGuarded
    BY DEF RequestsInv
  <1>2. /\ caller[c].pc = "caching" /\ caller[c].pc \in Requests!Owning
        /\ caller[c].pc \in OnTheWay
        /\ \/ /\ \A n \in DOMAIN tombstones : tombstones[n].flight # caller[c].flight
              /\ cache' \in Requests!Fitting(Requests!Grown(c))
           \/ UNCHANGED cache
        /\ Requests!Goto(c, "leaving")
        /\ UNCHANGED <<clock, pending, tombstones, reuseSlot, flights, evicted, flushed>>
    BY DEF Requests!PutInCache, Requests!At, Requests!Owning, OnTheWay
  <1>3. /\ pending \in Flights /\ caller[c].flight = pending
        /\ flights[pending] \in Requests!Flight
        /\ flights = [flights EXCEPT ![pending] = flights[pending]]
        /\ cache \in Seq(CacheEntry)
        /\ \A d \in Callers : d # c => reuseSlot # d
        /\ reuseSlot \in Callers \cup {Nobody, Replayer}
    BY <1>2, OwnerIs
  <1>4. flights[pending].state = "computed" /\ reuseSlot # c
    BY <1>1, <1>2, <1>3 DEF FlightsFollow, OwnersApart
  <1>5. PICK r \in Requests!Caller :
            /\ caller' = [caller EXCEPT ![c] = r]
            /\ r.pc = "leaving" /\ r.key = caller[c].key /\ r.flight = caller[c].flight
    <2>1. "leaving" \in Requests!PC
      BY DEF Requests!PC
    <2>2. QED BY <1>1, <1>2, <2>1, GotoIs
  <1>6. r.pc \in Requests!Owning /\ r.pc \notin OnTheWay
    BY <1>5 DEF Requests!Owning, OnTheWay
  <1>7. /\ cache' \in Seq(CacheEntry)
        /\ \A e \in Elements(cache') :
             \/ e \in Elements(cache)
             \/ e.flight = pending /\ e.key = r.key /\ pending \notin evicted \cup flushed
    <2>1. CASE UNCHANGED cache
      BY <1>3, <2>1
    <2>2. CASE /\ \A n \in DOMAIN tombstones : tombstones[n].flight # caller[c].flight
               /\ cache' \in Requests!Fitting(Requests!Grown(c))
      <3> DEFINE W == Requests!WithoutKey(cache, caller[c].key)
                 new == [key |-> caller[c].key, flight |-> caller[c].flight,
                         expires |-> clock + ReuseTtl]
                 G == Requests!Grown(c)
      <3>1. pending \notin evicted \cup flushed
        BY <1>1, <1>2, <1>3, <2>2 DEF WayGuarded, Elements
      <3>2. /\ new \in CacheEntry /\ new.flight = pending /\ new.key = r.key
        <4>1. clock \in Nat /\ ReuseTtl \in Nat
          BY <1>1, RequestsTypes DEF Requests!RequestsAssumption
        <4>2. caller[c].key \in Keys
          BY <1>1, <1>2 DEF FlightsFollow
        <4>3. QED BY <1>3, <1>5, <4>1, <4>2 DEF CacheEntry
      <3>3. W \in Seq(CacheEntry) /\ Elements(W) \subseteq Elements(cache)
        BY <1>3, CacheKept
      <3>4. G = Append(W, new)
        BY DEF Requests!Grown
      <3> HIDE DEF W, new
      <3>5. G \in Seq(CacheEntry) /\ \A e \in Elements(G) : e \in Elements(cache) \/ e = new
        BY <3>2, <3>3, <3>4 DEF Elements
      <3> HIDE DEF G
      <3>6. PICK n \in 1..Len(G) : cache' = SubSeq(G, n, Len(G))
        BY <2>2 DEF Requests!Fitting, G
      <3>7. cache' \in Seq(CacheEntry) /\ Elements(cache') \subseteq Elements(G)
        BY <3>5, <3>6 DEF Elements
      <3>8. QED BY <3>1, <3>2, <3>5, <3>7
    <2>3. QED BY <1>2, <2>1, <2>2
  <1> DEFINE g == flights[pending]
  <1>8. /\ flights' = [flights EXCEPT ![pending] = g] /\ g \in Requests!Flight
        /\ g.state = "computed" /\ g.key = flights[pending].key
        /\ g.joined = flights[pending].joined
    BY <1>2, <1>3, <1>4
  <1> HIDE DEF g
  <1>9. /\ reuseSlot' \in Callers \cup {Nobody, Replayer}
        /\ reuseSlot' = c <=> r.pc \in {"collecting", "saved"}
        /\ \A d \in Callers : d # c => reuseSlot' # d
    BY <1>2, <1>3, <1>4, <1>5
  <1>10. /\ g.state # "new"
         /\ flights[pending].state \in {"saved", "computed"} => g.state \in {"saved", "computed"}
         /\ flights[pending].state = "computed" => g.state = "computed"
         /\ r.pc \in {"owner", "collecting"} => g.state = "flying"
         /\ r.pc = "saved" => g.state \in {"flying", "saved"}
         /\ r.pc = "caching" => g.state = "computed"
    BY <1>5, <1>8
  <1>11. /\ UNCHANGED <<clock, pending, tombstones, evicted, flushed>>
         /\ caller[c].pc \in Requests!Owning
         /\ r.pc \in OnTheWay => caller[c].pc \in OnTheWay
    BY <1>2
  <1>12. \A e \in Elements(cache') :
            \/ e \in Elements(cache)
            \/ /\ e.flight = pending /\ e.key = r.key /\ g.state = "computed"
               /\ r.pc \notin OnTheWay /\ pending \notin evicted \cup flushed
    BY <1>6, <1>7, <1>8
  <1>13. QED BY <1>5, <1>6, <1>7, <1>8, <1>9, <1>10, <1>11, <1>12, OwnerMoves

\* Who waits gets what the owner got, or gives up.
LEMMA WakeKeeps ==
  ASSUME RequestsInv, NEW c \in Callers, Requests!Wake(c) \/ Requests!Respond(c)
  PROVE  RequestsInv'
  <1>1. Requests!RequestsTypeOK /\ FlightsFollow
    BY DEF RequestsInv
  <1>2. /\ caller[c].pc \in {"waiting", "answered"}
        /\ Requests!Answer(c) \/ caller' = [caller EXCEPT ![c] = Requests!IdleCaller]
        /\ UNCHANGED <<clock, cache, pending, tombstones, reuseSlot, flights, evicted, flushed>>
    BY DEF Requests!Wake, Requests!Respond, Requests!At
  <1>3. PICK r \in Requests!Caller :
            /\ caller' = [caller EXCEPT ![c] = r]
            /\ r.pc \in {"idle", "answered"}
            /\ r.pc # "idle" => r.flight = caller[c].flight /\ r.key = caller[c].key
    <2>1. Requests!IdleCaller \in Requests!Caller /\ Requests!IdleCaller.pc = "idle"
      BY DEF Requests!IdleCaller, Requests!Caller, Requests!PC
    <2>2. QED BY <1>1, <1>2, <2>1, AnswerIs
  <1>4. /\ caller[c].flight \in Flights /\ caller[c].key \in Keys
        /\ flights[caller[c].flight].state # "new"
        /\ flights[caller[c].flight].key = caller[c].key
    BY <1>1, <1>2 DEF FlightsFollow
  <1>5. caller[c].pc \notin Requests!Owning
    BY <1>2 DEF Requests!Owning
  <1>6. cache' \in Seq(CacheEntry) /\ Elements(cache') \subseteq Elements(cache)
    BY <1>1, <1>2, RequestsTypes
  <1>7. QED BY <1>2, <1>3, <1>4, <1>5, <1>6, OthersMove

\* A replay takes the slot when nobody collects, and gives back its own.
LEMMA ReplayKeeps ==
  ASSUME Requests!RequestsAssumption, RequestsInv, Requests!Replay \/ Requests!ReplayEnds
  PROVE  RequestsInv'
  <1>1. /\ Requests!RequestsTypeOK /\ OwnersApart /\ FlightsFollow /\ OneJoins /\ CacheTrue
        /\ WayGuarded /\ OneTombEach
    BY DEF RequestsInv
  <1>2. /\ {reuseSlot, reuseSlot'} \subseteq {Nobody, Replayer}
        /\ UNCHANGED <<clock, cache, pending, tombstones, flights, caller, evicted, flushed>>
    BY DEF Requests!Replay, Requests!ReplayEnds
  <1>3. \A c \in Callers : reuseSlot # c /\ reuseSlot' # c
    BY <1>2 DEF Requests!RequestsAssumption
  <1>4. Requests!RequestsTypeOK'
    BY <1>1, <1>2 DEF Requests!RequestsTypeOK
  <1>5. OwnersApart'
    BY <1>1, <1>2, <1>3 DEF OwnersApart
  <1>6. FlightsFollow' /\ OneJoins' /\ CacheTrue' /\ WayGuarded' /\ OneTombEach'
    BY <1>1, <1>2 DEF FlightsFollow, OneJoins, CacheTrue, WayGuarded, OneTombEach
  <1>7. QED BY <1>4, <1>5, <1>6 DEF RequestsInv

\* No time passes between the snapshot of a computation and its end, and before
\* that its result is not known to anybody who could delete it.
LEMMA TickKeeps ==
  ASSUME Requests!RequestsAssumption, RequestsInv, Requests!Tick
  PROVE  RequestsInv'
  <1>1. /\ Requests!RequestsTypeOK /\ OwnersApart /\ FlightsFollow /\ OneJoins /\ CacheTrue
        /\ WayGuarded /\ OneTombEach
    BY DEF RequestsInv
  <1>2. /\ clock < MaxClock /\ clock' = clock + 1
        /\ \A c \in Callers : caller[c].pc \notin {"saved", "caching"}
        /\ UNCHANGED <<cache, pending, tombstones, reuseSlot, flights, caller, evicted, flushed>>
    BY DEF Requests!Tick
  <1>3. clock' \in 0..MaxClock
    BY <1>1, <1>2, RequestsTypes DEF Requests!RequestsAssumption
  <1>4. Requests!RequestsTypeOK'
    BY <1>1, <1>2, <1>3 DEF Requests!RequestsTypeOK
  <1>5. OwnersApart' /\ FlightsFollow' /\ OneJoins' /\ CacheTrue' /\ OneTombEach'
    BY <1>1, <1>2 DEF OwnersApart, FlightsFollow, OneJoins, CacheTrue, OneTombEach
  <1>6. WayGuarded'
    <2>1. ASSUME NEW c \in Callers, caller[c].pc \in OnTheWay
          PROVE  caller[c].flight \notin evicted
      <3>1. caller[c].pc \in {"owner", "collecting"}
        BY <1>2, <2>1 DEF OnTheWay
      <3>2. flights[caller[c].flight].state = "flying"
        BY <1>1, <3>1 DEF FlightsFollow
      <3>3. QED BY <1>1, <3>2 DEF WayGuarded
    <2>2. QED BY <1>1, <1>2, <2>1 DEF WayGuarded
  <1>7. QED BY <1>4, <1>5, <1>6 DEF RequestsInv

\* The tombstones that have not expired are tombstones of different results.
LEMMA TombsKept ==
  ASSUME NEW s \in Seq(Tombstone),
         \A m, n \in DOMAIN s : s[m].flight = s[n].flight => m = n
  PROVE  LET u == Requests!Unexpired(s) IN
         /\ u \in Seq(Tombstone)
         /\ \A m, n \in DOMAIN u : u[m].flight = u[n].flight => m = n
         /\ \A e \in Elements(s) : e.expires > clock => e \in Elements(u)
  <1> DEFINE P == {n \in DOMAIN s : s[n].expires > clock}
             u == Requests!Unexpired(s)
  <1>1. u = Requests!Kept(s, P) /\ P \in SUBSET DOMAIN s
    BY DEF Requests!Unexpired
  <1>2. \A e \in Elements(s) : e.expires > clock => \E n \in P : e = s[n]
    BY DEF Elements
  <1> HIDE DEF P, u
  <1>3. u \in Seq(Tombstone) /\ \A n \in P : s[n] \in Elements(u)
    BY <1>1, ThoseKept
  <1>4. PICK f \in [DOMAIN u -> DOMAIN s] :
              /\ \A i \in DOMAIN u : u[i] = s[f[i]]
              /\ \A i, j \in DOMAIN u : f[i] = f[j] => i = j
    BY <1>1, ThoseKept
  <1>5. \A m, n \in DOMAIN u : u[m].flight = u[n].flight => m = n
    BY <1>4
  <1>6. \A e \in Elements(s) : e.expires > clock => e \in Elements(u)
    BY <1>2, <1>3
  <1>7. QED BY <1>3, <1>5, <1>6 DEF u

\* A tombstone more, or one that lasts longer, and the others as they were.
LEMMA EntombedIs ==
  ASSUME NEW s \in Seq(Tombstone), NEW e \in Tombstone,
         \A m, n \in DOMAIN s : s[m].flight = s[n].flight => m = n
  PROVE  LET t == Requests!Entombed(s, e) IN
         /\ t \in Seq(Tombstone)
         /\ \A m, n \in DOMAIN t : t[m].flight = t[n].flight => m = n
         /\ e \in Elements(t)
         /\ \A d \in Elements(s) : d.flight # e.flight => d \in Elements(t)
  <1> DEFINE t == Requests!Entombed(s, e)
  <1>1. CASE \E n \in DOMAIN s : s[n].flight = e.flight
    <2>1. t = [n \in DOMAIN s |-> IF s[n].flight = e.flight THEN e ELSE s[n]]
      BY <1>1 DEF Requests!Entombed
    <2> HIDE DEF t
    <2>2. /\ DOMAIN t = DOMAIN s
          /\ \A n \in DOMAIN s : /\ t[n].flight = s[n].flight
                                 /\ s[n].flight = e.flight => t[n] = e
                                 /\ s[n].flight # e.flight => t[n] = s[n]
      BY <2>1
    <2>3. t \in Seq(Tombstone)
      BY <2>1
    <2>4. QED BY <1>1, <2>2, <2>3 DEF Elements, t
  <1>2. CASE ~\E n \in DOMAIN s : s[n].flight = e.flight
    <2>1. t = Append(s, e)
      BY <1>2 DEF Requests!Entombed
    <2> HIDE DEF t
    <2>2. /\ t \in Seq(Tombstone) /\ DOMAIN t = DOMAIN s \cup {Len(s) + 1}
          /\ t[Len(s) + 1] = e /\ \A n \in DOMAIN s : t[n] = s[n]
      BY <2>1
    <2>3. \A m, n \in DOMAIN t : t[m].flight = t[n].flight => m = n
      BY <1>2, <2>2
    <2>4. QED BY <2>2, <2>3 DEF Elements, t
  <1>3. QED BY <1>1, <1>2

\* There are no more tombstones of different results than there are results.
LEMMA FewTombs ==
  ASSUME Requests!RequestsAssumption, NEW s \in Seq(Tombstone),
         \A m, n \in DOMAIN s : s[m].flight = s[n].flight => m = n
  PROVE  Len(s) <= MaxTombstones
  <1>1. /\ IsFiniteSet(Flights) /\ Cardinality(Flights) <= MaxTombstones
        /\ MaxTombstones \in Nat
    <2>1. Requests!IsFiniteSet(Flights) <=> IsFiniteSet(Flights)
      BY DEF Requests!IsFiniteSet, IsFiniteSet
    <2>2. Requests!Cardinality(Flights) = Cardinality(Flights)
      BY DEF Requests!Cardinality, Cardinality
    <2>3. QED BY <2>1, <2>2 DEF Requests!RequestsAssumption
  <1> DEFINE f == [n \in 1..Len(s) |-> s[n].flight]
  <1>2. f \in Injection(1..Len(s), Flights)
    <2>1. f \in [1..Len(s) -> Flights]
      <3>1. \A n \in 1..Len(s) : s[n] \in Tombstone
        OBVIOUS
      <3>2. \A n \in 1..Len(s) : s[n].flight \in Flights
        BY <3>1 DEF Tombstone
      <3>3. QED BY <3>2
    <2>2. \A m, n \in 1..Len(s) : f[m] = f[n] => m = n
      OBVIOUS
    <2> HIDE DEF f
    <2>3. QED BY <2>1, <2>2 DEF Injection, IsInjective
  <1> HIDE DEF f
  <1>3. Cardinality(1..Len(s)) <= Cardinality(Flights)
    BY <1>1, <1>2, FS_Injection
  <1>4. Len(s) \in Nat /\ Cardinality(1..Len(s)) = Len(s)
    <2>1. Len(s) \in Nat
      OBVIOUS
    <2> HIDE DEF Tombstone
    <2>2. 1 \in Int /\ Len(s) \in Int /\ (1 > Len(s) => Len(s) = 0)
      BY <2>1
    <2>3. Cardinality(1..Len(s)) = IF 1 > Len(s) THEN 0 ELSE Len(s) - 1 + 1
      BY <2>2, FS_Interval
    <2>4. QED BY <2>1, <2>2, <2>3
  <1>5. Cardinality(Flights) \in Nat
    BY <1>1, FS_CardinalityType
  <1>6. QED BY <1>1, <1>3, <1>4, <1>5

\* A deleted result leaves the cache, and while it is on its way to it a
\* tombstone that lasts as long.
LEMMA DeleteKeeps ==
  ASSUME Requests!RequestsAssumption, RequestsInv, NEW f \in Flights, Requests!Delete(f)
  PROVE  RequestsInv'
  <1>1. /\ Requests!RequestsTypeOK /\ OwnersApart /\ FlightsFollow /\ OneJoins /\ CacheTrue
        /\ WayGuarded /\ OneTombEach
    BY DEF RequestsInv
  <1> DEFINE new == [flight |-> f, expires |-> clock + Wait + ReuseTtl]
             live == Requests!Unexpired(tombstones)
             dead == Requests!Entombed(live, new)
  <1>2. /\ f \in Requests!Known
        /\ tombstones' = IF Len(dead) > MaxTombstones THEN Tail(dead) ELSE dead
        /\ cache' = Requests!WithoutFlight(cache, f)
        /\ evicted' = evicted \cup {f}
        /\ UNCHANGED <<clock, pending, reuseSlot, flights, caller, flushed>>
    BY DEF Requests!Delete
  <1>3. /\ clock \in Nat /\ cache \in Seq(CacheEntry) /\ tombstones \in Seq(Tombstone)
        /\ evicted \in SUBSET Flights /\ Wait \in Nat /\ ReuseTtl \in Nat \ {0}
        /\ MaxTombstones \in Nat
    BY <1>1, RequestsTypes DEF Requests!RequestsAssumption
  <1>4. new \in Tombstone /\ new.flight = f /\ new.expires > clock
    BY <1>3 DEF Tombstone
  <1>5. /\ live \in Seq(Tombstone)
        /\ \A m, n \in DOMAIN live : live[m].flight = live[n].flight => m = n
        /\ \A e \in Elements(tombstones) : e.expires > clock => e \in Elements(live)
    BY <1>1, <1>3, TombsKept DEF OneTombEach
  <1> HIDE DEF live, new
  <1>6. /\ dead \in Seq(Tombstone)
        /\ \A m, n \in DOMAIN dead : dead[m].flight = dead[n].flight => m = n
        /\ new \in Elements(dead)
        /\ \A d \in Elements(live) : d.flight # f => d \in Elements(dead)
    BY <1>4, <1>5, EntombedIs
  <1> HIDE DEF dead
  <1>7. Len(dead) <= MaxTombstones /\ Len(dead) \in Nat
    BY <1>6, FewTombs
  <1>8. tombstones' = dead
    BY <1>2, <1>3, <1>7
  <1>9. /\ cache' \in Seq(CacheEntry)
        /\ \A e \in Elements(cache') : e \in Elements(cache) /\ e.flight # f
    BY <1>2, <1>3, CacheKept
  <1>10. Requests!RequestsTypeOK'
    <2>1. evicted' \in SUBSET Flights
      BY <1>2, <1>3
    <2>2. QED BY <1>1, <1>2, <1>6, <1>8, <1>9, <2>1
       DEF Requests!RequestsTypeOK, CacheEntry, Tombstone
  <1>11. OwnersApart' /\ FlightsFollow' /\ OneJoins'
    BY <1>1, <1>2 DEF OwnersApart, FlightsFollow, OneJoins
  <1>12. CacheTrue'
    BY <1>1, <1>2, <1>9 DEF CacheTrue
  <1>13. OneTombEach'
    BY <1>6, <1>8 DEF OneTombEach
  <1>14. WayGuarded'
    <2>1. ASSUME NEW c \in Callers, caller[c].pc \in OnTheWay, caller[c].flight \in evicted'
          PROVE  \E d \in Elements(dead) : d.flight = caller[c].flight /\ d.expires > clock
      <3>1. CASE caller[c].flight = f
        BY <1>4, <1>6, <3>1
      <3>2. CASE caller[c].flight # f
        <4>1. PICK d \in Elements(tombstones) :
                d.flight = caller[c].flight /\ d.expires > clock
          BY <1>1, <1>2, <2>1, <3>2 DEF WayGuarded
        <4>2. d \in Elements(dead)
          BY <1>5, <1>6, <3>2, <4>1
        <4>3. QED BY <4>1, <4>2
      <3>3. QED BY <3>1, <3>2
    <2>2. \A g \in evicted' : flights[g].state \in {"saved", "computed"}
      BY <1>1, <1>2 DEF WayGuarded, Requests!Known
    <2>3. QED BY <1>1, <1>2, <1>8, <2>1, <2>2 DEF WayGuarded
  <1>15. QED BY <1>10, <1>11, <1>12, <1>13, <1>14 DEF RequestsInv

\* Every step of the requests keeps what holds of them.
LEMMA RequestsStep ==
  ASSUME Requests!RequestsAssumption, RequestsInv, Requests!Next
  PROVE  RequestsInv'
  <1>1. CASE Requests!Tick
    BY <1>1, TickKeeps
  <1>2. CASE Requests!Replay \/ Requests!ReplayEnds
    BY <1>2, ReplayKeeps
  <1>3. ASSUME NEW f \in Flights, Requests!Delete(f) PROVE RequestsInv'
    BY <1>3, DeleteKeeps
  <1>4. ASSUME NEW c \in Callers, Requests!Ask(c) PROVE RequestsInv'
    <2>1. PICK k \in Keys : \/ Requests!Hit(c, k)
                            \/ \E refresh \in BOOLEAN :
                                 \/ Requests!Refuse(c, k, refresh)
                                 \/ Requests!Join(c, k, refresh)
                                 \/ \E f \in Flights : Requests!Own(c, k, refresh, f)
      BY <1>4 DEF Requests!Ask
    <2>2. CASE Requests!Hit(c, k)
      BY <2>2, HitKeeps
    <2>3. ASSUME NEW refresh \in BOOLEAN, Requests!Refuse(c, k, refresh) PROVE RequestsInv'
      BY <2>3, RefuseKeeps
    <2>4. ASSUME NEW refresh \in BOOLEAN, Requests!Join(c, k, refresh) PROVE RequestsInv'
      BY <2>4, JoinKeeps
    <2>5. ASSUME NEW refresh \in BOOLEAN, NEW f \in Flights, Requests!Own(c, k, refresh, f)
          PROVE  RequestsInv'
      BY <2>5, OwnKeeps
    <2>6. QED BY <2>1, <2>2, <2>3, <2>4, <2>5
  <1>5. ASSUME NEW c \in Callers, Requests!Work(c) PROVE RequestsInv'
    BY <1>5, AcquireKeeps, CollectKeeps, SaveKeeps, PutInCacheKeeps, LeaveKeeps, WakeKeeps
       DEF Requests!Work
  <1>6. ASSUME NEW c \in Callers, Requests!Respond(c) PROVE RequestsInv'
    BY <1>6, WakeKeeps
  <1>7. QED BY <1>1, <1>2, <1>3, <1>4, <1>5, <1>6 DEF Requests!Next

-----------------------------------------------------------------------------
(* The suite *)

\* A step of another part changes nothing of these.
LEMMA RegistryRests == ASSUME RegistryInv, UNCHANGED registryVars PROVE RegistryInv'
  BY DEF registryVars, RegistryInv, RegistryTyped, Registry!RegistryBounded, Registry!Bytes,
     AnalysesApart, NothingAhead, StatusAgrees, DeletedGone

\* Nor of the requests.
LEMMA RequestsRest == ASSUME RequestsInv, UNCHANGED reuseVars PROVE RequestsInv'
  BY DEF reuseVars, RequestsInv, Requests!RequestsTypeOK, OwnersApart, FlightsFollow, OneJoins,
     CacheTrue, WayGuarded, OneTombEach

\* What holds of the registry, and of the requests, in every part of the suite.
LEMMA KeptHolds == SuiteSpec => [](RegistryInv /\ RequestsInv)
  <1>1. SuiteInit => RegistryInv /\ RequestsInv
    BY InstancesAssumption, RegistryInit, RequestsInit DEF SuiteInit
  <1>2. RegistryInv /\ RequestsInv /\ [SuiteNext]_suiteVars => (RegistryInv /\ RequestsInv)'
    <2> SUFFICES ASSUME RegistryInv, RequestsInv, [SuiteNext]_suiteVars
                 PROVE  RegistryInv' /\ RequestsInv'
      OBVIOUS
    <2>1. Registry!Next \/ UNCHANGED registryVars
      BY Zenon DEF SuiteNext, suiteVars
    <2>2. Requests!Next \/ UNCHANGED reuseVars
      BY Zenon DEF SuiteNext, suiteVars
    <2>3. RegistryInv'
      BY <2>1, InstancesAssumption, RegistryStep, RegistryRests
    <2>4. RequestsInv'
      BY <2>2, InstancesAssumption, RequestsStep, RequestsRest
    <2>5. QED BY <2>3, <2>4
  <1>3. QED BY <1>1, <1>2, PTL DEF SuiteSpec

\* The registry is within its bounds, its status tells what a client gets, from
\* it or from the workspace, and a confirmed deletion is one for every reader:
\* for any threads, analyses, sizes and limits.
THEOREM CatalogueHonestHolds == SuiteSpec => []CatalogueHonest
  <1>1. RegistryInv => CatalogueHonest
    BY RegistrySound DEF CatalogueHonest
  <1>2. QED BY <1>1, KeptHolds, PTL

\* One computation at a time, answers of the key that was asked, and nothing
\* cached that was deleted or set aside, also when it was on its way: for any
\* threads, keys and limits, as long as deletions are remembered.
THEOREM ReuseHonestHolds == SuiteSpec => []ReuseHonest
  <1>1. RequestsInv => ReuseHonest
    BY InstancesAssumption, RequestsSound DEF ReuseHonest
  <1>2. QED BY <1>1, KeptHolds, PTL

-----------------------------------------------------------------------------
(* Profiles and their baselines *)

\* What a baseline's file may hold: nothing, a part, or the number of a preparation.
FileStates == {-1} \cup Nat
BaselineFiles == [exists : BOOLEAN, healthy : FileStates, legacy : FileStates,
                  provenance : FileStates]
ServerFiles == [healthy : FileStates, legacy : FileStates]
Commands == {"idle", "collected", "writing", "lock", "backup", "copy", "replace"}

OnboardingTyped ==
    /\ draft \in Docs /\ active \in Docs \cup {NONE}
    /\ history \in [Docs -> {"none", "partial", "whole"}]
    /\ lock \in Operators \cup {NONE}
    /\ baseline \in [Dirs -> BaselineFiles]
    /\ made \in Seq(Docs)
    /\ op \in [Operators -> [pc : Commands, step : 0..6, source : {"none", "draft", "history"},
                             profile : Docs \cup {NONE}, expected : Docs \cup {NONE},
                             preparation : Nat]]
    /\ server \in [pc : {"down", "runtime", "hashes", "up", "error"},
                   profile : Docs \cup {NONE}, runtime : ServerFiles, hashes : ServerFiles]
    /\ past \in SUBSET Docs

\* Who activates under the lock has it, and has a backup of what is active before
\* it is replaced.
ActivationFollowed ==
    \A o \in Operators :
        /\ op[o].pc # "idle" => op[o].profile \in Docs
        /\ op[o].pc \in {"backup", "copy", "replace"} =>
              lock = o /\ active = op[o].expected
        /\ op[o].pc = "copy" => op[o].expected # NONE
        /\ op[o].pc = "replace" /\ op[o].expected # NONE =>
              history[op[o].expected] = "whole"
PastWhole == \A d \in past : d = active \/ history[d] = "whole"
\* One preparation writes to a directory, its three files in order.
WritersFollowed ==
    /\ \A o \in Operators : op[o].pc = "writing" =>
         LET b == baseline[op[o].profile.dir]  n == op[o].step  p == op[o].preparation IN
         /\ n # 0 /\ p # 0 /\ p <= Len(made) /\ b.exists
         /\ b.healthy = (IF n = 1 THEN 0 ELSE IF n = 2 THEN -1 ELSE p)
         /\ b.legacy = (IF n <= 3 THEN 0 ELSE IF n = 4 THEN -1 ELSE p)
         /\ b.provenance = (IF n <= 5 THEN 0 ELSE -1)
    /\ \A o, p \in Operators :
         op[o].pc = "writing" /\ op[p].pc = "writing" /\ op[o].profile.dir = op[p].profile.dir
           => o = p
\* A file is begun when the one before it is done, by the same preparation.
FilesInOrder ==
    \A dir \in Dirs :
        LET b == baseline[dir] IN
        /\ ~b.exists => b.healthy = 0 /\ b.legacy = 0 /\ b.provenance = 0
        /\ b.healthy <= Len(made)
        /\ b.legacy # 0 => b.healthy > 0
        /\ b.legacy > 0 => b.legacy = b.healthy
        /\ b.provenance # 0 => b.legacy > 0
        /\ b.provenance > 0 => b.provenance = b.healthy
\* The server has the expectations of one preparation, for its services, and read
\* the same files twice.
ServerFollowed ==
    /\ server.pc \in {"runtime", "hashes", "up"} => server.profile \in Docs
    /\ server.pc \in {"hashes", "up"} =>
         /\ server.runtime.healthy > 0 /\ server.runtime.healthy <= Len(made)
         /\ server.runtime.legacy = server.runtime.healthy
         /\ made[server.runtime.healthy].universe = server.profile.universe
    /\ server.pc = "hashes" => server.runtime = Onboarding!FilesOf(server.profile)
    /\ server.pc = "up" => server.runtime = server.hashes
OnboardingInv ==
    /\ OnboardingTyped /\ ActivationFollowed /\ PastWhole /\ WritersFollowed /\ FilesInOrder
    /\ ServerFollowed


CommandState ==
    [pc : Commands, step : 0..6, source : {"none", "draft", "history"},
     profile : Docs \cup {NONE}, expected : Docs \cup {NONE}, preparation : Nat]

\* At the start there is the shipped profile's baseline, or nothing.
LEMMA OnboardingInit ==
  ASSUME Onboarding!OnboardingAssumption, Onboarding!Init
  PROVE  OnboardingInv
  <1> USE DEF Onboarding!Init, Onboarding!ABSENT, Onboarding!TORN
  <1>1. /\ Shipped \in Docs /\ Shipped.dir \in Dirs /\ NONE \notin Docs /\ NONE \notin Operators
    BY DEF Onboarding!OnboardingAssumption
  <1>2. OnboardingTyped
    <2>1. Onboarding!NoBaseline \in BaselineFiles
      BY DEF Onboarding!NoBaseline, BaselineFiles, FileStates
    <2>2. [exists |-> TRUE, healthy |-> 1, legacy |-> 1, provenance |-> 0] \in BaselineFiles
      BY DEF BaselineFiles, FileStates
    <2>3. baseline \in [Dirs -> BaselineFiles]
      BY <2>1, <2>2
    <2>4. Onboarding!Idle \in CommandState
      BY DEF Onboarding!Idle, CommandState, Commands
    <2>5. Onboarding!NoFiles \in ServerFiles
      BY DEF Onboarding!NoFiles, ServerFiles, FileStates
    <2>6. server \in [pc : {"down", "runtime", "hashes", "up", "error"},
                      profile : Docs \cup {NONE}, runtime : ServerFiles, hashes : ServerFiles]
      BY <2>5 DEF Onboarding!Down
    <2>7. made \in Seq(Docs)
      BY <1>1
    <2>8. active \in Docs \cup {NONE}
      BY <1>1
    <2>9. QED BY <2>3, <2>4, <2>6, <2>7, <2>8 DEF OnboardingTyped, CommandState
  <1>3. \A o \in Operators : op[o].pc = "idle"
    BY DEF Onboarding!Idle
  <1>4. ActivationFollowed /\ PastWhole /\ WritersFollowed
    BY <1>3 DEF ActivationFollowed, PastWhole, WritersFollowed
  <1>5. FilesInOrder
    <2>1. Len(made) = 1
      OBVIOUS
    <2>2. QED BY <2>1 DEF FilesInOrder, Onboarding!NoBaseline
  <1>6. ServerFollowed
    BY DEF ServerFollowed, Onboarding!Down
  <1>7. QED BY <1>2, <1>4, <1>5, <1>6 DEF OnboardingInv

\* The types, with the names of this module.
LEMMA OnboardingTypes ==
  OnboardingTyped <=>
    /\ draft \in Docs /\ active \in Docs \cup {NONE}
    /\ history \in [Docs -> {"none", "partial", "whole"}]
    /\ lock \in Operators \cup {NONE}
    /\ baseline \in [Dirs -> BaselineFiles]
    /\ made \in Seq(Docs)
    /\ op \in [Operators -> CommandState]
    /\ server \in [pc : {"down", "runtime", "hashes", "up", "error"},
                   profile : Docs \cup {NONE}, runtime : ServerFiles, hashes : ServerFiles]
    /\ past \in SUBSET Docs
  BY DEF OnboardingTyped, CommandState

\* A command that holds nothing: it begins, ends, or is killed.
LEMMA CommandMoves ==
  ASSUME Onboarding!OnboardingAssumption, OnboardingInv, NEW o \in Operators,
         NEW r \in CommandState, op' = [op EXCEPT ![o] = r],
         r.pc \in {"idle", "collected", "lock"}, r.pc # "idle" => r.profile \in Docs,
         lock' \in {lock, NONE}, lock' # lock => lock = o,
         UNCHANGED <<draft, active, history, baseline, made, server, past>>
  PROVE  OnboardingInv'
  <1>1. /\ OnboardingTyped /\ ActivationFollowed /\ PastWhole /\ WritersFollowed
        /\ FilesInOrder /\ ServerFollowed
    BY DEF OnboardingInv
  <1>2. op \in [Operators -> CommandState] /\ lock \in Operators \cup {NONE}
    BY <1>1, OnboardingTypes
  <1>3. /\ op' \in [Operators -> CommandState] /\ op'[o] = r
        /\ \A p \in Operators : p # o => op'[p] = op[p]
    BY <1>2
  <1>4. OnboardingTyped'
    BY <1>1, <1>2, <1>3, OnboardingTypes DEF OnboardingTyped, CommandState
  <1>5. ActivationFollowed'
    BY <1>1, <1>3 DEF ActivationFollowed
  <1>6. WritersFollowed'
    BY <1>1, <1>3 DEF WritersFollowed
  <1>7. PastWhole' /\ FilesInOrder' /\ ServerFollowed'
    BY <1>1 DEF PastWhole, FilesInOrder, ServerFollowed, Onboarding!FilesOf
  <1>8. QED BY <1>4, <1>5, <1>6, <1>7 DEF OnboardingInv

\* The commands that only take such a step.
LEMMA CommandKeeps ==
  ASSUME Onboarding!OnboardingAssumption, OnboardingInv, NEW o \in Operators,
         Onboarding!Prepare(o) \/ Onboarding!Activate(o) \/ Onboarding!Kill(o)
  PROVE  OnboardingInv'
  <1>1. Onboarding!Idle \in CommandState /\ Onboarding!Idle.pc = "idle"
    BY DEF Onboarding!Idle, CommandState, Commands
  <1>2. draft \in Docs /\ active \in Docs \cup {NONE}
    BY OnboardingTypes DEF OnboardingInv
  <1>3. CASE Onboarding!Prepare(o)
    <2> DEFINE r == [Onboarding!Idle EXCEPT !.pc = "collected", !.profile = draft]
    <2>1. op' = [op EXCEPT ![o] = r]
      BY <1>3 DEF Onboarding!Prepare, Onboarding!Becomes
    <2>2. r \in CommandState /\ r.pc = "collected" /\ r.profile \in Docs
      <3>1. "collected" \in Commands
        BY DEF Commands
      <3>2. QED BY <1>1, <1>2, <3>1 DEF CommandState
    <2>3. UNCHANGED <<draft, active, history, lock, baseline, made, server, past>>
      BY <1>3 DEF Onboarding!Prepare
    <2> HIDE DEF r
    <2>4. QED BY <2>1, <2>2, <2>3, CommandMoves
  <1>4. CASE Onboarding!Activate(o)
    <2>1. PICK source \in {"draft", "history"} :
            \E doc \in IF source = "draft" THEN {draft} ELSE {d \in Docs : history[d] = "whole"} :
               op' = [op EXCEPT ![o] = [Onboarding!Idle EXCEPT !.pc = "lock", !.source = source,
                                                !.profile = doc, !.expected = active]]
      BY <1>4 DEF Onboarding!Activate, Onboarding!Becomes
    <2>2. PICK doc \in Docs :
               op' = [op EXCEPT ![o] = [Onboarding!Idle EXCEPT !.pc = "lock", !.source = source,
                                                !.profile = doc, !.expected = active]]
      BY <1>2, <2>1
    <2> DEFINE r == [Onboarding!Idle EXCEPT !.pc = "lock", !.source = source, !.profile = doc,
                                           !.expected = active]
    <2>3. r \in CommandState /\ r.pc = "lock" /\ r.profile \in Docs
      <3>1. source \in {"none", "draft", "history"} /\ "lock" \in Commands
        BY DEF Commands
      <3>2. QED BY <1>1, <1>2, <3>1 DEF CommandState
    <2>4. op' = [op EXCEPT ![o] = r]
      BY <2>2
    <2>5. UNCHANGED <<draft, active, history, lock, baseline, made, server, past>>
      BY <1>4 DEF Onboarding!Activate
    <2> HIDE DEF r
    <2>6. QED BY <2>3, <2>4, <2>5, CommandMoves
  <1>5. CASE Onboarding!Kill(o)
    <2>1. /\ op' = [op EXCEPT ![o] = Onboarding!Idle]
          /\ lock' = (IF lock = o THEN NONE ELSE lock)
          /\ UNCHANGED <<draft, active, history, baseline, made, server, past>>
      BY <1>5 DEF Onboarding!Kill, Onboarding!Becomes, Onboarding!Ends
    <2>2. QED BY <1>1, <2>1, CommandMoves
  <1>6. QED BY <1>3, <1>4, <1>5

\* The draft is edited, which no invariant of a command speaks of.
LEMMA EditKeeps ==
  ASSUME OnboardingInv, Onboarding!EditDraft
  PROVE  OnboardingInv'
  BY DEF Onboarding!EditDraft, OnboardingInv, OnboardingTyped, ActivationFollowed, PastWhole,
     WritersFollowed, FilesInOrder, ServerFollowed, Onboarding!FilesOf


\* A preparation begins where there is no baseline, with a number of its own.
LEMMA FittedKeeps ==
  ASSUME Onboarding!OnboardingAssumption, OnboardingInv, NEW o \in Operators,
         Onboarding!Fitted(o)
  PROVE  OnboardingInv'
  <1>1. /\ OnboardingTyped /\ ActivationFollowed /\ PastWhole /\ WritersFollowed
        /\ FilesInOrder /\ ServerFollowed
    BY DEF OnboardingInv
  <1>2. /\ op[o].pc = "collected" /\ Onboarding!Mkdir(o)
        /\ UNCHANGED <<draft, active, history, lock, server, past>>
    BY DEF Onboarding!Fitted
  <1>3. /\ op \in [Operators -> CommandState] /\ made \in Seq(Docs)
        /\ baseline \in [Dirs -> BaselineFiles]
    BY <1>1, OnboardingTypes
  <1> DEFINE dir == op[o].profile.dir
             q == Len(made) + 1
  <1>4. op[o].profile \in Docs /\ dir \in Dirs
    BY <1>1, <1>2 DEF ActivationFollowed, Onboarding!OnboardingAssumption
  <1>5. CASE baseline[dir].exists
    <2>1. op' = [op EXCEPT ![o] = Onboarding!Idle] /\ UNCHANGED <<baseline, made>>
      BY <1>2, <1>5 DEF Onboarding!Mkdir, Onboarding!Ends, Onboarding!Becomes
    <2>2. Onboarding!Idle \in CommandState /\ Onboarding!Idle.pc = "idle"
      BY DEF Onboarding!Idle, CommandState, Commands
    <2>3. QED BY <1>2, <2>1, <2>2, CommandMoves
  <1>6. CASE ~baseline[dir].exists
    <2> DEFINE r == [op[o] EXCEPT !.pc = "writing", !.step = 1, !.preparation = q]
               b == [baseline[dir] EXCEPT !.exists = TRUE]
    <2>1. /\ baseline' = [baseline EXCEPT ![dir].exists = TRUE]
          /\ made' = Append(made, op[o].profile)
          /\ op' = [op EXCEPT ![o] = r]
      BY <1>2, <1>6 DEF Onboarding!Mkdir, Onboarding!Becomes
    <2>2. /\ r \in CommandState /\ r.pc = "writing" /\ r.step = 1 /\ r.preparation = q
          /\ r.profile = op[o].profile /\ q \in Nat
      <3>1. "writing" \in Commands /\ 1 \in 0..6 /\ q \in Nat /\ op[o] \in CommandState
        BY <1>3 DEF Commands
      <3> HIDE DEF q
      <3>2. QED BY <3>1 DEF CommandState
    <2>3. /\ b \in BaselineFiles /\ b.exists
          /\ b.healthy = baseline[dir].healthy /\ b.legacy = baseline[dir].legacy
          /\ b.provenance = baseline[dir].provenance
      BY <1>3, <1>4 DEF BaselineFiles
    <2>4. /\ b.healthy = 0 /\ b.legacy = 0 /\ b.provenance = 0
      BY <1>1, <1>4, <1>6, <2>3 DEF FilesInOrder
    <2>5. /\ baseline' \in [Dirs -> BaselineFiles] /\ baseline'[dir] = b
          /\ \A d \in Dirs : d # dir => baseline'[d] = baseline[d]
      BY <1>3, <1>4, <2>1, <2>3
    <2>6. /\ made' \in Seq(Docs) /\ Len(made') = q
          /\ \A n \in 1..Len(made) : made'[n] = made[n]
      BY <1>3, <1>4, <2>1
    <2>7. /\ op' \in [Operators -> CommandState] /\ op'[o] = r
          /\ \A p \in Operators : p # o => op'[p] = op[p]
      BY <1>3, <2>1, <2>2
    <2> HIDE DEF r, b
    <2>8. OnboardingTyped'
      BY <1>1, <1>2, <2>5, <2>6, <2>7, OnboardingTypes DEF OnboardingTyped, CommandState
    <2>9. ActivationFollowed'
      BY <1>1, <1>2, <1>4, <2>2, <2>7 DEF ActivationFollowed
    <2>10. PastWhole'
      BY <1>1, <1>2 DEF PastWhole
    <2>11. \A p \in Operators : op[p].pc = "writing" =>
              /\ op[p].profile \in Docs /\ op[p].profile.dir \in Dirs
              /\ op[p].profile.dir # dir
      BY <1>1, <1>6 DEF ActivationFollowed, WritersFollowed, Onboarding!OnboardingAssumption
    <2>12. WritersFollowed'
      <3>1. ASSUME NEW p \in Operators, op'[p].pc = "writing"
            PROVE  LET c == baseline'[op'[p].profile.dir]
                       n == op'[p].step  m == op'[p].preparation IN
                   /\ n # 0 /\ m # 0 /\ m <= Len(made') /\ c.exists
                   /\ c.healthy = (IF n = 1 THEN 0 ELSE IF n = 2 THEN -1 ELSE m)
                   /\ c.legacy = (IF n <= 3 THEN 0 ELSE IF n = 4 THEN -1 ELSE m)
                   /\ c.provenance = (IF n <= 5 THEN 0 ELSE -1)
        <4>1. CASE p = o
          <5>1. q # 0 /\ q <= Len(made')
            BY <1>3, <2>6
          <5>2. op'[p].profile.dir = dir
            BY <2>2, <2>7, <4>1
          <5>3. QED BY <2>2, <2>3, <2>4, <2>5, <2>7, <4>1, <5>1, <5>2
        <4>2. CASE p # o
          <5>1. op'[p] = op[p] /\ baseline'[op[p].profile.dir] = baseline[op[p].profile.dir]
            BY <2>5, <2>7, <2>11, <3>1, <4>2
          <5>2. Len(made) \in Nat /\ Len(made') = Len(made) + 1 /\ op[p].preparation \in Nat
            BY <1>3, <2>6 DEF CommandState
          <5>3. QED BY <1>1, <3>1, <5>1, <5>2 DEF WritersFollowed
        <4>3. QED BY <4>1, <4>2
      <3>2. ASSUME NEW p \in Operators, NEW s \in Operators, op'[p].pc = "writing",
                   op'[s].pc = "writing", op'[p].profile.dir = op'[s].profile.dir
            PROVE  p = s
        <4>1. op'[o].profile.dir = dir
          BY <2>2, <2>7
        <4>2. QED BY <1>1, <2>7, <2>11, <3>2, <4>1 DEF WritersFollowed
      <3>3. QED BY <3>1, <3>2 DEF WritersFollowed
    <2>13. FilesInOrder'
      <3>1. \A d \in Dirs : baseline[d].healthy \in FileStates
        BY <1>3 DEF BaselineFiles
      <3>2. Len(made) \in Nat /\ Len(made') = Len(made) + 1
        BY <1>3, <2>6
      <3>3. \A d \in Dirs : baseline'[d].healthy <= Len(made')
        BY <1>1, <2>4, <2>5, <3>1, <3>2 DEF FilesInOrder, FileStates
      <3>4. QED BY <1>1, <2>3, <2>4, <2>5, <3>3 DEF FilesInOrder
    <2>14. ServerFollowed'
      <3>1. server.pc = "hashes" => server.profile.dir \in Dirs /\ server.profile.dir # dir
        BY <1>1, <1>4, <1>6 DEF ServerFollowed, FilesInOrder, Onboarding!FilesOf,
           Onboarding!OnboardingAssumption
      <3>2. server.runtime.healthy \in FileStates
        BY <1>1 DEF OnboardingTyped, ServerFiles
      <3>3. Len(made) \in Nat /\ Len(made') = Len(made) + 1
        BY <1>3, <2>6
      <3>4. server.runtime.healthy > 0 /\ server.runtime.healthy <= Len(made) =>
              /\ server.runtime.healthy <= Len(made')
              /\ made'[server.runtime.healthy] = made[server.runtime.healthy]
        BY <2>6, <3>2, <3>3 DEF FileStates
      <3>5. server.pc = "hashes" =>
              Onboarding!FilesOf(server.profile)' = Onboarding!FilesOf(server.profile)
        BY <1>2, <2>5, <3>1 DEF Onboarding!FilesOf
      <3>6. QED BY <1>1, <1>2, <3>4, <3>5 DEF ServerFollowed
    <2>15. QED BY <2>8, <2>9, <2>10, <2>12, <2>13, <2>14 DEF OnboardingInv
  <1>7. QED BY <1>5, <1>6

\* A command that goes on changes only where it is.
LEMMA CommandGoes ==
  ASSUME OnboardingTyped, NEW o \in Operators, NEW pc \in Commands, Onboarding!Goes(o, pc)
  PROVE  /\ op' \in [Operators -> CommandState] /\ op'[o] \in CommandState
         /\ op'[o].pc = pc /\ op'[o].profile = op[o].profile /\ op'[o].expected = op[o].expected
         /\ \A p \in Operators : p # o => op'[p] = op[p]
  <1> DEFINE r == [op[o] EXCEPT !.pc = pc]
  <1>1. op \in [Operators -> CommandState] /\ op' = [op EXCEPT ![o] = r]
    BY OnboardingTypes DEF Onboarding!Goes, Onboarding!Becomes
  <1>2. r \in CommandState /\ r.pc = pc /\ r.profile = op[o].profile /\ r.expected = op[o].expected
    BY <1>1 DEF CommandState
  <1> HIDE DEF r
  <1>3. QED BY <1>1, <1>2

\* Nobody but a writer is spoken of by what is written.
LEMMA WritersApart ==
  ASSUME OnboardingInv, NEW o \in Operators, op[o].pc # "writing", op'[o].pc # "writing",
         \A p \in Operators : p # o => op'[p] = op[p], UNCHANGED <<baseline, made, server>>
  PROVE  WritersFollowed' /\ FilesInOrder' /\ ServerFollowed'
  BY DEF OnboardingInv, WritersFollowed, FilesInOrder, ServerFollowed, Onboarding!FilesOf

\* The lock is taken by one who has seen what is active.
LEMMA LockKeeps ==
  ASSUME Onboarding!OnboardingAssumption, OnboardingInv, NEW o \in Operators,
         Onboarding!Lock(o)
  PROVE  OnboardingInv'
  <1>1. /\ OnboardingTyped /\ ActivationFollowed /\ PastWhole
    BY DEF OnboardingInv
  <1>2. /\ op[o].pc = "lock" /\ lock = NONE
        /\ UNCHANGED <<draft, active, history, baseline, made, server, past>>
    BY DEF Onboarding!Lock
  <1>3. CASE Onboarding!Compare(o)
    <2>1. lock' = o /\ Onboarding!Goes(o, "backup") /\ active = op[o].expected
      BY <1>3 DEF Onboarding!Lock, Onboarding!Compare
    <2>2. /\ op' \in [Operators -> CommandState] /\ op'[o].pc = "backup"
          /\ op'[o].profile = op[o].profile /\ op'[o].expected = op[o].expected
          /\ \A p \in Operators : p # o => op'[p] = op[p]
      <3>1. "backup" \in Commands
        BY DEF Commands
      <3>2. QED BY <1>1, <2>1, <3>1, CommandGoes
    <2>3. OnboardingTyped'
      BY <1>1, <1>2, <2>1, <2>2, OnboardingTypes DEF OnboardingTyped, CommandState
    <2>4. \A p \in Operators : p # o => op[p].pc \notin {"backup", "copy", "replace"}
      BY <1>1, <1>2 DEF ActivationFollowed, Onboarding!OnboardingAssumption
    <2>5. ActivationFollowed'
      BY <1>1, <1>2, <2>1, <2>2, <2>4 DEF ActivationFollowed
    <2>6. PastWhole'
      BY <1>1, <1>2 DEF PastWhole
    <2>7. WritersFollowed' /\ FilesInOrder' /\ ServerFollowed'
      BY <1>2, <2>2, WritersApart
    <2>8. QED BY <2>3, <2>5, <2>6, <2>7 DEF OnboardingInv
  <1>4. CASE ~Onboarding!Compare(o)
    <2>1. op' = [op EXCEPT ![o] = Onboarding!Idle] /\ UNCHANGED lock
      BY <1>4 DEF Onboarding!Lock, Onboarding!Ends, Onboarding!Becomes
    <2>2. Onboarding!Idle \in CommandState /\ Onboarding!Idle.pc = "idle"
      BY DEF Onboarding!Idle, CommandState, Commands
    <2>3. QED BY <1>2, <2>1, <2>2, CommandMoves
  <1>5. QED BY <1>3, <1>4

\* Under the lock, the history gets a backup of what is active.
LEMMA BackupKeeps ==
  ASSUME Onboarding!OnboardingAssumption, OnboardingInv, NEW o \in Operators,
         Onboarding!Backup(o) \/ Onboarding!Copy(o)
  PROVE  OnboardingInv'
  <1>1. /\ OnboardingTyped /\ ActivationFollowed /\ PastWhole
    BY DEF OnboardingInv
  <1>2. /\ op[o].pc \in {"backup", "copy"}
        /\ UNCHANGED <<draft, active, baseline, made, server, past>>
    BY DEF Onboarding!Backup, Onboarding!Copy
  <1>3. /\ lock = o /\ active = op[o].expected /\ active \in Docs \cup {NONE}
        /\ history \in [Docs -> {"none", "partial", "whole"}]
        /\ op[o].profile \in Docs /\ NONE \notin Docs /\ NONE \notin Operators
    BY <1>1, <1>2, OnboardingTypes DEF ActivationFollowed, Onboarding!OnboardingAssumption
  <1>4. \A p \in Operators : p # o => op[p].pc \notin {"backup", "copy", "replace"}
    BY <1>1, <1>3 DEF ActivationFollowed
  <1>5. ASSUME Onboarding!Ends(o), lock' = NONE, UNCHANGED history PROVE OnboardingInv'
    <2>1. op' = [op EXCEPT ![o] = Onboarding!Idle]
      BY <1>5 DEF Onboarding!Ends, Onboarding!Becomes
    <2>2. Onboarding!Idle \in CommandState /\ Onboarding!Idle.pc = "idle"
      BY DEF Onboarding!Idle, CommandState, Commands
    <2>3. QED BY <1>2, <1>3, <1>5, <2>1, <2>2, CommandMoves
  <1>6. ASSUME NEW to \in {"copy", "replace"}, Onboarding!Goes(o, to), UNCHANGED lock,
               history' \in [Docs -> {"none", "partial", "whole"}],
               \A d \in Docs : d # active => history'[d] = history[d],
               to = "copy" => active # NONE,
               to = "replace" => active = NONE \/ history'[active] = "whole"
        PROVE  OnboardingInv'
    <2>1. /\ op' \in [Operators -> CommandState] /\ op'[o].pc = to
          /\ op'[o].profile = op[o].profile /\ op'[o].expected = op[o].expected
          /\ \A p \in Operators : p # o => op'[p] = op[p]
      <3>1. to \in Commands
        BY DEF Commands
      <3>2. QED BY <1>1, <1>6, <3>1, CommandGoes
    <2>2. OnboardingTyped'
      BY <1>1, <1>2, <1>6, <2>1, OnboardingTypes DEF OnboardingTyped, CommandState
    <2>3. ActivationFollowed'
      BY <1>1, <1>2, <1>3, <1>4, <1>6, <2>1 DEF ActivationFollowed
    <2>4. PastWhole'
      <3>1. past \in SUBSET Docs
        BY <1>1, OnboardingTypes
      <3>2. QED BY <1>1, <1>2, <1>6, <3>1 DEF PastWhole
    <2>5. WritersFollowed' /\ FilesInOrder' /\ ServerFollowed'
      BY <1>2, <2>1, WritersApart
    <2>6. QED BY <2>2, <2>3, <2>4, <2>5 DEF OnboardingInv
  <1>7. CASE Onboarding!Backup(o)
    <2>1. CASE active = NONE
      <3>1. Onboarding!Goes(o, "replace") /\ UNCHANGED <<history, lock>>
        BY <1>3, <1>7, <2>1 DEF Onboarding!Backup
      <3>2. QED BY <1>3, <1>6, <2>1, <3>1
    <2>2. CASE active # NONE /\ history[active] = "whole"
      <3>1. Onboarding!Goes(o, "replace") /\ UNCHANGED <<history, lock>>
        BY <1>3, <1>7, <2>2 DEF Onboarding!Backup
      <3>2. QED BY <1>3, <1>6, <2>2, <3>1
    <2>3. CASE active # NONE /\ history[active] = "partial"
      <3>1. Onboarding!Ends(o) /\ lock' = NONE /\ UNCHANGED history
        BY <1>3, <1>7, <2>3 DEF Onboarding!Backup
      <3>2. QED BY <1>5, <3>1
    <2>4. CASE active # NONE /\ history[active] = "none"
      <3>1. /\ history' = [history EXCEPT ![active] = "partial"]
            /\ Onboarding!Goes(o, "copy") /\ UNCHANGED lock
        BY <1>3, <1>7, <2>4 DEF Onboarding!Backup
      <3>2. /\ history' \in [Docs -> {"none", "partial", "whole"}]
            /\ \A d \in Docs : d # active => history'[d] = history[d]
        BY <1>3, <3>1
      <3>3. QED BY <1>6, <2>4, <3>1, <3>2
    <2>5. QED BY <1>3, <2>1, <2>2, <2>3, <2>4
  <1>8. CASE Onboarding!Copy(o)
    <2>1. /\ op[o].pc = "copy" /\ history' = [history EXCEPT ![active] = "whole"]
          /\ Onboarding!Goes(o, "replace") /\ UNCHANGED lock
      BY <1>3, <1>8 DEF Onboarding!Copy
    <2>2. active \in Docs
      BY <1>1, <1>3, <2>1 DEF ActivationFollowed
    <2>3. /\ history' \in [Docs -> {"none", "partial", "whole"}] /\ history'[active] = "whole"
          /\ \A d \in Docs : d # active => history'[d] = history[d]
      BY <1>3, <2>1, <2>2
    <2>4. QED BY <1>6, <2>1, <2>3
  <1>9. QED BY <1>7, <1>8

\* What was active goes when there is a backup of it.
LEMMA ReplaceKeeps ==
  ASSUME Onboarding!OnboardingAssumption, OnboardingInv, NEW o \in Operators,
         Onboarding!Replace(o)
  PROVE  OnboardingInv'
  <1>1. /\ OnboardingTyped /\ ActivationFollowed /\ PastWhole
    BY DEF OnboardingInv
  <1>2. /\ op[o].pc = "replace" /\ active' = op[o].profile /\ lock' = NONE
        /\ op' = [op EXCEPT ![o] = Onboarding!Idle]
        /\ past' = (IF active = NONE THEN past ELSE past \cup {active})
        /\ UNCHANGED <<draft, history, baseline, made, server>>
    BY DEF Onboarding!Replace, Onboarding!Ends, Onboarding!Becomes
  <1>3. /\ lock = o /\ active = op[o].expected /\ active \in Docs \cup {NONE}
        /\ op[o].profile \in Docs /\ op \in [Operators -> CommandState]
        /\ active # NONE => history[active] = "whole"
    BY <1>1, <1>2, OnboardingTypes DEF ActivationFollowed
  <1>4. Onboarding!Idle \in CommandState /\ Onboarding!Idle.pc = "idle"
    BY DEF Onboarding!Idle, CommandState, Commands
  <1>5. /\ op' \in [Operators -> CommandState] /\ op'[o].pc = "idle"
        /\ \A p \in Operators : p # o => op'[p] = op[p]
    BY <1>2, <1>3, <1>4
  <1>6. OnboardingTyped'
    BY <1>1, <1>2, <1>3, <1>5, OnboardingTypes DEF OnboardingTyped, CommandState
  <1>7. \A p \in Operators : p # o => op[p].pc \notin {"backup", "copy", "replace"}
    BY <1>1, <1>3 DEF ActivationFollowed
  <1>8. ActivationFollowed'
    BY <1>1, <1>2, <1>5, <1>7 DEF ActivationFollowed
  <1>9. PastWhole'
    <2>1. \A d \in past' : d \in past \/ d = active
      BY <1>2
    <2>2. \A d \in past' : d # NONE => d = active \/ history[d] = "whole"
      BY <1>1, <2>1 DEF PastWhole
    <2>3. \A d \in past' : d # NONE
      BY <1>1, <1>2, <1>3, OnboardingTypes DEF Onboarding!OnboardingAssumption
    <2>4. QED BY <1>2, <1>3, <2>2, <2>3 DEF PastWhole
  <1>10. WritersFollowed' /\ FilesInOrder' /\ ServerFollowed'
    BY <1>2, <1>5, WritersApart
  <1>11. QED BY <1>6, <1>8, <1>9, <1>10 DEF OnboardingInv


\* A preparation goes on with its files: a server that has read two of them whole
\* can only miss the third.
LEMMA WriteKeeps ==
  ASSUME Onboarding!OnboardingAssumption, OnboardingInv, NEW o \in Operators,
         Onboarding!Write(o)
  PROVE  OnboardingInv'
  <1> DEFINE n == op[o].step
             q == op[o].preparation
             dir == op[o].profile.dir
             b == baseline[dir]
             file == Onboarding!FILES[(n + 1) \div 2]
             value == IF n % 2 = 1 THEN -1 ELSE q
  <1>1. /\ OnboardingTyped /\ ActivationFollowed /\ PastWhole /\ WritersFollowed
        /\ FilesInOrder /\ ServerFollowed
    BY DEF OnboardingInv
  <1>2. /\ op[o].pc = "writing"
        /\ baseline' = [baseline EXCEPT ![dir][file] = value]
        /\ op' = [op EXCEPT ![o] = IF n = 6 THEN Onboarding!Idle ELSE [op[o] EXCEPT !.step = n + 1]]
        /\ UNCHANGED <<draft, active, history, lock, made, server, past>>
    BY DEF Onboarding!Write, Onboarding!TORN, Onboarding!Ends, Onboarding!Becomes
  <1>3. /\ op \in [Operators -> CommandState] /\ made \in Seq(Docs)
        /\ baseline \in [Dirs -> BaselineFiles]
    BY <1>1, OnboardingTypes
  <1>4. op[o].profile \in Docs /\ dir \in Dirs /\ b \in BaselineFiles
    BY <1>1, <1>2, <1>3 DEF ActivationFollowed, Onboarding!OnboardingAssumption
  <1>5. /\ n \in 1..6 /\ q \in Nat /\ q > 0 /\ q <= Len(made) /\ b.exists
        /\ b.healthy = (IF n = 1 THEN 0 ELSE IF n = 2 THEN -1 ELSE q)
        /\ b.legacy = (IF n <= 3 THEN 0 ELSE IF n = 4 THEN -1 ELSE q)
        /\ b.provenance = (IF n <= 5 THEN 0 ELSE -1)
    <2>1. n \in 0..6 /\ q \in Nat /\ Len(made) \in Nat
      BY <1>3 DEF CommandState
    <2>2. QED BY <1>1, <1>2, <2>1 DEF WritersFollowed
  <1> DEFINE c == [b EXCEPT ![file] = value]
  <1>6. /\ c \in BaselineFiles /\ c.exists
        /\ c.healthy = (IF n = 1 THEN -1 ELSE q)
        /\ c.legacy = (IF n <= 2 THEN 0 ELSE IF n = 3 THEN -1 ELSE q)
        /\ c.provenance = (IF n <= 4 THEN 0 ELSE IF n = 5 THEN -1 ELSE q)
    <2>1. CASE n \in {1, 2}
      <3>1. file = "healthy" /\ value = (IF n = 1 THEN -1 ELSE q)
        BY <2>1 DEF Onboarding!FILES
      <3>2. QED BY <1>4, <1>5, <2>1, <3>1 DEF BaselineFiles, FileStates
    <2>2. CASE n \in {3, 4}
      <3>1. file = "legacy" /\ value = (IF n = 3 THEN -1 ELSE q)
        BY <2>2 DEF Onboarding!FILES
      <3>2. QED BY <1>4, <1>5, <2>2, <3>1 DEF BaselineFiles, FileStates
    <2>3. CASE n \in {5, 6}
      <3>1. file = "provenance" /\ value = (IF n = 5 THEN -1 ELSE q)
        BY <2>3 DEF Onboarding!FILES
      <3>2. QED BY <1>4, <1>5, <2>3, <3>1 DEF BaselineFiles, FileStates
    <2>4. QED BY <1>5, <2>1, <2>2, <2>3
  <1>7. baseline' = [baseline EXCEPT ![dir] = c]
    BY <1>2
  <1> HIDE DEF c, file, value
  <1>8. /\ baseline' \in [Dirs -> BaselineFiles] /\ baseline'[dir] = c
        /\ \A d \in Dirs : d # dir => baseline'[d] = baseline[d]
    BY <1>3, <1>4, <1>6, <1>7
  <1> DEFINE r == IF n = 6 THEN Onboarding!Idle ELSE [op[o] EXCEPT !.step = n + 1]
  <1>9. /\ r \in CommandState /\ r.pc \in {"idle", "writing"}
        /\ r.pc = "writing" => /\ n < 6 /\ r.step = n + 1 /\ r.preparation = q
                               /\ r.profile = op[o].profile
    <2>1. CASE n = 6
      <3>1. r = Onboarding!Idle
        BY <2>1
      <3>2. Onboarding!Idle \in CommandState /\ Onboarding!Idle.pc = "idle"
        BY DEF Onboarding!Idle, CommandState, Commands
      <3>3. QED BY <3>1, <3>2
    <2>2. CASE n # 6
      <3>1. r = [op[o] EXCEPT !.step = n + 1]
        BY <2>2
      <3>2. op[o] \in CommandState /\ n < 6 /\ n + 1 \in 0..6
        BY <1>3, <1>5, <2>2
      <3> HIDE DEF r
      <3>3. QED BY <1>2, <3>1, <3>2 DEF CommandState
    <2>3. QED BY <2>1, <2>2
  <1>10. op' = [op EXCEPT ![o] = r]
    BY <1>2
  <1> HIDE DEF r
  <1>11. /\ op' \in [Operators -> CommandState] /\ op'[o] = r
         /\ \A p \in Operators : p # o => op'[p] = op[p]
    BY <1>3, <1>9, <1>10
  <1>12. OnboardingTyped'
    BY <1>1, <1>2, <1>8, <1>11, OnboardingTypes DEF OnboardingTyped, CommandState
  <1>13. ActivationFollowed' /\ PastWhole'
    BY <1>1, <1>2, <1>4, <1>9, <1>11 DEF ActivationFollowed, PastWhole
  <1>14. \A p \in Operators : op[p].pc = "writing" =>
            op[p].profile.dir \in Dirs /\ (p # o => op[p].profile.dir # dir)
    BY <1>1, <1>2 DEF ActivationFollowed, WritersFollowed, Onboarding!OnboardingAssumption
  <1>15. WritersFollowed'
    <2>1. ASSUME NEW p \in Operators, op'[p].pc = "writing"
          PROVE  LET f == baseline'[op'[p].profile.dir]
                     i == op'[p].step  m == op'[p].preparation IN
                 /\ i # 0 /\ m # 0 /\ m <= Len(made') /\ f.exists
                 /\ f.healthy = (IF i = 1 THEN 0 ELSE IF i = 2 THEN -1 ELSE m)
                 /\ f.legacy = (IF i <= 3 THEN 0 ELSE IF i = 4 THEN -1 ELSE m)
                 /\ f.provenance = (IF i <= 5 THEN 0 ELSE -1)
      <3>1. CASE p = o
        <4>1. /\ op'[p].step = n + 1 /\ op'[p].preparation = q /\ op'[p].profile.dir = dir
              /\ n < 6 /\ made' = made
          BY <1>2, <1>9, <1>11, <2>1, <3>1
        <4> HIDE DEF n, q, dir
        <4>2. QED BY <1>5, <1>6, <1>8, <4>1
      <3>2. CASE p # o
        <4>1. op'[p] = op[p] /\ baseline'[op[p].profile.dir] = baseline[op[p].profile.dir]
              /\ made' = made
          BY <1>2, <1>8, <1>11, <1>14, <2>1, <3>2
        <4>2. QED BY <1>1, <2>1, <4>1 DEF WritersFollowed
      <3>3. QED BY <3>1, <3>2
    <2>2. ASSUME NEW p \in Operators, NEW s \in Operators, op'[p].pc = "writing",
                 op'[s].pc = "writing", op'[p].profile.dir = op'[s].profile.dir
          PROVE  p = s
      <3>1. op'[o].pc = "writing" => op'[o].profile.dir = dir
        BY <1>9, <1>11
      <3>2. QED BY <1>1, <1>11, <1>14, <2>2, <3>1 DEF WritersFollowed
    <2>3. QED BY <2>1, <2>2 DEF WritersFollowed
  <1>16. FilesInOrder'
    <2>1. Len(made) \in Nat /\ made' = made
      BY <1>2, <1>3
    <2>2. ASSUME NEW d \in Dirs, d # dir
          PROVE  /\ baseline'[d] = baseline[d]
      BY <1>8, <2>2
    <2> HIDE DEF n, q, dir
    <2>3. QED BY <1>1, <1>5, <1>6, <1>8, <2>1, <2>2 DEF FilesInOrder
  <1>17. ServerFollowed'
    <2>1. ASSUME server.pc = "hashes"
          PROVE  Onboarding!FilesOf(server.profile)' = Onboarding!FilesOf(server.profile)
      <3>1. server.profile.dir \in Dirs
        BY <1>1, <2>1 DEF ServerFollowed, Onboarding!OnboardingAssumption
      <3>2. CASE server.profile.dir = dir
        <4>1. b.healthy > 0 /\ b.legacy > 0
          BY <1>1, <2>1, <3>2 DEF ServerFollowed, Onboarding!FilesOf
        <4>2. c.healthy = b.healthy /\ c.legacy = b.legacy
          <5> HIDE DEF n, q, b
          <5>1. QED BY <1>5, <1>6, <4>1
        <4>3. QED BY <1>2, <1>8, <3>2, <4>2 DEF Onboarding!FilesOf
      <3>3. CASE server.profile.dir # dir
        BY <1>2, <1>8, <3>1, <3>3 DEF Onboarding!FilesOf
      <3>4. QED BY <3>2, <3>3
    <2>2. QED BY <1>1, <1>2, <2>1 DEF ServerFollowed
  <1>18. QED BY <1>12, <1>13, <1>15, <1>16, <1>17 DEF OnboardingInv


\* A baseline is removed when nobody writes one and the server does not read.
LEMMA RemoveKeeps ==
  ASSUME OnboardingInv, NEW dir \in Dirs, Onboarding!Remove(dir)
  PROVE  OnboardingInv'
  <1>1. /\ OnboardingTyped /\ ActivationFollowed /\ PastWhole /\ WritersFollowed
        /\ FilesInOrder /\ ServerFollowed
    BY DEF OnboardingInv
  <1>2. /\ baseline' = [baseline EXCEPT ![dir] = Onboarding!NoBaseline]
        /\ server.pc # "hashes" /\ \A o \in Operators : op[o].pc # "writing"
        /\ UNCHANGED <<draft, active, history, lock, made, op, server, past>>
    BY DEF Onboarding!Remove
  <1>3. baseline \in [Dirs -> BaselineFiles] /\ made \in Seq(Docs)
    BY <1>1, OnboardingTypes
  <1>4. /\ baseline' \in [Dirs -> BaselineFiles] /\ baseline'[dir] = Onboarding!NoBaseline
        /\ \A d \in Dirs : d # dir => baseline'[d] = baseline[d]
    <2>1. Onboarding!NoBaseline \in BaselineFiles
      BY DEF Onboarding!NoBaseline, Onboarding!ABSENT, BaselineFiles, FileStates
    <2>2. QED BY <1>2, <1>3, <2>1
  <1>5. OnboardingTyped'
    BY <1>1, <1>2, <1>4, OnboardingTypes DEF OnboardingTyped, CommandState
  <1>6. ActivationFollowed' /\ PastWhole' /\ WritersFollowed'
    BY <1>1, <1>2 DEF ActivationFollowed, PastWhole, WritersFollowed
  <1>7. FilesInOrder'
    <2>1. Len(made) \in Nat
      BY <1>3
    <2>2. QED BY <1>1, <1>2, <1>4, <2>1
          DEF FilesInOrder, Onboarding!NoBaseline, Onboarding!ABSENT
  <1>8. ServerFollowed'
    BY <1>1, <1>2 DEF ServerFollowed
  <1>9. QED BY <1>5, <1>6, <1>7, <1>8 DEF OnboardingInv

\* A step of the server changes what it has, and that still follows the files.
LEMMA ServerMoves ==
  ASSUME OnboardingInv, ServerFollowed',
         server' \in [pc : {"down", "runtime", "hashes", "up", "error"},
                      profile : Docs \cup {NONE}, runtime : ServerFiles, hashes : ServerFiles],
         UNCHANGED <<draft, active, history, lock, baseline, made, op, past>>
  PROVE  OnboardingInv'
  <1>1. OnboardingTyped'
    BY OnboardingTypes DEF OnboardingInv, OnboardingTyped, CommandState
  <1>2. ActivationFollowed' /\ PastWhole' /\ WritersFollowed' /\ FilesInOrder'
    BY DEF OnboardingInv, ActivationFollowed, PastWhole, WritersFollowed, FilesInOrder
  <1>3. QED BY <1>1, <1>2 DEF OnboardingInv

\* The server reads the files twice, and nobody changes the two it needs between.
LEMMA ServerKeeps ==
  ASSUME Onboarding!OnboardingAssumption, OnboardingInv,
         \/ Onboarding!Serve \/ Onboarding!Runtime \/ Onboarding!Hashes \/ Onboarding!Stop
  PROVE  OnboardingInv'
  <1> DEFINE ServerStates ==
               [pc : {"down", "runtime", "hashes", "up", "error"},
                profile : Docs \cup {NONE}, runtime : ServerFiles, hashes : ServerFiles]
             Rest == UNCHANGED <<draft, active, history, lock, baseline, made, op, past>>
  <1>1. OnboardingTyped /\ FilesInOrder /\ ServerFollowed
    BY DEF OnboardingInv
  <1>2. /\ server \in ServerStates /\ active \in Docs \cup {NONE}
        /\ baseline \in [Dirs -> BaselineFiles] /\ made \in Seq(Docs)
    BY <1>1, OnboardingTypes
  <1>3. /\ Onboarding!Down \in ServerStates /\ Onboarding!Down.pc = "down"
    BY DEF Onboarding!Down, Onboarding!NoFiles, Onboarding!ABSENT, ServerFiles, FileStates
  <1>4. ASSUME NEW r \in ServerStates, server' = r, Rest,
               r.pc \in {"down", "error", "runtime"}, r.pc = "runtime" => r.profile \in Docs
        PROVE  OnboardingInv'
    <2>1. ServerFollowed'
      BY <1>4 DEF ServerFollowed
    <2>2. QED BY <1>4, <2>1, ServerMoves
  <1>5. /\ [Onboarding!Down EXCEPT !.pc = "error"] \in ServerStates
        /\ [Onboarding!Down EXCEPT !.pc = "error"].pc = "error"
    BY <1>3
  <1>6. CASE Onboarding!Serve
    <2>1. /\ active \in Docs /\ Rest
          /\ server' = (IF Onboarding!LoadsBound(active)
                        THEN [Onboarding!Down EXCEPT !.pc = "runtime", !.profile = active]
                        ELSE [Onboarding!Down EXCEPT !.pc = "error"])
      BY <1>2, <1>6 DEF Onboarding!Serve
    <2> DEFINE r == [Onboarding!Down EXCEPT !.pc = "runtime", !.profile = active]
    <2>2. r \in ServerStates /\ r.pc = "runtime" /\ r.profile \in Docs
      BY <1>3, <2>1
    <2> HIDE DEF r
    <2>3. CASE server' = r
      BY <1>4, <2>1, <2>2, <2>3
    <2>4. CASE server' = [Onboarding!Down EXCEPT !.pc = "error"]
      BY <1>4, <1>5, <2>1, <2>4
    <2>5. QED BY <2>1, <2>3, <2>4 DEF r
  <1>7. CASE Onboarding!Runtime
    <2> DEFINE b == baseline[server.profile.dir]
               Sound == /\ b.provenance = 0 \/ (b.healthy = b.provenance /\ b.legacy = b.provenance)
                        /\ b.healthy > 0 /\ b.legacy > 0
                        /\ made[b.healthy].universe = server.profile.universe
               r == [server EXCEPT !.pc = "hashes",
                                   !.runtime = Onboarding!FilesOf(server.profile)]
    <2>1. /\ server.pc = "runtime" /\ Rest
          /\ server' = (IF Sound THEN r ELSE [Onboarding!Down EXCEPT !.pc = "error"])
      BY <1>7 DEF Onboarding!Runtime, Onboarding!ABSENT
    <2>2. server.profile \in Docs /\ server.profile.dir \in Dirs /\ b \in BaselineFiles
      BY <1>1, <1>2, <2>1 DEF ServerFollowed, Onboarding!OnboardingAssumption
    <2>3. CASE Sound
      <3>1. /\ r \in ServerStates /\ r.pc = "hashes" /\ r.profile = server.profile
            /\ r.runtime.healthy = b.healthy /\ r.runtime.legacy = b.legacy
            /\ r.runtime = Onboarding!FilesOf(server.profile)
        BY <1>2, <2>2 DEF Onboarding!FilesOf, BaselineFiles, ServerFiles
      <3>2. /\ b.healthy > 0 /\ b.healthy <= Len(made) /\ b.legacy = b.healthy
            /\ made[b.healthy].universe = server.profile.universe
        BY <1>1, <2>2, <2>3 DEF FilesInOrder
      <3>3. server' = r
        BY <2>1, <2>3
      <3>4. Onboarding!FilesOf(server.profile)' = Onboarding!FilesOf(server.profile)
        <4>1. server'.profile = server.profile /\ baseline' = baseline
          BY <2>1, <3>1, <3>3
        <4>2. QED BY <4>1 DEF Onboarding!FilesOf
      <3> HIDE DEF r, b
      <3>5. ServerFollowed'
        BY <2>1, <2>2, <3>1, <3>2, <3>3, <3>4 DEF ServerFollowed
      <3>6. QED BY <2>1, <3>1, <3>3, <3>5, ServerMoves
    <2>4. CASE ~Sound
      BY <1>4, <1>5, <2>1, <2>4
    <2>5. QED BY <2>3, <2>4
  <1>8. CASE Onboarding!Hashes
    <2> DEFINE r == [server EXCEPT !.pc = "up", !.hashes = Onboarding!FilesOf(server.profile)]
    <2>1. server.pc = "hashes" /\ Rest /\ server' = r
      BY <1>8 DEF Onboarding!Hashes
    <2>2. server.profile \in Docs /\ server.profile.dir \in Dirs
      BY <1>1, <2>1 DEF ServerFollowed, Onboarding!OnboardingAssumption
    <2>3. /\ r \in ServerStates /\ r.pc = "up" /\ r.profile = server.profile
          /\ r.runtime = server.runtime /\ r.hashes = Onboarding!FilesOf(server.profile)
      BY <1>2, <2>2 DEF Onboarding!FilesOf, BaselineFiles, ServerFiles
    <2> HIDE DEF r
    <2>4. ServerFollowed'
      BY <1>1, <2>1, <2>3 DEF ServerFollowed
    <2>5. QED BY <2>1, <2>3, <2>4, ServerMoves
  <1>9. CASE Onboarding!Stop
    BY <1>3, <1>4, <1>9 DEF Onboarding!Stop
  <1>10. QED BY <1>6, <1>7, <1>8, <1>9

\* Every step of the commands, the people and the server.
LEMMA OnboardingStep ==
  ASSUME Onboarding!OnboardingAssumption, OnboardingInv, Onboarding!Next
  PROVE  OnboardingInv'
  <1>1. CASE Onboarding!EditDraft
    BY <1>1, EditKeeps
  <1>2. CASE Onboarding!Serve \/ Onboarding!Runtime \/ Onboarding!Hashes \/ Onboarding!Stop
    BY <1>2, ServerKeeps
  <1>3. ASSUME NEW d \in Dirs, Onboarding!Remove(d) PROVE OnboardingInv'
    BY <1>3, RemoveKeeps
  <1>4. ASSUME NEW o \in Operators,
               \/ Onboarding!Prepare(o) \/ Onboarding!Fitted(o) \/ Onboarding!Write(o)
               \/ Onboarding!Kill(o) \/ Onboarding!Activate(o) \/ Onboarding!Lock(o)
               \/ Onboarding!Backup(o) \/ Onboarding!Copy(o) \/ Onboarding!Replace(o)
        PROVE  OnboardingInv'
    BY <1>4, CommandKeeps, FittedKeeps, WriteKeeps, LockKeeps, BackupKeeps, ReplaceKeeps
  <1>5. QED BY <1>1, <1>2, <1>3, <1>4 DEF Onboarding!Next

\* A step of another part changes nothing of these.
LEMMA OnboardingRests == ASSUME OnboardingInv, UNCHANGED onboardingVars PROVE OnboardingInv'
  BY DEF onboardingVars, OnboardingInv, OnboardingTyped, ActivationFollowed, PastWhole,
     WritersFollowed, FilesInOrder, ServerFollowed, Onboarding!FilesOf


\* What the analysis answers with is of one preparation, and bound to its contract.
LEMMA AnswersFollow == ASSUME OnboardingInv PROVE Onboarding!AnswersBound
  <1> SUFFICES ASSUME Onboarding!Analyzes
               PROVE  LET p == server.runtime.healthy IN
                      /\ server.runtime.legacy = p
                      /\ made[p].universe = server.profile.universe
                      /\ Onboarding!Binding(server.profile) = "active" =>
                           made[p].contract = server.profile.contract
    BY DEF Onboarding!AnswersBound
  <1> DEFINE p == server.runtime.healthy
             b == baseline[server.profile.dir]
  <1>1. server.pc = "up" /\ Onboarding!FilesOf(server.profile) = server.hashes
    BY DEF Onboarding!Analyzes
  <1>2. /\ server.runtime.legacy = p /\ made[p].universe = server.profile.universe
        /\ server.runtime = server.hashes
    BY <1>1 DEF OnboardingInv, ServerFollowed
  <1>3. b.healthy = p
    BY <1>1, <1>2 DEF Onboarding!FilesOf
  <1>4. ASSUME Onboarding!Binding(server.profile) = "active"
        PROVE  made[p].contract = server.profile.contract
    <2>1. /\ b.healthy = b.provenance
          /\ made[b.provenance].contract = server.profile.contract
      BY <1>4 DEF Onboarding!Binding
    <2>2. QED BY <1>3, <2>1
  <1>5. QED BY <1>2, <1>4

\* A baseline with its provenance is of one preparation.
LEMMA BaselineFollows == ASSUME OnboardingInv PROVE Onboarding!BaselineOfOne
  <1> SUFFICES ASSUME NEW dir \in Dirs, baseline[dir].provenance > 0
               PROVE  Onboarding!FilesOf([dir |-> dir])
                        = [healthy |-> baseline[dir].provenance,
                           legacy |-> baseline[dir].provenance]
    BY DEF Onboarding!BaselineOfOne
  <1>1. baseline[dir] \in BaselineFiles
    BY OnboardingTypes DEF OnboardingInv
  <1>2. /\ baseline[dir].provenance = baseline[dir].healthy
        /\ baseline[dir].legacy = baseline[dir].healthy
    BY <1>1 DEF OnboardingInv, FilesInOrder, BaselineFiles, FileStates
  <1>3. QED BY <1>2 DEF Onboarding!FilesOf

\* A set of remarks is empty when none of its conditions holds.
LEMMA WhenEmpty ==
  ASSUME NEW c \in BOOLEAN, NEW i PROVE Onboarding!When(c, i) = {} <=> ~c
  BY DEF Onboarding!When

\* What is ready is what the preparation accepts.
LEMMA ReadyFollows == Onboarding!ReadyPrepares
  <1> SUFFICES ASSUME NEW o \in Onboarding!Observations
               PROVE  /\ Onboarding!Verdict(o, TRUE) = "ready" <=> Onboarding!Acceptable(o)
                      /\ Onboarding!Verdict(o, TRUE) = "ready" /\ o.annotations = {} =>
                           Onboarding!Verdict(o, FALSE) = "ready"
    BY DEF Onboarding!ReadyPrepares
  <1>1. o.long \in BOOLEAN
    BY DEF Onboarding!Observations
  <1> DEFINE none == Onboarding!NoTraces(o)
             issues == Onboarding!BaselineIssues(o)
             metrics == Onboarding!When(o.points = "none", "metrics")
             traces == Onboarding!When(none, "traces")
             notes == Onboarding!When(o.annotations # {}, "annotations")
  <1>2. none \in BOOLEAN
    BY DEF Onboarding!NoTraces
  <1>3. /\ metrics = {} <=> o.points # "none"
        /\ traces = {} <=> ~none
        /\ notes = {} <=> o.annotations = {}
    BY <1>2, WhenEmpty
  <1>4. issues = {} =>
          o.long /\ ~none /\ o.points = "enough"
    <2>1. issues = {} => /\ Onboarding!When(~o.long, "interval") = {}
                         /\ Onboarding!When(o.points # "enough", "coverage") = {}
                         /\ traces = {}
      BY DEF Onboarding!BaselineIssues
    <2>2. QED BY <1>1, <1>3, <2>1, WhenEmpty
  <1>5. Onboarding!Acceptable(o) <=> issues = {}
    BY <1>4 DEF Onboarding!Acceptable
  <1>6. Onboarding!Verdict(o, TRUE) = "ready" <=> metrics \cup traces \cup issues = {}
    BY DEF Onboarding!Verdict
  <1>7. Onboarding!Verdict(o, FALSE) = "ready" <=> metrics \cup traces \cup notes = {}
    BY DEF Onboarding!Verdict
  <1> HIDE DEF none, issues, metrics, traces, notes
  <1>8. QED BY <1>3, <1>4, <1>5, <1>6, <1>7 DEF none, issues, metrics, traces, notes

\* What an inspection says of the labels is what a collection makes of them.
LEMMA InspectionFollows == Onboarding!InspectionTells
  <1> SUFFICES ASSUME NEW m \in Onboarding!Naming, NEW seen \in SUBSET Onboarding!Labels
               PROVE  LET report == Onboarding!Inspection(m, seen)
                          met == {Onboarding!Service(m, l) : l \in seen}
                      IN /\ "unmapped" \in met <=> report.unmapped # {}
                         /\ met \ {"none", "unmapped"} = m.services \ report.unseen
                         /\ \A l \in seen :
                              Onboarding!Service([m EXCEPT !.services = report.proposed], l)
                                # "unmapped"
    BY DEF Onboarding!InspectionTells
  <1> DEFINE L(l) == Onboarding!Logical(m, l)
             observed == {L(l) : l \in seen \ m.ignored}
             met == {Onboarding!Service(m, l) : l \in seen}
             grown == [m EXCEPT !.services = m.services \cup observed]
  <1>1. PICK S \in SUBSET {"orders", "pay"} \ {{}} :
          m \in [services : {S}, ignored : SUBSET Onboarding!Labels,
                 aliases : UNION {[A -> S] : A \in SUBSET Onboarding!Labels}]
    BY DEF Onboarding!Naming
  <1>2. PICK A \in SUBSET Onboarding!Labels : m.aliases \in [A -> S]
    BY <1>1
  <1>3. m.services = S /\ S \in SUBSET {"orders", "pay"}
    BY <1>1
  <1>4. \A l \in seen : L(l) \in {"orders", "pay", "pay-1", "proxy"}
    BY <1>2, <1>3 DEF Onboarding!Logical, Onboarding!Labels
  <1>5. \A l \in seen :
          /\ l \in m.ignored => Onboarding!Service(m, l) = "none"
          /\ l \notin m.ignored /\ L(l) \in S => Onboarding!Service(m, l) = L(l)
          /\ l \notin m.ignored /\ L(l) \notin S => Onboarding!Service(m, l) = "unmapped"
    BY <1>3 DEF Onboarding!Service
  <1>6. /\ Onboarding!Inspection(m, seen).proposed = S \cup observed
        /\ Onboarding!Inspection(m, seen).unmapped = observed \ S
        /\ Onboarding!Inspection(m, seen).unseen = S \ observed
    BY <1>3 DEF Onboarding!Inspection
  <1>7. \A l \in seen : Onboarding!Logical(grown, l) = L(l)
    BY <1>1 DEF Onboarding!Logical
  <1>8. grown.services = S \cup observed /\ grown.ignored = m.ignored
    BY <1>1
  <1> HIDE DEF L, grown
  <1>9. "unmapped" \in met <=> observed \ S # {}
    BY <1>3, <1>4, <1>5
  <1>10. met \ {"none", "unmapped"} = S \ (S \ observed)
    BY <1>3, <1>4, <1>5
  <1>11. \A l \in seen : Onboarding!Service(grown, l) # "unmapped"
    BY <1>4, <1>7, <1>8 DEF Onboarding!Service
  <1>12. QED BY <1>3, <1>6, <1>9, <1>10, <1>11 DEF grown

\* What an assessment of a provenance says of a window, field by field: what it
\* takes over from the two, and what it concludes from that.
AssessedAs(a, p, w) ==
    LET healthy == IF p.start # NONE /\ p.end # NONE THEN p.start < p.end ELSE FALSE
        known == p.version = 1 /\ p.source \in Onboarding!SOURCES /\ p.rps # NONE
    IN  /\ a.start = (IF healthy THEN p.start ELSE NONE)
        /\ a.end = (IF healthy THEN p.end ELSE NONE)
        /\ a.temporal = (IF ~healthy THEN "UNKNOWN" ELSE IF p.end < w.start THEN "PRECEDES"
                         ELSE IF p.start > w.end THEN "AFTER" ELSE "OVERLAPS")
        /\ a.rps = (IF known THEN p.rps ELSE NONE)
        /\ a.source = (IF known THEN p.source ELSE "unknown")
        /\ a.current = (IF w.source \in Onboarding!SOURCES THEN w.source ELSE "unknown")
        /\ a.relation = (IF ~known \/ w.rps = NONE THEN "UNKNOWN"
                         ELSE IF w.rps = p.rps THEN "SAME" ELSE "DIFFERENT")
ReasonsOf(temporal, source, current, relation, load) ==
    Onboarding!When(temporal # "PRECEDES", <<"healthy", temporal>>)
    \cup Onboarding!When(source # "measured_interval_mean", <<"reference", source>>)
    \cup Onboarding!When(current # "measured_interval_mean", <<"current", current>>)
    \cup Onboarding!When(relation = "DIFFERENT", <<"load", "differs">>)
    \cup Onboarding!When(load = NONE, <<"load", "unknown">>)
WholeAssessment(a, load) ==
    a = [start |-> a.start, end |-> a.end, temporal |-> a.temporal, rps |-> a.rps,
         source |-> a.source, current |-> a.current, relation |-> a.relation,
         reasons |-> ReasonsOf(a.temporal, a.source, a.current, a.relation, load)]

\* That is what it says.
LEMMA AssessmentSays ==
  ASSUME NEW p, NEW w
  PROVE  /\ AssessedAs(Onboarding!Assess(p, w), p, w)
         /\ WholeAssessment(Onboarding!Assess(p, w), w.rps)
  <1>1. AssessedAs(Onboarding!Assess(p, w), p, w)
    BY DEF Onboarding!Assess, AssessedAs
  <1>2. WholeAssessment(Onboarding!Assess(p, w), w.rps)
    BY DEF Onboarding!Assess, WholeAssessment, ReasonsOf
  <1>3. QED BY <1>1, <1>2

\* What a provider is told is what the operator is shown.
LEMMA ProjectionFollows == ASSUME NONE \notin Nat PROVE Onboarding!ProjectionFaithful
  <1> SUFFICES ASSUME NEW p \in Onboarding!Provenances, NEW w \in Onboarding!Windows
               PROVE  Onboarding!Projection(Onboarding!Assess(p, w), w) = Onboarding!Assess(p, w)
    BY DEF Onboarding!ProjectionFaithful
  <1> DEFINE a == Onboarding!Assess(p, w)
             v == [w EXCEPT !.source = a.current]
             s == [start |-> a.start, end |-> a.end, version |-> 1, rps |-> a.rps,
                   source |-> a.source]
             b == Onboarding!Assess(s, v)
  <1>1. /\ v.start = w.start /\ v.end = w.end /\ v.rps = w.rps /\ v.source = a.current
    BY DEF Onboarding!Windows
  <1>2. /\ "unknown" \notin Onboarding!SOURCES
    BY DEF Onboarding!SOURCES
  <1> DEFINE healthy == IF p.start # NONE /\ p.end # NONE THEN p.start < p.end ELSE FALSE
             known == p.version = 1 /\ p.source \in Onboarding!SOURCES /\ p.rps # NONE
  <1>3. /\ a.start = (IF healthy THEN p.start ELSE NONE)
        /\ a.end = (IF healthy THEN p.end ELSE NONE)
        /\ a.temporal = (IF ~healthy THEN "UNKNOWN" ELSE IF p.end < w.start THEN "PRECEDES"
                         ELSE IF p.start > w.end THEN "AFTER" ELSE "OVERLAPS")
        /\ a.rps = (IF known THEN p.rps ELSE NONE)
        /\ a.source = (IF known THEN p.source ELSE "unknown")
        /\ a.current = (IF w.source \in Onboarding!SOURCES THEN w.source ELSE "unknown")
        /\ a.relation = (IF ~known \/ w.rps = NONE THEN "UNKNOWN"
                         ELSE IF w.rps = p.rps THEN "SAME" ELSE "DIFFERENT")
    <2>1. AssessedAs(a, p, w)
      BY AssessmentSays
    <2> HIDE DEF a
    <2>2. QED BY <2>1 DEF AssessedAs
  <1> DEFINE healthy2 == IF a.start # NONE /\ a.end # NONE THEN a.start < a.end ELSE FALSE
             known2 == a.source \in Onboarding!SOURCES /\ a.rps # NONE
  <1>4. /\ b.start = (IF healthy2 THEN a.start ELSE NONE)
        /\ b.end = (IF healthy2 THEN a.end ELSE NONE)
        /\ b.temporal = (IF ~healthy2 THEN "UNKNOWN" ELSE IF a.end < v.start THEN "PRECEDES"
                         ELSE IF a.start > v.end THEN "AFTER" ELSE "OVERLAPS")
        /\ b.rps = (IF known2 THEN a.rps ELSE NONE)
        /\ b.source = (IF known2 THEN a.source ELSE "unknown")
        /\ b.current = (IF v.source \in Onboarding!SOURCES THEN v.source ELSE "unknown")
        /\ b.relation = (IF ~known2 \/ v.rps = NONE THEN "UNKNOWN"
                         ELSE IF v.rps = a.rps THEN "SAME" ELSE "DIFFERENT")
    <2>1. s.start = a.start /\ s.end = a.end /\ s.version = 1 /\ s.rps = a.rps
          /\ s.source = a.source
      OBVIOUS
    <2>2. AssessedAs(b, s, v)
      BY AssessmentSays
    <2> HIDE DEF a, b, v, s
    <2>3. QED BY <2>1, <2>2 DEF AssessedAs
  <1> HIDE DEF a, v, s, b
  <1>5. healthy2 <=> healthy
    BY <1>3
  <1>6. known2 <=> known
    BY <1>2, <1>3
  <1>7. b.start = a.start /\ b.end = a.end /\ b.temporal = a.temporal
    <2> HIDE DEF healthy2
    <2>1. QED BY <1>1, <1>3, <1>4, <1>5
  <1>8. b.rps = a.rps /\ b.source = a.source /\ b.current = a.current
        /\ b.relation = a.relation
    <2> HIDE DEF known2
    <2>1. QED BY <1>1, <1>2, <1>3, <1>4, <1>6
  <1>9. WholeAssessment(a, w.rps) /\ WholeAssessment(b, v.rps)
    BY AssessmentSays DEF a, b
  <1>10. b = a
    BY <1>1, <1>7, <1>8, <1>9 DEF WholeAssessment
  <1>11. QED BY <1>10 DEF a, b, s, v, Onboarding!Projection


\* What holds of the profiles, their baselines and the server, in every part.
LEMMA OnboardingKept == SuiteSpec => []OnboardingInv
  <1>1. SuiteInit => OnboardingInv
    BY InstancesAssumption, OnboardingInit DEF SuiteInit
  <1>2. OnboardingInv /\ [SuiteNext]_suiteVars => OnboardingInv'
    <2> SUFFICES ASSUME OnboardingInv, [SuiteNext]_suiteVars
                 PROVE  OnboardingInv'
      OBVIOUS
    <2>1. Onboarding!Next \/ UNCHANGED onboardingVars
      BY Zenon DEF SuiteNext, suiteVars
    <2>2. QED BY <2>1, InstancesAssumption, OnboardingStep, OnboardingRests
  <1>3. QED BY <1>1, <1>2, PTL DEF SuiteSpec

\* Nobody replaces a profile unseen, what was in use can be taken back, and an
\* answer comes from one preparation, for the services of the profile, and for
\* its contract where it is bound; what the checks and the projections say is what
\* the preparation, the collection and the assessment do: for any profiles,
\* directories and operators, and any number of kills and preparations.
THEOREM OnboardingSoundHolds == SuiteSpec => []OnboardingSound
  <1>1. OnboardingInv => OnboardingSound
    <2> SUFFICES ASSUME OnboardingInv PROVE OnboardingSound
      OBVIOUS
    <2>1. Onboarding!HistoryWhole
      BY DEF OnboardingInv, PastWhole, Onboarding!HistoryWhole
    <2>2. Onboarding!NothingLost
      BY DEF OnboardingInv, ActivationFollowed, Onboarding!NothingLost
    <2>3. NONE \notin Nat
      BY InstancesAssumption DEF Onboarding!OnboardingAssumption
    <2>4. QED BY <2>1, <2>2, <2>3, BaselineFollows, AnswersFollow, ReadyFollows,
                InspectionFollows, ProjectionFollows DEF OnboardingSound
  <1>2. QED BY <1>1, OnboardingKept, PTL

-----------------------------------------------------------------------------
(* The context of an analysis *)

\* What a row says is of its own service, and all there is if it says so.
GoodRow(s, row) ==
    /\ row.status # "deadline"
    /\ row.records \subseteq Sources!Structured(Sources!Hits(s))
    /\ row.status = "available" => row.records = Sources!Structured(Sources!Hits(s))
\* The records of some services of a batch.
RecordsOf(batch, some) == UNION {{<<s, e>> : e \in batch[s].records} : s \in some}
GoodBatch(batch) ==
    /\ \A s \in Sources!Selected : GoodRow(s, batch[s])
    /\ IsFiniteSet(RecordsOf(batch, Sources!Selected))
    /\ Cardinality(RecordsOf(batch, Sources!Selected)) <= MaxRecords
\* The services the child has asked, or left out.
Asked == {LogServices[n] : n \in 1..(next - 1)}
ContextInv ==
    /\ stored \in LogStores
    /\ next \in 1..(Len(LogServices) + 1) /\ remaining \in 0..MaxRecords
    /\ DOMAIN rows = Sources!Selected
    /\ \A s \in Asked : GoodRow(s, rows[s])
    /\ IsFiniteSet(RecordsOf(rows, Asked))
    /\ Cardinality(RecordsOf(rows, Asked)) + remaining <= MaxRecords
    /\ queue # NONE => GoodBatch(queue)
    /\ result # NONE =>
         GoodBatch(result)
         \/ result = [s \in Sources!Selected |-> Sources!Unavailable("deadline")]

-----------------------------------------------------------------------------
(* The traffic of a service *)

\* What is left of the matrices is true of the world.
MatricesTrue ==
    /\ rps \in [Stamps -> {"absent", "nan", "zero", "some"}]
    /\ \A t \in Stamps :
         /\ presence[t] = "one" => world[t] # "down"
         /\ rps[t] = "zero" => world[t] = "idle"
         /\ rps[t] = "some" => world[t] = "busy"
         /\ world[t] \in {"down", "idle", "busy"}
         /\ ratio[t] \notin {"absent", "nan"} => world[t] = "busy"
    /\ DOMAIN ratio = Stamps /\ DOMAIN p95 = Stamps /\ DOMAIN presence = Stamps
HttpInv ==
    /\ MatricesTrue
    /\ state \in {"none", "UNAVAILABLE", Sources!State}

\* Where a product is the larger: for the lengths of the bins.
LEMMA TimesGrows == ASSUME NEW x \in Nat, NEW y \in Nat, NEW z \in Nat, x <= y
                    PROVE  z * x \in Nat /\ z * y \in Nat /\ z * x <= z * y
                           /\ z * (x + 1) = z * x + z
  <1>1. PICK d \in Nat : y = x + d
    <2>1. y - x \in Nat /\ y = x + (y - x)
      OBVIOUS
    <2>2. QED BY <2>1
  <1>2. z * x \in Nat /\ z * d \in Nat /\ z * (x + 1) = z * x + z
    OBVIOUS
  <1>3. z * y = z * x + z * d
    BY <1>1
  <1>4. QED BY <1>2, <1>3

\* A division with remainder.
LEMMA DividedIs == ASSUME NEW a \in Nat, NEW b \in Nat \ {0}
                   PROVE  /\ a \div b \in Nat
                          /\ b * (a \div b) <= a /\ a < b * (a \div b) + b
  OBVIOUS

\* Bins of width w, enough for n points in at most "most" of them: every point is in
\* one, the point's number but one divided by the width, and in no other.
LEMMA BinsFit ==
  ASSUME NEW n \in Nat, NEW most \in Nat \ {0}, NEW w \in Nat \ {0},
         w >= (n + most - 1) \div most
  PROVE  /\ (n + w - 1) \div w \in 0..most
         /\ \A i \in 1..n :
              LET b == (i - 1) \div w + 1 IN
              /\ b \in 1..((n + w - 1) \div w) /\ (b - 1) * w + 1 <= i /\ i <= b * w
              /\ \A c \in 1..((n + w - 1) \div w) :
                    (c - 1) * w + 1 <= i /\ i <= c * w => c = b
  <1> DEFINE k == (n + w - 1) \div w
             q == (n + most - 1) \div most
  <1>1. q \in Nat /\ n + most - 1 < most * q + most
    <2>1. n + most - 1 \in Nat
      OBVIOUS
    <2>2. QED BY <2>1, DividedIs
  <1>2. k \in Nat /\ w * k <= n + w - 1 /\ n + w - 1 < w * k + w
    <2>1. n + w - 1 \in Nat
      OBVIOUS
    <2>2. QED BY <2>1, DividedIs
  <1>3. n <= most * q /\ most * q <= most * w
    <2>1. q <= w
      OBVIOUS
    <2>2. most * q <= most * w /\ most * q \in Nat
      BY <1>1, <2>1, TimesGrows
    <2>3. QED BY <1>1, <2>2
  <1> HIDE DEF k, q
  <1>4. most * w = w * most /\ w * most \in Nat
    OBVIOUS
  <1>5. k <= most
    <2>1. SUFFICES ASSUME k >= most + 1 PROVE FALSE
      BY <1>2
    <2>2. w * (most + 1) <= w * k /\ w * (most + 1) = w * most + w
      BY <1>2, <2>1, TimesGrows
    <2>3. w * k \in Nat /\ w * k <= w * most + w - 1
      BY <1>1, <1>2, <1>3, <1>4
    <2>4. QED BY <1>4, <2>2, <2>3
  <1>6. ASSUME NEW i \in 1..n
        PROVE  LET b == (i - 1) \div w + 1 IN
               /\ b \in 1..k /\ (b - 1) * w + 1 <= i /\ i <= b * w
               /\ \A c \in 1..k : (c - 1) * w + 1 <= i /\ i <= c * w => c = b
    <2> DEFINE a == (i - 1) \div w
    <2>1. a \in Nat /\ w * a <= i - 1 /\ i - 1 < w * a + w
      <3>1. i - 1 \in Nat
        OBVIOUS
      <3>2. QED BY <3>1, DividedIs
    <2> HIDE DEF a
    <2>2. \A m \in Nat : w * m \in Nat /\ w * (m + 1) = w * m + w /\ m * w = w * m
                         /\ (m + 1) * w = w * (m + 1)
      OBVIOUS
    <2>3. a + 1 <= k
      <3>1. SUFFICES ASSUME k <= a PROVE FALSE
        BY <1>2, <2>1
      <3>2. w * k <= w * a
        BY <1>2, <2>1, <3>1, TimesGrows
      <3>3. w * k \in Nat /\ w * a \in Nat
        BY <1>2, <2>1, <2>2
      <3>4. QED BY <1>2, <2>1, <3>2, <3>3
    <2>4. (a + 1 - 1) * w + 1 <= i /\ i <= (a + 1) * w
      <3>1. a + 1 - 1 = a /\ a * w = w * a /\ (a + 1) * w = w * a + w /\ w * a \in Nat
        BY <2>1, <2>2
      <3>2. QED BY <2>1, <3>1
    <2>5. ASSUME NEW c \in 1..k, (c - 1) * w + 1 <= i, i <= c * w
          PROVE  c = a + 1
      <3> DEFINE d == c - 1
      <3>1. d \in Nat /\ c = d + 1
        BY <1>2
      <3> HIDE DEF d
      <3>2. w * d + 1 <= i /\ i <= w * d + w /\ w * d \in Nat /\ w * a \in Nat
        <4>1. (c - 1) * w = w * d /\ c * w = w * d + w /\ w * d \in Nat /\ w * a \in Nat
          BY <2>1, <2>2, <3>1
        <4>2. QED BY <2>5, <4>1
      <3>3. ~(d < a)
        <4>1. SUFFICES ASSUME d < a PROVE FALSE
          OBVIOUS
        <4>2. w * (d + 1) <= w * a
          BY <2>1, <3>1, <4>1, TimesGrows
        <4>3. QED BY <2>1, <2>2, <3>1, <3>2, <4>2
      <3>4. ~(a < d)
        <4>1. SUFFICES ASSUME a < d PROVE FALSE
          OBVIOUS
        <4>2. w * (a + 1) <= w * d
          BY <2>1, <3>1, <4>1, TimesGrows
        <4>3. QED BY <2>1, <2>2, <3>1, <3>2, <4>2
      <3>5. QED BY <2>1, <3>1, <3>3, <3>4
    <2>6. QED BY <1>2, <2>1, <2>3, <2>4, <2>5 DEF a
  <1>7. QED BY <1>2, <1>5, <1>6 DEF k

\* Times in their order are those times, each once.
LEMMA InOrderIs ==
  ASSUME NEW n \in Nat, NEW S \in SUBSET (1..n)
  PROVE  /\ DOMAIN Sources!InOrder(S) = 1..Cardinality(S)
         /\ Len(Sources!InOrder(S)) = Cardinality(S) /\ Cardinality(S) \in Nat
         /\ {Sources!InOrder(S)[i] : i \in DOMAIN Sources!InOrder(S)} = S
  <1> DEFINE c == Cardinality(S)
             O == Sources!InOrder(S)
  <1>1. /\ c \in Nat /\ \A t \in S : Rank(S, t) \in 1..c
        /\ \A t, u \in S : t < u => Rank(S, t) < Rank(S, u)
        /\ \A i \in 1..c : \E t \in S : Rank(S, t) = i
    BY RanksOfPlaces
  <1>2. O = [i \in 1..c |-> Place(S, i)]
    BY Zenon DEF Sources!InOrder, Sources!Cardinality, Cardinality, Place, Rank
  <1>3. \A i \in 1..c : Place(S, i) \in S /\ Rank(S, Place(S, i)) = i
    BY <1>1 DEF Place
  <1>4. \A t \in S : Place(S, Rank(S, t)) = t
    <2> TAKE t \in S
    <2> DEFINE u == Place(S, Rank(S, t))
    <2>1. u \in S /\ Rank(S, u) = Rank(S, t)
      BY <1>1, <1>3
    <2> HIDE DEF u
    <2>2. t \in Int /\ u \in Int /\ Rank(S, t) \in Int /\ Rank(S, u) \in Int
      BY <1>1, <2>1
    <2>3. ~(t < u) /\ ~(u < t)
      BY <1>1, <2>1, <2>2
    <2>4. u = t
      BY <2>2, <2>3
    <2>5. QED BY <2>4 DEF u
  <1> HIDE DEF O, c
  <1>5. DOMAIN O = 1..c /\ Len(O) = c
    BY <1>1, <1>2
  <1>6. {O[i] : i \in DOMAIN O} = S
    <2>1. \A i \in 1..c : O[i] \in S
      BY <1>2, <1>3
    <2>2. \A t \in S : Rank(S, t) \in 1..c /\ O[Rank(S, t)] = t
      BY <1>1, <1>2, <1>4
    <2>3. QED BY <1>5, <2>1, <2>2
  <1>7. QED BY <1>1, <1>5, <1>6 DEF O, c

\* Nothing is lost at first.
LEMMA HttpBegins == ASSUME Sources!HttpInit PROVE HttpInv
  <1> USE DEF Sources!HttpInit
  <1>1. \A t \in Stamps : world[t] \in {"down", "idle", "busy"}
    OBVIOUS
  <1>2. /\ rps \in [Stamps -> {"absent", "nan", "zero", "some"}]
        /\ \A t \in Stamps : /\ rps[t] = "zero" => world[t] = "idle"
                             /\ rps[t] = "some" => world[t] = "busy"
    BY <1>1
  <1>3. \A t \in Stamps : /\ presence[t] = "one" => world[t] # "down"
                          /\ ratio[t] \notin {"absent", "nan"} => world[t] = "busy"
    OBVIOUS
  <1>4. DOMAIN ratio = Stamps /\ DOMAIN p95 = Stamps /\ DOMAIN presence = Stamps
    OBVIOUS
  <1>5. QED BY <1>1, <1>2, <1>3, <1>4 DEF HttpInv, MatricesTrue

\* A point that is lost makes nothing untrue, and the verdict is given once.
LEMMA HttpStep == ASSUME HttpInv, Sources!HttpNext PROVE HttpInv'
  <1>1. MatricesTrue
    BY DEF HttpInv
  <1>2. CASE Sources!Lose
    <2>1. PICK t \in Stamps, v \in {"absent", "nan"} :
            \/ rps' = [rps EXCEPT ![t] = v] /\ UNCHANGED <<presence, ratio, p95>>
            \/ ratio' = [ratio EXCEPT ![t] = v] /\ UNCHANGED <<presence, rps, p95>>
            \/ p95' = [p95 EXCEPT ![t] = v] /\ UNCHANGED <<presence, rps, ratio>>
            \/ /\ v = "absent" /\ presence' = [presence EXCEPT ![t] = v]
               /\ UNCHANGED <<rps, ratio, p95>>
      BY <1>2 DEF Sources!Lose
    <2>2. state' = "none" /\ world' = world
      BY <1>2 DEF Sources!Lose
    <2>3. CASE rps' = [rps EXCEPT ![t] = v] /\ UNCHANGED <<presence, ratio, p95>>
      <3>1. /\ rps' \in [Stamps -> {"absent", "nan", "zero", "some"}]
            /\ \A u \in Stamps : rps'[u] \in {"zero", "some"} => rps'[u] = rps[u]
        BY <1>1, <2>3 DEF MatricesTrue
      <3>2. QED BY <1>1, <2>2, <2>3, <3>1 DEF MatricesTrue, HttpInv
    <2>4. CASE ratio' = [ratio EXCEPT ![t] = v] /\ UNCHANGED <<presence, rps, p95>>
      <3>1. /\ DOMAIN ratio' = Stamps
            /\ \A u \in Stamps : ratio'[u] \notin {"absent", "nan"} => ratio'[u] = ratio[u]
        BY <1>1, <2>4 DEF MatricesTrue
      <3>2. QED BY <1>1, <2>2, <2>4, <3>1 DEF MatricesTrue, HttpInv
    <2>5. CASE p95' = [p95 EXCEPT ![t] = v] /\ UNCHANGED <<presence, rps, ratio>>
      <3>1. DOMAIN p95' = Stamps
        BY <1>1, <2>5 DEF MatricesTrue
      <3>2. QED BY <1>1, <2>2, <2>5, <3>1 DEF MatricesTrue, HttpInv
    <2>6. CASE /\ v = "absent" /\ presence' = [presence EXCEPT ![t] = v]
               /\ UNCHANGED <<rps, ratio, p95>>
      <3>1. /\ DOMAIN presence' = Stamps
            /\ \A u \in Stamps : presence'[u] = "one" => presence'[u] = presence[u]
        BY <1>1, <2>6 DEF MatricesTrue
      <3>2. QED BY <1>1, <2>2, <2>6, <3>1 DEF MatricesTrue, HttpInv
    <2>7. QED BY <2>1, <2>3, <2>4, <2>5, <2>6
  <1>3. CASE Sources!Summarize
    <2>1. state' = Sources!State /\ UNCHANGED <<world, presence, rps, ratio, p95>>
      BY <1>3 DEF Sources!Summarize
    <2>2. Sources!State' = Sources!State
      BY <2>1 DEF Sources!State, Sources!SourcePresent, Sources!Present, Sources!Finite,
                  Sources!Quiet, Sources!Complete, Sources!Active
    <2>3. MatricesTrue'
      BY <1>1, <2>1 DEF MatricesTrue
    <2>4. QED BY <2>1, <2>2, <2>3 DEF HttpInv
  <1>4. CASE Sources!SourceFails
    <2>1. state' = "UNAVAILABLE" /\ UNCHANGED <<world, presence, rps, ratio, p95>>
      BY <1>4 DEF Sources!SourceFails
    <2>2. MatricesTrue'
      BY <1>1, <2>1 DEF MatricesTrue
    <2>3. QED BY <2>1, <2>2 DEF HttpInv
  <1>5. QED BY <1>2, <1>3, <1>4 DEF Sources!HttpNext

\* Elsewhere nothing of it changes.
LEMMA HttpRests == ASSUME HttpInv, UNCHANGED httpVars PROVE HttpInv'
  BY DEF httpVars, HttpInv, MatricesTrue, Sources!State, Sources!SourcePresent,
     Sources!Present, Sources!Finite, Sources!Quiet, Sources!Complete, Sources!Active

\* The greater of two numbers, and the smaller.
LEMMA MaxOfTwo ==
  ASSUME NEW x \in Int, NEW y \in Int
  PROVE  /\ Sources!Max({x, y}) = (IF x >= y THEN x ELSE y)
         /\ Sources!Min({x, y}) = (IF x <= y THEN x ELSE y)
  BY DEF Sources!Max, Sources!Min

\* The bins of a channel hold each of its points once.
LEMMA BinsOfPoints ==
  ASSUME NEW n \in Nat, MaxBins \in Nat \ {0}, NEW points, Len(points) = n
  PROVE  LET bins == Sources!Bins(points) IN
         /\ Len(bins) <= MaxBins
         /\ \A i \in 1..n :
              Sources!Cardinality({b \in DOMAIN bins : bins[b].first <= i /\ i <= bins[b].last}) = 1
  <1> DEFINE w == Sources!Width(n)
             k == (n + w - 1) \div w
             bins == Sources!Bins(points)
             q == (n + MaxBins - 1) \div MaxBins
  <1>1. w \in Nat \ {0} /\ w >= q
    <2>1. n + MaxBins - 1 \in Nat
      OBVIOUS
    <2>2. q \in Nat
      BY <2>1, DividedIs
    <2>3. w = Sources!Max({1, q})
      BY DEF Sources!Width
    <2> HIDE DEF w, q
    <2>4. w = (IF 1 >= q THEN 1 ELSE q)
      BY <2>2, <2>3, MaxOfTwo
    <2>5. QED BY <2>2, <2>4
  <1> HIDE DEF w
  <1>2. /\ k \in 0..MaxBins
        /\ \A i \in 1..n :
             LET b == (i - 1) \div w + 1 IN
             /\ b \in 1..k /\ (b - 1) * w + 1 <= i /\ i <= b * w
             /\ \A c \in 1..k : (c - 1) * w + 1 <= i /\ i <= c * w => c = b
    BY <1>1, BinsFit
  <1>3. bins = [i \in 1..k |-> [first |-> (i - 1) * w + 1, last |-> Sources!Min({i * w, n})]]
    BY DEF Sources!Bins, w
  <1> HIDE DEF bins
  <1>4. k \in Nat /\ DOMAIN bins = 1..k /\ Len(bins) = k
    BY <1>2, <1>3
  <1> DEFINE Holding(i) == {b \in DOMAIN bins : bins[b].first <= i /\ i <= bins[b].last}
  <1>5. ASSUME NEW i \in 1..n
        PROVE  Sources!Cardinality(Holding(i)) = 1
    <2> DEFINE a == (i - 1) \div w + 1
    <2>1. /\ a \in 1..k /\ (a - 1) * w + 1 <= i /\ i <= a * w
          /\ \A c \in 1..k : (c - 1) * w + 1 <= i /\ i <= c * w => c = a
      BY <1>2
    <2> HIDE DEF a, k
    <2>2. ASSUME NEW c \in 1..k
          PROVE  (bins[c].first <= i /\ i <= bins[c].last)
                   <=> ((c - 1) * w + 1 <= i /\ i <= c * w)
      <3> DEFINE m == c * w
      <3>1. bins[c].first = (c - 1) * w + 1 /\ bins[c].last = Sources!Min({m, n})
        BY <1>3
      <3>2. m \in Int /\ n \in Int
        BY <1>1, <1>4
      <3> HIDE DEF m
      <3>3. bins[c].last = (IF m <= n THEN m ELSE n)
        BY <3>1, <3>2, MaxOfTwo
      <3>4. i <= n /\ i \in Int
        OBVIOUS
      <3>5. i <= bins[c].last <=> i <= m
        BY <3>2, <3>3, <3>4
      <3>6. QED BY <3>1, <3>5 DEF m
    <2>3. Holding(i) = {a}
      BY <1>4, <2>1, <2>2
    <2>4. Sources!Cardinality({a}) = Cardinality({a})
      BY Zenon DEF Sources!Cardinality, Cardinality
    <2>5. Cardinality({a}) = 1
      BY FS_Singleton
    <2> HIDE DEF Holding
    <2>6. QED BY <2>3, <2>4, <2>5
  <1>6. Len(bins) <= MaxBins
    BY <1>2, <1>4
  <1>7. \A i \in 1..n :
          Sources!Cardinality({b \in DOMAIN bins : bins[b].first <= i /\ i <= bins[b].last}) = 1
    BY Zenon, <1>5 DEF Holding
  <1>8. QED BY Zenon, <1>6, <1>7 DEF bins

\* Points of a channel are times, and of ratios and latencies those with traffic.
LEMMA PointsAre ==
  ASSUME Sources!EnrichmentsAssumption, NEW m
  PROVE  /\ Len(Sources!Points(m)) \in Nat
         /\ state = "OBSERVED" =>
              {Sources!Points(m)[i] : i \in DOMAIN Sources!Points(m)}
                = (IF m = rps THEN Sources!Finite(m) ELSE Sources!Finite(m) \cap Sources!Active)
  <1> DEFINE c == Cardinality(Stamps)
             F == Sources!Finite(m)
             G == Sources!Finite(m) \cap Sources!Active
  <1>1. Stamps = 1..c /\ c \in Nat
    <2>1. Sources!Cardinality(Stamps) = c /\ (Sources!IsFiniteSet(Stamps) <=> IsFiniteSet(Stamps))
      BY Zenon DEF Sources!Cardinality, Cardinality, Sources!IsFiniteSet, IsFiniteSet
    <2>2. IsFiniteSet(Stamps) /\ Stamps = 1..c
      BY <2>1 DEF Sources!EnrichmentsAssumption
    <2>3. QED BY <2>2, FS_CardinalityType
  <1> HIDE DEF c
  <1>2. F \in SUBSET (1..c) /\ G \in SUBSET (1..c)
    BY <1>1 DEF Sources!Finite
  <1> HIDE DEF F, G
  <1>3. /\ Len(Sources!InOrder(F)) \in Nat /\ Len(Sources!InOrder(G)) \in Nat
        /\ {Sources!InOrder(F)[i] : i \in DOMAIN Sources!InOrder(F)} = F
        /\ {Sources!InOrder(G)[i] : i \in DOMAIN Sources!InOrder(G)} = G
    BY <1>1, <1>2, InOrderIs
  <1>4. /\ Sources!Points(m) \in {<<>>, Sources!InOrder(F), Sources!InOrder(G)}
        /\ state = "OBSERVED" =>
             Sources!Points(m) = (IF m = rps THEN Sources!InOrder(F) ELSE Sources!InOrder(G))
    BY DEF Sources!Points, F, G
  <1>5. Len(<<>>) = 0
    OBVIOUS
  <1>6. QED BY <1>3, <1>4, <1>5 DEF F, G

\* What is said of a service is true of its traffic.
LEMMA HttpSound ==
  ASSUME Sources!EnrichmentsAssumption, HttpInv
  PROVE  Sources!VerdictIsTrue /\ Sources!BinsPartition /\ Sources!ObservedCoversTraffic
  <1>1. MatricesTrue /\ state \in {"none", "UNAVAILABLE", Sources!State}
    BY DEF HttpInv
  <1>2. state = "NO_ACTIVITY" => Sources!Quiet
    BY <1>1 DEF Sources!State
  <1>3. state = "OBSERVED" => Sources!SourcePresent /\ Sources!Complete
    BY <1>1 DEF Sources!State
  <1>4. Sources!VerdictIsTrue
    <2>1. state = "NO_ACTIVITY" => \A t \in Stamps : world[t] = "idle"
      BY <1>1, <1>2 DEF Sources!Quiet, MatricesTrue
    <2>2. state = "OBSERVED" => \A t \in Stamps : world[t] # "down"
      BY <1>1, <1>3 DEF Sources!SourcePresent, MatricesTrue
    <2>3. QED BY <2>1, <2>2 DEF Sources!VerdictIsTrue
  <1>5. Sources!BinsPartition
    <2>1. MaxBins \in Nat \ {0}
      BY DEF Sources!EnrichmentsAssumption
    <2>2. ASSUME NEW m \in {rps, ratio, p95}
          PROVE  LET bins == Sources!Bins(Sources!Points(m)) IN
                 /\ Len(bins) <= MaxBins
                 /\ \A i \in 1..Len(Sources!Points(m)) :
                       Sources!Cardinality({b \in DOMAIN bins :
                                             bins[b].first <= i /\ i <= bins[b].last}) = 1
      BY <2>1, PointsAre, BinsOfPoints
    <2>3. QED BY <2>2 DEF Sources!BinsPartition
  <1>6. Sources!ObservedCoversTraffic
    <2>1. SUFFICES ASSUME state = "OBSERVED"
                   PROVE  {Sources!Points(ratio)[i] : i \in DOMAIN Sources!Points(ratio)}
                            = {t \in Stamps : world[t] = "busy"}
      BY DEF Sources!ObservedCoversTraffic
    <2>2. /\ Sources!Active = {t \in Stamps : world[t] = "busy"}
          /\ Sources!Active \subseteq Sources!Finite(ratio)
      <3>1. Sources!Finite(rps) = Stamps /\ Sources!Active \subseteq Sources!Finite(ratio)
        BY <1>3, <2>1 DEF Sources!Complete
      <3>2. \A t \in Stamps : rps[t] \in {"zero", "some"}
        BY <1>1, <3>1 DEF MatricesTrue, Sources!Finite
      <3>3. \A t \in Stamps : rps[t] = "some" <=> world[t] = "busy"
        BY <1>1, <3>2 DEF MatricesTrue
      <3>4. QED BY <3>1, <3>3 DEF Sources!Active
    <2>3. {Sources!Points(ratio)[i] : i \in DOMAIN Sources!Points(ratio)}
            = (IF ratio = rps THEN Sources!Finite(ratio)
               ELSE Sources!Finite(ratio) \cap Sources!Active)
      BY <2>1, PointsAre
    <2>4. ratio = rps => Sources!Finite(ratio) = Sources!Active
      <3>1. ASSUME ratio = rps, NEW t \in Sources!Finite(ratio)
            PROVE  t \in Sources!Active
        <4>1. t \in Stamps /\ ratio[t] \notin {"absent", "nan"}
          BY <3>1 DEF Sources!Finite
        <4>2. world[t] = "busy"
          BY <1>1, <4>1 DEF MatricesTrue
        <4>3. QED BY <2>2, <4>1, <4>2
      <3>2. QED BY <2>2, <3>1
    <2>5. QED BY <2>2, <2>3, <2>4
  <1>7. QED BY <1>4, <1>5, <1>6

-----------------------------------------------------------------------------
(* The batch of the context *)

\* The services are the ones of the sequence, each at one place of it.
LEMMA AskedNext ==
  ASSUME Sources!EnrichmentsAssumption, ContextInv, next <= Len(LogServices)
  PROVE  /\ LogServices[next] \in Sources!Selected /\ LogServices[next] \notin Asked
         /\ {LogServices[n] : n \in 1..next} = Asked \cup {LogServices[next]}
  <1>1. /\ DOMAIN LogServices = 1..Len(LogServices) /\ Len(LogServices) \in Nat
        /\ next \in 1..Len(LogServices)
    BY DEF Sources!EnrichmentsAssumption, ContextInv
  <1>2. \A m, n \in DOMAIN LogServices : LogServices[m] = LogServices[n] => m = n
    BY DEF Sources!EnrichmentsAssumption
  <1>3. LogServices[next] \in Sources!Selected
    BY <1>1 DEF Sources!Selected
  <1>4. LogServices[next] \notin Asked
    <2>1. \A n \in 1..(next - 1) : n \in DOMAIN LogServices /\ n # next
      BY <1>1
    <2>2. QED BY <1>1, <1>2, <2>1 DEF Asked
  <1>5. 1..next = 1..(next - 1) \cup {next}
    BY <1>1
  <1>6. QED BY <1>3, <1>4, <1>5 DEF Asked

\* When the child is through, it has asked for all of them.
LEMMA AllAsked ==
  ASSUME Sources!EnrichmentsAssumption, ContextInv, next > Len(LogServices)
  PROVE  Asked = Sources!Selected
  <1>1. /\ DOMAIN LogServices = 1..Len(LogServices) /\ Len(LogServices) \in Nat
        /\ next - 1 = Len(LogServices)
    BY DEF Sources!EnrichmentsAssumption, ContextInv
  <1>2. QED BY <1>1 DEF Asked, Sources!Selected

\* A set that is tagged has as many members.
LEMMA Tagged ==
  ASSUME NEW s, NEW R, IsFiniteSet(R)
  PROVE  /\ IsFiniteSet({<<s, e>> : e \in R})
         /\ Cardinality({<<s, e>> : e \in R}) <= Cardinality(R)
  <1> DEFINE T == {<<s, e>> : e \in R}
             g == [e \in R |-> <<s, e>>]
  <1>1. g \in Surjection(R, T)
    BY DEF Surjection
  <1> HIDE DEF T, g
  <1>2. IsFiniteSet(T) /\ Cardinality(T) <= Cardinality(R)
    BY <1>1, FS_Surjection
  <1>3. QED BY <1>2 DEF T

\* A row of the service that is next takes from what remains.
LEMMA RowsGrow ==
  ASSUME Sources!EnrichmentsAssumption, ContextInv, next <= Len(LogServices),
         NEW row, GoodRow(LogServices[next], row), IsFiniteSet(row.records),
         NEW m \in 0..MaxRecords, Cardinality(row.records) + m <= remaining,
         rows' = [rows EXCEPT ![LogServices[next]] = row], next' = next + 1,
         remaining' = m, UNCHANGED <<stored, queue, result>>
  PROVE  ContextInv'
  <1> DEFINE s == LogServices[next]
             T == {<<s, e>> : e \in row.records}
             R == RecordsOf(rows, Asked)
  <1>1. /\ s \in Sources!Selected /\ s \notin Asked
        /\ {LogServices[n] : n \in 1..next} = Asked \cup {s}
    BY AskedNext
  <1>2. next' - 1 = next /\ next' \in 1..(Len(LogServices) + 1)
    BY DEF ContextInv, Sources!EnrichmentsAssumption
  <1>3. Asked' = Asked \cup {s}
    BY <1>1, <1>2 DEF Asked
  <1>4. s \in DOMAIN rows /\ DOMAIN rows' = Sources!Selected
    BY <1>1 DEF ContextInv
  <1>5. /\ rows'[s] = row
        /\ \A u \in Asked : rows'[u] = rows[u]
    BY <1>1, <1>4
  <1> HIDE DEF s
  <1>6. RecordsOf(rows', Asked') = R \cup T
    BY <1>3, <1>5 DEF RecordsOf
  <1>7. IsFiniteSet(T) /\ Cardinality(T) <= Cardinality(row.records)
    BY Tagged
  <1>8. IsFiniteSet(R) /\ Cardinality(R) + remaining <= MaxRecords
    BY DEF ContextInv
  <1> HIDE DEF R, T
  <1>9. /\ IsFiniteSet(R \cup T)
        /\ Cardinality(R \cup T) <= Cardinality(R) + Cardinality(T)
    <2>1. IsFiniteSet(R \cap T)
      BY <1>8, FS_Intersection
    <2>2. Cardinality(R \cap T) \in Nat /\ Cardinality(R) \in Nat /\ Cardinality(T) \in Nat
      BY <1>7, <1>8, <2>1, FS_CardinalityType
    <2>3. /\ IsFiniteSet(R \cup T)
          /\ Cardinality(R \cup T) = Cardinality(R) + Cardinality(T) - Cardinality(R \cap T)
      BY <1>7, <1>8, FS_Union
    <2>4. QED BY <2>2, <2>3
  <1>10. Cardinality(R \cup T) + m <= MaxRecords
    <2>1. /\ Cardinality(R \cup T) \in Nat /\ Cardinality(R) \in Nat /\ Cardinality(T) \in Nat
          /\ Cardinality(row.records) \in Nat
      BY <1>7, <1>8, <1>9, FS_CardinalityType
    <2>2. remaining \in Nat /\ MaxRecords \in Nat /\ m \in Nat
      BY DEF ContextInv, Sources!EnrichmentsAssumption
    <2>3. QED BY <1>7, <1>8, <1>9, <2>1, <2>2
  <1>11. \A u : (Sources!Structured(Sources!Hits(u)))' = Sources!Structured(Sources!Hits(u))
    BY DEF Sources!Structured, Sources!Hits
  <1>12. \A u \in Asked' : GoodRow(u, rows[u])'
    <2>1. \A u \in Asked : GoodRow(u, rows[u])
      BY DEF ContextInv
    <2>2. GoodRow(s, row)
      BY DEF s
    <2>3. QED BY <1>3, <1>5, <1>11, <2>1, <2>2 DEF GoodRow
  <1>13. /\ queue' # NONE => GoodBatch(queue)'
         /\ result' # NONE =>
              GoodBatch(result)'
              \/ result' = [u \in Sources!Selected |-> Sources!Unavailable("deadline")]
    BY <1>11 DEF ContextInv, GoodBatch, GoodRow, RecordsOf
  <1>14. /\ IsFiniteSet(RecordsOf(rows, Asked))'
         /\ (Cardinality(RecordsOf(rows, Asked)) + remaining <= MaxRecords)'
    BY <1>6, <1>9, <1>10
  <1>15. stored' \in LogStores
    BY DEF ContextInv
  <1>16. QED BY <1>2, <1>4, <1>12, <1>13, <1>14, <1>15 DEF ContextInv

\* A row of the store's answer, or one of a source that failed, or was not asked.
LEMMA AnswerKeeps ==
  ASSUME Sources!EnrichmentsAssumption, ContextInv,
         Sources!Collect \/ Sources!NothingRemains
  PROVE  ContextInv'
  <1> DEFINE s == LogServices[next]
             H == Sources!Hits(s)
  <1>1. /\ next <= Len(LogServices) /\ next' = next + 1
        /\ UNCHANGED <<stored, queue, result>>
    BY DEF Sources!Collect, Sources!NothingRemains
  <1>2. remaining \in 0..MaxRecords /\ MaxRecords \in Nat
    BY DEF ContextInv, Sources!EnrichmentsAssumption
  <1>3. IsFiniteSet({}) /\ Cardinality({}) = 0
    BY FS_EmptySet
  <1>4. ASSUME NEW reason \in {"unavailable", "limit"},
               rows' = [rows EXCEPT ![s] = Sources!Unavailable(reason)],
               remaining' = remaining
        PROVE  ContextInv'
    <2> DEFINE row == Sources!Unavailable(reason)
    <2>1. /\ row.status = reason /\ row.records = {} /\ reason # "deadline"
          /\ reason # "available"
      BY DEF Sources!Unavailable
    <2>2. GoodRow(s, row)
      BY <2>1 DEF GoodRow
    <2>3. IsFiniteSet(row.records) /\ Cardinality(row.records) + remaining <= remaining
      BY <1>2, <1>3, <2>1
    <2> HIDE DEF row
    <2>4. rows' = [rows EXCEPT ![s] = row]
      BY <1>4 DEF row
    <2>5. QED BY <1>1, <1>2, <1>4, <2>2, <2>3, <2>4, RowsGrow
  <1>5. ASSUME Sources!Collect,
               NEW f \in Sources!Found(s, remaining),
               rows' = [rows EXCEPT ![s] =
                          [status |-> Sources!Status(Sources!Cardinality(f), remaining),
                           records |-> Sources!Structured(f),
                           seen |-> Sources!Cardinality(f)]],
               remaining' = remaining - Sources!Cardinality(f)
        PROVE  ContextInv'
    <2> DEFINE row == [status |-> Sources!Status(Sources!Cardinality(f), remaining),
                       records |-> Sources!Structured(f),
                       seen |-> Sources!Cardinality(f)]
    <2>1. Sources!Cardinality(f) = Cardinality(f) /\ Sources!Cardinality(H) = Cardinality(H)
      BY Zenon DEF Sources!Cardinality, Cardinality
    <2>2. IsFiniteSet(H)
      <3>1. s \in Sources!Selected /\ stored \in LogStores
        BY <1>1, AskedNext DEF ContextInv
      <3>2. Sources!IsFiniteSet(stored[s])
        BY <3>1 DEF Sources!EnrichmentsAssumption
      <3>3. IsFiniteSet(stored[s])
        BY Zenon, <3>2 DEF Sources!IsFiniteSet, IsFiniteSet
      <3>4. H \in SUBSET stored[s]
        BY DEF Sources!Hits
      <3> HIDE DEF H, s
      <3>5. QED BY <3>3, <3>4, FS_Subset
    <2>3. f \in SUBSET H /\ Sources!Cardinality(f) = Sources!Min({Sources!Cardinality(H), remaining})
      BY <1>5 DEF Sources!Found
    <2> HIDE DEF H
    <2>4. /\ IsFiniteSet(f) /\ Cardinality(f) \in Nat /\ Cardinality(H) \in Nat
          /\ Cardinality(H) = Cardinality(f) => f = H
      BY <2>2, <2>3, FS_Subset, FS_CardinalityType
    <2>5. Cardinality(f) = (IF Cardinality(H) <= remaining THEN Cardinality(H) ELSE remaining)
      <3>1. Cardinality(f) = Sources!Min({Cardinality(H), remaining})
        BY <2>1, <2>3
      <3>2. Cardinality(H) \in Int /\ remaining \in Int
        BY <1>2, <2>4
      <3>3. QED BY <3>1, <3>2, MaxOfTwo
    <2>6. Cardinality(f) <= remaining /\ (Cardinality(f) < remaining => f = H)
      BY <1>2, <2>4, <2>5
    <2>7. IsFiniteSet(row.records) /\ Cardinality(row.records) <= Cardinality(f)
      <3>1. row.records \in SUBSET f
        BY DEF Sources!Structured
      <3> HIDE DEF row
      <3>2. QED BY <2>4, <3>1, FS_Subset
    <2>8. row.status = Sources!Status(Cardinality(f), remaining)
          /\ row.records = Sources!Structured(f)
      BY <2>1
    <2>9. rows' = [rows EXCEPT ![s] = row] /\ remaining' = remaining - Cardinality(f)
      BY <1>5, <2>1
    <2> HIDE DEF row
    <2>10. GoodRow(s, row)
      <3>1. row.status \in {"truncated", "available"}
            /\ (row.status = "available" => Cardinality(f) < remaining)
        BY <1>2, <2>4, <2>8 DEF Sources!Status
      <3>2. row.records \subseteq Sources!Structured(H)
        BY <2>3, <2>8 DEF Sources!Structured
      <3>3. row.status = "available" => row.records = Sources!Structured(H)
        BY <2>6, <2>8, <3>1
      <3>4. QED BY <3>1, <3>2, <3>3 DEF GoodRow, H
    <2>11. Cardinality(row.records) \in Nat
      BY <2>7, FS_CardinalityType
    <2>12. remaining - Cardinality(f) \in 0..MaxRecords
           /\ Cardinality(row.records) + (remaining - Cardinality(f)) <= remaining
      BY <1>2, <2>4, <2>6, <2>7, <2>11
    <2>13. QED BY <1>1, <2>7, <2>9, <2>10, <2>12, RowsGrow
  <1>6. CASE Sources!NothingRemains
    <2>1. rows' = [rows EXCEPT ![s] = Sources!Unavailable("limit")] /\ remaining' = remaining
      BY <1>6 DEF Sources!NothingRemains, Sources!AtService
    <2>2. QED BY <1>4, <2>1
  <1>7. CASE Sources!Collect
    <2>1. PICK row \in {Sources!Unavailable("unavailable")}
                 \cup {[status |-> Sources!Status(Sources!Cardinality(f), remaining),
                        records |-> Sources!Structured(f), seen |-> Sources!Cardinality(f)]
                          : f \in Sources!Found(s, remaining)} :
             rows' = [rows EXCEPT ![s] = row] /\ remaining' = remaining - row.seen
      BY <1>7 DEF Sources!Collect, Sources!AtService
    <2>2. CASE row = Sources!Unavailable("unavailable")
      <3>1. remaining' = remaining
        BY <1>2, <2>1, <2>2 DEF Sources!Unavailable
      <3>2. QED BY <1>4, <2>1, <2>2, <3>1
    <2>3. CASE \E f \in Sources!Found(s, remaining) :
                  row = [status |-> Sources!Status(Sources!Cardinality(f), remaining),
                         records |-> Sources!Structured(f), seen |-> Sources!Cardinality(f)]
      <3>1. PICK f \in Sources!Found(s, remaining) :
                  row = [status |-> Sources!Status(Sources!Cardinality(f), remaining),
                         records |-> Sources!Structured(f), seen |-> Sources!Cardinality(f)]
        BY <2>3
      <3>2. row.seen = Sources!Cardinality(f)
        BY <3>1
      <3> HIDE DEF s
      <3>3. QED BY <1>5, <1>7, <2>1, <3>1, <3>2
    <2>4. QED BY <2>1, <2>2, <2>3
  <1>8. QED BY <1>6, <1>7

\* Before the child asks, nothing is in its rows.
LEMMA ContextBegins ==
  ASSUME Sources!EnrichmentsAssumption, Sources!ContextInit
  PROVE  ContextInv
  <1>1. MaxRecords \in Nat \ {0} /\ Len(LogServices) \in Nat
    BY DEF Sources!EnrichmentsAssumption
  <1>2. Asked = {}
    BY DEF Asked, Sources!ContextInit
  <1>3. RecordsOf(rows, Asked) = {}
    BY <1>2 DEF RecordsOf
  <1>4. IsFiniteSet({}) /\ Cardinality({}) = 0
    BY FS_EmptySet
  <1>5. remaining = MaxRecords /\ next = 1
    BY DEF Sources!ContextInit
  <1>6. /\ IsFiniteSet(RecordsOf(rows, Asked))
        /\ Cardinality(RecordsOf(rows, Asked)) + remaining <= MaxRecords
    BY <1>1, <1>3, <1>4, <1>5
  <1>7. next \in 1..(Len(LogServices) + 1) /\ remaining \in 0..MaxRecords
    BY <1>1, <1>5
  <1>8. /\ stored \in LogStores /\ DOMAIN rows = Sources!Selected
        /\ queue = NONE /\ result = NONE
    BY DEF Sources!ContextInit
  <1>9. \A s \in Asked : GoodRow(s, rows[s])
    BY <1>2
  <1>10. QED BY <1>6, <1>7, <1>8, <1>9 DEF ContextInv

\* Where the rows and what was found stay.
LEMMA RowsStay ==
  ASSUME ContextInv, UNCHANGED <<stored, next, remaining, rows>>,
         queue' # NONE => GoodBatch(queue'),
         result' # NONE => \/ GoodBatch(result')
                           \/ result' = [s \in Sources!Selected |-> Sources!Unavailable("deadline")]
  PROVE  ContextInv'
  <1>1. \A u : (Sources!Structured(Sources!Hits(u)))' = Sources!Structured(Sources!Hits(u))
    BY DEF Sources!Structured, Sources!Hits
  <1>2. Asked' = Asked /\ RecordsOf(rows', Asked') = RecordsOf(rows, Asked)
    BY DEF Asked, RecordsOf
  <1>3. \A u \in Asked' : GoodRow(u, rows[u])'
    BY <1>1, <1>2 DEF ContextInv, GoodRow
  <1>4. /\ GoodBatch(queue') => GoodBatch(queue)'
        /\ GoodBatch(result') => GoodBatch(result)'
    BY <1>1 DEF GoodBatch, GoodRow, RecordsOf
  <1>5. QED BY <1>2, <1>3, <1>4 DEF ContextInv

\* The batch is put when every service was asked, or it failed as a whole; what the
\* parent takes is that batch, or the one of the deadline.
LEMMA ContextStep ==
  ASSUME Sources!EnrichmentsAssumption, ContextInv, Sources!ContextNext
  PROVE  ContextInv'
  <1>1. CASE Sources!Collect \/ Sources!NothingRemains
    BY <1>1, AnswerKeeps
  <1>2. CASE Sources!PutBatch
    <2>1. UNCHANGED <<stored, next, remaining, rows, result>>
      BY <1>2 DEF Sources!PutBatch
    <2>2. CASE next > Len(LogServices) /\ queue' = rows
      <3>1. Asked = Sources!Selected
        BY <2>2, AllAsked
      <3>2. Cardinality(RecordsOf(rows, Asked)) <= MaxRecords
        <4>1. IsFiniteSet(RecordsOf(rows, Asked))
          BY DEF ContextInv
        <4>2. /\ remaining \in Nat /\ Cardinality(RecordsOf(rows, Asked)) \in Nat
              /\ MaxRecords \in Nat
          BY <4>1, FS_CardinalityType DEF ContextInv, Sources!EnrichmentsAssumption
        <4>3. QED BY <4>2 DEF ContextInv
      <3>3. GoodBatch(rows)
        BY <3>1, <3>2 DEF ContextInv, GoodBatch
      <3>4. QED BY <2>1, <2>2, <3>3, RowsStay DEF ContextInv
    <2>3. CASE queue' = [s \in Sources!Selected |-> Sources!Unavailable("failed")]
      <3> DEFINE batch == [s \in Sources!Selected |-> Sources!Unavailable("failed")]
      <3>1. \A s \in Sources!Selected : batch[s].status = "failed" /\ batch[s].records = {}
        BY DEF Sources!Unavailable
      <3> HIDE DEF batch
      <3>2. RecordsOf(batch, Sources!Selected) = {}
        BY <3>1 DEF RecordsOf
      <3>3. IsFiniteSet({}) /\ Cardinality({}) = 0 /\ MaxRecords \in Nat
        BY FS_EmptySet DEF Sources!EnrichmentsAssumption
      <3>4. \A s \in Sources!Selected : GoodRow(s, batch[s])
        BY <3>1 DEF GoodRow
      <3>5. GoodBatch(batch)
        BY <3>2, <3>3, <3>4 DEF GoodBatch
      <3>6. queue' = batch
        BY <2>3 DEF batch
      <3>7. QED BY <2>1, <3>5, <3>6, RowsStay DEF ContextInv
    <2>4. QED BY <1>2, <2>2, <2>3 DEF Sources!PutBatch
  <1>3. CASE Sources!ChildExits \/ Sources!Tick \/ Sources!Terminate \/ Sources!Kill
    <2>1. UNCHANGED <<stored, next, remaining, rows, queue, result>>
      BY <1>3 DEF Sources!ChildExits, Sources!Tick, Sources!Terminate, Sources!Kill
    <2>2. QED BY <2>1, RowsStay DEF ContextInv
  <1>4. CASE Sources!TakeBatch
    <2>1. /\ UNCHANGED <<stored, next, remaining, rows>>
          /\ queue # NONE /\ result' = queue /\ queue' = NONE
      BY <1>4 DEF Sources!TakeBatch
    <2>2. QED BY <2>1, RowsStay DEF ContextInv
  <1>5. CASE Sources!Deadline
    <2>1. /\ UNCHANGED <<stored, next, remaining, rows, queue>>
          /\ result' = [s \in Sources!Selected |-> Sources!Unavailable("deadline")]
      BY <1>5 DEF Sources!Deadline
    <2>2. QED BY <2>1, RowsStay DEF ContextInv
  <1>6. QED BY <1>1, <1>2, <1>3, <1>4, <1>5 DEF Sources!ContextNext, Sources!Parent

\* Elsewhere nothing of it changes.
LEMMA ContextRests == ASSUME ContextInv, UNCHANGED contextVars PROVE ContextInv'
  <1>1. UNCHANGED <<stored, next, remaining, rows, queue, result>>
    BY DEF contextVars
  <1>2. QED BY <1>1, RowsStay DEF ContextInv

\* What the caller gets says no more than is there, and is whole.
LEMMA ContextSound ==
  ASSUME Sources!EnrichmentsAssumption, ContextInv
  PROVE  Sources!AvailableIsComplete /\ Sources!WithinRecordLimit /\ Sources!WholeBatch
  <1>1. CASE result = NONE
    BY <1>1 DEF Sources!AvailableIsComplete, Sources!WithinRecordLimit, Sources!WholeBatch,
                Sources!Waits
  <1>2. CASE GoodBatch(result)
    <2>1. Sources!AvailableIsComplete /\ Sources!WholeBatch
      BY <1>2 DEF GoodBatch, GoodRow, Sources!AvailableIsComplete, Sources!WholeBatch
    <2>2. Cardinality(RecordsOf(result, Sources!Selected)) <= MaxRecords
      BY <1>2 DEF GoodBatch
    <2>3. Sources!Cardinality(RecordsOf(result, Sources!Selected)) <= MaxRecords
      BY Zenon, <2>2 DEF Sources!Cardinality, Cardinality
    <2>4. QED BY <2>1, <2>3 DEF Sources!WithinRecordLimit, RecordsOf
  <1>3. CASE result = [s \in Sources!Selected |-> Sources!Unavailable("deadline")]
    <2>1. \A s \in Sources!Selected : result[s].status = "deadline" /\ result[s].records = {}
      BY <1>3 DEF Sources!Unavailable
    <2>2. Sources!AvailableIsComplete /\ Sources!WholeBatch
      BY <2>1 DEF Sources!AvailableIsComplete, Sources!WholeBatch
    <2>3. RecordsOf(result, Sources!Selected) = {}
      BY <2>1 DEF RecordsOf
    <2>4. Cardinality({}) = 0 /\ MaxRecords \in Nat
      BY FS_EmptySet DEF Sources!EnrichmentsAssumption
    <2>5. Cardinality(RecordsOf(result, Sources!Selected)) <= MaxRecords
      BY <2>3, <2>4
    <2>6. Sources!Cardinality(RecordsOf(result, Sources!Selected)) <= MaxRecords
      BY Zenon, <2>5 DEF Sources!Cardinality, Cardinality
    <2>7. QED BY <2>2, <2>6 DEF Sources!WithinRecordLimit, RecordsOf
  <1>4. QED BY <1>1, <1>2, <1>3 DEF ContextInv

\* What holds of the batch and of the matrices, in every part.
LEMMA ObservationsKept == SuiteSpec => [](ContextInv /\ HttpInv)
  <1>1. Sources!EnrichmentsAssumption
    BY InstancesAssumption
  <1>2. SuiteInit => ContextInv /\ HttpInv
    BY <1>1, ContextBegins, HttpBegins DEF SuiteInit
  <1>3. ContextInv /\ HttpInv /\ [SuiteNext]_suiteVars => (ContextInv /\ HttpInv)'
    <2> SUFFICES ASSUME ContextInv, HttpInv, [SuiteNext]_suiteVars
                 PROVE  ContextInv' /\ HttpInv'
      OBVIOUS
    <2>1. Sources!ContextNext \/ UNCHANGED contextVars
      BY Zenon DEF SuiteNext, suiteVars
    <2>2. Sources!HttpNext \/ UNCHANGED httpVars
      BY Zenon DEF SuiteNext, suiteVars
    <2>3. QED BY <1>1, <2>1, <2>2, ContextStep, ContextRests, HttpStep, HttpRests
  <1>4. QED BY <1>2, <1>3, PTL DEF SuiteSpec

\* A row of the context that says "available" holds every entry of the interval, a
\* batch is within its limit and unavailable as a whole or not at all; "no activity"
\* and "observed" are said only of what the service did, ratios and latencies cover
\* its traffic, and the bins hold each point once: for any services, any contents of
\* the store, any grid, and any limits.
THEOREM ObservationsHonestHolds == SuiteSpec => []ObservationsHonest
  <1>1. ContextInv /\ HttpInv => ObservationsHonest
    BY InstancesAssumption, ContextSound, HttpSound DEF ObservationsHonest
  <1>2. QED BY <1>1, ObservationsKept, PTL

-----------------------------------------------------------------------------
(* The collection: of every trace that is wanted, each span is read or a       *)
(* search that finds it is still to be made                                    *)

SourceNames == {LiveServices[n] : n \in DOMAIN LiveServices}
Searches == [svc : SourceNames, left : Nat, right : Nat]
Wanted(t) ==
    t.at \in 0..LiveEnd /\ \E n \in DOMAIN LiveServices : LiveServices[n] = t.svc
ReadIn(read, t) == \A s \in LivePresent : s.trace = t.trace => Live!Identity(s) \in read
Due(q, t) == \E k \in DOMAIN q : Live!Matches(q[k], t)
Coming(read, q) == \A t \in LivePresent : Wanted(t) => ReadIn(read, t) \/ Due(q, t)

LiveInv ==
    /\ backend \subseteq LiveSpans /\ LivePresent \subseteq backend
    /\ todo \in Seq(Searches)
    /\ queries \in 0..LiveQueries
    /\ bytes \in Nat /\ received \in Nat /\ received + bytes = LiveBytes
    /\ stage \in {"workload", "done"} => todo = <<>>
    /\ stage \in {"traces", "workload", "done"} /\ ~traceError => Coming(found, todo)
    /\ fixed /\ stage = "failed" => families < LiveFamilies

\* What two lists of searches find, one of them finds.
LEMMA DueOfTwo ==
  ASSUME NEW p \in Seq(Searches), NEW q \in Seq(Searches), NEW t, Due(p, t) \/ Due(q, t)
  PROVE  Due(p \o q, t)
  <1>1. /\ Len(p \o q) = Len(p) + Len(q) /\ p \o q \in Seq(Searches)
        /\ \A i \in 1..Len(p) : (p \o q)[i] = p[i]
        /\ \A i \in 1..Len(q) : (p \o q)[Len(p) + i] = q[i]
    OBVIOUS
  <1>2. /\ DOMAIN p = 1..Len(p) /\ DOMAIN q = 1..Len(q)
        /\ DOMAIN (p \o q) = 1..(Len(p) + Len(q)) /\ Len(p) \in Nat /\ Len(q) \in Nat
    BY <1>1
  <1>3. CASE Due(p, t)
    <2>1. PICK i \in 1..Len(p) : Live!Matches(p[i], t)
      BY <1>2, <1>3 DEF Due
    <2>2. i \in DOMAIN (p \o q) /\ (p \o q)[i] = p[i]
      BY <1>1, <1>2
    <2>3. QED BY <2>1, <2>2 DEF Due
  <1>4. CASE Due(q, t)
    <2>1. PICK i \in 1..Len(q) : Live!Matches(q[i], t)
      BY <1>2, <1>4 DEF Due
    <2>2. Len(p) + i \in DOMAIN (p \o q) /\ (p \o q)[Len(p) + i] = q[i]
      BY <1>1, <1>2
    <2>3. QED BY <2>1, <2>2 DEF Due
  <1>5. QED BY <1>3, <1>4

\* What a list finds, its first search or the others find.
LEMMA DueOfFirst ==
  ASSUME NEW q \in Seq(Searches), q # <<>>, NEW t, Due(q, t)
  PROVE  Live!Matches(Head(q), t) \/ Due(Tail(q), t)
  <1>1. PICK k \in 1..Len(q) : Live!Matches(q[k], t)
    BY DEF Due
  <1>2. CASE k = 1
    BY <1>1, <1>2
  <1>3. CASE k # 1
    <2>1. k - 1 \in DOMAIN Tail(q) /\ Tail(q)[k - 1] = q[k]
      BY <1>3
    <2>2. QED BY <1>1, <2>1 DEF Due
  <1>4. QED BY <1>2, <1>3

\* A chunk and what is left of the interval, and the two halves of a search, leave
\* nothing between them.
LEMMA NothingBetween ==
  ASSUME Live!LiveAssumption, NEW s \in Searches
  PROVE  /\ Live!First(s) \in Searches /\ Live!Later(s) \in Seq(Searches)
         /\ Live!Halves(s) \in Seq(Searches)
         /\ \A t \in LiveSpans : Live!Matches(s, t) =>
              /\ Live!Matches(Live!First(s), t) \/ Due(Live!Later(s), t)
              /\ Due(Live!Halves(s), t)
  <1>1. LiveChunk \in Nat /\ \A t \in LiveSpans : t.at \in Nat
    BY DEF Live!LiveAssumption
  <1> DEFINE Chunked == /\ Live!First(s) \in Searches /\ Live!Later(s) \in Seq(Searches)
                        /\ \A t \in LiveSpans : Live!Matches(s, t) =>
                              Live!Matches(Live!First(s), t) \/ Due(Live!Later(s), t)
  <1>2. ASSUME s.left + LiveChunk < s.right PROVE Chunked
    <2> DEFINE a == [s EXCEPT !.right = s.left + LiveChunk]
               b == [s EXCEPT !.left = s.left + LiveChunk]
    <2>1. a \in Searches /\ b \in Searches
      BY <1>1 DEF Searches
    <2>2. /\ a.svc = s.svc /\ a.left = s.left /\ a.right = s.left + LiveChunk
          /\ b.svc = s.svc /\ b.left = s.left + LiveChunk /\ b.right = s.right
      BY DEF Searches
    <2>3. Live!First(s) = a /\ Live!Later(s) = <<b>>
      BY <1>2 DEF Live!First, Live!Later
    <2> HIDE DEF a, b
    <2>4. ASSUME NEW t \in LiveSpans, Live!Matches(s, t)
          PROVE  Live!Matches(a, t) \/ Live!Matches(b, t)
      BY <1>1, <2>2, <2>4 DEF Live!Matches, Searches
    <2>5. <<b>> \in Seq(Searches) /\ DOMAIN <<b>> = {1} /\ <<b>>[1] = b
      BY <2>1
    <2>6. ASSUME NEW t \in LiveSpans, Live!Matches(s, t)
          PROVE  Live!Matches(Live!First(s), t) \/ Due(Live!Later(s), t)
      BY <2>3, <2>4, <2>5, <2>6 DEF Due
    <2>7. QED BY <2>1, <2>3, <2>5, <2>6
  <1>3. ASSUME ~(s.left + LiveChunk < s.right) PROVE Chunked
    <2>1. Live!First(s) = s /\ Live!Later(s) = <<>>
      BY <1>3 DEF Live!First, Live!Later
    <2>2. QED BY <2>1
  <1>4. Live!Halves(s) \in Seq(Searches)
        /\ \A t \in LiveSpans : Live!Matches(s, t) => Due(Live!Halves(s), t)
    <2> DEFINE m == (s.left + s.right) \div 2
               a == [s EXCEPT !.right = m]
               b == [s EXCEPT !.left = m]
    <2>1. m \in Nat
      BY DEF Searches
    <2> HIDE DEF m
    <2>2. a \in Searches /\ b \in Searches
      BY <2>1 DEF Searches
    <2>3. /\ a.svc = s.svc /\ a.left = s.left /\ a.right = m
          /\ b.svc = s.svc /\ b.left = m /\ b.right = s.right
      BY DEF Searches
    <2>4. Live!Halves(s) = <<a, b>>
      BY DEF Live!Halves, m
    <2> HIDE DEF a, b
    <2>5. ASSUME NEW t \in LiveSpans, Live!Matches(s, t)
          PROVE  Live!Matches(a, t) \/ Live!Matches(b, t)
      BY <1>1, <2>1, <2>3, <2>5 DEF Live!Matches, Searches
    <2>6. <<a, b>> \in Seq(Searches) /\ DOMAIN <<a, b>> = 1..2
          /\ <<a, b>>[1] = a /\ <<a, b>>[2] = b
      BY <2>2
    <2>7. QED BY <2>4, <2>5, <2>6 DEF Due
  <1>5. QED BY <1>2, <1>3, <1>4

LEMMA LiveBegins == ASSUME Live!LiveAssumption, Live!Init PROVE LiveInv
  <1>1. /\ backend = LivePresent /\ stage = "metrics" /\ todo = <<>> /\ queries = 0
        /\ bytes = LiveBytes /\ received = 0
    BY DEF Live!Init
  <1>2. LivePresent \subseteq LiveSpans /\ LiveBytes \in Nat /\ LiveQueries \in Nat
    BY DEF Live!LiveAssumption
  <1>3. QED BY <1>1, <1>2 DEF LiveInv

\* Every service is searched over the whole interval.
LEMMA AllAreDue ==
  ASSUME Live!LiveAssumption
  PROVE  Live!AllSearches \in Seq(Searches) /\ \A read : Coming(read, Live!AllSearches)
  <1>1. LiveServices \in Seq(SourceNames) /\ LiveEnd \in Nat
    BY DEF Live!LiveAssumption, SourceNames
  <1>2. \A n \in DOMAIN LiveServices :
          [svc |-> LiveServices[n], left |-> 0, right |-> LiveEnd] \in Searches
    BY <1>1 DEF Searches, SourceNames
  <1>3. /\ Live!AllSearches = [n \in 1..Len(LiveServices) |->
                [svc |-> LiveServices[n], left |-> 0, right |-> LiveEnd]]
        /\ DOMAIN LiveServices = 1..Len(LiveServices) /\ Len(LiveServices) \in Nat
    BY <1>1 DEF Live!AllSearches
  <1>4. Live!AllSearches \in Seq(Searches)
    BY <1>2, <1>3
  <1>5. ASSUME NEW t \in LivePresent, Wanted(t) PROVE Due(Live!AllSearches, t)
    <2>1. PICK n \in DOMAIN LiveServices : LiveServices[n] = t.svc
      BY <1>5 DEF Wanted
    <2>2. /\ n \in DOMAIN Live!AllSearches
          /\ Live!AllSearches[n] = [svc |-> LiveServices[n], left |-> 0, right |-> LiveEnd]
      BY <1>3
    <2>3. Live!Matches(Live!AllSearches[n], t)
      BY <1>1, <1>5, <2>1, <2>2 DEF Live!Matches, Wanted
    <2>4. QED BY <2>2, <2>3 DEF Due
  <1>6. QED BY <1>4, <1>5 DEF Coming

\* An answer below the limit has every trace the search finds.
LEMMA AllOrSaturated ==
  ASSUME Live!LiveAssumption, backend \subseteq LiveSpans, NEW s,
         NEW got \in Live!Answers(s), ~Live!Saturated(got)
  PROVE  \A t \in backend : Live!Matches(s, t) => t.trace \in got
  <1> DEFINE matching == {x \in backend : Live!Matches(s, x)}
             hits == {x.trace : x \in matching}
  <1>1. LiveLimit \in Nat /\ IsFiniteSet(LiveSpans)
    <2>1. Live!IsFiniteSet(LiveSpans) /\ LiveLimit \in Nat
      BY DEF Live!LiveAssumption
    <2>2. QED BY Zenon, <2>1 DEF Live!IsFiniteSet, IsFiniteSet
  <1>2. IsFiniteSet(matching)
    BY <1>1, FS_Subset
  <1>3. IsFiniteSet(hits)
    <2>1. [x \in matching |-> x.trace] \in Surjection(matching, hits)
      BY DEF Surjection
    <2>2. QED BY <1>2, <2>1, FS_Surjection
  <1>4. Cardinality(hits) \in Nat
    BY <1>3, FS_CardinalityType
  <1>5. /\ got \in SUBSET hits
        /\ Live!Cardinality(got) = IF Live!Cardinality(hits) < LiveLimit
                                   THEN Live!Cardinality(hits) ELSE LiveLimit
    BY DEF Live!Answers
  <1>6. ~(Live!Cardinality(got) >= LiveLimit)
    BY DEF Live!Saturated
  <1>7. Live!Cardinality(got) = Cardinality(got) /\ Live!Cardinality(hits) = Cardinality(hits)
    BY Zenon DEF Live!Cardinality, Cardinality
  <1> HIDE DEF hits
  <1>8. Cardinality(got) = Cardinality(hits)
    BY <1>1, <1>4, <1>5, <1>6, <1>7
  <1>9. got = hits
    BY <1>3, <1>5, <1>8, FS_Subset
  <1>10. QED BY <1>9 DEF hits

\* Each of the traces of an answer is read, all its spans with it.
LEMMA FirstIsRead ==
  ASSUME Live!LiveAssumption, LiveInv, stage = "traces", todo # <<>>, ~traceError,
         NEW got \in Live!Answers(Live!First(Head(todo))), ~Live!Saturated(got)
  PROVE  Coming(found \cup {Live!Identity(x) : x \in {x \in backend : x.trace \in got}},
                Live!Later(Head(todo)) \o Tail(todo))
  <1> DEFINE s == Head(todo)
             new == {Live!Identity(x) : x \in {x \in backend : x.trace \in got}}
  <1>1. s \in Searches /\ Tail(todo) \in Seq(Searches) /\ LivePresent \subseteq backend
        /\ backend \subseteq LiveSpans
    BY DEF LiveInv
  <1>2. \A t \in backend : Live!Matches(Live!First(s), t) => t.trace \in got
    BY <1>1, AllOrSaturated
  <1>3. ASSUME NEW t \in LivePresent, Wanted(t)
        PROVE  ReadIn(found \cup new, t) \/ Due(Live!Later(s) \o Tail(todo), t)
    <2>1. ReadIn(found, t) \/ Due(todo, t)
      BY <1>3 DEF LiveInv, Coming
    <2>2. CASE ReadIn(found, t)
      BY <2>2 DEF ReadIn
    <2>3. CASE Due(todo, t)
      <3>1. Live!Matches(s, t) \/ Due(Tail(todo), t)
        BY <2>3, DueOfFirst DEF LiveInv
      <3>2. CASE Due(Tail(todo), t)
        BY <1>1, <3>2, NothingBetween, DueOfTwo
      <3>3. CASE Live!Matches(s, t)
        <4>1. Live!Matches(Live!First(s), t) \/ Due(Live!Later(s), t)
          BY <1>1, <3>3, NothingBetween
        <4>2. CASE Due(Live!Later(s), t)
          BY <1>1, <4>2, NothingBetween, DueOfTwo
        <4>3. CASE Live!Matches(Live!First(s), t)
          <5>1. t.trace \in got
            BY <1>1, <1>2, <4>3
          <5>2. \A x \in LivePresent : x.trace = t.trace => Live!Identity(x) \in new
            BY <1>1, <5>1
          <5>3. QED BY <5>2 DEF ReadIn
        <4>4. QED BY <4>1, <4>2, <4>3
      <3>4. QED BY <3>1, <3>2, <3>3
    <2>4. QED BY <2>1, <2>2, <2>3
  <1>4. QED BY <1>3 DEF Coming

\* A search that is split is still to be made.
LEMMA SplitIsDue ==
  ASSUME Live!LiveAssumption, LiveInv, stage = "traces", todo # <<>>
  PROVE  /\ Live!Halves(Live!First(Head(todo)))
              \o (Live!Later(Head(todo)) \o Tail(todo)) \in Seq(Searches)
         /\ Live!Later(Head(todo)) \o Tail(todo) \in Seq(Searches)
         /\ ~traceError => Coming(found, Live!Halves(Live!First(Head(todo)))
                             \o (Live!Later(Head(todo)) \o Tail(todo)))
  <1> DEFINE s == Head(todo)
             f == Live!First(s)
             h == Live!Halves(f)
             rest == Live!Later(s) \o Tail(todo)
  <1>1. s \in Searches /\ Tail(todo) \in Seq(Searches) /\ LivePresent \subseteq LiveSpans
    BY DEF LiveInv
  <1>2. /\ f \in Searches /\ Live!Later(s) \in Seq(Searches)
        /\ \A t \in LiveSpans : Live!Matches(s, t) =>
              Live!Matches(f, t) \/ Due(Live!Later(s), t)
    BY <1>1, NothingBetween
  <1>3. /\ h \in Seq(Searches)
        /\ \A t \in LiveSpans : Live!Matches(f, t) => Due(h, t)
    BY <1>2, NothingBetween
  <1>4. rest \in Seq(Searches)
    BY <1>1, <1>2
  <1> HIDE DEF f, h
  <1>5. h \o rest \in Seq(Searches)
    BY <1>3, <1>4
  <1>6. ASSUME ~traceError, NEW t \in LivePresent, Wanted(t)
        PROVE  ReadIn(found, t) \/ Due(h \o rest, t)
    <2>1. ReadIn(found, t) \/ Due(todo, t)
      BY <1>6 DEF LiveInv, Coming
    <2>2. CASE Due(todo, t)
      <3>1. Live!Matches(s, t) \/ Due(Tail(todo), t)
        BY <2>2, DueOfFirst DEF LiveInv
      <3>2. Live!Matches(f, t) \/ Due(Live!Later(s), t) \/ Due(Tail(todo), t)
        BY <1>1, <1>2, <3>1
      <3>3. Due(h, t) \/ Due(rest, t)
        BY <1>1, <1>2, <1>3, <3>2, DueOfTwo
      <3>4. QED BY <1>3, <1>4, <3>3, DueOfTwo
    <2>3. QED BY <2>1, <2>2
  <1>7. QED BY <1>4, <1>5, <1>6 DEF Coming, f, h

LEMMA LiveFound ==
  ASSUME Live!LiveAssumption, LiveInv
  PROVE  /\ LiveQueries \in Nat /\ queries \in Nat /\ queries <= LiveQueries
         /\ \A got : Live!Cardinality({x \in backend : x.trace \in got}) \in Nat
  <1>1. Live!IsFiniteSet(LiveSpans) /\ LiveQueries \in Nat
    BY DEF Live!LiveAssumption
  <1>2. IsFiniteSet(LiveSpans)
    BY Zenon, <1>1 DEF Live!IsFiniteSet, IsFiniteSet
  <1>3. backend \subseteq LiveSpans /\ queries \in 0..LiveQueries
    BY DEF LiveInv
  <1>4. ASSUME NEW got PROVE Live!Cardinality({x \in backend : x.trace \in got}) \in Nat
    <2> DEFINE read == {x \in backend : x.trace \in got}
    <2>1. IsFiniteSet(read)
      BY <1>2, <1>3, FS_Subset
    <2>2. Cardinality(read) \in Nat
      BY <2>1, FS_CardinalityType
    <2>3. Live!Cardinality(read) = Cardinality(read)
      BY Zenon DEF Live!Cardinality, Cardinality
    <2>4. QED BY <2>2, <2>3
  <1>5. QED BY <1>1, <1>3, <1>4

LEMMA MetricKeeps ==
  ASSUME Live!LiveAssumption, LiveInv, Live!Metric, UNCHANGED fixed
  PROVE  LiveInv'
  <1>1. /\ stage = "metrics" /\ families < LiveFamilies
        /\ UNCHANGED <<backend, queries, found, traceError>>
    BY DEF Live!Metric
  <1>2. /\ backend' \subseteq LiveSpans /\ LivePresent \subseteq backend'
        /\ queries' \in 0..LiveQueries
    BY <1>1 DEF LiveInv
  <1>3. CASE /\ Live!Take(1) /\ families' = families + 1
             /\ IF families' = LiveFamilies THEN stage' = "traces" /\ todo' = Live!AllSearches
                ELSE UNCHANGED <<stage, todo>>
    <2>1. bytes' \in Nat /\ received' \in Nat /\ received' + bytes' = LiveBytes
      BY <1>3 DEF Live!Take, LiveInv
    <2>2. /\ todo' \in Seq(Searches) /\ stage' \in {"metrics", "traces"}
          /\ stage' = "traces" => Coming(found', todo')
      <3>1. CASE families' = LiveFamilies
        BY <1>3, <3>1, AllAreDue
      <3>2. CASE families' # LiveFamilies
        BY <1>1, <1>3, <3>2 DEF LiveInv
      <3>3. QED BY <3>1, <3>2
    <2>3. QED BY <1>2, <2>1, <2>2 DEF LiveInv
  <1>4. CASE stage' = "failed" /\ UNCHANGED <<families, todo, bytes, received>>
    BY <1>1, <1>2, <1>4 DEF LiveInv
  <1>5. QED BY <1>3, <1>4 DEF Live!Metric

\* Traces that are given up leave no search to be made.
LEMMA GivenUp ==
  ASSUME LiveInv, Live!GiveUp,
         backend' = backend, queries' \in 0..LiveQueries,
         bytes' \in Nat, received' \in Nat, received' + bytes' = LiveBytes
  PROVE  LiveInv'
  <1>1. stage' = "workload" /\ traceError' = TRUE /\ todo' = <<>>
    BY DEF Live!GiveUp
  <1>2. <<>> \in Seq(Searches)
    OBVIOUS
  <1>3. QED BY <1>1, <1>2 DEF LiveInv

LEMMA SearchFailsKeeps ==
  ASSUME Live!LiveAssumption, LiveInv, Live!SearchFails
  PROVE  LiveInv'
  <1>1. /\ Live!GiveUp /\ UNCHANGED <<backend, bytes, received>>
        /\ queries' = queries + (IF Live!MayAsk /\ queries < LiveQueries THEN 1 ELSE 0)
    BY DEF Live!SearchFails
  <1>2. queries' \in 0..LiveQueries
    BY <1>1, LiveFound
  <1>3. QED BY <1>1, <1>2, GivenUp DEF LiveInv

LEMMA SearchKeeps ==
  ASSUME Live!LiveAssumption, LiveInv, Live!Search, UNCHANGED fixed
  PROVE  LiveInv'
  <1> DEFINE s == Live!First(Head(todo))
             rest == Live!Later(Head(todo)) \o Tail(todo)
             read(got) == {x \in backend : x.trace \in got}
  <1>1. PICK got \in Live!Answers(s) :
          /\ Live!Take(1 + Live!Cardinality(read(got)))
          /\ IF Live!Saturated(got)
             THEN IF s.right - s.left <= 1 THEN Live!GiveUp
                  ELSE todo' = Live!Halves(s) \o rest /\ UNCHANGED <<stage, found, traceError>>
             ELSE Live!Add(read(got), rest)
    BY DEF Live!Search
  <1>2. /\ stage = "traces" /\ todo # <<>> /\ queries' = queries + 1
        /\ queries < LiveQueries /\ backend' = backend /\ families' = families
    BY DEF Live!Search
  <1>3. queries' \in 0..LiveQueries
    BY <1>2, LiveFound
  <1>4. bytes' \in Nat /\ received' \in Nat /\ received' + bytes' = LiveBytes
    <2> DEFINE size == 1 + Live!Cardinality(read(got))
    <2>1. size \in Nat
      BY LiveFound
    <2> HIDE DEF size
    <2>2. size <= bytes /\ bytes' = bytes - size /\ received' = received + size
      BY <1>1 DEF Live!Take, size
    <2>3. QED BY <2>1, <2>2 DEF LiveInv
  <1>5. CASE Live!GiveUp
    BY <1>2, <1>3, <1>4, <1>5, GivenUp
  <1>6. CASE /\ Live!Saturated(got) /\ todo' = Live!Halves(s) \o rest
             /\ UNCHANGED <<stage, found, traceError>>
    <2>1. traceError \/ Coming(found, todo')
      BY <1>2, <1>6, SplitIsDue
    <2>2. todo' \in Seq(Searches)
      BY <1>2, <1>6, SplitIsDue
    <2>3. QED BY <1>2, <1>3, <1>4, <1>6, <2>1, <2>2 DEF LiveInv
  <1>7. CASE /\ ~Live!Saturated(got) /\ todo' = rest /\ UNCHANGED <<stage, traceError>>
             /\ found' = found \cup {Live!Identity(x) : x \in read(got)}
    <2>1. traceError \/ Coming(found', todo')
      BY <1>2, <1>7, FirstIsRead
    <2>2. todo' \in Seq(Searches)
      BY <1>2, <1>7, SplitIsDue
    <2>3. QED BY <1>2, <1>3, <1>4, <1>7, <2>1, <2>2 DEF LiveInv
  <1>8. QED BY <1>1, <1>5, <1>6, <1>7 DEF Live!Add

LEMMA WorkloadKeeps ==
  ASSUME LiveInv, Live!Workload, UNCHANGED fixed
  PROVE  LiveInv'
  <1>1. /\ stage = "workload" /\ UNCHANGED <<backend, families, todo, queries, found, traceError>>
        /\ stage' \in {"done", "failed"} /\ (stage' = "failed" => ~fixed)
        /\ Live!Take(1) \/ UNCHANGED <<bytes, received>>
    BY DEF Live!Workload
  <1>2. bytes' \in Nat /\ received' \in Nat /\ received' + bytes' = LiveBytes
    BY <1>1 DEF Live!Take, LiveInv
  <1>3. QED BY <1>1, <1>2 DEF LiveInv

LEMMA LiveStep ==
  ASSUME Live!LiveAssumption, LiveInv, Live!Next
  PROVE  LiveInv'
  <1>1. CASE Live!Metric /\ UNCHANGED fixed
    BY <1>1, MetricKeeps
  <1>2. CASE Live!SearchFails
    BY <1>2, SearchFailsKeeps
  <1>3. CASE Live!Search /\ UNCHANGED fixed
    BY <1>3, SearchKeeps
  <1>4. CASE Live!Searched
    <2>1. /\ stage = "traces" /\ todo = <<>> /\ stage' = "workload"
          /\ UNCHANGED <<backend, todo, queries, bytes, found, traceError, received>>
      BY <1>4 DEF Live!Searched
    <2>2. QED BY <2>1 DEF LiveInv
  <1>5. CASE Live!Workload /\ UNCHANGED fixed
    BY <1>5, WorkloadKeeps
  <1>6. CASE Live!Arrive
    <2>1. /\ backend' \subseteq LiveSpans /\ backend \subseteq backend'
          /\ UNCHANGED <<fixed, stage, families, todo, queries, bytes, found, traceError,
                         received>>
      BY <1>6 DEF Live!Arrive, LiveInv
    <2>2. QED BY <2>1 DEF LiveInv
  <1>7. CASE Live!Expire
    <2>1. UNCHANGED <<fixed, backend, stage, families, todo, queries, bytes, found,
                      traceError, received>>
      BY <1>7 DEF Live!Expire
    <2>2. QED BY <2>1 DEF LiveInv
  <1>8. QED BY <1>1, <1>2, <1>3, <1>4, <1>5, <1>6, <1>7 DEF Live!Next, Live!Step

\* Elsewhere nothing of it changes.
LEMMA LiveRests == ASSUME LiveInv, UNCHANGED liveVars PROVE LiveInv'
  BY DEF LiveInv, liveVars

\* A result without an error of its traces has all of them.
LEMMA LiveSound ==
  ASSUME LiveInv
  PROVE  Live!CompleteOrUnavailable /\ Live!WithinBudgets /\ Live!TracesAreOptional
  <1>1. ASSUME stage = "done", ~traceError PROVE Live!CompleteOrUnavailable
    <2>1. todo = <<>> /\ Coming(found, <<>>)
      BY <1>1 DEF LiveInv
    <2>2. \A t \in LivePresent : Wanted(t) => ReadIn(found, t)
      BY <2>1 DEF Coming, Due
    <2>3. QED BY <2>2 DEF Live!CompleteOrUnavailable, Wanted, ReadIn
  <1>2. Live!CompleteOrUnavailable
    BY <1>1 DEF Live!CompleteOrUnavailable
  <1>3. Live!WithinBudgets
    BY DEF LiveInv, Live!WithinBudgets
  <1>4. Live!TracesAreOptional
    BY DEF LiveInv, Live!TracesAreOptional
  <1>5. QED BY <1>2, <1>3, <1>4

-----------------------------------------------------------------------------
(* The decoding: what was taken of the stream is in the spans, and no spans    *)
(* that were walked over have all their parents among themselves               *)

Used == 1..(Len(lines) - Len(left))
Parents(S) == {Decoding!ParentOf(i) : i \in S}

\* What is left of the stream is its end, and the lines before it were read.
StreamRead ==
    /\ lines \in Seq(StreamLines) /\ left \in Seq(StreamLines) /\ Len(left) <= Len(lines)
    /\ \A n \in 1..Len(left) : left[n] = lines[Len(lines) - Len(left) + n]
    /\ \A n \in Used : lines[n].kind # "bad"
    /\ spans = UNION {lines[n].spans : n \in Used}

\* The parents of what was visited were visited or are not there, those of the
\* trail are on it or come next; and neither holds a cycle that was closed.
WalkSound ==
    /\ visited \subseteq Decoding!Ids /\ trail \subseteq Decoding!Ids
    /\ visited \cap trail = {}
    /\ \A i \in visited : Decoding!ParentOf(i) \in Decoding!Ids => Decoding!ParentOf(i) \in visited
    /\ \A i \in trail : Decoding!ParentOf(i) \in trail \cup {cursor}
    /\ \A S \in SUBSET visited : S # {} => ~(Parents(S) \subseteq S)
    /\ \A S \in SUBSET trail : S # {} => ~(Parents(S) \subseteq S \ {cursor})

DecodingInv ==
    /\ StreamRead
    /\ WalkSound
    /\ step = "decode" => visited = {} /\ trail = {}
    /\ step \in {"walk", "accepted"} => left = <<>>
    /\ step = "accepted" => Decoding!Ids \subseteq visited
    /\ step = "refused" /\ left = <<>> => envelopes = 0 \/ Decoding!Cyclic

LEMMA DecodingBegins ==
  ASSUME Decoding!DecodingAssumption, Decoding!Init
  PROVE  DecodingInv
  <1>1. /\ lines \in Seq(StreamLines) /\ left = lines /\ spans = {} /\ step = "decode"
        /\ visited = {} /\ trail = {}
    BY DEF Decoding!Init, Decoding!DecodingAssumption
  <1>2. Len(lines) - Len(left) = 0 /\ Used = {}
    BY <1>1 DEF Used
  <1>3. StreamRead
    <2>1. \A n \in 1..Len(left) : left[n] = lines[Len(lines) - Len(left) + n]
      BY <1>1
    <2>2. spans = UNION {lines[n].spans : n \in Used}
      BY <1>1, <1>2
    <2>3. QED BY <1>1, <1>2, <2>1, <2>2 DEF StreamRead
  <1>4. WalkSound
    BY <1>1 DEF WalkSound
  <1>5. QED BY <1>1, <1>3, <1>4 DEF DecodingInv

\* The line that is taken next is the one after those that were.
LEMMA LineTaken ==
  ASSUME StreamRead, step = "decode", left # <<>>, Head(left).kind # "bad",
         left' = Tail(left), lines' = lines, spans' = spans \cup Head(left).spans
  PROVE  StreamRead'
  <1> DEFINE k == Len(lines) - Len(left)
  <1>1. /\ Head(left) = left[1] /\ Tail(left) \in Seq(StreamLines)
        /\ Len(Tail(left)) = Len(left) - 1 /\ Len(left) \in Nat \ {0} /\ Len(lines) \in Nat
        /\ \A n \in 1..Len(Tail(left)) : Tail(left)[n] = left[n + 1]
    BY DEF StreamRead
  <1>2. k \in Nat /\ Len(lines) - Len(left)' = k + 1
    BY <1>1 DEF StreamRead
  <1>3. Head(left) = lines[k + 1]
    BY <1>1 DEF StreamRead
  <1>4. Used = 1..k /\ Used' = Used \cup {k + 1}
    BY <1>2 DEF Used
  <1>5. \A n \in 1..Len(left)' : left'[n] = lines'[Len(lines') - Len(left)' + n]
    <2> TAKE n \in 1..Len(left)'
    <2>1. left'[n] = left[n + 1] /\ n + 1 \in 1..Len(left)
      BY <1>1
    <2>2. left[n + 1] = lines[Len(lines) - Len(left) + (n + 1)]
      BY <2>1 DEF StreamRead
    <2>3. Len(lines) - Len(left) + (n + 1) = Len(lines') - Len(left)' + n
      BY <1>1
    <2>4. QED BY <2>1, <2>2, <2>3
  <1>6. \A n \in Used' : lines'[n].kind # "bad"
    BY <1>3, <1>4 DEF StreamRead
  <1>7. spans' = UNION {lines'[n].spans : n \in Used'}
    <2>1. \A x : x \in spans <=> \E n \in Used : x \in lines[n].spans
      BY DEF StreamRead
    <2>2. \A x : x \in spans' <=> x \in spans \/ x \in lines[k + 1].spans
      BY <1>3
    <2>3. \A x : x \in spans' <=> \E n \in Used \cup {k + 1} : x \in lines[n].spans
      BY <2>1, <2>2
    <2>4. \A x : x \in spans' <=> \E n \in Used' : x \in lines'[n].spans
      BY <1>4, <2>3
    <2> DEFINE read == UNION {lines'[n].spans : n \in Used'}
    <2>5. \A x : x \in read <=> \E n \in Used' : x \in lines'[n].spans
      BY Zenon
    <2>6. \A x : x \in spans' <=> x \in read
      BY Zenon, <2>4, <2>5
    <2> HIDE DEF read
    <2>7. spans' = read
      BY <2>6
    <2>8. QED BY <2>7 DEF read
  <1>8. lines' \in Seq(StreamLines) /\ left' \in Seq(StreamLines) /\ Len(left') <= Len(lines')
    BY <1>1 DEF StreamRead
  <1>9. QED BY Zenon, <1>5, <1>6, <1>7, <1>8 DEF StreamRead

LEMMA BadLineKeeps ==
  ASSUME DecodingInv, Decoding!BadLine
  PROVE  DecodingInv'
  <1>1. /\ step = "decode" /\ left # <<>> /\ step' = "refused"
        /\ UNCHANGED <<lines, left, envelopes, spans, visited, trail, cursor>>
    BY DEF Decoding!BadLine, Decoding!Refuse
  <1>2. StreamRead' /\ WalkSound'
    BY <1>1 DEF DecodingInv, StreamRead, Used, WalkSound, Parents, Decoding!Ids,
                Decoding!ParentOf
  <1>3. QED BY <1>1, <1>2 DEF DecodingInv

\* While lines are decoded nothing was walked over.
LEMMA NothingWalked ==
  ASSUME visited = {}, trail = {} PROVE WalkSound
  BY DEF WalkSound

LEMMA BlankLineKeeps ==
  ASSUME Decoding!DecodingAssumption, DecodingInv, Decoding!BlankLine
  PROVE  DecodingInv'
  <1>1. /\ step = "decode" /\ left # <<>> /\ left' = Tail(left) /\ Head(left).kind = "blank"
        /\ UNCHANGED <<lines, step, envelopes, spans, visited, trail, cursor>>
    BY DEF Decoding!BlankLine
  <1>2. Head(left) \in StreamLines
    BY <1>1 DEF DecodingInv, StreamRead
  <1>3. Head(left).spans = {}
    BY <1>1, <1>2 DEF Decoding!DecodingAssumption
  <1>4. spans' = spans \cup Head(left).spans
    BY <1>1, <1>3
  <1>5. StreamRead'
    BY <1>1, <1>4, LineTaken DEF DecodingInv
  <1>6. visited' = {} /\ trail' = {}
    BY <1>1 DEF DecodingInv
  <1>7. WalkSound'
    BY <1>6 DEF WalkSound
  <1>8. QED BY <1>1, <1>5, <1>6, <1>7 DEF DecodingInv

LEMMA DecodeLineKeeps ==
  ASSUME DecodingInv, Decoding!DecodeLine
  PROVE  DecodingInv'
  <1>1. /\ step = "decode" /\ left # <<>> /\ Head(left).kind = "spans"
        /\ UNCHANGED <<lines, visited, trail, cursor>>
        /\ \/ step' = "refused" /\ UNCHANGED <<left, envelopes, spans>>
           \/ /\ spans' = spans \cup Head(left).spans /\ left' = Tail(left)
              /\ step' = step
    BY DEF Decoding!DecodeLine, Decoding!Refuse
  <1>2. visited' = {} /\ trail' = {}
    BY <1>1 DEF DecodingInv
  <1>3. WalkSound'
    BY <1>2 DEF WalkSound
  <1>4. CASE step' = "refused" /\ UNCHANGED <<left, envelopes, spans>>
    <2>1. StreamRead'
      BY <1>1, <1>4 DEF DecodingInv, StreamRead, Used
    <2>2. QED BY <1>1, <1>3, <1>4, <2>1 DEF DecodingInv
  <1>5. CASE /\ spans' = spans \cup Head(left).spans /\ left' = Tail(left)
             /\ step' = step
    <2>1. StreamRead'
      BY <1>1, <1>5, LineTaken DEF DecodingInv
    <2>2. QED BY <1>1, <1>2, <1>3, <1>5, <2>1 DEF DecodingInv
  <1>6. QED BY <1>1, <1>4, <1>5

LEMMA DecodedKeeps ==
  ASSUME DecodingInv, Decoding!Decoded
  PROVE  DecodingInv'
  <1>1. /\ step = "decode" /\ left = <<>>
        /\ step' = IF envelopes = 0 THEN "refused" ELSE "walk"
        /\ UNCHANGED <<lines, left, envelopes, spans, visited, trail, cursor>>
    BY DEF Decoding!Decoded
  <1>2. StreamRead' /\ WalkSound'
    BY <1>1 DEF DecodingInv, StreamRead, Used, WalkSound, Parents, Decoding!Ids,
                Decoding!ParentOf
  <1>3. QED BY <1>1, <1>2 DEF DecodingInv

\* While spans are walked over neither they nor the stream change.
LEMMA StreamRests ==
  ASSUME DecodingInv, UNCHANGED <<lines, left, spans>>
  PROVE  /\ StreamRead' /\ Decoding!Ids' = Decoding!Ids
         /\ \A i : Decoding!ParentOf(i)' = Decoding!ParentOf(i)
         /\ \A S : Parents(S)' = Parents(S)
  BY DEF DecodingInv, StreamRead, Used, Parents, Decoding!Ids, Decoding!ParentOf

LEMMA BeginWalkKeeps ==
  ASSUME DecodingInv, Decoding!BeginWalk
  PROVE  DecodingInv'
  <1>1. /\ step = "walk" /\ trail = {}
        /\ UNCHANGED <<lines, left, envelopes, spans, step, visited, trail>>
    BY DEF Decoding!BeginWalk, Decoding!Idle
  <1>2. WalkSound'
    BY <1>1, StreamRests DEF DecodingInv, WalkSound
  <1>3. QED BY <1>1, <1>2, StreamRests DEF DecodingInv

\* A walk that comes to its end, at a span that was visited or is not there.
LEMMA WalkEnds ==
  ASSUME DecodingInv, step = "walk", cursor \notin trail,
         cursor \in Decoding!Ids => cursor \in visited,
         visited' = visited \cup trail, trail' = {},
         UNCHANGED <<lines, left, envelopes, spans, step>>
  PROVE  DecodingInv'
  <1> DEFINE P(i) == Decoding!ParentOf(i)
             N == Decoding!Ids
  <1>1. WalkSound
    BY DEF DecodingInv
  <1>2. /\ visited' \subseteq N /\ trail' \subseteq N /\ visited' \cap trail' = {}
        /\ \A i \in trail' : P(i) \in trail' \cup {cursor'}
    BY <1>1 DEF WalkSound
  <1>3. \A i \in visited' : P(i) \in N => P(i) \in visited'
    BY <1>1 DEF WalkSound
  <1>4. ASSUME NEW S \in SUBSET visited', S # {}, Parents(S) \subseteq S
        PROVE  FALSE
    <2> DEFINE V == S \cap visited
               T == S \cap trail
    <2>1. \A i \in S : P(i) \in S
      BY <1>4 DEF Parents
    <2>2. S \subseteq N
      BY <1>1 DEF WalkSound
    <2>3. CASE V # {}
      <3>1. \A i \in V : P(i) \in V
        BY <1>1, <2>1, <2>2 DEF WalkSound
      <3>2. V \in SUBSET visited /\ Parents(V) \subseteq V
        BY <3>1 DEF Parents
      <3>3. QED BY <1>1, <2>3, <3>2 DEF WalkSound
    <2>4. CASE V = {}
      <3>1. S \in SUBSET trail
        BY <2>4
      <3>2. cursor \notin S
        BY <3>1
      <3>3. Parents(S) \subseteq S \ {cursor}
        BY <1>4, <3>2
      <3>4. QED BY <1>1, <1>4, <3>1, <3>3 DEF WalkSound
    <2>5. QED BY <2>3, <2>4
  <1>5. WalkSound'
    <2>1. \A S \in SUBSET visited' : S # {} => ~(Parents(S)' \subseteq S)
      BY <1>4, StreamRests
    <2>2. \A S \in SUBSET trail' : S # {} => ~(Parents(S)' \subseteq S \ {cursor'})
      OBVIOUS
    <2>3. QED BY <1>2, <1>3, <2>1, <2>2, StreamRests DEF WalkSound
  <1>6. QED BY <1>5, StreamRests DEF DecodingInv

LEMMA FollowKeeps ==
  ASSUME DecodingInv, Decoding!Follow
  PROVE  DecodingInv'
  <1> DEFINE P(i) == Decoding!ParentOf(i)
             N == Decoding!Ids
  <1>1. /\ step = "walk" /\ cursor \in N /\ WalkSound
        /\ UNCHANGED <<lines, left, envelopes, spans>>
    BY DEF Decoding!Follow, Decoding!OnWalk, DecodingInv
  <1>2. CASE cursor \in trail /\ step' = "refused" /\ UNCHANGED <<trail, cursor, visited>>
    <2>1. \A i \in trail : P(i) \in trail
      BY <1>1, <1>2 DEF WalkSound
    <2>2. trail \in SUBSET N /\ trail # {}
      BY <1>1, <1>2 DEF WalkSound
    <2>3. Decoding!Cyclic
      BY <2>1, <2>2 DEF Decoding!Cyclic
    <2>4. Decoding!Cyclic'
      BY <1>1, <2>3 DEF Decoding!Cyclic, Decoding!Ids, Decoding!ParentOf
    <2>5. WalkSound'
      BY <1>1, <1>2, StreamRests DEF WalkSound
    <2>6. QED BY <1>1, <1>2, <2>4, <2>5, StreamRests DEF DecodingInv
  <1>3. CASE /\ cursor \notin trail /\ cursor \in visited
             /\ visited' = visited \cup trail /\ trail' = {} /\ step' = step
    BY <1>1, <1>3, WalkEnds
  <1>4. CASE /\ cursor \notin trail /\ cursor \notin visited
             /\ trail' = trail \cup {cursor} /\ cursor' = P(cursor)
             /\ UNCHANGED <<step, visited>>
    <2>1. /\ visited' \subseteq N /\ trail' \subseteq N /\ visited' \cap trail' = {}
          /\ \A i \in visited' : P(i) \in N => P(i) \in visited'
      BY <1>1, <1>4 DEF WalkSound
    <2>2. \A i \in trail' : P(i) \in trail' \cup {cursor'}
      BY <1>1, <1>4 DEF WalkSound
    <2>3. \A S \in SUBSET visited' : S # {} => ~(Parents(S) \subseteq S)
      BY <1>1, <1>4 DEF WalkSound
    <2>4. ASSUME NEW S \in SUBSET trail', S # {}, Parents(S) \subseteq S \ {cursor'}
          PROVE  FALSE
      <3>1. \A i \in S : P(i) \in S /\ P(i) # cursor'
        BY <2>4 DEF Parents
      <3>2. cursor \notin S
        BY <1>4, <3>1
      <3>3. S \in SUBSET trail /\ Parents(S) \subseteq S \ {cursor}
        BY <1>4, <2>4, <3>2
      <3>4. QED BY <1>1, <2>4, <3>3 DEF WalkSound
    <2>5. WalkSound'
      <3>1. \A S \in SUBSET visited' : S # {} => ~(Parents(S)' \subseteq S)
        BY <1>1, <2>3, StreamRests
      <3>2. \A S \in SUBSET trail' : S # {} => ~(Parents(S)' \subseteq S \ {cursor'})
        BY <1>1, <2>4, StreamRests
      <3>3. QED BY <1>1, <2>1, <2>2, <3>1, <3>2, StreamRests DEF WalkSound
    <2>6. QED BY <1>1, <1>4, <2>5, StreamRests DEF DecodingInv
  <1>5. QED BY <1>2, <1>3, <1>4 DEF Decoding!Follow, Decoding!Met

LEMMA DecodingStep ==
  ASSUME Decoding!DecodingAssumption, DecodingInv, Decoding!Next
  PROVE  DecodingInv'
  <1>1. CASE Decoding!BadLine
    BY <1>1, BadLineKeeps
  <1>2. CASE Decoding!BlankLine
    BY <1>2, BlankLineKeeps
  <1>3. CASE Decoding!DecodeLine
    BY <1>3, DecodeLineKeeps
  <1>4. CASE Decoding!Decoded
    BY <1>4, DecodedKeeps
  <1>5. CASE Decoding!BeginWalk
    BY <1>5, BeginWalkKeeps
  <1>6. CASE Decoding!Follow
    BY <1>6, FollowKeeps
  <1>7. CASE Decoding!EndWalk
    <2>1. /\ step = "walk" /\ cursor \notin Decoding!Ids
          /\ visited' = visited \cup trail /\ trail' = {}
          /\ UNCHANGED <<lines, left, envelopes, spans, step>>
      BY <1>7 DEF Decoding!EndWalk, Decoding!OnWalk
    <2>2. cursor \notin trail
      BY <2>1 DEF DecodingInv, WalkSound
    <2>3. QED BY <2>1, <2>2, WalkEnds
  <1>8. CASE Decoding!Accept
    <2>1. /\ step = "walk" /\ step' = "accepted" /\ Decoding!Ids \subseteq visited
          /\ UNCHANGED <<lines, left, envelopes, spans, visited, trail, cursor>>
      BY <1>8 DEF Decoding!Accept
    <2>2. WalkSound'
      BY <2>1, StreamRests DEF DecodingInv, WalkSound
    <2>3. QED BY <2>1, <2>2, StreamRests DEF DecodingInv
  <1>9. QED BY <1>1, <1>2, <1>3, <1>4, <1>5, <1>6, <1>7, <1>8 DEF Decoding!Next

\* Elsewhere nothing of it changes.
LEMMA DecodingRests == ASSUME DecodingInv, UNCHANGED decodingVars PROVE DecodingInv'
  <1>1. UNCHANGED <<lines, left, envelopes, spans, step, visited, trail, cursor>>
    BY DEF decodingVars
  <1>2. WalkSound'
    BY <1>1, StreamRests DEF DecodingInv, WalkSound
  <1>3. Decoding!Cyclic => Decoding!Cyclic'
    BY <1>1, StreamRests DEF Decoding!Cyclic
  <1>4. QED BY <1>1, <1>2, <1>3, StreamRests DEF DecodingInv

\* What is accepted is the whole stream without a cycle, and with the whole stream
\* read only a cycle is refused.
LEMMA DecodingSound ==
  ASSUME DecodingInv
  PROVE  Decoding!AllOrError /\ Decoding!CyclesRefused
  <1>1. ASSUME left = <<>> PROVE Used = DOMAIN lines
    BY <1>1 DEF Used, DecodingInv, StreamRead
  <1>2. Decoding!AllOrError
    BY <1>1 DEF DecodingInv, StreamRead, Decoding!AllOrError
  <1>3. ASSUME step = "accepted" PROVE ~Decoding!Cyclic
    <2>1. /\ \A S \in SUBSET Decoding!Ids : S # {} => ~(Parents(S) \subseteq S)
      BY <1>3 DEF DecodingInv, WalkSound
    <2>2. QED BY <2>1 DEF Decoding!Cyclic, Parents
  <1>4. ASSUME step = "refused", left = <<>>, envelopes > 0 PROVE Decoding!Cyclic
    <2>1. envelopes # 0
      BY <1>4
    <2>2. QED BY <1>4, <2>1 DEF DecodingInv
  <1>5. QED BY <1>2, <1>3, <1>4 DEF Decoding!CyclesRefused

\* What holds of the collection and of the decoding, in every part.
LEMMA CollectionKept == SuiteSpec => [](LiveInv /\ DecodingInv)
  <1>1. Live!LiveAssumption /\ Decoding!DecodingAssumption
    BY InstancesAssumption
  <1>2. SuiteInit => LiveInv /\ DecodingInv
    BY <1>1, LiveBegins, DecodingBegins DEF SuiteInit
  <1>3. LiveInv /\ DecodingInv /\ [SuiteNext]_suiteVars => (LiveInv /\ DecodingInv)'
    <2> SUFFICES ASSUME LiveInv, DecodingInv, [SuiteNext]_suiteVars
                 PROVE  LiveInv' /\ DecodingInv'
      OBVIOUS
    <2>1. Live!Next \/ UNCHANGED liveVars
      BY Zenon DEF SuiteNext, suiteVars
    <2>2. Decoding!Next \/ UNCHANGED decodingVars
      BY Zenon DEF SuiteNext, suiteVars
    <2>3. QED BY <1>1, <2>1, <2>2, LiveStep, LiveRests, DecodingStep, DecodingRests
  <1>4. QED BY <1>2, <1>3, PTL DEF SuiteSpec

\* The traces of a collection are all that any of the services had in the interval,
\* both ends included, or said to be unavailable, however often its searches are cut
\* off at their limit and split, and whatever arrives meanwhile; its budgets are kept,
\* and with a given workload only a metric query fails it. A stream is decoded as a
\* whole or refused, and its spans are refused for a cycle exactly if there is one:
\* for any spans, services, interval, chunk, limits and streams.
THEOREM CollectionHonestHolds == SuiteSpec => []CollectionHonest
  <1>1. LiveInv /\ DecodingInv => CollectionHonest
    BY LiveSound, DecodingSound DEF CollectionHonest
  <1>2. QED BY <1>1, CollectionKept, PTL
=============================================================================
