--------------------------- MODULE ApplyOrderProofs ---------------------------
(***************************************************************************)
(* The sort puts any list of manifests in order, and neither loses nor     *)
(* doubles one; and the loops that select from a list keep its order.      *)
(***************************************************************************)
EXTENDS ApplyOrder, KubeObjectsProofs, FiniteSetTheorems

\* Two sets that a function relates one to one have the same size.
LEMMA SameSize ==
  ASSUME NEW S, IsFiniteSet(S), NEW U, NEW f \in [S -> U],
         \A i, k \in S : f[i] = f[k] => i = k,
         \A u \in U : \E i \in S : f[i] = u
  PROVE  IsFiniteSet(U) /\ Cardinality(U) = Cardinality(S)
<1>1. f \in Bijection(S, U)
  BY DEF Bijection, Injection, Surjection, IsInjective
<1>2. ExistsBijection(S, U)
  BY <1>1 DEF ExistsBijection
<1> QED
  BY <1>2, FS_Bijection

Rank(n, priority) == [i \in 1 .. n |-> Cardinality(NotAfter(i, priority))]

LEMMA RankType ==
  ASSUME NEW n \in Nat, NEW priority \in [1 .. n -> Nat]
  PROVE  Rank(n, priority) \in [1 .. n -> 1 .. n]
<1> SUFFICES ASSUME NEW i \in 1 .. n
             PROVE  Cardinality(NotAfter(i, priority)) \in 1 .. n
  BY DEF Rank
<1> DEFINE Before == NotAfter(i, priority)
<1>1. Before \in SUBSET (1 .. n) /\ i \in Before
  BY DEF NotAfter
<1> HIDE DEF Before
<1>2. IsFiniteSet(1 .. n) /\ Cardinality(1 .. n) = n
  BY FS_Interval
<1>3. IsFiniteSet(Before) /\ Cardinality(Before) =< n
  <2> DEFINE Whole == 1 .. n
  <2>1. Before \in SUBSET Whole /\ IsFiniteSet(Whole) /\ Cardinality(Whole) = n
    BY <1>1, <1>2
  <2> HIDE DEF Whole
  <2> QED
    BY <2>1, FS_Subset
<1>4. Cardinality(Before) \in Nat
  BY <1>3, FS_CardinalityType
<1>5. Cardinality(Before) # 0
  BY <1>1, <1>3, FS_EmptySet
<1>6. Cardinality(Before) \in 1 .. n
  BY <1>3, <1>4, <1>5
<1> QED
  BY <1>6 DEF Before

\* Of two positions the one that goes in front has the smaller rank.
LEMMA RankGrows ==
  ASSUME NEW n \in Nat, NEW priority \in [1 .. n -> Nat], NEW i \in 1 .. n, NEW k \in 1 .. n,
         i \in NotAfter(k, priority), i # k
  PROVE  Rank(n, priority)[i] < Rank(n, priority)[k]
<1> DEFINE A == NotAfter(i, priority)
           B == NotAfter(k, priority)
<1>1. A \in SUBSET B /\ k \in B /\ k \notin A /\ B \in SUBSET (1 .. n)
  BY DEF NotAfter
<1>2. A = NotAfter(i, priority) /\ B = NotAfter(k, priority)
  OBVIOUS
<1> HIDE DEF A, B
<1>0. IsFiniteSet(1 .. n)
  BY FS_Interval
<1>3. IsFiniteSet(B)
  BY <1>1, <1>0, FS_Subset
<1>4. Cardinality(A) =< Cardinality(B) /\ Cardinality(A) # Cardinality(B) /\ IsFiniteSet(A)
  BY <1>1, <1>3, FS_Subset
<1>5. Cardinality(A) \in Nat /\ Cardinality(B) \in Nat
  BY <1>3, <1>4, FS_CardinalityType
<1> QED
  BY <1>2, <1>4, <1>5 DEF Rank

LEMMA RankIsBijective ==
  ASSUME NEW n \in Nat, NEW priority \in [1 .. n -> Nat]
  PROVE  Rank(n, priority) \in Bijection(1 .. n, 1 .. n)
<1> DEFINE rank == Rank(n, priority)
<1>1. rank \in [1 .. n -> 1 .. n]
  BY RankType
<1>2. ASSUME NEW i \in 1 .. n, NEW k \in 1 .. n, i # k PROVE rank[i] # rank[k]
  <2>1. i \in NotAfter(k, priority) \/ k \in NotAfter(i, priority)
    BY <1>2 DEF NotAfter
  <2>2. rank[i] < rank[k] \/ rank[k] < rank[i]
    BY <2>1, <1>2, RankGrows
  <2>3. rank[i] \in 1 .. n /\ rank[k] \in 1 .. n
    BY <1>1
  <2> HIDE DEF rank
  <2> QED
    BY <2>2, <2>3
<1> HIDE DEF rank
<1>3. rank \in Injection(1 .. n, 1 .. n)
  BY <1>1, <1>2 DEF Injection, IsInjective
<1>4. IsFiniteSet(1 .. n)
  BY FS_Interval
<1>5. rank \in Surjection(1 .. n, 1 .. n)
  BY <1>3, <1>4, FS_Injection
<1>6. rank \in Bijection(1 .. n, 1 .. n)
  BY <1>3, <1>5 DEF Bijection
<1> QED
  BY <1>6 DEF rank

\* Any list is sorted into a list of the same manifests: a place and the position
\* its manifest came from determine each other, and a manifest of lower priority
\* number comes first.
LEMMA StableSortPermutes ==
  ASSUME NEW S, NEW objs \in Seq(S), NEW priority \in [DOMAIN objs -> Nat]
  PROVE  \E from \in Bijection(DOMAIN objs, DOMAIN objs) :
           /\ StableSort(objs, priority) = [place \in DOMAIN objs |-> objs[from[place]]]
           /\ \A p, q \in DOMAIN objs : p < q => priority[from[p]] =< priority[from[q]]
<1> DEFINE n == Len(objs)
           rank == Rank(n, priority)
           from == [place \in 1 .. n |-> Origin(place, priority)]
<1>1. DOMAIN objs = 1 .. n /\ n \in Nat /\ priority \in [1 .. n -> Nat]
  OBVIOUS
<1>2. rank \in Bijection(1 .. n, 1 .. n)
  BY <1>1, RankIsBijective
<1>3. ASSUME NEW place \in 1 .. n
      PROVE  from[place] \in 1 .. n /\ rank[from[place]] = place
  <2>1. \E i \in 1 .. n : rank[i] = place
    BY <1>2 DEF Bijection, Surjection
  <2>2. \A i \in 1 .. n : rank[i] = Cardinality(NotAfter(i, priority))
    BY DEF Rank
  <2> HIDE DEF rank
  <2>3. \E i \in DOMAIN priority : Cardinality(NotAfter(i, priority)) = place
    BY <2>1, <2>2, <1>1
  <2>4. /\ Origin(place, priority) \in DOMAIN priority
        /\ Cardinality(NotAfter(Origin(place, priority), priority)) = place
    BY <2>3 DEF Origin
  <2> QED
    BY <2>2, <2>4, <1>1
<1>4. \A i, k \in 1 .. n : rank[i] = rank[k] => i = k
  BY <1>2 DEF Bijection, Injection, IsInjective
<1>5. \A i \in 1 .. n : rank[i] \in 1 .. n
  BY <1>2 DEF Bijection, Injection
<1>6. \A i \in 1 .. n : from[rank[i]] = i
  <2> HIDE DEF rank, from
  <2> QED
    BY <1>3, <1>4, <1>5
<1>7. from \in Bijection(1 .. n, 1 .. n)
  <2>1. from \in [1 .. n -> 1 .. n]
    BY <1>3
  <2>2. \A p, q \in 1 .. n : from[p] = from[q] => p = q
    <3> HIDE DEF rank, from
    <3> QED
      BY <1>3
  <2>3. \A i \in 1 .. n : \E p \in 1 .. n : from[p] = i
    <3> HIDE DEF rank, from
    <3> QED
      BY <1>5, <1>6
  <2> HIDE DEF rank, from
  <2> QED
    BY <2>1, <2>2, <2>3 DEF Bijection, Injection, Surjection, IsInjective
<1>8. ASSUME NEW p \in 1 .. n, NEW q \in 1 .. n, p < q
      PROVE  priority[from[p]] =< priority[from[q]]
  <2> DEFINE i == from[p]
             k == from[q]
  <2>1. i \in 1 .. n /\ k \in 1 .. n /\ rank[i] = p /\ rank[k] = q
    BY <1>3
  <2> HIDE DEF i, k, from
  <2>2. CASE k \in NotAfter(i, priority) /\ i # k
    <3>1. rank[k] < rank[i]
      BY <2>1, <2>2, <1>1, RankGrows
    <3> HIDE DEF rank
    <3> QED
      BY <3>1, <2>1, <1>8
  <2>3. CASE i = k
    BY <2>1, <2>3, <1>1 DEF i, k
  <2>4. CASE k \notin NotAfter(i, priority)
    BY <2>1, <2>4, <1>1 DEF NotAfter, i, k
  <2> QED
    BY <2>2, <2>3, <2>4
<1>9. StableSort(objs, priority) = [place \in 1 .. n |-> objs[from[place]]]
  BY <1>1 DEF StableSort
<1> HIDE DEF rank, from, n
<1> QED
  BY <1>1, <1>7, <1>8, <1>9

LEMMA PriorityType ==
  ASSUME NEW obj
  PROVE  getUnstructuredPriority(obj) \in Nat
<1> DEFINE known == {p \in DOMAIN KindOrder : obj.gvk.kind \in KindOrder[p]}
<1>1. DOMAIN KindOrder \in SUBSET Nat /\ Len(KindOrder) + 1 \in Nat
  BY DEF KindOrder
<1>2. known \in SUBSET Nat
  BY <1>1
<1>3. known # {} => (CHOOSE p \in known : TRUE) \in known
  OBVIOUS
<1>4. getUnstructuredPriority(obj) = IF known = {} THEN Len(KindOrder) + 1
                                                   ELSE CHOOSE p \in known : TRUE
  BY DEF getUnstructuredPriority, priorityOther
<1> HIDE DEF known
<1> QED
  BY <1>1, <1>2, <1>3, <1>4

\* The sort before the output puts every list of manifests, of any length, in the
\* order of the kinds, and writes each manifest exactly as often as it was given
\* (SortForApply).
THEOREM SortForApplySorts ==
  ASSUME NEW objs \in Seq(Object)
  PROVE  LET sorted == SortForApply(objs)
         IN  /\ sorted \in Seq(Object) /\ Len(sorted) = Len(objs)
             /\ \E from \in Bijection(DOMAIN objs, DOMAIN objs) :
                  \A place \in DOMAIN objs : sorted[place] = objs[from[place]]
             /\ \A p, q \in DOMAIN sorted :
                  p < q => getUnstructuredPriority(sorted[p]) =< getUnstructuredPriority(sorted[q])
<1> DEFINE prio == [i \in DOMAIN objs |-> getUnstructuredPriority(objs[i])]
           sorted == SortForApply(objs)
<1>1. prio \in [DOMAIN objs -> Nat]
  BY PriorityType
<1>2. PICK from \in Bijection(DOMAIN objs, DOMAIN objs) :
        /\ StableSort(objs, prio) = [place \in DOMAIN objs |-> objs[from[place]]]
        /\ \A p, q \in DOMAIN objs : p < q => prio[from[p]] =< prio[from[q]]
  BY <1>1, StableSortPermutes
<1>3. \A place \in DOMAIN objs : from[place] \in DOMAIN objs
  BY <1>2 DEF Bijection, Injection
<1>4. sorted = [place \in DOMAIN objs |-> objs[from[place]]]
  BY <1>2 DEF SortForApply
<1>5. \A place \in DOMAIN objs :
        getUnstructuredPriority(objs[from[place]]) = prio[from[place]]
  BY <1>3
<1> HIDE DEF sorted, prio
<1>6. DOMAIN objs = 1 .. Len(objs) /\ Len(objs) \in Nat
  OBVIOUS
<1>7. sorted \in Seq(Object) /\ Len(sorted) = Len(objs) /\ DOMAIN sorted = DOMAIN objs
  BY <1>3, <1>4, <1>6
<1>8. \A place \in DOMAIN objs : sorted[place] = objs[from[place]]
  BY <1>4
<1>9. \A p, q \in DOMAIN sorted :
        p < q => getUnstructuredPriority(sorted[p]) =< getUnstructuredPriority(sorted[q])
  BY <1>2, <1>5, <1>7, <1>8
<1> QED
  BY <1>7, <1>8, <1>9 DEF sorted

\* The places of the kinds that a webhook depends on.
LEMMA WebhookPriorities ==
  ASSUME NEW obj
  PROVE  /\ IsKind(obj, ServiceGVK) => getUnstructuredPriority(obj) = 9
         /\ IsKind(obj, IssuerGVK) => getUnstructuredPriority(obj) = 10
         /\ IsKind(obj, CertificateGVK) => getUnstructuredPriority(obj) = 11
         /\ IsWebhookConfiguration(obj) => getUnstructuredPriority(obj) = 12
<1> DEFINE known == {p \in DOMAIN KindOrder : obj.gvk.kind \in KindOrder[p]}
<1>1. DOMAIN KindOrder = 1 .. 12
  BY DEF KindOrder
<1>2. ASSUME NEW k \in 1 .. 12, known = {k}
      PROVE  getUnstructuredPriority(obj) = k
  <2>1. (CHOOSE p \in known : TRUE) \in known
    BY <1>2, Zenon
  <2>2. getUnstructuredPriority(obj) = CHOOSE p \in known : TRUE
    BY <1>2 DEF getUnstructuredPriority
  <2> HIDE DEF known
  <2> QED
    BY <1>2, <2>1, <2>2
<1>3. ASSUME obj.gvk.kind = "Service" PROVE known = {9}
  BY <1>1, <1>3 DEF KindOrder
<1>4. ASSUME obj.gvk.kind = "Issuer" PROVE known = {10}
  BY <1>1, <1>4 DEF KindOrder
<1>5. ASSUME obj.gvk.kind = "Certificate" PROVE known = {11}
  BY <1>1, <1>5 DEF KindOrder
<1>6. ASSUME obj.gvk.kind \in {"ValidatingWebhookConfiguration", "MutatingWebhookConfiguration"}
      PROVE  known = {12}
  BY <1>1, <1>6 DEF KindOrder
<1> HIDE DEF known
<1>7. /\ IsKind(obj, ServiceGVK) => obj.gvk.kind = "Service"
      /\ IsKind(obj, IssuerGVK) => obj.gvk.kind = "Issuer"
      /\ IsKind(obj, CertificateGVK) => obj.gvk.kind = "Certificate"
      /\ IsWebhookConfiguration(obj) =>
           obj.gvk.kind \in {"ValidatingWebhookConfiguration", "MutatingWebhookConfiguration"}
  BY KindFields DEF IsKind, IsWebhookConfiguration
<1> QED
  BY <1>2, <1>3, <1>4, <1>5, <1>6, <1>7

\* A manifest of lower priority number than a sorted one stands in front of it.
LEMMA SortedBefore ==
  ASSUME NEW objs \in Seq(Object), NEW j \in DOMAIN objs, NEW w \in DOMAIN SortForApply(objs),
         getUnstructuredPriority(objs[j]) < getUnstructuredPriority(SortForApply(objs)[w])
  PROVE  \E q \in 1 .. w - 1 : SortForApply(objs)[q] = objs[j]
<1> DEFINE sorted == SortForApply(objs)
<1>1. /\ sorted \in Seq(Object) /\ Len(sorted) = Len(objs)
      /\ \E from \in Bijection(DOMAIN objs, DOMAIN objs) :
           \A place \in DOMAIN objs : sorted[place] = objs[from[place]]
      /\ \A p, q \in DOMAIN sorted :
           p < q => getUnstructuredPriority(sorted[p]) =< getUnstructuredPriority(sorted[q])
  BY SortForApplySorts
<1>2. PICK from \in Bijection(DOMAIN objs, DOMAIN objs) :
        \A place \in DOMAIN objs : sorted[place] = objs[from[place]]
  BY <1>1
<1>3. PICK q \in DOMAIN objs : from[q] = j
  BY <1>2 DEF Bijection, Surjection
<1>4. sorted[q] = objs[j]
  BY <1>2, <1>3
<1> HIDE DEF sorted
<1>5. DOMAIN sorted = DOMAIN objs /\ DOMAIN objs \in SUBSET Nat /\ DOMAIN sorted = 1 .. Len(objs)
  BY <1>1
<1>6. w \in DOMAIN sorted /\ getUnstructuredPriority(sorted[q]) < getUnstructuredPriority(sorted[w])
  BY <1>4 DEF sorted
<1>7. getUnstructuredPriority(sorted[q]) \in Nat /\ getUnstructuredPriority(sorted[w]) \in Nat
  BY PriorityType
<1>8. q # w /\ ~(w < q)
  BY <1>1, <1>5, <1>6, <1>7
<1>9. q \in 1 .. w - 1
  BY <1>5, <1>6, <1>8
<1> QED
  BY <1>4, <1>9 DEF sorted

-----------------------------------------------------------------------------
(* Selecting from a list.                                                    *)

\* Nth enumerates a set of positions upwards.
LEMMA NthEnumerates ==
  ASSUME NEW m \in Nat, NEW S, \A i \in S : i \in 1 .. m
  PROVE  /\ IsFiniteSet(S) /\ Cardinality(S) \in Nat /\ Cardinality(S) =< m
         /\ \A n \in 1 .. Cardinality(S) : Nth(S, n) \in S
         /\ \A i \in S : \E n \in 1 .. Cardinality(S) : Nth(S, n) = i
         /\ \A n, k \in 1 .. Cardinality(S) : n < k => Nth(S, n) < Nth(S, k)
<1> DEFINE c == Cardinality(S)
           upTo(i) == {j \in S : j =< i}
           rank == [i \in S |-> Cardinality(upTo(i))]
<1>0. \A i \in S : i \in Nat
  OBVIOUS
<1>1. IsFiniteSet(1 .. m) /\ Cardinality(1 .. m) = m
  BY FS_Interval
<1>2. IsFiniteSet(S) /\ c \in Nat /\ c =< m
  <2>1. S \in SUBSET (1 .. m)
    OBVIOUS
  <2>2. IsFiniteSet(S) /\ c =< Cardinality(1 .. m)
    BY <2>1, <1>1, FS_Subset, Zenon
  <2> QED
    BY <2>2, <1>1, FS_CardinalityType
<1>3. ASSUME NEW i \in S
      PROVE  IsFiniteSet(upTo(i)) /\ Cardinality(upTo(i)) \in 1 .. c
  <2>1. upTo(i) \in SUBSET S /\ i \in upTo(i)
    OBVIOUS
  <2> HIDE DEF upTo
  <2>2. IsFiniteSet(upTo(i)) /\ Cardinality(upTo(i)) =< c
    BY <2>1, <1>2, FS_Subset
  <2>3. Cardinality(upTo(i)) \in Nat /\ Cardinality(upTo(i)) # 0
    BY <2>1, <2>2, FS_CardinalityType, FS_EmptySet
  <2> QED
    BY <1>2, <2>2, <2>3
<1>4. ASSUME NEW i \in S, NEW k \in S, i < k
      PROVE  rank[i] < rank[k]
  <2>1. upTo(i) \in SUBSET upTo(k) /\ k \in upTo(k) /\ k \notin upTo(i)
    BY <1>0, <1>4
  <2>2. rank[i] = Cardinality(upTo(i)) /\ rank[k] = Cardinality(upTo(k))
    OBVIOUS
  <2>3. IsFiniteSet(upTo(k)) /\ Cardinality(upTo(k)) \in 1 .. c /\ Cardinality(upTo(i)) \in 1 .. c
    BY <1>3
  <2> HIDE DEF upTo, rank
  <2>4. Cardinality(upTo(i)) =< Cardinality(upTo(k)) /\ Cardinality(upTo(i)) # Cardinality(upTo(k))
    BY <2>1, <2>3, FS_Subset
  <2> QED
    BY <1>2, <2>2, <2>3, <2>4
<1>5. rank \in [S -> 1 .. c]
  BY <1>3
<1>6. ASSUME NEW n \in 1 .. c
      PROVE  \E i \in S : rank[i] = n
  <2> HIDE DEF rank
  <2>1. rank \in Injection(S, 1 .. c)
    <3>1. ASSUME NEW i \in S, NEW k \in S, rank[i] = rank[k] PROVE i = k
      <4>1. rank[i] \in Nat /\ i \in Nat /\ k \in Nat
        BY <1>5, <1>2
      <4> QED
        BY <1>4, <3>1, <4>1
    <3> QED
      BY <1>5, <3>1 DEF Injection, IsInjective
  <2>2. IsFiniteSet(1 .. c) /\ Cardinality(1 .. c) = c
    BY <1>2, FS_Interval
  <2>3. rank \in Surjection(S, 1 .. c)
    BY <1>2, <2>1, <2>2, FS_Injection
  <2> QED
    BY <2>3 DEF Surjection
<1>7. ASSUME NEW n \in 1 .. c
      PROVE  Nth(S, n) \in S /\ rank[Nth(S, n)] = n
  <2>1. \A i \in S : rank[i] = Cardinality({j \in S : j =< i})
    OBVIOUS
  <2> HIDE DEF rank
  <2>2. \E i \in S : Cardinality({j \in S : j =< i}) = n
    BY <1>6, <2>1
  <2>3. Nth(S, n) \in S /\ Cardinality({j \in S : j =< Nth(S, n)}) = n
    BY <2>2 DEF Nth
  <2> QED
    BY <2>1, <2>3
<1> HIDE DEF rank
<1>8. ASSUME NEW i \in S
      PROVE  \E n \in 1 .. c : Nth(S, n) = i
  <2>1. rank[i] \in 1 .. c
    BY <1>5
  <2>2. Nth(S, rank[i]) \in S /\ rank[Nth(S, rank[i])] = rank[i]
    BY <2>1, <1>7
  <2>3. Nth(S, rank[i]) \in Nat /\ i \in Nat /\ rank[i] \in Nat
    BY <2>1, <2>2, <1>0
  <2>4. Nth(S, rank[i]) = i
    BY <2>2, <2>3, <1>4
  <2> QED
    BY <2>1, <2>4
<1>9. ASSUME NEW n \in 1 .. c, NEW k \in 1 .. c, n < k
      PROVE  Nth(S, n) < Nth(S, k)
  <2> HIDE DEF c
  <2>1. Nth(S, n) \in S /\ rank[Nth(S, n)] = n /\ Nth(S, k) \in S /\ rank[Nth(S, k)] = k
    BY <1>7
  <2>2. n \in Nat /\ k \in Nat /\ Nth(S, n) \in Nat /\ Nth(S, k) \in Nat
    BY <1>0, <1>2, <2>1
  <2>3. CASE Nth(S, k) < Nth(S, n)
    BY <2>1, <2>2, <2>3, <1>4, <1>9
  <2>4. CASE Nth(S, k) = Nth(S, n)
    BY <2>1, <2>2, <2>4, <1>9
  <2> QED
    BY <2>2, <2>3, <2>4
<1> QED
  BY <1>2, <1>7, <1>8, <1>9

\* The n-th position has n positions up to it, and is the only one.
LEMMA NthCounts ==
  ASSUME NEW m \in Nat, NEW S, \A i \in S : i \in 1 .. m
  PROVE  /\ \A n \in 1 .. Cardinality(S) : Cardinality({j \in S : j =< Nth(S, n)}) = n
         /\ \A i \in S : \A n \in 1 .. Cardinality(S) :
              Cardinality({j \in S : j =< i}) = n => Nth(S, n) = i
<1> DEFINE c == Cardinality(S)
<1>1. /\ c \in Nat
      /\ \A n \in 1 .. c : Nth(S, n) \in S
      /\ \A i \in S : \E n \in 1 .. c : Nth(S, n) = i
      /\ \A n, k \in 1 .. c : n < k => Nth(S, n) < Nth(S, k)
  BY NthEnumerates
<1>2. \A i \in S : i \in Nat
  OBVIOUS
<1> HIDE DEF c
<1>3. ASSUME NEW n \in 1 .. c
      PROVE  Cardinality({j \in S : j =< Nth(S, n)}) = n
  <2> DEFINE U == {j \in S : j =< Nth(S, n)}
             f == [k \in 1 .. n |-> Nth(S, k)]
  <2>1. n \in Nat /\ \A k \in 1 .. n : k \in 1 .. c
    BY <1>1
  <2>2. ASSUME NEW k \in 1 .. n PROVE Nth(S, k) \in U
    <3>1. k \in 1 .. c /\ (k < n \/ k = n)
      BY <2>1
    <3> QED
      BY <1>1, <1>2, <3>1
  <2>3. ASSUME NEW i \in U PROVE \E k \in 1 .. n : f[k] = i
    <3>1. PICK k \in 1 .. c : Nth(S, k) = i
      BY <1>1
    <3>2. ~(n < k)
      BY <1>1, <1>2, <3>1
    <3> QED
      BY <1>1, <2>1, <3>1, <3>2
  <2>4. ASSUME NEW k \in 1 .. n, NEW l \in 1 .. n, f[k] = f[l] PROVE k = l
    <3>1. k \in 1 .. c /\ l \in 1 .. c /\ Nth(S, k) = Nth(S, l) /\ Nth(S, k) \in Nat
      BY <1>1, <1>2, <2>1, <2>4
    <3>2. ~(k < l) /\ ~(l < k)
      BY <1>1, <1>2, <3>1
    <3> QED
      BY <2>1, <3>2
  <2>5. f \in [1 .. n -> U]
    BY <2>2
  <2>6. IsFiniteSet(1 .. n) /\ Cardinality(1 .. n) = n
    BY <2>1, FS_Interval
  <2> HIDE DEF f, U
  <2>7. Cardinality(U) = n
    BY <2>3, <2>4, <2>5, <2>6, SameSize
  <2> QED
    BY <2>7 DEF U
<1>4. ASSUME NEW i \in S, NEW n \in 1 .. c, Cardinality({j \in S : j =< i}) = n
      PROVE  Nth(S, n) = i
  <2>1. PICK k \in 1 .. c : Nth(S, k) = i
    BY <1>1
  <2>2. Cardinality({j \in S : j =< i}) = k
    BY <1>3, <2>1
  <2> QED
    BY <1>4, <2>1, <2>2
<1> QED
  BY <1>3, <1>4 DEF c

\* Selecting in two steps is selecting in one.
LEMMA NthOfNth ==
  ASSUME NEW m \in Nat, NEW S, \A i \in S : i \in 1 .. m, NEW Q, Q \subseteq S, NEW R,
         \A j : j \in R <=> j \in 1 .. Cardinality(S) /\ Nth(S, j) \in Q
  PROVE  /\ Cardinality(R) = Cardinality(Q)
         /\ \A n \in 1 .. Cardinality(Q) : /\ Nth(R, n) \in 1 .. Cardinality(S)
                                           /\ Nth(S, Nth(R, n)) = Nth(Q, n)
<1> DEFINE c == Cardinality(S)
<1>0. \A j : j \in R <=> j \in 1 .. c /\ Nth(S, j) \in Q
  OBVIOUS
<1>1. /\ c \in Nat
      /\ \A n \in 1 .. c : Nth(S, n) \in S
      /\ \A i \in S : \E n \in 1 .. c : Nth(S, n) = i
      /\ \A n, k \in 1 .. c : n < k => Nth(S, n) < Nth(S, k)
  BY NthEnumerates
<1>2. /\ \A i \in S : i \in Nat
      /\ \A i \in Q : i \in 1 .. m
      /\ \A j \in R : j \in 1 .. c
  OBVIOUS
<1>3. \A k, l \in 1 .. c : Nth(S, k) =< Nth(S, l) <=> k =< l
  BY <1>1, <1>2
<1> HIDE DEF c
<1>4. ASSUME NEW l \in R
      PROVE  /\ IsFiniteSet({j \in R : j =< l})
             /\ Cardinality({i \in Q : i =< Nth(S, l)}) = Cardinality({j \in R : j =< l})
  <2> DEFINE A == {j \in R : j =< l}
             B == {i \in Q : i =< Nth(S, l)}
             f == [j \in A |-> Nth(S, j)]
  <2>1. IsFiniteSet(A)
    BY <1>1, <1>2, NthEnumerates
  <2>2. f \in [A -> B]
    BY <1>2, <1>3
  <2>3. ASSUME NEW j \in A, NEW k \in A, f[j] = f[k] PROVE j = k
    <3>1. j \in 1 .. c /\ k \in 1 .. c /\ Nth(S, j) = Nth(S, k) /\ Nth(S, j) \in Nat
      BY <1>1, <1>2, <2>3
    <3>2. j =< k /\ k =< j
      BY <1>3, <3>1
    <3> QED
      BY <1>1, <3>1, <3>2
  <2>4. ASSUME NEW i \in B PROVE \E j \in A : f[j] = i
    <3>1. PICK j \in 1 .. c : Nth(S, j) = i
      BY <1>1
    <3>2. j \in A
      BY <1>0, <1>2, <1>3, <3>1
    <3> QED
      BY <3>1, <3>2
  <2> HIDE DEF A, B, f
  <2>5. Cardinality(B) = Cardinality(A)
    BY <2>1, <2>2, <2>3, <2>4, SameSize
  <2> QED
    BY <2>1, <2>5 DEF A, B
<1>5. Cardinality(R) = Cardinality(Q)
  <2> DEFINE f == [j \in R |-> Nth(S, j)]
  <2>1. IsFiniteSet(R)
    BY <1>1, <1>2, NthEnumerates
  <2>2. f \in [R -> Q]
    OBVIOUS
  <2>3. ASSUME NEW j \in R, NEW k \in R, f[j] = f[k] PROVE j = k
    <3>1. j \in 1 .. c /\ k \in 1 .. c /\ Nth(S, j) = Nth(S, k) /\ Nth(S, j) \in Nat
      BY <1>1, <1>2, <2>3
    <3>2. j =< k /\ k =< j
      BY <1>3, <3>1
    <3> QED
      BY <1>1, <3>1, <3>2
  <2>4. ASSUME NEW i \in Q PROVE \E j \in R : f[j] = i
    <3>1. PICK j \in 1 .. c : Nth(S, j) = i
      BY <1>1
    <3> QED
      BY <1>0, <3>1
  <2> HIDE DEF f
  <2> QED
    BY <2>1, <2>2, <2>3, <2>4, SameSize
<1>6. ASSUME NEW n \in 1 .. Cardinality(Q)
      PROVE  Nth(R, n) \in 1 .. c /\ Nth(S, Nth(R, n)) = Nth(Q, n)
  <2>1. Nth(R, n) \in R /\ Cardinality({j \in R : j =< Nth(R, n)}) = n
    <3>1. n \in 1 .. Cardinality(R)
      BY <1>5, <1>6
    <3> QED
      BY <1>1, <1>2, <3>1, NthEnumerates, NthCounts
  <2>2. Cardinality({i \in Q : i =< Nth(S, Nth(R, n))}) = n /\ Nth(S, Nth(R, n)) \in Q
    BY <1>4, <2>1
  <2>3. Nth(Q, n) = Nth(S, Nth(R, n))
    <3> QED
      BY <1>2, <2>2, NthCounts
  <2> QED
    BY <1>0, <2>1, <2>3
<1> QED
  BY <1>5, <1>6 DEF c

\* What a selection holds, and how long it is.
LEMMA ChosenElements ==
  ASSUME NEW T, NEW list \in Seq(T), NEW S, \A i \in S : i \in DOMAIN list
  PROVE  /\ Chosen(list, S) \in Seq(T)
         /\ Len(Chosen(list, S)) = Cardinality(S)
         /\ IsFiniteSet(S) /\ Cardinality(S) \in Nat /\ Cardinality(S) =< Len(list)
         /\ \A i \in S : \E n \in DOMAIN Chosen(list, S) : Chosen(list, S)[n] = list[i]
         /\ \A n \in DOMAIN Chosen(list, S) : \E i \in S : Chosen(list, S)[n] = list[i]
<1>1. Len(list) \in Nat /\ DOMAIN list = 1 .. Len(list)
  OBVIOUS
<1>2. /\ IsFiniteSet(S) /\ Cardinality(S) \in Nat /\ Cardinality(S) =< Len(list)
      /\ \A n \in 1 .. Cardinality(S) : Nth(S, n) \in S
      /\ \A i \in S : \E n \in 1 .. Cardinality(S) : Nth(S, n) = i
  BY <1>1, NthEnumerates
<1>3. Chosen(list, S) = [n \in 1 .. Cardinality(S) |-> list[Nth(S, n)]]
  BY DEF Chosen
<1> QED
  BY <1>1, <1>2, <1>3
=============================================================================
