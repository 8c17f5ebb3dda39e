---------------------------- MODULE IssuesProofs ----------------------------
(***************************************************************************)
(* The report of a scan says of every kind what the finding rows of that   *)
(* kind say, in whatever order they are read and however often each is     *)
(* there: so nothing that an engine found is lost, and rows that a second  *)
(* delivery adds again change no issue.                                    *)
(*                                                                         *)
(* Sorting and the loops over findings are reasoned about by the least     *)
(* index at which something fails.                                         *)
(***************************************************************************)
EXTENDS Issues, FiniteSetTheorems, WellFoundedInduction, SequenceTheorems, TLAPS

(* Orders of indices.                                                       *)

\* A set of natural numbers that is not empty has a least one.
LEMMA Least ==
    ASSUME NEW T \in SUBSET Nat, T # {}
    PROVE  Min(T) \in T /\ \A y \in T : Min(T) <= y
<1> DEFINE below(n) == 0 .. n
           segments == {below(n) : n \in T}
           smaller == StrictSubsetOrdering(Nat)
<1>1. IsWellFoundedOn(smaller, FiniteSubsetsOf(Nat))
  BY FS_StrictSubsetOrderingWellFounded
<1>2. \A n \in Nat : below(n) \subseteq Nat /\ below(n) \in FiniteSubsetsOf(Nat)
  BY FS_Interval DEF FiniteSubsetsOf
<1>3. segments \subseteq FiniteSubsetsOf(Nat) /\ segments # {}
  BY <1>2
<1>4. PICK s \in segments : \A t \in segments : ~ (<<t, s>> \in smaller)
  BY <1>1, <1>3, WFMin
<1>5. PICK x \in T : s = below(x)
  OBVIOUS
<1>6. ASSUME NEW y \in T, y < x PROVE FALSE
  <2>1. below(y) \subseteq below(x) /\ x \in below(x) /\ x \notin below(y)
    BY <1>6
  <2>2. <<below(y), below(x)>> \in smaller
    BY <1>2, <2>1 DEF StrictSubsetOrdering
  <2> QED
    BY <1>4, <1>5, <2>2
<1>7. \E z \in T : \A y \in T : z <= y
  BY <1>6
<1> QED
  BY <1>7 DEF Min

\* A sequence and its elements.
LEMMA SequenceIs ==
    ASSUME NEW S, NEW seq \in Seq(S)
    PROVE  /\ Len(seq) \in Nat
           /\ DOMAIN seq = 1 .. Len(seq)
           /\ \A i \in 1 .. Len(seq) : seq[i] \in S /\ seq[i] \in ToSet(seq)
           /\ \A x \in ToSet(seq) : x \in S /\ \E i \in 1 .. Len(seq) : seq[i] = x
           /\ seq # << >> => 1 \in 1 .. Len(seq)
<1>1. Len(seq) \in Nat /\ DOMAIN seq = 1 .. Len(seq)
  BY LenProperties
<1>2. \A i \in 1 .. Len(seq) : seq[i] \in S
  BY ElementOfSeq
<1>3. seq # << >> => 1 \in 1 .. Len(seq)
  BY <1>1, EmptySeq
<1>4. \A x : x \in ToSet(seq) <=> \E i \in 1 .. Len(seq) : seq[i] = x
  BY <1>1 DEF ToSet
<1> QED
  BY <1>1, <1>2, <1>3, <1>4

\* A function on 1 .. n is a sequence.
LEMMA FunctionIs ==
    ASSUME NEW S, NEW n \in Nat, NEW f, f = [i \in 1 .. n |-> f[i]],
           \A i \in 1 .. n : f[i] \in S
    PROVE  f \in Seq(S) /\ Len(f) = n /\ DOMAIN f = 1 .. n
OBVIOUS

\* The pairs in before order I.
Orders(before, I) ==
    /\ \A i \in I : <<i, i>> \notin before
    /\ \A i, j \in I : i # j => <<i, j>> \in before \/ <<j, i>> \in before
    /\ \A i, j, k \in I : <<i, j>> \in before /\ <<j, k>> \in before => <<i, k>> \in before

\* An element comes after as many others as are before it.
LEMMA InOrderIs ==
    ASSUME NEW I, IsFiniteSet(I), NEW before, Orders(before, I)
    PROVE  LET at == InOrder(I, before)
               n == Cardinality(I)
               rank(i) == Cardinality({j \in I : <<j, i>> \in before})
           IN /\ n \in Nat
              /\ at \in [1 .. n -> I]
              /\ \A i \in I : rank(i) + 1 \in 1 .. n /\ at[rank(i) + 1] = i
              /\ \A j, k \in 1 .. n : j < k => <<at[j], at[k]>> \in before
<1> DEFINE at == InOrder(I, before)
           n == Cardinality(I)
           below(i) == {j \in I : <<j, i>> \in before}
           rank == [i \in I |-> Cardinality(below(i))]
<1>1. n \in Nat
  BY FS_CardinalityType
<1>2. \A i \in I : IsFiniteSet(below(i)) /\ Cardinality(below(i)) \in Nat
                   /\ Cardinality(below(i)) <= n /\ Cardinality(below(i)) # n
  <2> SUFFICES ASSUME NEW i \in I
               PROVE  IsFiniteSet(below(i)) /\ Cardinality(below(i)) \in Nat
                      /\ Cardinality(below(i)) <= n /\ Cardinality(below(i)) # n
    OBVIOUS
  <2>1. below(i) \in SUBSET I /\ below(i) # I
    BY DEF Orders
  <2>2. IsFiniteSet(below(i)) /\ Cardinality(below(i)) <= n /\ Cardinality(below(i)) # n
    BY <2>1, FS_Subset
  <2> QED
    BY <2>2, FS_CardinalityType
<1>3. \A i, j \in I : <<i, j>> \in before => rank[i] < rank[j]
  <2> SUFFICES ASSUME NEW i \in I, NEW j \in I, <<i, j>> \in before
               PROVE  rank[i] < rank[j]
    OBVIOUS
  <2>1. below(i) \in SUBSET below(j)
    BY DEF Orders
  <2>2. i \in below(j) /\ i \notin below(i)
    BY DEF Orders
  <2>3. Cardinality(below(i)) <= Cardinality(below(j))
        /\ Cardinality(below(i)) # Cardinality(below(j))
    BY <1>2, <2>1, <2>2, FS_Subset
  <2> QED
    BY <1>2, <2>3
<1>4. rank \in Injection(I, 0 .. n - 1)
  <2>1. rank \in [I -> 0 .. n - 1]
    BY <1>1, <1>2
  <2>2. \A i \in I : rank[i] \in Nat
    BY <1>2
  <2> HIDE DEF rank
  <2>3. \A i, j \in I : rank[i] = rank[j] => i = j
    <3> SUFFICES ASSUME NEW i \in I, NEW j \in I, i # j
                 PROVE  rank[i] # rank[j]
      OBVIOUS
    <3>1. rank[i] < rank[j] \/ rank[j] < rank[i]
      BY <1>3 DEF Orders
    <3>2. rank[i] \in Nat /\ rank[j] \in Nat
      BY <2>2
    <3> QED
      BY <3>1, <3>2
  <2> QED
    BY <2>1, <2>3 DEF Injection, IsInjective
<1>5. IsFiniteSet(0 .. n - 1) /\ Cardinality(0 .. n - 1) = n
  <2> DEFINE m == n - 1
  <2>1. m \in Int /\ 0 \in Int /\ n = m + 1 /\ (0 > m => n = 0)
    BY <1>1
  <2> HIDE DEF m, n
  <2>2. IsFiniteSet(0 .. m) /\ Cardinality(0 .. m) = IF 0 > m THEN 0 ELSE m - 0 + 1
    BY <2>1, FS_Interval
  <2>3. Cardinality(0 .. m) = n
    BY <2>1, <2>2
  <2> QED
    BY <2>2, <2>3 DEF m
<1>6. rank \in Surjection(I, 0 .. n - 1)
  <2> DEFINE T == 0 .. n - 1
  <2>1. rank \in Injection(I, T) /\ IsFiniteSet(T) /\ Cardinality(I) = Cardinality(T)
    BY <1>4, <1>5
  <2> HIDE DEF rank, T
  <2>2. rank \in Surjection(I, T)
    BY <2>1, FS_Injection
  <2> QED
    BY <2>2 DEF T
<1>7. \A k \in 1 .. n : \E i \in I : rank[i] = k - 1
  <2> SUFFICES ASSUME NEW k \in 1 .. n
               PROVE  \E i \in I : rank[i] = k - 1
    OBVIOUS
  <2>1. k - 1 \in 0 .. n - 1
    BY <1>1
  <2>2. \A t \in 0 .. n - 1 : \E i \in I : rank[i] = t
    <3> HIDE DEF rank, n
    <3> QED
      BY <1>6 DEF Surjection
  <2> QED
    BY <2>1, <2>2
<1>8. \A i, j \in I : rank[i] = rank[j] => i = j
  BY <1>4 DEF Injection, IsInjective
<1>9. \A k \in 1 .. n : at[k] \in I /\ rank[at[k]] = k - 1
  <2> SUFFICES ASSUME NEW k \in 1 .. n
               PROVE  at[k] \in I /\ rank[at[k]] = k - 1
    OBVIOUS
  <2>1. at[k] = CHOOSE i \in I : Cardinality(below(i)) = k - 1
    BY DEF InOrder
  <2>2. \E i \in I : Cardinality(below(i)) = k - 1
    BY <1>7
  <2> QED
    BY <2>1, <2>2
<1>10. at \in [1 .. n -> I]
  BY <1>9 DEF InOrder
<1>11. \A i \in I : rank[i] + 1 \in 1 .. n /\ at[rank[i] + 1] = i
  <2> SUFFICES ASSUME NEW i \in I
               PROVE  rank[i] + 1 \in 1 .. n /\ at[rank[i] + 1] = i
    OBVIOUS
  <2>1. rank[i] \in 0 .. n - 1
    BY <1>4 DEF Injection
  <2>2. rank[i] + 1 \in 1 .. n /\ (rank[i] + 1) - 1 = rank[i]
    BY <1>1, <2>1
  <2>3. rank[at[rank[i] + 1]] = rank[i] /\ at[rank[i] + 1] \in I
    BY <1>9, <2>2
  <2> QED
    BY <1>8, <2>2, <2>3
<1>12. \A j, k \in 1 .. n : j < k => <<at[j], at[k]>> \in before
  <2> SUFFICES ASSUME NEW j \in 1 .. n, NEW k \in 1 .. n, j < k
               PROVE  <<at[j], at[k]>> \in before
    OBVIOUS
  <2>1. rank[at[j]] = j - 1 /\ rank[at[k]] = k - 1 /\ at[j] \in I /\ at[k] \in I
    BY <1>9
  <2>2. rank[at[j]] < rank[at[k]]
    BY <1>1, <2>1
  <2>3. at[j] # at[k] /\ ~ (rank[at[k]] < rank[at[j]])
    BY <1>1, <2>1, <2>2
  <2> QED
    BY <1>3, <2>1, <2>3 DEF Orders
<1> QED
  BY <1>1, <1>10, <1>11, <1>12

\* What Only leaves out changes neither the order nor the number of what it keeps.
LEMMA OnlyIs ==
    ASSUME NEW S, NEW seq \in Seq(S), NEW I \in SUBSET (1 .. Len(seq))
    PROVE  /\ Cardinality(I) \in Nat
           /\ Only(seq, I) \in Seq(S)
           /\ Len(Only(seq, I)) = Cardinality(I)
           /\ \E at \in [1 .. Cardinality(I) -> I] :
                /\ \A k \in 1 .. Cardinality(I) : Only(seq, I)[k] = seq[at[k]]
                /\ \A i \in I : \E k \in 1 .. Cardinality(I) : at[k] = i
                /\ \A j, k \in 1 .. Cardinality(I) : j < k => at[j] < at[k]
<1> DEFINE before == {p \in I \X I : p[1] < p[2]}
           at == InOrder(I, before)
           n == Cardinality(I)
           rank(i) == Cardinality({j \in I : <<j, i>> \in before})
<1>1. Len(seq) \in Nat /\ IsFiniteSet(I)
  <2>1. Len(seq) \in Nat
    BY LenProperties
  <2>2. IsFiniteSet(1 .. Len(seq))
    BY <2>1, FS_Interval
  <2> QED
    BY <2>1, <2>2, FS_Subset
<1>2. \A i, j \in I : <<i, j>> \in before <=> i < j
  OBVIOUS
<1>3. Orders(before, I)
  BY <1>1, <1>2 DEF Orders
<1>4. /\ n \in Nat
      /\ at \in [1 .. n -> I]
      /\ \A i \in I : rank(i) + 1 \in 1 .. n /\ at[rank(i) + 1] = i
      /\ \A j, k \in 1 .. n : j < k => <<at[j], at[k]>> \in before
  <2> HIDE DEF before
  <2> QED
    BY <1>1, <1>3, InOrderIs
<1>5. Only(seq, I) = [k \in 1 .. n |-> seq[at[k]]]
  BY DEF Only
<1>6. \A k \in 1 .. n : at[k] \in I /\ seq[at[k]] \in S
  <2> HIDE DEF at
  <2> QED
    BY <1>1, <1>4, ElementOfSeq
<1>7. [k \in 1 .. n |-> seq[at[k]]] \in Seq(S)
  <2> HIDE DEF at, n
  <2> QED
    BY <1>4, <1>6
<1>8. Only(seq, I) \in Seq(S) /\ Len(Only(seq, I)) = n
  <2> HIDE DEF at, n
  <2> QED
    BY <1>4, <1>5, <1>7
<1>9. \E order \in [1 .. n -> I] :
        /\ \A k \in 1 .. n : Only(seq, I)[k] = seq[order[k]]
        /\ \A i \in I : \E k \in 1 .. n : order[k] = i
        /\ \A j, k \in 1 .. n : j < k => order[j] < order[k]
  <2>1. \A k \in 1 .. n : Only(seq, I)[k] = seq[at[k]]
    BY <1>5
  <2>2. \A i \in I : \E k \in 1 .. n : at[k] = i
    BY <1>4
  <2>3. \A j, k \in 1 .. n : j < k => at[j] < at[k]
    BY <1>2, <1>4, <1>6
  <2> HIDE DEF at
  <2> QED
    BY <1>4, <2>1, <2>2, <2>3
<1> QED
  BY <1>4, <1>8, <1>9

-----------------------------------------------------------------------------
(* Sorting.                                                                 *)

\* Tuples of one length are ordered by their first column that differs.
LEMMA LessOrders ==
    ASSUME NEW m \in Nat
    PROVE  /\ \A a \in [1 .. m -> Int] : ~ Less(a, a)
           /\ \A a, b \in [1 .. m -> Int] : a # b => Less(a, b) \/ Less(b, a)
           /\ \A a, b, c \in [1 .. m -> Int] : Less(a, b) /\ Less(b, c) => Less(a, c)
<1>1. ASSUME NEW a \in [1 .. m -> Int] PROVE ~ Less(a, a)
  BY <1>1 DEF Less
<1>2. ASSUME NEW a \in [1 .. m -> Int], NEW b \in [1 .. m -> Int], a # b
      PROVE  Less(a, b) \/ Less(b, a)
  <2> DEFINE differ == {c \in 1 .. m : a[c] # b[c]}
  <2>1. differ \in SUBSET Nat /\ differ # {}
    BY <1>2
  <2> HIDE DEF differ
  <2>2. PICK c \in differ : \A d \in differ : c <= d
    BY <2>1, Least
  <2>3. c \in 1 .. m /\ a[c] # b[c] /\ a[c] \in Int /\ b[c] \in Int
    BY <1>2, <2>2 DEF differ
  <2>4. \A d \in 1 .. c - 1 : a[d] = b[d]
    BY <2>2, <2>3 DEF differ
  <2>5. a[c] < b[c] \/ b[c] < a[c]
    BY <2>3
  <2> QED
    BY <2>3, <2>4, <2>5 DEF Less
<1>3. ASSUME NEW a \in [1 .. m -> Int], NEW b \in [1 .. m -> Int],
             NEW c \in [1 .. m -> Int], Less(a, b), Less(b, c)
      PROVE  Less(a, c)
  <2>1. PICK i \in 1 .. m : a[i] < b[i] /\ \A d \in 1 .. i - 1 : a[d] = b[d]
    BY <1>3 DEF Less
  <2>2. PICK j \in 1 .. m : b[j] < c[j] /\ \A d \in 1 .. j - 1 : b[d] = c[d]
    BY <1>3 DEF Less
  <2>3. a[i] \in Int /\ b[i] \in Int /\ c[i] \in Int /\ a[j] \in Int /\ b[j] \in Int
        /\ c[j] \in Int
    BY <1>3
  <2>4. CASE i <= j
    <3>1. a[i] < c[i]
      <4>1. b[i] <= c[i]
        <5>1. CASE i = j
          BY <2>2, <2>3, <5>1
        <5>2. CASE i < j
          <6>1. i \in 1 .. j - 1
            BY <5>2
          <6> QED
            BY <2>2, <2>3, <6>1
        <5> QED
          BY <2>4, <5>1, <5>2
      <4> QED
        BY <2>1, <2>3, <4>1
    <3>2. \A d \in 1 .. i - 1 : a[d] = c[d]
      <4> SUFFICES ASSUME NEW d \in 1 .. i - 1
                   PROVE  a[d] = c[d]
        OBVIOUS
      <4>1. d \in 1 .. j - 1
        BY <2>4
      <4> QED
        BY <2>1, <2>2, <4>1
    <3>3. DOMAIN a = 1 .. m
      BY <1>3
    <3> QED
      BY <3>1, <3>2, <3>3 DEF Less
  <2>5. CASE j < i
    <3>1. a[j] < c[j]
      <4>1. j \in 1 .. i - 1
        BY <2>5
      <4> QED
        BY <2>1, <2>2, <2>3, <4>1
    <3>2. \A d \in 1 .. j - 1 : a[d] = c[d]
      <4> SUFFICES ASSUME NEW d \in 1 .. j - 1
                   PROVE  a[d] = c[d]
        OBVIOUS
      <4>1. d \in 1 .. i - 1
        BY <2>5
      <4> QED
        BY <2>1, <2>2, <4>1
    <3>3. DOMAIN a = 1 .. m
      BY <1>3
    <3> QED
      BY <3>1, <3>2, <3>3 DEF Less
  <2> QED
    BY <2>4, <2>5
<1> QED
  BY <1>1, <1>2, <1>3

\* t has the elements of s, each as often, in the order of their keys.
InKeyOrder(t, s, key) ==
    /\ Len(t) = Len(s)
    /\ \E at \in [1 .. Len(s) -> 1 .. Len(s)] :
         /\ \A k \in 1 .. Len(s) : t[k] = s[at[k]]
         /\ \A i \in 1 .. Len(s) : \E k \in 1 .. Len(s) : at[k] = i
         /\ \A j, k \in 1 .. Len(s) :
              j < k => /\ at[j] # at[k]
                       /\ Less(key[at[j]], key[at[k]]) \/ key[at[j]] = key[at[k]]

\* sorted() returns the same elements, each as often, in the order of their keys.
LEMMA SortedIs ==
    ASSUME NEW S, NEW seq \in Seq(S), NEW m \in Nat, NEW key,
           \A i \in 1 .. Len(seq) : key[i] \in [1 .. m -> Int]
    PROVE  Sorted(seq, key) \in Seq(S) /\ InKeyOrder(Sorted(seq, key), seq, key)
<1> DEFINE I == 1 .. Len(seq)
           before == {p \in I \X I : \/ Less(key[p[1]], key[p[2]])
                                     \/ key[p[1]] = key[p[2]] /\ p[1] < p[2]}
           at == InOrder(I, before)
           n == Len(seq)
           rank(i) == Cardinality({j \in I : <<j, i>> \in before})
<1>1. n \in Nat /\ IsFiniteSet(I) /\ Cardinality(I) = n /\ DOMAIN seq = I
  <2>1. n \in Nat /\ DOMAIN seq = I
    BY LenProperties
  <2>2. IsFiniteSet(1 .. n) /\ Cardinality(1 .. n) = n
    <3> HIDE DEF n
    <3> QED
      BY <2>1, FS_Interval
  <2> QED
    BY <2>1, <2>2
<1> DEFINE Keys == [1 .. m -> Int]
<1>0. /\ \A a \in Keys : ~ Less(a, a)
      /\ \A a, b \in Keys : a # b => Less(a, b) \/ Less(b, a)
      /\ \A a, b, c \in Keys : Less(a, b) /\ Less(b, c) => Less(a, c)
  BY LessOrders
<1>k. \A i \in I : key[i] \in Keys
  OBVIOUS
<1>2. \A i, j \in I : <<i, j>> \in before <=> \/ Less(key[i], key[j])
                                              \/ key[i] = key[j] /\ i < j
  OBVIOUS
<1>3. Orders(before, I)
  <2> HIDE DEF before
  <2> HIDE DEF Keys
  <2>1. \A i \in I : <<i, i>> \notin before
    <3>1. \A i \in I : ~ (i < i)
      BY <1>1
    <3> QED
      BY <1>0, <1>k, <1>2, <3>1
  <2>2. ASSUME NEW i \in I, NEW j \in I, i # j
        PROVE  <<i, j>> \in before \/ <<j, i>> \in before
    <3>1. Less(key[i], key[j]) \/ Less(key[j], key[i]) \/ key[i] = key[j]
      BY <1>0, <1>k
    <3>2. i < j \/ j < i
      BY <1>1, <2>2
    <3> QED
      BY <1>2, <3>1, <3>2
  <2>3. ASSUME NEW i \in I, NEW j \in I, NEW k \in I,
               <<i, j>> \in before, <<j, k>> \in before
        PROVE  <<i, k>> \in before
    <3>1. /\ Less(key[i], key[j]) \/ (key[i] = key[j] /\ i < j)
          /\ Less(key[j], key[k]) \/ (key[j] = key[k] /\ j < k)
      BY <1>2, <2>3
    <3>2. Less(key[i], key[j]) /\ Less(key[j], key[k]) => Less(key[i], key[k])
      BY <1>0, <1>k
    <3>3. i < j /\ j < k => i < k
      BY <1>1
    <3>4. Less(key[i], key[k]) \/ (key[i] = key[k] /\ i < k)
      BY <3>1, <3>2, <3>3
    <3> QED
      BY <1>2, <3>4
  <2> HIDE DEF I
  <2> QED
    BY <2>1, <2>2, <2>3 DEF Orders
<1>4. /\ at \in [1 .. n -> I]
      /\ \A i \in I : rank(i) + 1 \in 1 .. n /\ at[rank(i) + 1] = i
      /\ \A j, k \in 1 .. n : j < k => <<at[j], at[k]>> \in before
  <2> DEFINE c == Cardinality(I)
  <2>1. /\ at \in [1 .. c -> I]
        /\ \A i \in I : rank(i) + 1 \in 1 .. c /\ at[rank(i) + 1] = i
        /\ \A j, k \in 1 .. c : j < k => <<at[j], at[k]>> \in before
    <3>1. IsFiniteSet(I) /\ Orders(before, I)
      BY <1>1, <1>3
    <3> HIDE DEF before, I
    <3> QED
      BY <3>1, InOrderIs
  <2> HIDE DEF at, before
  <2> QED
    BY <1>1, <2>1
<1>5. Sorted(seq, key) = [k \in I |-> seq[at[k]]]
  BY <1>1 DEF Sorted
<1>6. \A k \in I : at[k] \in I /\ seq[at[k]] \in S
  <2> HIDE DEF at
  <2> QED
    BY <1>1, <1>4, ElementOfSeq
<1>7. [k \in 1 .. n |-> seq[at[k]]] \in Seq(S)
  <2>1. \A k \in 1 .. n : seq[at[k]] \in S
    BY <1>6
  <2> HIDE DEF at, n
  <2> QED
    BY <1>1, <2>1
<1>8. Sorted(seq, key) \in Seq(S) /\ Len(Sorted(seq, key)) = n
  <2> HIDE DEF at
  <2> QED
    BY <1>1, <1>5, <1>7
<1>9. \A k \in I : Sorted(seq, key)[k] = seq[at[k]]
  BY <1>5
<1>10. \A i \in I : \E k \in I : at[k] = i
  BY <1>1, <1>4
<1>11. \A j, k \in I : j < k => /\ at[j] # at[k]
                                /\ Less(key[at[j]], key[at[k]]) \/ key[at[j]] = key[at[k]]
  <2> SUFFICES ASSUME NEW j \in I, NEW k \in I, j < k
               PROVE  /\ at[j] # at[k]
                      /\ Less(key[at[j]], key[at[k]]) \/ key[at[j]] = key[at[k]]
    OBVIOUS
  <2>1. <<at[j], at[k]>> \in before /\ at[j] \in I /\ at[k] \in I
    BY <1>4, <1>6
  <2> HIDE DEF at, before
  <2> QED
    BY <1>2, <1>3, <2>1 DEF Orders
<1> HIDE DEF at
<1> QED
  BY <1>4, <1>8, <1>9, <1>10, <1>11 DEF InKeyOrder

-----------------------------------------------------------------------------
(* Evidence.                                                                *)

\* dict.fromkeys keeps every element, once.
LEMMA DistinctIs ==
    ASSUME NEW S, NEW seq \in Seq(S)
    PROVE  /\ Distinct(seq) \in Seq(S)
           /\ Len(Distinct(seq)) \in Nat
           /\ \A j, k \in 1 .. Len(Distinct(seq)) :
                Distinct(seq)[j] = Distinct(seq)[k] => j = k
           /\ \A i \in 1 .. Len(seq) :
                \E k \in 1 .. Len(Distinct(seq)) : Distinct(seq)[k] = seq[i]
           /\ \A k \in 1 .. Len(Distinct(seq)) :
                \E i \in 1 .. Len(seq) : Distinct(seq)[k] = seq[i]
<1> DEFINE I == {i \in 1 .. Len(seq) : \A j \in 1 .. i - 1 : seq[j] # seq[i]}
           D == Only(seq, I)
           n == Cardinality(I)
<1>1. Len(seq) \in Nat /\ DOMAIN seq = 1 .. Len(seq)
  BY LenProperties
<1>2. Distinct(seq) = D
  BY <1>1 DEF Distinct
<1>3. \A i, j \in I : seq[i] = seq[j] => i = j
  <2> SUFFICES ASSUME NEW i \in I, NEW j \in I, i # j
               PROVE  seq[i] # seq[j]
    OBVIOUS
  <2>1. i \in 1 .. j - 1 \/ j \in 1 .. i - 1
    BY <1>1
  <2> QED
    BY <2>1
<1>4. \A i \in 1 .. Len(seq) : \E j \in I : seq[j] = seq[i]
  <2> SUFFICES ASSUME NEW i \in 1 .. Len(seq)
               PROVE  \E j \in I : seq[j] = seq[i]
    OBVIOUS
  <2> DEFINE same == {j \in 1 .. Len(seq) : seq[j] = seq[i]}
  <2>1. same \in SUBSET Nat /\ same # {}
    BY <1>1
  <2> HIDE DEF same
  <2>2. PICK j \in same : \A k \in same : j <= k
    BY <2>1, Least
  <2>3. j \in 1 .. Len(seq) /\ seq[j] = seq[i]
    BY <2>2 DEF same
  <2>4. \A k \in 1 .. j - 1 : k \in 1 .. Len(seq) /\ k \notin same
    BY <1>1, <2>2, <2>3
  <2>5. \A k \in 1 .. j - 1 : seq[k] # seq[j]
    BY <2>3, <2>4 DEF same
  <2> QED
    BY <2>3, <2>5
<1>5. I \in SUBSET (1 .. Len(seq))
  OBVIOUS
<1> HIDE DEF I
<1>6. n \in Nat /\ D \in Seq(S) /\ Len(D) = n
  BY <1>5, OnlyIs
<1>7. \E at \in [1 .. Cardinality(I) -> I] :
          /\ \A k \in 1 .. Cardinality(I) : Only(seq, I)[k] = seq[at[k]]
          /\ \A i \in I : \E k \in 1 .. Cardinality(I) : at[k] = i
          /\ \A j, k \in 1 .. Cardinality(I) : j < k => at[j] < at[k]
  <2>1. ASSUME NEW J \in SUBSET (1 .. Len(seq))
        PROVE  \E at \in [1 .. Cardinality(J) -> J] :
                 /\ \A k \in 1 .. Cardinality(J) : Only(seq, J)[k] = seq[at[k]]
                 /\ \A i \in J : \E k \in 1 .. Cardinality(J) : at[k] = i
                 /\ \A j, k \in 1 .. Cardinality(J) : j < k => at[j] < at[k]
    BY OnlyIs
  <2> QED
    BY <1>5, <2>1
<1>a. PICK at \in [1 .. n -> I] :
          /\ \A k \in 1 .. n : D[k] = seq[at[k]]
          /\ \A i \in I : \E k \in 1 .. n : at[k] = i
          /\ \A j, k \in 1 .. n : j < k => at[j] < at[k]
  BY <1>7
<1>b. \A i \in I : i \in Nat /\ i \in 1 .. Len(seq)
  BY <1>1, <1>5
<1> HIDE DEF D, n
<1>8. \A j, k \in 1 .. n : D[j] = D[k] => j = k
  <2> SUFFICES ASSUME NEW j \in 1 .. n, NEW k \in 1 .. n, D[j] = D[k], j # k
               PROVE  FALSE
    OBVIOUS
  <2>1. at[j] \in I /\ at[k] \in I /\ at[j] = at[k]
    BY <1>3, <1>a
  <2>2. j < k \/ k < j
    BY <1>6
  <2>3. at[j] \in Nat
    BY <1>b, <2>1
  <2> QED
    BY <1>a, <2>1, <2>2, <2>3
<1>9. \A i \in 1 .. Len(seq) : \E k \in 1 .. n : D[k] = seq[i]
  BY <1>4, <1>a
<1>10. \A k \in 1 .. n : \E i \in 1 .. Len(seq) : D[k] = seq[i]
  BY <1>a, <1>b
<1> DEFINE Keeps(d) ==
             /\ d \in Seq(S)
             /\ Len(d) \in Nat
             /\ \A j, k \in 1 .. Len(d) : d[j] = d[k] => j = k
             /\ \A i \in 1 .. Len(seq) : \E k \in 1 .. Len(d) : d[k] = seq[i]
             /\ \A k \in 1 .. Len(d) : \E i \in 1 .. Len(seq) : d[k] = seq[i]
<1>11. Keeps(D)
  <2>1. D \in Seq(S) /\ Len(D) \in Nat
    BY <1>6
  <2>2. \A j, k \in 1 .. Len(D) : D[j] = D[k] => j = k
    BY <1>6, <1>8
  <2>3. \A i \in 1 .. Len(seq) : \E k \in 1 .. Len(D) : D[k] = seq[i]
    BY <1>6, <1>9
  <2>4. \A k \in 1 .. Len(D) : \E i \in 1 .. Len(seq) : D[k] = seq[i]
    BY <1>6, <1>10
  <2> QED
    BY <2>1, <2>2, <2>3, <2>4
<1>12. Keeps(Distinct(seq))
  <2> HIDE DEF Keeps
  <2> QED
    BY <1>2, <1>11
<1> QED
  BY <1>12

\* A report shows at most three examples.
LEMMA ExamplesAre ==
    ASSUME NEW S, NEW seq \in Seq(S)
    PROVE  Examples(seq) \in Seq(S) /\ Len(Examples(seq)) \in 0 .. 3
<1> DEFINE I == {i \in DOMAIN seq : seq[i] # Nothing}
           kept == Only(seq, I)
           D == Distinct(kept)
           m == IF Len(D) < 3 THEN Len(D) ELSE 3
<1>1. I \in SUBSET (1 .. Len(seq))
  BY SequenceIs
<1> HIDE DEF I
<1>2. kept \in Seq(S)
  BY <1>1, OnlyIs
<1> HIDE DEF kept
<1>3. D \in Seq(S) /\ Len(D) \in Nat /\ \A k \in 1 .. Len(D) : D[k] \in S
  <2>1. D \in Seq(S)
    BY <1>2, DistinctIs
  <2> HIDE DEF D
  <2> QED
    BY <2>1, SequenceIs
<1>4. Examples(seq) = SubSeq(D, 1, m)
  BY DEF Examples, kept, I
<1> HIDE DEF D
<1>5. m \in Nat /\ m <= Len(D) /\ m \in 0 .. 3
  <2> DEFINE len == Len(D)
  <2>1. len \in Nat /\ m = IF len < 3 THEN len ELSE 3
    BY <1>3
  <2> HIDE DEF len, m
  <2>2. m \in Nat /\ m <= len /\ m \in 0 .. 3
    BY <2>1
  <2> QED
    BY <2>2 DEF len
<1>6. \A k \in 1 .. m : D[k] \in S
  BY <1>3, <1>5
<1> HIDE DEF m
<1>7. SubSeq(D, 1, m) \in Seq(S) /\ Len(SubSeq(D, 1, m)) = m
  <2>1. /\ SubSeq(D, 1, m) \in Seq(S)
        /\ Len(SubSeq(D, 1, m)) = IF 1 <= m THEN m - 1 + 1 ELSE 0
    BY <1>5, <1>6, SubSeqProperties
  <2>2. (IF 1 <= m THEN m - 1 + 1 ELSE 0) = m
    BY <1>5
  <2> QED
    BY <2>1, <2>2
<1> QED
  BY <1>4, <1>5, <1>7

-----------------------------------------------------------------------------
(* Rows.                                                                    *)

EngineNames == {d.engine : d \in Drafts}
Proofs == {d.proof : d \in Drafts}
Kinds == {d.kind : d \in Drafts}
Places == {d.place : d \in Drafts}
ConciseProofs == {Concise(proof) : proof \in Proofs}

\* What the reports sort by can be compared.
LEMMA WordsAre ==
    /\ \A kind \in Kinds : Title(kind) \in Nat
    /\ \A place \in Places : Endpoint(place) \in Nat /\ Method(place) \in Nat
BY DraftsAssumption DEF Kinds, Places

\* What correlation can write.
Row == {f \in [kind : Kinds, place : Places, severity : Severities, confidence : Confidences,
               risk : 0 .. 100, engines : SUBSET EngineNames, evidence : Seq(Proofs)] :
           f.risk = Risk(f.severity, f.confidence) /\ f.evidence # << >>}

\* Ranks are numbers, and no two severities or confidences have one rank.
LEMMA RanksAre ==
    /\ \A s \in Severities : SeverityRank[s] \in 0 .. 4
    /\ \A s, t \in Severities : SeverityRank[s] = SeverityRank[t] => s = t
    /\ \A c \in Confidences : ConfidenceRank[c] \in 0 .. 2
    /\ \A c, d \in Confidences : ConfidenceRank[c] = ConfidenceRank[d] => c = d
BY DEF Severities, Confidences, SeverityRank, ConfidenceRank

Bases == {0, 30, 55, 80, 100}
Percents == {55, 80, 100}

\* Base and percentage do not fall when the rank rises.
LEMMA ScalesAre ==
    /\ \A s \in Severities : SeverityBase[s] \in Bases
    /\ \A s, t \in Severities :
         SeverityRank[s] <= SeverityRank[t] => SeverityBase[s] <= SeverityBase[t]
    /\ \A c \in Confidences : ConfidencePercent[c] \in Percents
    /\ \A c, d \in Confidences :
         ConfidenceRank[c] <= ConfidenceRank[d]
             => ConfidencePercent[c] <= ConfidencePercent[d]
BY DEF Bases, Percents, Severities, Confidences, SeverityRank, ConfidenceRank,
       SeverityBase, ConfidencePercent

\* The score of every base and percentage is on the scale, and does not fall with either.
LEMMA ProductsAre ==
    /\ \A x \in Bases, y \in Percents : (x * y + 50) \div 100 \in 0 .. 100
    /\ \A x, v \in Bases, y, w \in Percents :
         x <= v /\ y <= w => (x * y + 50) \div 100 <= (v * w + 50) \div 100
<1>1. \A x \in Bases, y \in Percents : (x * y + 50) \div 100 \in 0 .. 100
  BY DEF Bases, Percents
<1>2. \A x, v \in Bases, y, w \in Percents :
         x <= v /\ y <= w => (x * y + 50) \div 100 <= (v * w + 50) \div 100
  BY DEF Bases, Percents
<1> QED
  BY <1>1, <1>2

\* calculate_risk stays on its scale, and does not fall when severity or confidence rise.
LEMMA RiskIs ==
    /\ \A s \in Severities, c \in Confidences : Risk(s, c) \in 0 .. 100
    /\ \A s, t \in Severities, c, d \in Confidences :
         SeverityRank[s] <= SeverityRank[t] /\ ConfidenceRank[c] <= ConfidenceRank[d]
             => Risk(s, c) <= Risk(t, d)
BY ScalesAre, ProductsAre DEF Risk

\* What Only keeps.
LEMMA OnlyKeeps ==
    ASSUME NEW S, NEW seq \in Seq(S), NEW I \in SUBSET (1 .. Len(seq))
    PROVE  /\ Only(seq, I) \in Seq(S)
           /\ Len(Only(seq, I)) \in Nat
           /\ \A i \in I : \E k \in 1 .. Len(Only(seq, I)) : Only(seq, I)[k] = seq[i]
           /\ \A k \in 1 .. Len(Only(seq, I)) : \E i \in I : Only(seq, I)[k] = seq[i]
<1> DEFINE only == Only(seq, I)
           n == Cardinality(I)
<1>1. n \in Nat /\ only \in Seq(S) /\ Len(only) = n
  BY OnlyIs
<1>2. PICK at \in [1 .. n -> I] :
          /\ \A k \in 1 .. n : only[k] = seq[at[k]]
          /\ \A i \in I : \E k \in 1 .. n : at[k] = i
  BY OnlyIs
<1> HIDE DEF only, n
<1>3. \A i \in I : \E k \in 1 .. n : only[k] = seq[i]
  BY <1>2
<1>4. \A k \in 1 .. n : \E i \in I : only[k] = seq[i]
  BY <1>2
<1> QED
  BY <1>1, <1>3, <1>4 DEF only

\* The strongest draft of a group, and the first of these.
LEMMA RepresentativeIs ==
    ASSUME NEW group \in Seq(Drafts), group # << >>
    PROVE  \E i \in 1 .. Len(group) :
             /\ Representative(group) = group[i]
             /\ \A j \in 1 .. Len(group) :
                  SeverityRank[group[j].severity] <= SeverityRank[group[i].severity]
<1> DEFINE strength(i) == Strength(group[i])
           best == {i \in 1 .. Len(group) :
                       \A d \in ToSet(group) : Strength(d) <= strength(i)}
           weakness == {20 - strength(i) : i \in 1 .. Len(group)}
<1>1. /\ Len(group) \in Nat /\ DOMAIN group = 1 .. Len(group)
      /\ \A i \in 1 .. Len(group) : group[i] \in Drafts
      /\ \A d \in ToSet(group) : d \in Drafts /\ \E i \in 1 .. Len(group) : group[i] = d
      /\ 1 \in 1 .. Len(group)
  BY SequenceIs
<1>2. \A d \in Drafts : /\ SeverityRank[d.severity] \in 0 .. 4
                        /\ ConfidenceRank[d.confidence] \in 0 .. 2
  BY DraftsAssumption, RanksAre
<1>3. \A d \in Drafts : Strength(d) \in 0 .. 14
  <2> SUFFICES ASSUME NEW d \in Drafts
               PROVE  Strength(d) \in 0 .. 14
    OBVIOUS
  <2> DEFINE a == SeverityRank[d.severity]
             b == ConfidenceRank[d.confidence]
  <2>1. a \in 0 .. 4 /\ b \in 0 .. 2
    BY <1>2
  <2>2. Strength(d) = 3 * a + b
    BY DEF Strength
  <2> HIDE DEF a, b
  <2> QED
    BY <2>1, <2>2
<1>a. \A i \in 1 .. Len(group) : strength(i) \in 0 .. 14
  BY <1>1, <1>3
<1>4. weakness \in SUBSET Nat /\ weakness # {}
  <2> HIDE DEF strength
  <2>1. \A i \in 1 .. Len(group) : 20 - strength(i) \in Nat
    <3> SUFFICES ASSUME NEW i \in 1 .. Len(group)
                 PROVE  20 - strength(i) \in Nat
      OBVIOUS
    <3>1. strength(i) \in 0 .. 14
      BY <1>a
    <3> QED
      BY <3>1
  <2>2. 20 - strength(1) \in weakness
    BY <1>1
  <2> QED
    BY <2>1, <2>2
<1>5. \E i \in 1 .. Len(group) : \A j \in 1 .. Len(group) : strength(j) <= strength(i)
  <2>1. PICK w \in weakness : \A v \in weakness : w <= v
    <3> HIDE DEF weakness
    <3> QED
      BY <1>4, Least
  <2>2. PICK i \in 1 .. Len(group) : w = 20 - strength(i)
    BY <2>1
  <2>3. \A j \in 1 .. Len(group) : 20 - strength(i) <= 20 - strength(j)
    <3> HIDE DEF strength
    <3>1. \A j \in 1 .. Len(group) : 20 - strength(j) \in weakness
      OBVIOUS
    <3> HIDE DEF weakness
    <3> QED
      BY <2>1, <2>2, <3>1
  <2>4. \A j \in 1 .. Len(group) : strength(j) \in Nat
    <3> HIDE DEF strength, weakness, best
    <3> SUFFICES ASSUME NEW j \in 1 .. Len(group)
                 PROVE  strength(j) \in Nat
      OBVIOUS
    <3>1. strength(j) \in 0 .. 14
      BY <1>a
    <3> QED
      BY <3>1
  <2>5. \A j \in 1 .. Len(group) : strength(j) <= strength(i)
    <3> HIDE DEF strength
    <3> QED
      BY <2>3, <2>4
  <2> QED
    BY <2>5
<1>6. best \in SUBSET Nat /\ best # {}
  BY <1>1, <1>5
<1>7. Min(best) \in best
  <2> HIDE DEF best
  <2> QED
    BY <1>6, Least
<1>8. Representative(group) = group[Min(best)]
  BY <1>1 DEF Representative
<1>9. Min(best) \in 1 .. Len(group)
      /\ \A d \in ToSet(group) : Strength(d) <= strength(Min(best))
  BY <1>7
<1>10. \A j \in 1 .. Len(group) : Strength(group[j]) <= Strength(group[Min(best)])
  BY <1>1, <1>9, SequenceIs
<1> HIDE DEF best
<1>11. \A j \in 1 .. Len(group) :
          SeverityRank[group[j].severity] <= SeverityRank[group[Min(best)].severity]
  <2> SUFFICES ASSUME NEW j \in 1 .. Len(group)
               PROVE  SeverityRank[group[j].severity]
                        <= SeverityRank[group[Min(best)].severity]
    OBVIOUS
  <2>1. group[j] \in Drafts /\ group[Min(best)] \in Drafts
    BY <1>1, <1>9
  <2> DEFINE a == SeverityRank[group[j].severity]
             b == SeverityRank[group[Min(best)].severity]
             c == ConfidenceRank[group[j].confidence]
             d == ConfidenceRank[group[Min(best)].confidence]
  <2>2. 3 * a + c <= 3 * b + d
    BY <1>10 DEF Strength
  <2>3. a \in 0 .. 4 /\ b \in 0 .. 4 /\ c \in 0 .. 2 /\ d \in 0 .. 2
    BY <1>2, <2>1
  <2> HIDE DEF a, b, c, d
  <2>4. a <= b
    BY <2>2, <2>3
  <2> QED
    BY <2>4 DEF a, b
<1> QED
  BY <1>8, <1>9, <1>11

\* The row of a group has the words of one of its drafts, and what all of them have.
LEMMA FindingIs ==
    ASSUME NEW group \in Seq(Drafts), group # << >>
    PROVE  /\ Finding(group) \in Row
           /\ \E i \in 1 .. Len(group) : /\ Finding(group).kind = group[i].kind
                                         /\ Finding(group).place = group[i].place
           /\ \A i \in 1 .. Len(group) :
                /\ SeverityRank[Finding(group).severity] >= SeverityRank[group[i].severity]
                /\ group[i].engine \in Finding(group).engines
                /\ group[i].proof \in ToSet(Finding(group).evidence)
<1> DEFINE best == Representative(group)
           engines == {d.engine : d \in ToSet(group)}
           confidence == IF Cardinality(engines) >= 2 THEN "HIGH" ELSE best.confidence
           evidence == [i \in DOMAIN group |-> group[i].proof]
           f == Finding(group)
<1>1. /\ Len(group) \in Nat /\ DOMAIN group = 1 .. Len(group)
      /\ \A i \in 1 .. Len(group) : group[i] \in Drafts /\ group[i] \in ToSet(group)
      /\ \A d \in ToSet(group) : d \in Drafts
      /\ 1 \in 1 .. Len(group)
  BY SequenceIs
<1>2. PICK b \in 1 .. Len(group) :
          /\ best = group[b]
          /\ \A j \in 1 .. Len(group) :
               SeverityRank[group[j].severity] <= SeverityRank[group[b].severity]
  BY RepresentativeIs
<1>3. f = [kind |-> best.kind, place |-> best.place, severity |-> best.severity,
           confidence |-> confidence, risk |-> Risk(best.severity, confidence),
           engines |-> engines, evidence |-> evidence]
  BY DEF Finding
<1> HIDE DEF best, f
<1>4. /\ best.kind \in Kinds /\ best.place \in Places
      /\ best.severity \in Severities /\ best.confidence \in Confidences
  BY <1>1, <1>2, DraftsAssumption DEF Kinds, Places
<1>5. confidence \in Confidences
  BY <1>4 DEF Confidences, ConfidenceRank
<1>6. engines \in SUBSET EngineNames
  BY <1>1 DEF EngineNames
<1>7. evidence \in Seq(Proofs) /\ evidence # << >>
      /\ \A i \in 1 .. Len(group) : group[i].proof \in ToSet(evidence)
  <2>1. \A i \in 1 .. Len(group) : group[i].proof \in Proofs
    BY <1>1 DEF Proofs
  <2>2. evidence = [i \in 1 .. Len(group) |-> group[i].proof]
    BY <1>1
  <2>3. evidence \in Seq(Proofs) /\ DOMAIN evidence = 1 .. Len(group)
    BY <1>1, <2>1, <2>2
  <2>4. \A i \in 1 .. Len(group) : evidence[i] = group[i].proof
    BY <2>2
  <2> HIDE DEF evidence
  <2>5. evidence # << >>
    BY <1>1, <2>3
  <2>6. \A i \in 1 .. Len(group) : evidence[i] \in ToSet(evidence)
    BY <2>3 DEF ToSet
  <2> QED
    BY <2>3, <2>4, <2>5, <2>6
<1>8. \A i \in 1 .. Len(group) : group[i].engine \in engines
  BY <1>1
<1> HIDE DEF confidence, engines, evidence
<1>9. f \in Row
  BY <1>3, <1>4, <1>5, <1>6, <1>7, RiskIs DEF Row
<1>10. /\ f.kind = group[b].kind /\ f.place = group[b].place
       /\ f.severity = group[b].severity /\ f.engines = engines /\ f.evidence = evidence
  BY <1>2, <1>3
<1>11. \A i \in 1 .. Len(group) :
         SeverityRank[group[b].severity] >= SeverityRank[group[i].severity]
  BY <1>1, <1>2, RanksAre, DraftsAssumption
<1> QED
  BY <1>7, <1>8, <1>9, <1>10, <1>11 DEF f

\* The drafts of a batch that have one fingerprint have one row.
LEMMA CorrelatedIs ==
    ASSUME NEW drafts \in Seq(Drafts)
    PROVE  /\ correlate_findings(drafts) \in Seq(Row)
           /\ \A i, j \in 1 .. Len(correlate_findings(drafts)) :
                Fingerprint(correlate_findings(drafts)[i])
                  = Fingerprint(correlate_findings(drafts)[j]) => i = j
           /\ \A d \in ToSet(drafts) :
                \E i \in 1 .. Len(correlate_findings(drafts)) :
                  LET f == correlate_findings(drafts)[i]
                  IN /\ Fingerprint(f) = Fingerprint(d)
                     /\ SeverityRank[f.severity] >= SeverityRank[d.severity]
                     /\ d.engine \in f.engines
                     /\ d.proof \in ToSet(f.evidence)
<1> DEFINE every == [i \in DOMAIN drafts |-> Fingerprint(drafts[i])]
           prints == Distinct(every)
           members(g) == {i \in DOMAIN drafts : Fingerprint(drafts[i]) = prints[g]}
           groups == Groups(drafts)
           output == [g \in DOMAIN groups |-> Finding(groups[g])]
           key == [g \in DOMAIN output |-> <<- SeverityRank[output[g].severity]>>]
           found == correlate_findings(drafts)
           n == Len(prints)
<1>1. /\ Len(drafts) \in Nat /\ DOMAIN drafts = 1 .. Len(drafts)
      /\ \A i \in 1 .. Len(drafts) : drafts[i] \in Drafts
      /\ \A d \in ToSet(drafts) : d \in Drafts /\ \E i \in 1 .. Len(drafts) : drafts[i] = d
  BY SequenceIs
<1> DEFINE Prints == {Fingerprint(d) : d \in Drafts}
<1>2. every \in Seq(Prints) /\ Len(every) = Len(drafts)
      /\ \A i \in 1 .. Len(drafts) : every[i] = Fingerprint(drafts[i])
  <2>1. \A i \in 1 .. Len(drafts) : Fingerprint(drafts[i]) \in Prints
    BY <1>1
  <2>2. every = [i \in 1 .. Len(drafts) |-> Fingerprint(drafts[i])]
    BY <1>1
  <2> HIDE DEF Prints
  <2> QED
    BY <1>1, <2>1, <2>2
<1> HIDE DEF every, Prints
<1>3. /\ prints \in Seq(Prints) /\ n \in Nat /\ DOMAIN prints = 1 .. n
      /\ \A j, k \in 1 .. n : prints[j] = prints[k] => j = k
      /\ \A i \in 1 .. Len(drafts) : \E g \in 1 .. n : prints[g] = Fingerprint(drafts[i])
      /\ \A g \in 1 .. n : \E i \in 1 .. Len(drafts) : prints[g] = Fingerprint(drafts[i])
  <2>1. prints \in Seq(Prints) /\ n \in Nat
    BY <1>2, DistinctIs
  <2>2. DOMAIN prints = 1 .. n
    BY <2>1, LenProperties
  <2>3. \A j, k \in 1 .. n : prints[j] = prints[k] => j = k
    BY <1>2, DistinctIs
  <2>4. \A i \in 1 .. Len(every) : \E g \in 1 .. n : prints[g] = every[i]
    BY <1>2, DistinctIs
  <2>5. \A g \in 1 .. n : \E i \in 1 .. Len(every) : prints[g] = every[i]
    BY <1>2, DistinctIs
  <2> HIDE DEF prints
  <2>6. \A i \in 1 .. Len(drafts) : \E g \in 1 .. n : prints[g] = Fingerprint(drafts[i])
    BY <1>2, <2>4
  <2>7. \A g \in 1 .. n : \E i \in 1 .. Len(drafts) : prints[g] = Fingerprint(drafts[i])
    BY <1>2, <2>5
  <2> QED
    BY <2>1, <2>2, <2>3, <2>6, <2>7
<1>4. groups = [g \in 1 .. n |-> Only(drafts, members(g))]
  BY <1>3 DEF Groups, every
<1> HIDE DEF prints, groups
<1>5. \A g \in 1 .. n :
        /\ groups[g] \in Seq(Drafts) /\ groups[g] # << >>
        /\ \A k \in 1 .. Len(groups[g]) : Fingerprint(groups[g][k]) = prints[g]
        /\ \A i \in 1 .. Len(drafts) :
             Fingerprint(drafts[i]) = prints[g] =>
                 \E k \in 1 .. Len(groups[g]) : groups[g][k] = drafts[i]
  <2> SUFFICES ASSUME NEW g \in 1 .. n
               PROVE
        /\ groups[g] \in Seq(Drafts) /\ groups[g] # << >>
        /\ \A k \in 1 .. Len(groups[g]) : Fingerprint(groups[g][k]) = prints[g]
        /\ \A i \in 1 .. Len(drafts) :
             Fingerprint(drafts[i]) = prints[g] =>
                 \E k \in 1 .. Len(groups[g]) : groups[g][k] = drafts[i]
    OBVIOUS
  <2> DEFINE I == members(g)
             group == Only(drafts, I)
  <2>1. groups[g] = group
    BY <1>4
  <2>2. I \in SUBSET (1 .. Len(drafts))
    BY <1>1
  <2>3. /\ \A i \in I : Fingerprint(drafts[i]) = prints[g]
        /\ \A i \in 1 .. Len(drafts) : Fingerprint(drafts[i]) = prints[g] => i \in I
    BY <1>1
  <2> HIDE DEF I
  <2>4. /\ group \in Seq(Drafts) /\ Len(group) \in Nat
        /\ \A i \in I : \E k \in 1 .. Len(group) : group[k] = drafts[i]
        /\ \A k \in 1 .. Len(group) : \E i \in I : group[k] = drafts[i]
    <3>1. ASSUME NEW J \in SUBSET (1 .. Len(drafts))
          PROVE  /\ Only(drafts, J) \in Seq(Drafts) /\ Len(Only(drafts, J)) \in Nat
                 /\ \A i \in J : \E k \in 1 .. Len(Only(drafts, J)) :
                                   Only(drafts, J)[k] = drafts[i]
                 /\ \A k \in 1 .. Len(Only(drafts, J)) :
                      \E i \in J : Only(drafts, J)[k] = drafts[i]
      BY OnlyKeeps
    <3> QED
      BY <2>2, <3>1
  <2> HIDE DEF group
  <2>5. PICK i \in 1 .. Len(drafts) : prints[g] = Fingerprint(drafts[i])
    BY <1>3
  <2>6. \E k \in 1 .. Len(group) : group[k] = drafts[i]
    BY <2>3, <2>4, <2>5
  <2>7. group # << >>
    BY <2>6
  <2> QED
    BY <2>1, <2>3, <2>4, <2>7
<1>6. output = [g \in 1 .. n |-> Finding(groups[g])]
  BY <1>4
<1>7. \A g \in 1 .. n : output[g] \in Row /\ Fingerprint(output[g]) = prints[g]
  <2> SUFFICES ASSUME NEW g \in 1 .. n
               PROVE  output[g] \in Row /\ Fingerprint(output[g]) = prints[g]
    OBVIOUS
  <2>1. output[g] = Finding(groups[g]) /\ output[g] \in Row
    BY <1>5, <1>6, FindingIs
  <2>2. PICK k \in 1 .. Len(groups[g]) :
            /\ Finding(groups[g]).kind = groups[g][k].kind
            /\ Finding(groups[g]).place = groups[g][k].place
    BY <1>5, FindingIs
  <2>3. Fingerprint(output[g]) = Fingerprint(groups[g][k])
    BY <2>1, <2>2 DEF Fingerprint
  <2> QED
    BY <1>5, <2>1, <2>3
<1>8. output \in Seq(Row) /\ Len(output) = n /\ DOMAIN output = 1 .. n
  <2>1. \A g \in 1 .. n : Finding(groups[g]) \in Row
    BY <1>6, <1>7
  <2>2. output = [g \in 1 .. n |-> output[g]]
    BY <1>6
  <2>3. \A g \in 1 .. n : output[g] \in Row
    BY <1>7
  <2> HIDE DEF n, output
  <2> QED
    BY <1>3, <2>2, <2>3, FunctionIs
<1>9. found = Sorted(output, key)
  BY DEF correlate_findings, groups
<1>10. \A g \in 1 .. n : key[g] \in [1 .. 1 -> Int]
  <2> SUFFICES ASSUME NEW g \in 1 .. n
               PROVE  key[g] \in [1 .. 1 -> Int]
    OBVIOUS
  <2>1. - SeverityRank[output[g].severity] \in Int
    <3>1. output[g].severity \in Severities
      BY <1>7 DEF Row
    <3>2. SeverityRank[output[g].severity] \in Int
      BY <3>1, RanksAre
    <3> HIDE DEF output
    <3> QED
      BY <3>2
  <2>2. key[g] = <<- SeverityRank[output[g].severity]>>
    BY <1>8
  <2> HIDE DEF key
  <2> QED
    BY <2>1, <2>2
<1> HIDE DEF output, key, found
<1>11. found \in Seq(Row) /\ InKeyOrder(found, output, key)
  <2>1. \A g \in 1 .. Len(output) : key[g] \in [1 .. 1 -> Int]
    BY <1>8, <1>10
  <2>2. ASSUME NEW s \in Seq(Row), NEW k, NEW m \in Nat,
               \A g \in 1 .. Len(s) : k[g] \in [1 .. m -> Int]
        PROVE  Sorted(s, k) \in Seq(Row) /\ InKeyOrder(Sorted(s, k), s, k)
    BY <2>2, SortedIs
  <2> QED
    BY <1>8, <1>9, <2>1, <2>2
<1>12. found \in Seq(Row) /\ Len(found) = n
  BY <1>8, <1>11 DEF InKeyOrder
<1> DEFINE N == Len(output)
<1>13. PICK at \in [1 .. N -> 1 .. N] :
            /\ \A k \in 1 .. N : found[k] = output[at[k]]
            /\ \A i \in 1 .. N : \E k \in 1 .. N : at[k] = i
            /\ \A j, k \in 1 .. N :
                 j < k => /\ at[j] # at[k]
                          /\ Less(key[at[j]], key[at[k]]) \/ key[at[j]] = key[at[k]]
  BY <1>11 DEF InKeyOrder
<1> HIDE DEF N, n
<1>m. N = n
  BY <1>8 DEF N
<1>14. \A i, j \in 1 .. n : Fingerprint(found[i]) = Fingerprint(found[j]) => i = j
  <2> SUFFICES ASSUME NEW i \in 1 .. n, NEW j \in 1 .. n, i # j
               PROVE  Fingerprint(found[i]) # Fingerprint(found[j])
    OBVIOUS
  <2>1. at[i] # at[j] /\ at[i] \in 1 .. n /\ at[j] \in 1 .. n
    <3>1. i < j \/ j < i
      BY <1>3
    <3>2. at \in [1 .. n -> 1 .. n]
      BY <1>m
    <3>3. \A k, m \in 1 .. n : k < m => at[k] # at[m]
      BY <1>m, <1>13
    <3>4. at[i] # at[j]
      BY <3>1, <3>3
    <3> QED
      BY <3>2, <3>4
  <2>2. prints[at[i]] # prints[at[j]]
    BY <1>3, <2>1
  <2>3. /\ Fingerprint(found[i]) = prints[at[i]]
        /\ Fingerprint(found[j]) = prints[at[j]]
    <3>1. found[i] = output[at[i]] /\ found[j] = output[at[j]]
      BY <1>m, <1>13
    <3> QED
      BY <1>7, <2>1, <3>1
  <2> QED
    BY <2>2, <2>3
<1>15. ASSUME NEW d \in ToSet(drafts)
       PROVE  \E i \in 1 .. n :
                /\ Fingerprint(found[i]) = Fingerprint(d)
                /\ SeverityRank[found[i].severity] >= SeverityRank[d.severity]
                /\ d.engine \in found[i].engines
                /\ d.proof \in ToSet(found[i].evidence)
  <2>1. PICK m \in 1 .. Len(drafts) : drafts[m] = d
    BY <1>1
  <2>2. PICK g \in 1 .. n : prints[g] = Fingerprint(drafts[m])
    BY <1>3
  <2>3. PICK k \in 1 .. Len(groups[g]) : groups[g][k] = drafts[m]
    BY <1>5, <2>2
  <2>4. /\ SeverityRank[Finding(groups[g]).severity] >= SeverityRank[groups[g][k].severity]
        /\ groups[g][k].engine \in Finding(groups[g]).engines
        /\ groups[g][k].proof \in ToSet(Finding(groups[g]).evidence)
    BY <1>5, FindingIs
  <2>5. PICK i \in 1 .. n : at[i] = g
    BY <1>m, <1>13
  <2>6. found[i] = Finding(groups[g]) /\ Fingerprint(found[i]) = prints[g]
    <3>1. found[i] = output[g]
      BY <1>m, <1>13, <2>5
    <3>2. output[g] = Finding(groups[g])
      BY <1>6
    <3> QED
      BY <1>7, <3>1, <3>2
  <2> QED
    BY <2>1, <2>2, <2>3, <2>4, <2>6
<1> QED
  BY <1>12, <1>14, <1>15 DEF found, n

-----------------------------------------------------------------------------
(* The loop of pentest_payload.                                             *)

Location == [place : Places, evidence : Seq(ConciseProofs)]
Issue == [kind : Kinds, severity : Severities, confidence : Confidences, risk : 0 .. 100,
          engines : SUBSET EngineNames, locations : Seq(Location)]

\* The locations of an issue are the places of the findings in K, each listed once.
Located(locations, K) ==
    /\ \A l, m \in 1 .. Len(locations) : locations[l].place = locations[m].place => l = m
    /\ \A l \in 1 .. Len(locations) : Len(locations[l].evidence) \in 0 .. 3
    /\ \A f \in K : \E l \in 1 .. Len(locations) : locations[l].place = f.place
    /\ \A l \in 1 .. Len(locations) : \E f \in K : f.place = locations[l].place

\* Each column of an issue is the highest that a finding in K has.
Raised(issue, K) ==
    /\ \E f \in K : f.severity = issue.severity
    /\ \E f \in K : f.confidence = issue.confidence
    /\ \E f \in K : f.risk = issue.risk
    /\ \A f \in K : /\ SeverityRank[issue.severity] >= SeverityRank[f.severity]
                    /\ ConfidenceRank[issue.confidence] >= ConfidenceRank[f.confidence]
                    /\ issue.risk >= f.risk
                    /\ f.engines \subseteq issue.engines
    /\ \A e \in issue.engines : \E f \in K : e \in f.engines

OfKind(S, kind) == {f \in S : f.kind = kind}

\* The issue says what the findings of its kind say.
Tells(issue, S) ==
    /\ Raised(issue, OfKind(S, issue.kind))
    /\ Located(issue.locations, OfKind(S, issue.kind))

\* What the loop has made of the findings in S.
LoopInv(groups, S) ==
    /\ groups \in Seq(Issue)
    /\ \A i, j \in 1 .. Len(groups) : groups[i].kind = groups[j].kind => i = j
    /\ \A f \in S : \E i \in 1 .. Len(groups) : groups[i].kind = f.kind
    /\ \A i \in 1 .. Len(groups) : Tells(groups[i], S)

\* The columns of a row.
LEMMA RowsAre ==
    ASSUME NEW f \in Row
    PROVE  /\ f.kind \in Kinds /\ f.place \in Places
           /\ f.severity \in Severities /\ f.confidence \in Confidences
           /\ f.risk \in 0 .. 100 /\ f.risk = Risk(f.severity, f.confidence)
           /\ f.engines \in SUBSET EngineNames
           /\ f.evidence \in Seq(Proofs) /\ f.evidence # << >>
BY DEF Row

\* _best takes the better of the two.
LEMMA BetterIs ==
    /\ \A s, t \in Severities :
         /\ Better(SeverityRank, s, t) \in {s, t}
         /\ SeverityRank[Better(SeverityRank, s, t)] >= SeverityRank[s]
         /\ SeverityRank[Better(SeverityRank, s, t)] >= SeverityRank[t]
    /\ \A c, d \in Confidences :
         /\ Better(ConfidenceRank, c, d) \in {c, d}
         /\ ConfidenceRank[Better(ConfidenceRank, c, d)] >= ConfidenceRank[c]
         /\ ConfidenceRank[Better(ConfidenceRank, c, d)] >= ConfidenceRank[d]
BY RanksAre DEF Better

\* Merging a finding into an issue raises each column to the highest so far.
LEMMA MergeRaises ==
    ASSUME NEW issue \in Issue, NEW K \in SUBSET Row, NEW f \in Row, Raised(issue, K)
    PROVE  /\ Merge(issue, f) \in Issue
           /\ Merge(issue, f).kind = issue.kind
           /\ Merge(issue, f).locations = issue.locations
           /\ Raised(Merge(issue, f), K \union {f})
<1> DEFINE severity == Better(SeverityRank, issue.severity, f.severity)
           confidence == Better(ConfidenceRank, issue.confidence, f.confidence)
           risk == IF f.risk > issue.risk THEN f.risk ELSE issue.risk
           engines == issue.engines \union f.engines
           m == Merge(issue, f)
<1>1. /\ issue.severity \in Severities /\ issue.confidence \in Confidences
      /\ issue.risk \in 0 .. 100 /\ issue.engines \in SUBSET EngineNames
      /\ issue.kind \in Kinds /\ issue.locations \in Seq(Location)
  BY DEF Issue
<1>2. /\ f.severity \in Severities /\ f.confidence \in Confidences
      /\ f.risk \in 0 .. 100 /\ f.engines \in SUBSET EngineNames
  BY RowsAre
<1>3. m = [kind |-> issue.kind, severity |-> severity, confidence |-> confidence,
           risk |-> risk, engines |-> engines, locations |-> issue.locations]
  <2>1. m = [issue EXCEPT !.severity = severity, !.confidence = confidence,
                          !.risk = risk, !.engines = engines]
    BY DEF Merge
  <2> HIDE DEF m, severity, confidence, risk, engines
  <2> QED
    BY <2>1 DEF Issue
<1> HIDE DEF m
<1>4. /\ severity \in {issue.severity, f.severity}
      /\ SeverityRank[severity] >= SeverityRank[issue.severity]
      /\ SeverityRank[severity] >= SeverityRank[f.severity]
  BY <1>1, <1>2, BetterIs
<1>5. /\ confidence \in {issue.confidence, f.confidence}
      /\ ConfidenceRank[confidence] >= ConfidenceRank[issue.confidence]
      /\ ConfidenceRank[confidence] >= ConfidenceRank[f.confidence]
  BY <1>1, <1>2, BetterIs
<1>6. risk \in {issue.risk, f.risk} /\ risk >= issue.risk /\ risk >= f.risk
  <2>1. \A a, b \in 0 .. 100 : LET c == IF b > a THEN b ELSE a
                               IN c \in {a, b} /\ c >= a /\ c >= b
    OBVIOUS
  <2> QED
    BY <1>1, <1>2, <2>1
<1> HIDE DEF severity, confidence, risk
<1>7. m \in Issue
  BY <1>1, <1>2, <1>3, <1>4, <1>5, <1>6 DEF Issue
<1>8. /\ m.kind = issue.kind /\ m.locations = issue.locations
      /\ m.severity = severity /\ m.confidence = confidence
      /\ m.risk = risk /\ m.engines = engines
  BY <1>3
<1>9. ASSUME NEW g \in K \union {f}
      PROVE  /\ SeverityRank[severity] >= SeverityRank[g.severity]
             /\ ConfidenceRank[confidence] >= ConfidenceRank[g.confidence]
             /\ risk >= g.risk
             /\ g.engines \subseteq engines
  <2>1. CASE g = f
    BY <1>4, <1>5, <1>6, <2>1
  <2>2. CASE g \in K
    <3>1. /\ SeverityRank[issue.severity] >= SeverityRank[g.severity]
          /\ ConfidenceRank[issue.confidence] >= ConfidenceRank[g.confidence]
          /\ issue.risk >= g.risk
          /\ g.engines \subseteq issue.engines
      BY <2>2 DEF Raised
    <3>2. /\ g.severity \in Severities /\ g.confidence \in Confidences /\ g.risk \in 0 .. 100
      BY <2>2, RowsAre
    <3>3. severity \in Severities /\ confidence \in Confidences /\ risk \in 0 .. 100
      BY <1>1, <1>2, <1>4, <1>5, <1>6
    <3>4. /\ SeverityRank[severity] \in 0 .. 4 /\ SeverityRank[issue.severity] \in 0 .. 4
          /\ SeverityRank[g.severity] \in 0 .. 4
          /\ ConfidenceRank[confidence] \in 0 .. 2
          /\ ConfidenceRank[issue.confidence] \in 0 .. 2
          /\ ConfidenceRank[g.confidence] \in 0 .. 2
      BY <1>1, <3>2, <3>3, RanksAre
    <3>5. SeverityRank[severity] >= SeverityRank[g.severity]
      BY <1>4, <3>1, <3>4
    <3>6. ConfidenceRank[confidence] >= ConfidenceRank[g.confidence]
      BY <1>5, <3>1, <3>4
    <3>7. risk >= g.risk
      <4>1. \A a, b, c \in 0 .. 100 : a >= b /\ b >= c => a >= c
        OBVIOUS
      <4> QED
        BY <1>1, <1>6, <3>1, <3>2, <3>3, <4>1
    <3> QED
      BY <3>1, <3>5, <3>6, <3>7
  <2> QED
    BY <2>1, <2>2
<1>10. /\ \E g \in K \union {f} : g.severity = severity
       /\ \E g \in K \union {f} : g.confidence = confidence
       /\ \E g \in K \union {f} : g.risk = risk
       /\ \A e \in engines : \E g \in K \union {f} : e \in g.engines
  BY <1>4, <1>5, <1>6 DEF Raised
<1>11. Raised(m, K \union {f})
  BY <1>8, <1>9, <1>10 DEF Raised
<1> QED
  BY <1>7, <1>8, <1>11 DEF m

\* A new issue says what its one finding says.
LEMMA NewIssueRaises ==
    ASSUME NEW f \in Row
    PROVE  /\ NewIssue(f) \in Issue
           /\ NewIssue(f).kind = f.kind
           /\ NewIssue(f).locations = << >>
           /\ Raised(NewIssue(f), {f})
<1>1. /\ f.kind \in Kinds /\ f.severity \in Severities /\ f.confidence \in Confidences
      /\ f.risk \in 0 .. 100 /\ f.engines \in SUBSET EngineNames
      /\ SeverityRank[f.severity] \in 0 .. 4 /\ ConfidenceRank[f.confidence] \in 0 .. 2
  BY RowsAre, RanksAre
<1>2. << >> \in Seq(Location)
  BY EmptySeq
<1>3. NewIssue(f) \in Issue
  BY <1>1, <1>2 DEF NewIssue, Issue
<1>4. Raised(NewIssue(f), {f})
  BY <1>1 DEF NewIssue, Raised
<1> QED
  BY <1>3, <1>4 DEF NewIssue

\* A finding is shown at its own place, and moves nothing that is shown already.
LEMMA LocateKeeps ==
    ASSUME NEW K \in SUBSET Row, NEW f \in Row, NEW locations \in Seq(Location),
           Located(locations, K)
    PROVE  /\ Locate(locations, f) \in Seq(Location)
           /\ Located(Locate(locations, f), K \union {f})
<1> DEFINE n == Len(locations)
           known == {i \in DOMAIN locations : locations[i].place = f.place}
           new == Locate(locations, f)
           J == K \union {f}
<1>1. /\ n \in Nat /\ DOMAIN locations = 1 .. n
      /\ \A i \in 1 .. n : locations[i] \in Location
  BY SequenceIs
<1>2. /\ f.place \in Places /\ f.evidence \in Seq(Proofs) /\ f.evidence # << >>
  BY RowsAre
<1>3. /\ \A l, m \in 1 .. n : locations[l].place = locations[m].place => l = m
      /\ \A l \in 1 .. n : Len(locations[l].evidence) \in 0 .. 3
      /\ \A g \in K : \E l \in 1 .. n : locations[l].place = g.place
      /\ \A l \in 1 .. n : \E g \in K : g.place = locations[l].place
  BY DEF Located
<1>4. Shown(f) \in Seq(ConciseProofs)
  <2>1. \A i \in 1 .. Len(f.evidence) : Concise(f.evidence[i]) \in ConciseProofs
    BY <1>2, SequenceIs DEF ConciseProofs
  <2>2. Shown(f) = [i \in 1 .. Len(f.evidence) |-> Concise(f.evidence[i])]
    BY <1>2, SequenceIs DEF Shown
  <2>3. Len(f.evidence) \in Nat
    BY <1>2, SequenceIs
  <2> QED
    BY <2>1, <2>2, <2>3
<1>5. CASE known = {}
  <2> DEFINE added == [place |-> f.place, evidence |-> Examples(Shown(f))]
  <2>1. new = Append(locations, added)
    BY <1>5 DEF Locate
  <2>2. Examples(Shown(f)) \in Seq(ConciseProofs) /\ Len(Examples(Shown(f))) \in 0 .. 3
    BY <1>4, ExamplesAre
  <2>3. added \in Location /\ added.place = f.place
        /\ added.evidence = Examples(Shown(f))
    BY <1>2, <2>2 DEF Location
  <2> HIDE DEF added, new
  <2>4. /\ new \in Seq(Location) /\ Len(new) = n + 1
        /\ \A l \in 1 .. n : new[l] = locations[l]
        /\ new[n + 1] = added
    BY <1>1, <2>1, <2>3, AppendProperties
  <2>5. \A l \in 1 .. n : locations[l].place # f.place
    BY <1>1, <1>5
  <2>6. \A l \in 1 .. n + 1 : l \in 1 .. n \/ l = n + 1
    BY <1>1
  <2>7. n + 1 \in 1 .. n + 1 /\ 1 .. n \subseteq 1 .. n + 1
    BY <1>1
  <2> HIDE DEF known, n
  <2>8. \A l, m \in 1 .. n + 1 : new[l].place = new[m].place => l = m
    BY <1>3, <2>3, <2>4, <2>5, <2>6
  <2>9. \A l \in 1 .. n + 1 : Len(new[l].evidence) \in 0 .. 3
    BY <1>3, <2>2, <2>3, <2>4, <2>6
  <2>10. \A g \in J : \E l \in 1 .. n + 1 : new[l].place = g.place
    <3>1. ASSUME NEW g \in K PROVE \E l \in 1 .. n + 1 : new[l].place = g.place
      BY <1>3, <2>4, <2>7
    <3>2. new[n + 1].place = f.place
      BY <2>3, <2>4
    <3> QED
      BY <2>7, <3>1, <3>2
  <2>11. \A l \in 1 .. n + 1 : \E g \in J : g.place = new[l].place
    BY <1>3, <2>3, <2>4, <2>6
  <2>12. Located(new, J)
    BY <2>4, <2>8, <2>9, <2>10, <2>11 DEF Located
  <2> QED
    BY <2>4, <2>12 DEF new
<1>6. CASE known # {}
  <2>1. PICK i \in 1 .. n : locations[i].place = f.place
    BY <1>1, <1>6
  <2>2. known = {i}
    BY <1>1, <1>3, <2>1
  <2>3. Min(known) = i
    <3>1. Min({i}) = i
      BY <1>1, <2>1 DEF Min
    <3> QED
      BY <2>2, <3>1
  <2> DEFINE before == locations[i].evidence
             evidence == Examples(before \o Shown(f))
             changed == [place |-> f.place, evidence |-> evidence]
  <2>4. new = [locations EXCEPT ![Min(known)].evidence = evidence]
    <3>1. new = [locations EXCEPT ![Min(known)].evidence = Examples(@ \o Shown(f))]
      BY <1>6 DEF Locate
    <3> HIDE DEF new, known
    <3> QED
      BY <2>1, <2>3, <3>1, <1>1
  <2>5. locations[i] \in Location /\ before \in Seq(ConciseProofs)
        /\ locations[i] = [place |-> f.place, evidence |-> before]
    BY <1>1, <2>1 DEF Location
  <2> HIDE DEF known, new, before
  <2>6. before \o Shown(f) \in Seq(ConciseProofs)
    BY <1>4, <2>5, ConcatProperties
  <2>7. evidence \in Seq(ConciseProofs) /\ Len(evidence) \in 0 .. 3
    BY <2>6, ExamplesAre
  <2> HIDE DEF evidence
  <2>8. changed \in Location /\ changed.place = f.place /\ changed.evidence = evidence
    BY <1>2, <2>7 DEF Location
  <2>9. new = [locations EXCEPT ![i] = changed]
    <3>1. new = [locations EXCEPT ![i].evidence = evidence]
      BY <2>3, <2>4
    <3>2. [locations[i] EXCEPT !.evidence = evidence] = changed
      BY <2>5
    <3> HIDE DEF changed
    <3> QED
      BY <3>1, <3>2
  <2> HIDE DEF changed
  <2>10. /\ new \in Seq(Location) /\ Len(new) = n
         /\ \A l \in 1 .. n : new[l] = IF l = i THEN changed ELSE locations[l]
    BY <2>1, <2>8, <2>9, ExceptSeq
  <2>11. \A l \in 1 .. n : new[l].place = locations[l].place
    BY <2>1, <2>8, <2>10
  <2>12. /\ \A l, m \in 1 .. n : new[l].place = new[m].place => l = m
         /\ \A l \in 1 .. n : Len(new[l].evidence) \in 0 .. 3
         /\ \A g \in J : \E l \in 1 .. n : new[l].place = g.place
         /\ \A l \in 1 .. n : \E g \in J : g.place = new[l].place
    <3>1. \A l, m \in 1 .. n : new[l].place = new[m].place => l = m
      BY <1>3, <2>11
    <3>2. \A l \in 1 .. n : Len(new[l].evidence) \in 0 .. 3
      BY <1>3, <2>7, <2>8, <2>10
    <3>3. \A g \in J : \E l \in 1 .. n : new[l].place = g.place
      BY <1>3, <2>1, <2>11
    <3>4. \A l \in 1 .. n : \E g \in J : g.place = new[l].place
      BY <1>3, <2>11
    <3> QED
      BY <3>1, <3>2, <3>3, <3>4
  <2>13. Located(new, J)
    BY <2>10, <2>12 DEF Located
  <2> QED
    BY <2>10, <2>13 DEF new
<1> QED
  BY <1>5, <1>6

\* One more finding changes the issue of its kind, or adds it.
LEMMA LocatedTells ==
    ASSUME NEW S \in SUBSET Row, NEW f \in Row, NEW merged \in Issue, merged.kind = f.kind,
           Raised(merged, OfKind(S, f.kind) \union {f}),
           Located(merged.locations, OfKind(S, f.kind))
    PROVE  LET located == [merged EXCEPT !.locations = Locate(@, f)]
           IN located \in Issue /\ located.kind = f.kind /\ Tells(located, S \union {f})
<1> DEFINE K == OfKind(S, f.kind)
           located == [merged EXCEPT !.locations = Locate(@, f)]
           locations == Locate(merged.locations, f)
<1>1. K \in SUBSET Row
  BY DEF OfKind
<1>2. OfKind(S \union {f}, f.kind) = K \union {f}
  BY DEF OfKind
<1>3. merged.locations \in Seq(Location)
  BY DEF Issue
<1> HIDE DEF K
<1>4. locations \in Seq(Location) /\ Located(locations, K \union {f})
  <2>1. Located(merged.locations, K)
    BY DEF K
  <2> QED
    BY <1>1, <1>3, <2>1, LocateKeeps
<1>5. located = [merged EXCEPT !.locations = locations]
  OBVIOUS
<1> HIDE DEF locations, located
<1>6. /\ located \in Issue /\ located.kind = f.kind /\ located.locations = locations
      /\ located.severity = merged.severity /\ located.confidence = merged.confidence
      /\ located.risk = merged.risk /\ located.engines = merged.engines
  BY <1>4, <1>5 DEF Issue
<1>7. Raised(located, K \union {f})
  <2>1. Raised(merged, K \union {f})
    BY DEF K
  <2> QED
    BY <1>6, <2>1 DEF Raised
<1>8. Tells(located, S \union {f})
  BY <1>2, <1>4, <1>6, <1>7 DEF Tells
<1> QED
  BY <1>6, <1>8 DEF located

\* One turn of the loop keeps its invariant.
LEMMA AddKeeps ==
    ASSUME NEW S \in SUBSET Row, NEW f \in Row, NEW groups, LoopInv(groups, S)
    PROVE  LoopInv(Add(groups, f), S \union {f})
<1> DEFINE n == Len(groups)
           known == {i \in DOMAIN groups : groups[i].kind = f.kind}
           new == Add(groups, f)
           T == S \union {f}
<1>1. /\ groups \in Seq(Issue)
      /\ \A i, j \in 1 .. n : groups[i].kind = groups[j].kind => i = j
      /\ \A g \in S : \E i \in 1 .. n : groups[i].kind = g.kind
      /\ \A i \in 1 .. n : Tells(groups[i], S)
  BY DEF LoopInv
<1>2. n \in Nat /\ DOMAIN groups = 1 .. n /\ \A i \in 1 .. n : groups[i] \in Issue
  BY <1>1, SequenceIs
<1>3. \A i \in 1 .. n : groups[i].kind # f.kind => Tells(groups[i], T)
  <2> SUFFICES ASSUME NEW i \in 1 .. n, groups[i].kind # f.kind
               PROVE  Tells(groups[i], T)
    OBVIOUS
  <2>1. OfKind(T, groups[i].kind) = OfKind(S, groups[i].kind)
    BY DEF OfKind
  <2> QED
    BY <1>1, <2>1 DEF Tells
<1>4. CASE known = {}
  <2> DEFINE merged == NewIssue(f)
             located == [merged EXCEPT !.locations = Locate(@, f)]
  <2>1. new = Append(groups, located)
    BY <1>4 DEF Add
  <2>2. OfKind(S, f.kind) = {}
    BY <1>1, <1>2, <1>4 DEF OfKind
  <2>3. merged \in Issue /\ merged.kind = f.kind /\ merged.locations = << >>
        /\ Raised(merged, OfKind(S, f.kind) \union {f})
    BY <2>2, NewIssueRaises
  <2>4. Located(<< >>, {})
    BY DEF Located
  <2> HIDE DEF merged, new
  <2>5. located \in Issue /\ located.kind = f.kind /\ Tells(located, T)
    BY <2>2, <2>3, <2>4, LocatedTells
  <2> HIDE DEF located
  <2>6. /\ new \in Seq(Issue) /\ Len(new) = n + 1
        /\ \A i \in 1 .. n : new[i] = groups[i]
        /\ new[n + 1] = located
    BY <1>1, <1>2, <2>1, <2>5, AppendProperties
  <2>7. \A i \in 1 .. n : groups[i].kind # f.kind
    BY <1>2, <1>4
  <2>8. \A i \in 1 .. n + 1 : i \in 1 .. n \/ i = n + 1
    BY <1>2
  <2>9. n + 1 \in 1 .. n + 1 /\ 1 .. n \subseteq 1 .. n + 1
    BY <1>2
  <2> HIDE DEF n, known
  <2>10. \A i, j \in 1 .. n + 1 : new[i].kind = new[j].kind => i = j
    BY <1>1, <2>5, <2>6, <2>7, <2>8
  <2>11. \A g \in T : \E i \in 1 .. n + 1 : new[i].kind = g.kind
    <3>1. ASSUME NEW g \in S PROVE \E i \in 1 .. n + 1 : new[i].kind = g.kind
      BY <1>1, <2>6, <2>9
    <3>2. new[n + 1].kind = f.kind
      BY <2>5, <2>6
    <3> QED
      BY <2>9, <3>1, <3>2
  <2>12. \A i \in 1 .. n + 1 : Tells(new[i], T)
    <3> SUFFICES ASSUME NEW i \in 1 .. n + 1
                 PROVE  Tells(new[i], T)
      OBVIOUS
    <3>1. CASE i \in 1 .. n
      BY <1>3, <2>6, <2>7, <3>1
    <3>2. CASE i = n + 1
      BY <2>5, <2>6, <3>2
    <3> QED
      BY <2>8, <3>1, <3>2
  <2>13. LoopInv(new, T)
    BY <2>6, <2>10, <2>11, <2>12 DEF LoopInv
  <2> QED
    BY <2>13 DEF new
<1>5. CASE known # {}
  <2>1. PICK i \in 1 .. n : groups[i].kind = f.kind
    BY <1>2, <1>5
  <2>2. known = {i}
    BY <1>1, <1>2, <2>1
  <2>3. Min(known) = i
    <3>1. Min({i}) = i
      BY <1>2, <2>1 DEF Min
    <3> QED
      BY <2>2, <3>1
  <2> DEFINE merged == Merge(groups[i], f)
             located == [merged EXCEPT !.locations = Locate(@, f)]
  <2>4. new = [groups EXCEPT ![i] = located]
    <3> DEFINE k == Min(known)
    <3>1. new = [groups EXCEPT ![k] = [Merge(groups[k], f) EXCEPT !.locations = Locate(@, f)]]
      BY <1>5 DEF Add
    <3>2. k = i
      BY <2>3
    <3> HIDE DEF k, new
    <3> QED
      BY <3>1, <3>2
  <2>5. Raised(groups[i], OfKind(S, f.kind)) /\ Located(groups[i].locations, OfKind(S, f.kind))
    BY <1>1, <2>1 DEF Tells
  <2>6. merged \in Issue /\ merged.kind = f.kind /\ merged.locations = groups[i].locations
        /\ Raised(merged, OfKind(S, f.kind) \union {f})
    <3>1. OfKind(S, f.kind) \in SUBSET Row
      BY DEF OfKind
    <3> QED
      BY <1>2, <2>1, <2>5, <3>1, MergeRaises
  <2> HIDE DEF merged, new
  <2>7. located \in Issue /\ located.kind = f.kind /\ Tells(located, T)
    BY <2>5, <2>6, LocatedTells
  <2> HIDE DEF located
  <2>8. /\ new \in Seq(Issue) /\ Len(new) = n
        /\ \A j \in 1 .. n : new[j] = IF j = i THEN located ELSE groups[j]
    BY <1>1, <2>1, <2>4, <2>7, ExceptSeq
  <2>9. \A j \in 1 .. n : new[j].kind = groups[j].kind
    BY <2>1, <2>7, <2>8
  <2>10. \A j \in 1 .. n : Tells(new[j], T)
    <3> SUFFICES ASSUME NEW j \in 1 .. n
                 PROVE  Tells(new[j], T)
      OBVIOUS
    <3>1. CASE j = i
      BY <2>7, <2>8, <3>1
    <3>2. CASE j # i
      BY <1>1, <1>3, <2>1, <2>8, <3>2
    <3> QED
      BY <3>1, <3>2
  <2>11. \A g \in T : \E j \in 1 .. n : new[j].kind = g.kind
    BY <1>1, <2>1, <2>9
  <2>12. LoopInv(new, T)
    <3> HIDE DEF n, T
    <3> QED
      BY <1>1, <2>8, <2>9, <2>10, <2>11 DEF LoopInv, n
  <2> QED
    BY <2>12 DEF new
<1> QED
  BY <1>4, <1>5

\* The recursive function of the loop exists.
LEMMA GroupedIs ==
    ASSUME NEW findings, Len(findings) \in Nat
    PROVE  \E done : /\ done[0] = << >>
                     /\ \A n \in 1 .. Len(findings) :
                          done[n] = Add(done[n - 1], findings[n])
                     /\ Grouped(findings) = done[Len(findings)]
<1> DEFINE Loop(g, n) ==
             g = [m \in 0 .. n |-> IF m = 0 THEN << >> ELSE Add(g[m - 1], findings[m])]
           stuck == {n \in Nat : ~ \E g : Loop(g, n)}
<1>1. stuck = {}
  <2> SUFFICES ASSUME stuck # {}
               PROVE  FALSE
    OBVIOUS
  <2>1. PICK n \in stuck : \A m \in stuck : n <= m
    <3>1. stuck \in SUBSET Nat
      OBVIOUS
    <3> HIDE DEF stuck
    <3> QED
      BY <3>1, Least
  <2>2. n # 0
    <3> DEFINE g == [m \in 0 .. 0 |-> << >>]
    <3>1. Loop(g, 0)
      OBVIOUS
    <3>2. 0 \notin stuck
      BY <3>1
    <3> QED
      BY <3>2, <2>1
  <2>3. n \in Nat /\ n - 1 \in Nat /\ n - 1 \notin stuck
    BY <2>1, <2>2
  <2>4. PICK g : Loop(g, n - 1)
    BY <2>3
  <2> DEFINE h == [m \in 0 .. n |-> IF m = n THEN Add(g[n - 1], findings[n]) ELSE g[m]]
  <2>5. \A m \in 0 .. n - 1 :
          h[m] = g[m] /\ g[m] = IF m = 0 THEN << >> ELSE Add(g[m - 1], findings[m])
    BY <2>3, <2>4
  <2>6. \A m \in 0 .. n : h[m] = IF m = 0 THEN << >> ELSE Add(h[m - 1], findings[m])
    <3> SUFFICES ASSUME NEW m \in 0 .. n
                 PROVE  h[m] = IF m = 0 THEN << >> ELSE Add(h[m - 1], findings[m])
      OBVIOUS
    <3>1. CASE m = n
      <4>1. h[n] = Add(g[n - 1], findings[n]) /\ h[n - 1] = g[n - 1]
        BY <2>3, <2>5
      <4> QED
        BY <2>2, <3>1, <4>1
    <3>2. CASE m = 0
      <4>1. 0 \in 0 .. n - 1
        BY <2>3
      <4>2. h[0] = << >>
        BY <2>5, <4>1
      <4> HIDE DEF h
      <4> QED
        BY <3>2, <4>2
    <3>3. CASE m # n /\ m # 0
      <4>1. m \in 0 .. n - 1 /\ m - 1 \in 0 .. n - 1
        BY <2>3, <3>3
      <4>2. h[m] = Add(g[m - 1], findings[m]) /\ h[m - 1] = g[m - 1]
        BY <2>5, <3>3, <4>1
      <4> QED
        BY <3>3, <4>2
    <3> QED
      BY <3>1, <3>2, <3>3
  <2>7. h = [m \in 0 .. n |-> h[m]]
    OBVIOUS
  <2> HIDE DEF h
  <2>8. Loop(h, n)
    BY <2>6, <2>7
  <2> QED
    BY <2>1, <2>8
<1> DEFINE done == CHOOSE g : Loop(g, Len(findings))
<1>2. Loop(done, Len(findings))
  BY <1>1
<1>3. Grouped(findings) = done[Len(findings)]
  BY DEF Grouped
<1> HIDE DEF done
<1>4. \A n \in 0 .. Len(findings) :
        done[n] = IF n = 0 THEN << >> ELSE Add(done[n - 1], findings[n])
  BY <1>2
<1>5. done[0] = << >> /\ \A n \in 1 .. Len(findings) : done[n] = Add(done[n - 1], findings[n])
  BY <1>4
<1> QED
  BY <1>3, <1>5

\* What the loop makes of all the findings.
LEMMA GroupedTells ==
    ASSUME NEW findings \in Seq(Row)
    PROVE  LoopInv(Grouped(findings), ToSet(findings))
<1> DEFINE first(n) == {findings[i] : i \in 1 .. n}
<1>1. /\ Len(findings) \in Nat /\ DOMAIN findings = 1 .. Len(findings)
      /\ \A i \in 1 .. Len(findings) : findings[i] \in Row
  BY SequenceIs
<1>2. PICK done : /\ done[0] = << >>
                  /\ \A n \in 1 .. Len(findings) : done[n] = Add(done[n - 1], findings[n])
                  /\ Grouped(findings) = done[Len(findings)]
  BY <1>1, GroupedIs
<1> DEFINE wrong == {n \in 0 .. Len(findings) : ~ LoopInv(done[n], first(n))}
<1>3. wrong = {}
  <2> SUFFICES ASSUME wrong # {}
               PROVE  FALSE
    OBVIOUS
  <2>1. PICK n \in wrong : \A m \in wrong : n <= m
    <3>1. wrong \in SUBSET Nat
      BY <1>1
    <3> HIDE DEF wrong
    <3> QED
      BY <3>1, Least
  <2>2. n \in 0 .. Len(findings) /\ ~ LoopInv(done[n], first(n))
    BY <2>1
  <2>3. LoopInv(<< >>, {})
    BY EmptySeq DEF LoopInv
  <2>4. n # 0
    <3>1. first(0) = {}
      OBVIOUS
    <3> QED
      BY <1>2, <2>2, <2>3, <3>1
  <2>5. n - 1 \in 0 .. Len(findings) /\ n \in 1 .. Len(findings) /\ ~ (n <= n - 1)
    BY <1>1, <2>2, <2>4
  <2>6. LoopInv(done[n - 1], first(n - 1))
    <3>1. n - 1 \notin wrong
      BY <2>1, <2>5
    <3> QED
      BY <2>5, <3>1
  <2>7. first(n) = first(n - 1) \union {findings[n]}
    <3>1. \A i : i \in 1 .. n <=> i \in 1 .. n - 1 \/ i = n
      BY <1>1, <2>5
    <3> QED
      BY <3>1
  <2>8. first(n - 1) \in SUBSET Row /\ findings[n] \in Row
    BY <1>1, <2>5
  <2>9. LoopInv(done[n], first(n))
    <3> HIDE DEF first
    <3> QED
      BY <1>2, <2>5, <2>6, <2>7, <2>8, AddKeeps
  <2> QED
    BY <2>2, <2>9
<1>4. LoopInv(done[Len(findings)], first(Len(findings)))
  <2>1. \A n \in 0 .. Len(findings) : LoopInv(done[n], first(n))
    BY <1>3
  <2>2. Len(findings) \in 0 .. Len(findings)
    BY <1>1
  <2> QED
    BY <2>1, <2>2
<1>5. first(Len(findings)) = ToSet(findings)
  BY <1>1 DEF ToSet
<1> QED
  BY <1>2, <1>4, <1>5

-----------------------------------------------------------------------------
(* The report.                                                              *)

\* Sorting changes no element.
LEMMA SortedHas ==
    ASSUME NEW S, NEW s \in Seq(S), NEW t \in Seq(S), NEW key, InKeyOrder(t, s, key)
    PROVE  ToSet(t) = ToSet(s)
<1>1. /\ DOMAIN s = 1 .. Len(s) /\ DOMAIN t = 1 .. Len(t) /\ Len(t) = Len(s)
  BY LenProperties DEF InKeyOrder
<1>2. PICK at \in [1 .. Len(s) -> 1 .. Len(s)] :
          /\ \A k \in 1 .. Len(s) : t[k] = s[at[k]]
          /\ \A i \in 1 .. Len(s) : \E k \in 1 .. Len(s) : at[k] = i
  BY DEF InKeyOrder
<1>3. \A k \in 1 .. Len(s) : at[k] \in 1 .. Len(s)
  OBVIOUS
<1>4. ASSUME NEW x \in ToSet(t) PROVE x \in ToSet(s)
  BY <1>1, <1>2, <1>3 DEF ToSet
<1>5. ASSUME NEW x \in ToSet(s) PROVE x \in ToSet(t)
  <2>1. PICK i \in 1 .. Len(s) : x = s[i]
    BY <1>1 DEF ToSet
  <2>2. PICK k \in 1 .. Len(s) : at[k] = i
    BY <1>2
  <2> QED
    BY <1>1, <1>2, <2>1, <2>2 DEF ToSet
<1> QED
  BY <1>4, <1>5

\* The technical payload has every row.
LEMMA TechnicalIs ==
    ASSUME NEW findings \in Seq(Row)
    PROVE  /\ TechnicalFindings(findings) \in Seq(Row)
           /\ ToSet(TechnicalFindings(findings)) = ToSet(findings)
<1> DEFINE key == [i \in DOMAIN findings |->
                      <<- SeverityRank[findings[i].severity], - findings[i].risk,
                        Title(findings[i].kind), Endpoint(findings[i].place)>>]
           t == TechnicalFindings(findings)
<1>1. /\ DOMAIN findings = 1 .. Len(findings)
      /\ \A i \in 1 .. Len(findings) : findings[i] \in Row
  BY SequenceIs
<1>2. \A i \in 1 .. Len(findings) : key[i] \in [1 .. 4 -> Int]
  <2> SUFFICES ASSUME NEW i \in 1 .. Len(findings)
               PROVE  key[i] \in [1 .. 4 -> Int]
    OBVIOUS
  <2> DEFINE a == SeverityRank[findings[i].severity]
             b == findings[i].risk
             c == Title(findings[i].kind)
             d == Endpoint(findings[i].place)
  <2>1. key[i] = <<- a, - b, c, d>>
    BY <1>1
  <2>2. /\ findings[i].severity \in Severities /\ findings[i].risk \in 0 .. 100
        /\ c \in Nat /\ d \in Nat
    BY <1>1, RowsAre, WordsAre
  <2>3. a \in Int /\ b \in Int /\ c \in Int /\ d \in Int
    <3>1. a \in 0 .. 4
      BY <2>2, RanksAre
    <3>2. b \in 0 .. 100 /\ c \in Nat /\ d \in Nat
      BY <2>2
    <3> HIDE DEF a, b, c, d
    <3> QED
      BY <3>1, <3>2
  <2> HIDE DEF a, b, c, d, key
  <2> QED
    BY <2>1, <2>3
<1>3. t = Sorted(findings, key)
  BY DEF TechnicalFindings
<1> HIDE DEF key, t
<1>4. t \in Seq(Row) /\ InKeyOrder(t, findings, key)
  <2>1. ASSUME NEW k, NEW m \in Nat,
               \A g \in 1 .. Len(findings) : k[g] \in [1 .. m -> Int]
        PROVE  /\ Sorted(findings, k) \in Seq(Row)
               /\ InKeyOrder(Sorted(findings, k), findings, k)
    BY <2>1, SortedIs
  <2> QED
    BY <1>2, <1>3, <2>1
<1>5. ToSet(t) = ToSet(findings)
  BY <1>4, SortedHas
<1> QED
  BY <1>4, <1>5 DEF t

\* Sorted locations are the same locations.
LEMMA ByPlaceIs ==
    ASSUME NEW K, NEW locations \in Seq(Location), Located(locations, K)
    PROVE  /\ ByPlace(locations) \in Seq(Location)
           /\ Located(ByPlace(locations), K)
<1> DEFINE key == [i \in DOMAIN locations |-> <<Endpoint(locations[i].place),
                                                Method(locations[i].place)>>]
           t == ByPlace(locations)
           n == Len(locations)
<1>1. /\ DOMAIN locations = 1 .. n /\ n \in Nat
      /\ \A i \in 1 .. n : locations[i] \in Location
  BY SequenceIs
<1>2. \A i \in 1 .. n : key[i] \in [1 .. 2 -> Int]
  <2> SUFFICES ASSUME NEW i \in 1 .. n
               PROVE  key[i] \in [1 .. 2 -> Int]
    OBVIOUS
  <2> DEFINE a == Endpoint(locations[i].place)
             b == Method(locations[i].place)
  <2>1. key[i] = <<a, b>>
    BY <1>1
  <2>2. a \in Nat /\ b \in Nat
    BY <1>1, WordsAre DEF Location
  <2>3. a \in Int /\ b \in Int
    BY <2>2
  <2> HIDE DEF a, b, key
  <2> QED
    BY <2>1, <2>3
<1>3. t = Sorted(locations, key)
  BY DEF ByPlace
<1> HIDE DEF key, t
<1>4. t \in Seq(Location) /\ InKeyOrder(t, locations, key)
  <2>1. ASSUME NEW k, NEW m \in Nat, \A g \in 1 .. n : k[g] \in [1 .. m -> Int]
        PROVE  /\ Sorted(locations, k) \in Seq(Location)
               /\ InKeyOrder(Sorted(locations, k), locations, k)
    BY <2>1, SortedIs
  <2> QED
    BY <1>2, <1>3, <2>1
<1>5. Len(t) = n
  BY <1>4 DEF InKeyOrder
<1>6. PICK at \in [1 .. n -> 1 .. n] :
          /\ \A k \in 1 .. n : t[k] = locations[at[k]]
          /\ \A i \in 1 .. n : \E k \in 1 .. n : at[k] = i
          /\ \A j, k \in 1 .. n :
               j < k => /\ at[j] # at[k]
                        /\ Less(key[at[j]], key[at[k]]) \/ key[at[j]] = key[at[k]]
  BY <1>4 DEF InKeyOrder
<1> HIDE DEF n
<1>7. \A k \in 1 .. n : at[k] \in 1 .. n
  OBVIOUS
<1>8. \A l, m \in 1 .. n : locations[l].place = locations[m].place => l = m
  BY DEF Located, n
<1>9. \A j, k \in 1 .. n : t[j].place = t[k].place => j = k
  <2> SUFFICES ASSUME NEW j \in 1 .. n, NEW k \in 1 .. n, j # k
               PROVE  t[j].place # t[k].place
    OBVIOUS
  <2>1. j < k \/ k < j
    BY <1>1
  <2>2. at[j] # at[k] /\ at[j] \in 1 .. n /\ at[k] \in 1 .. n
    BY <1>6, <1>7, <2>1
  <2>3. locations[at[j]].place # locations[at[k]].place
    BY <1>8, <2>2
  <2> QED
    BY <1>6, <2>3
<1>10. /\ \A l \in 1 .. n : Len(t[l].evidence) \in 0 .. 3
       /\ \A f \in K : \E l \in 1 .. n : t[l].place = f.place
       /\ \A l \in 1 .. n : \E f \in K : f.place = t[l].place
  <2>1. /\ \A l \in 1 .. n : Len(locations[l].evidence) \in 0 .. 3
        /\ \A f \in K : \E l \in 1 .. n : locations[l].place = f.place
        /\ \A l \in 1 .. n : \E f \in K : f.place = locations[l].place
    BY DEF Located, n
  <2>2. \A f \in K : \E l \in 1 .. n : t[l].place = f.place
    <3> SUFFICES ASSUME NEW f \in K
                 PROVE  \E l \in 1 .. n : t[l].place = f.place
      OBVIOUS
    <3>1. PICK m \in 1 .. n : locations[m].place = f.place
      BY <2>1
    <3>2. PICK l \in 1 .. n : at[l] = m
      BY <1>6
    <3>3. t[l] = locations[m]
      BY <1>6, <3>2
    <3> QED
      BY <3>1, <3>3
  <2>0. \A l \in 1 .. n : \E m \in 1 .. n : t[l] = locations[m]
    BY <1>6, <1>7
  <2>3. \A l \in 1 .. n : Len(t[l].evidence) \in 0 .. 3
    <3> SUFFICES ASSUME NEW l \in 1 .. n
                 PROVE  Len(t[l].evidence) \in 0 .. 3
      OBVIOUS
    <3>1. PICK m \in 1 .. n : t[l] = locations[m]
      BY <2>0
    <3>2. Len(locations[m].evidence) \in 0 .. 3
      BY <2>1
    <3> QED
      BY <3>1, <3>2
  <2>4. \A l \in 1 .. n : \E f \in K : f.place = t[l].place
    <3> SUFFICES ASSUME NEW l \in 1 .. n
                 PROVE  \E f \in K : f.place = t[l].place
      OBVIOUS
    <3>1. PICK m \in 1 .. n : t[l] = locations[m]
      BY <2>0
    <3>2. \E f \in K : f.place = locations[m].place
      BY <2>1
    <3> QED
      BY <3>1, <3>2
  <2> QED
    BY <2>2, <2>3, <2>4
<1>11. Located(t, K)
  BY <1>5, <1>9, <1>10 DEF Located
<1> QED
  BY <1>4, <1>11 DEF t

IssueKey(x) == <<- SeverityRank[x.severity], - x.risk, Title(x.kind)>>

\* The key of an issue has three columns.
LEMMA IssueKeyIs ==
    ASSUME NEW x \in Issue
    PROVE  IssueKey(x) \in [1 .. 3 -> Int]
<1> DEFINE a == SeverityRank[x.severity]
           b == x.risk
           c == Title(x.kind)
<1>1. x.severity \in Severities /\ b \in 0 .. 100 /\ c \in Nat
  BY WordsAre DEF Issue
<1>2. a \in 0 .. 4
  BY <1>1, RanksAre
<1>3. IssueKey(x) = <<- a, - b, c>>
  BY DEF IssueKey
<1> HIDE DEF a, b, c
<1> QED
  BY <1>1, <1>2, <1>3

\* The issues of a report say what all the findings say.
LEMMA PayloadIs ==
    ASSUME NEW findings \in Seq(Row)
    PROVE  LoopInv(pentest_payload(findings), ToSet(findings))
<1> DEFINE S == ToSet(findings)
           groups == Grouped(findings)
           n == Len(groups)
           key == [i \in DOMAIN groups |->
                      <<- SeverityRank[groups[i].severity],
                        - groups[i].risk, Title(groups[i].kind)>>]
           sorted == Sorted(groups, key)
           payload == pentest_payload(findings)
<1>1. LoopInv(groups, S)
  BY GroupedTells
<1> HIDE DEF groups
<1>2. /\ groups \in Seq(Issue)
      /\ \A i, j \in 1 .. n : groups[i].kind = groups[j].kind => i = j
      /\ \A f \in S : \E i \in 1 .. n : groups[i].kind = f.kind
      /\ \A i \in 1 .. n : Tells(groups[i], S)
  BY <1>1 DEF LoopInv
<1>3. n \in Nat /\ DOMAIN groups = 1 .. n /\ \A i \in 1 .. n : groups[i] \in Issue
  BY <1>2, SequenceIs
<1>4. payload = [i \in DOMAIN sorted |-> [sorted[i] EXCEPT !.locations = ByPlace(@)]]
  BY DEF pentest_payload, groups
<1>5. \A i \in 1 .. n : key[i] = IssueKey(groups[i])
  BY <1>3 DEF IssueKey
<1> HIDE DEF key, payload
<1>6. \A i \in 1 .. n : key[i] \in [1 .. 3 -> Int]
  BY <1>3, <1>5, IssueKeyIs
<1>7. sorted \in Seq(Issue) /\ InKeyOrder(sorted, groups, key)
  <2>1. ASSUME NEW k, NEW m \in Nat, \A g \in 1 .. n : k[g] \in [1 .. m -> Int]
        PROVE  Sorted(groups, k) \in Seq(Issue) /\ InKeyOrder(Sorted(groups, k), groups, k)
    BY <1>2, <2>1, SortedIs
  <2> QED
    BY <1>6, <2>1
<1> HIDE DEF sorted
<1>8. Len(sorted) = n /\ DOMAIN sorted = 1 .. n
  <2>1. Len(sorted) = n
    BY <1>7 DEF InKeyOrder
  <2> QED
    BY <1>7, <2>1, LenProperties
<1>9. PICK at \in [1 .. n -> 1 .. n] :
          /\ \A k \in 1 .. n : sorted[k] = groups[at[k]]
          /\ \A i \in 1 .. n : \E k \in 1 .. n : at[k] = i
          /\ \A j, k \in 1 .. n :
               j < k => /\ at[j] # at[k]
                        /\ Less(key[at[j]], key[at[k]]) \/ key[at[j]] = key[at[k]]
  BY <1>7 DEF InKeyOrder
<1> HIDE DEF n
<1>10. \A k \in 1 .. n : at[k] \in 1 .. n
  OBVIOUS
<1>11. payload = [i \in 1 .. n |-> [sorted[i] EXCEPT !.locations = ByPlace(@)]]
  BY <1>4, <1>8
<1>12. \A i \in 1 .. n :
         /\ payload[i] \in Issue
         /\ payload[i].kind = groups[at[i]].kind
         /\ Tells(payload[i], S)
  <2> SUFFICES ASSUME NEW i \in 1 .. n
               PROVE
         /\ payload[i] \in Issue
         /\ payload[i].kind = groups[at[i]].kind
         /\ Tells(payload[i], S)
    OBVIOUS
  <2> DEFINE x == groups[at[i]]
             y == payload[i]
             locations == ByPlace(x.locations)
             K == OfKind(S, x.kind)
  <2>1. at[i] \in 1 .. n /\ sorted[i] = x
    BY <1>9, <1>10
  <2>2. x \in Issue /\ Tells(x, S)
    BY <1>2, <1>3, <2>1 DEF n
  <2> HIDE DEF x
  <2>3. y = [x EXCEPT !.locations = locations]
    BY <1>11, <2>1
  <2>4. x.locations \in Seq(Location) /\ Located(x.locations, K) /\ Raised(x, K)
    BY <2>2 DEF Issue, Tells
  <2>5. locations \in Seq(Location) /\ Located(locations, K)
    BY <2>4, ByPlaceIs
  <2> HIDE DEF y, locations
  <2>6. /\ y \in Issue /\ y.kind = x.kind /\ y.locations = locations
        /\ y.severity = x.severity /\ y.confidence = x.confidence
        /\ y.risk = x.risk /\ y.engines = x.engines
    BY <2>2, <2>3, <2>5 DEF Issue
  <2>7. Raised(y, K)
    BY <2>4, <2>6 DEF Raised
  <2>8. Tells(y, S)
    BY <2>5, <2>6, <2>7 DEF Tells
  <2> QED
    BY <2>6, <2>8 DEF y, x
<1>13. payload \in Seq(Issue) /\ Len(payload) = n
  <2>1. payload = [i \in 1 .. n |-> payload[i]]
    BY <1>11
  <2> QED
    BY <1>3, <1>12, <2>1, FunctionIs DEF n
<1>14. \A i, j \in 1 .. n : payload[i].kind = payload[j].kind => i = j
  <2> SUFFICES ASSUME NEW i \in 1 .. n, NEW j \in 1 .. n, i # j
               PROVE  payload[i].kind # payload[j].kind
    OBVIOUS
  <2>1. i < j \/ j < i
    BY <1>3 DEF n
  <2>2. at[i] # at[j] /\ at[i] \in 1 .. n /\ at[j] \in 1 .. n
    BY <1>9, <1>10, <2>1
  <2>3. groups[at[i]].kind # groups[at[j]].kind
    BY <1>2, <2>2 DEF n
  <2> QED
    BY <1>12, <2>3
<1>15. \A f \in S : \E i \in 1 .. n : payload[i].kind = f.kind
  <2> SUFFICES ASSUME NEW f \in S
               PROVE  \E i \in 1 .. n : payload[i].kind = f.kind
    OBVIOUS
  <2>1. PICK k \in 1 .. n : groups[k].kind = f.kind
    BY <1>2 DEF n
  <2>2. PICK i \in 1 .. n : at[i] = k
    BY <1>9
  <2> QED
    BY <1>12, <2>1, <2>2
<1>16. LoopInv(payload, S)
  BY <1>12, <1>13, <1>14, <1>15 DEF LoopInv
<1> QED
  BY <1>16 DEF payload

-----------------------------------------------------------------------------
(* Reports on the same rows.                                                *)

\* What has each element of C once has as many as C.
LEMMA AllCounted ==
    ASSUME NEW n \in Nat, NEW C, NEW u \in [1 .. n -> C],
           \A i, j \in 1 .. n : u[i] = u[j] => i = j,
           \A c \in C : \E i \in 1 .. n : u[i] = c
    PROVE  n = Cardinality(C)
<1>1. u \in Bijection(1 .. n, C)
  BY DEF Bijection, Injection, Surjection, IsInjective
<1>2. ExistsBijection(1 .. n, C)
  BY <1>1 DEF ExistsBijection
<1> QED
  BY <1>2, FS_CountingElements

\* The locations of an issue are as many as the places of its findings.
LEMMA PlacesAre ==
    ASSUME NEW K, NEW locations \in Seq(Location), Located(locations, K)
    PROVE  /\ {l.place : l \in ToSet(locations)} = {f.place : f \in K}
           /\ Len(locations) = Cardinality({f.place : f \in K})
<1> DEFINE n == Len(locations)
           at == [l \in 1 .. n |-> locations[l].place]
<1>1. /\ n \in Nat
      /\ \A i \in 1 .. n : locations[i] \in ToSet(locations)
      /\ \A l \in ToSet(locations) : \E i \in 1 .. n : locations[i] = l
  BY SequenceIs
<1>2. /\ \A l, m \in 1 .. n : locations[l].place = locations[m].place => l = m
      /\ \A f \in K : \E l \in 1 .. n : locations[l].place = f.place
      /\ \A l \in 1 .. n : \E f \in K : f.place = locations[l].place
  BY DEF Located
<1>3. /\ \A l \in 1 .. n : at[l] = locations[l].place
      /\ \A l, m \in 1 .. n : at[l] = at[m] => l = m
  BY <1>2
<1> HIDE DEF at, n
<1>4. {l.place : l \in ToSet(locations)} = {f.place : f \in K}
  <2>1. ASSUME NEW l \in ToSet(locations)
        PROVE  \E f \in K : l.place = f.place
    BY <1>1, <1>2
  <2>2. ASSUME NEW f \in K
        PROVE  \E l \in ToSet(locations) : f.place = l.place
    BY <1>1, <1>2
  <2> QED
    BY <2>1, <2>2
<1>5. /\ at \in [1 .. n -> {f.place : f \in K}]
      /\ \A c \in {f.place : f \in K} : \E l \in 1 .. n : at[l] = c
  <2>1. \A l \in 1 .. n : at[l] \in {f.place : f \in K}
    BY <1>2, <1>3
  <2>2. at = [l \in 1 .. n |-> at[l]]
    BY DEF at
  <2>3. \A f \in K : \E l \in 1 .. n : at[l] = f.place
    BY <1>2, <1>3
  <2> QED
    BY <2>1, <2>2, <2>3
<1>6. n = Cardinality({f.place : f \in K})
  <2> DEFINE C == {f.place : f \in K}
  <2>1. at \in [1 .. n -> C] /\ \A c \in C : \E l \in 1 .. n : at[l] = c
    BY <1>5
  <2> HIDE DEF C
  <2>2. n = Cardinality(C)
    BY <1>1, <1>3, <2>1, AllCounted
  <2> QED
    BY <2>2 DEF C
<1> QED
  BY <1>4, <1>6 DEF n

\* The highest values of the findings in K are a function of K.
LEMMA HighestOnce ==
    ASSUME NEW K \in SUBSET Row,
           NEW x \in Issue, Raised(x, K), NEW y \in Issue, Raised(y, K)
    PROVE  /\ x.severity = y.severity
           /\ x.confidence = y.confidence
           /\ x.risk = y.risk
           /\ x.engines = y.engines
<1>1. /\ x.severity \in Severities /\ y.severity \in Severities
      /\ x.confidence \in Confidences /\ y.confidence \in Confidences
      /\ x.risk \in 0 .. 100 /\ y.risk \in 0 .. 100
  BY DEF Issue
<1>2. SeverityRank[x.severity] >= SeverityRank[y.severity]
      /\ SeverityRank[y.severity] >= SeverityRank[x.severity]
  BY DEF Raised
<1>3. ConfidenceRank[x.confidence] >= ConfidenceRank[y.confidence]
      /\ ConfidenceRank[y.confidence] >= ConfidenceRank[x.confidence]
  BY DEF Raised
<1>4. x.risk >= y.risk /\ y.risk >= x.risk
  BY DEF Raised
<1>5. \A a, b \in 0 .. 100 : a >= b /\ b >= a => a = b
  OBVIOUS
<1>6. /\ SeverityRank[x.severity] \in 0 .. 100 /\ SeverityRank[y.severity] \in 0 .. 100
      /\ ConfidenceRank[x.confidence] \in 0 .. 100 /\ ConfidenceRank[y.confidence] \in 0 .. 100
  <2>1. 0 .. 4 \subseteq 0 .. 100 /\ 0 .. 2 \subseteq 0 .. 100
    OBVIOUS
  <2> QED
    BY <1>1, <2>1, RanksAre
<1>7. SeverityRank[x.severity] = SeverityRank[y.severity]
  BY <1>2, <1>5, <1>6
<1>8. ConfidenceRank[x.confidence] = ConfidenceRank[y.confidence]
  BY <1>3, <1>5, <1>6
<1>9. x.engines = y.engines
  BY DEF Raised
<1> QED
  BY <1>1, <1>4, <1>5, <1>7, <1>8, <1>9, RanksAre

\* The issues of a kind in two reports on the same findings say the same.
LEMMA IssueAgain ==
    ASSUME NEW S \in SUBSET Row, NEW x \in Issue, Tells(x, S), NEW y \in Issue, Tells(y, S),
           x.kind = y.kind
    PROVE  Said(x) = Said(y)
<1> DEFINE K == OfKind(S, x.kind)
<1>1. K \in SUBSET Row
  BY DEF OfKind
<1>2. Raised(x, K) /\ Located(x.locations, K) /\ Raised(y, K) /\ Located(y.locations, K)
  BY DEF Tells
<1> HIDE DEF K
<1>3. x.locations \in Seq(Location) /\ y.locations \in Seq(Location)
  BY DEF Issue
<1>4. /\ {l.place : l \in ToSet(x.locations)} = {l.place : l \in ToSet(y.locations)}
      /\ Len(x.locations) = Len(y.locations)
  BY <1>2, <1>3, PlacesAre
<1>5. /\ x.severity = y.severity
      /\ x.confidence = y.confidence
      /\ x.risk = y.risk
      /\ x.engines = y.engines
  BY <1>1, <1>2, HighestOnce
<1> QED
  BY <1>4, <1>5 DEF Said

\* Two reports on the same findings say the same.
LEMMA ReportAgain ==
    ASSUME NEW S \in SUBSET Row, NEW P, LoopInv(P, S), NEW Q, LoopInv(Q, S)
    PROVE  /\ Len(P) = Len(Q)
           /\ {Said(x) : x \in ToSet(P)} = {Said(x) : x \in ToSet(Q)}
<1>1. ASSUME NEW R, LoopInv(R, S)
      PROVE  /\ \A i \in 1 .. Len(R) : R[i] \in Issue /\ R[i] \in ToSet(R) /\ Tells(R[i], S)
             /\ \A x \in ToSet(R) : \E i \in 1 .. Len(R) : R[i] = x
             /\ \A f \in S : \E i \in 1 .. Len(R) : R[i].kind = f.kind
             /\ \A i \in 1 .. Len(R) : \E f \in S : f.kind = R[i].kind
             /\ Len(R) = Cardinality({f.kind : f \in S})
  <2> DEFINE n == Len(R)
  <2>1. R \in Seq(Issue)
    BY <1>1 DEF LoopInv
  <2>2. /\ n \in Nat
        /\ \A i \in 1 .. n : R[i] \in Issue /\ R[i] \in ToSet(R)
        /\ \A x \in ToSet(R) : \E i \in 1 .. n : R[i] = x
    BY <2>1, SequenceIs
  <2>3. /\ \A i, j \in 1 .. n : R[i].kind = R[j].kind => i = j
        /\ \A f \in S : \E i \in 1 .. n : R[i].kind = f.kind
        /\ \A i \in 1 .. n : Tells(R[i], S)
    BY <1>1 DEF LoopInv
  <2>4. \A i \in 1 .. n : \E f \in S : f.kind = R[i].kind
    BY <2>3 DEF Tells, Raised, OfKind
  <2>5. n = Cardinality({f.kind : f \in S})
    <3> DEFINE C == {f.kind : f \in S}
               kinds == [i \in 1 .. n |-> R[i].kind]
    <3>1. \A i \in 1 .. n : kinds[i] = R[i].kind
      OBVIOUS
    <3>2. kinds = [i \in 1 .. n |-> kinds[i]]
      OBVIOUS
    <3> HIDE DEF kinds, n
    <3>3. \A i \in 1 .. n : kinds[i] \in C
      BY <2>4, <3>1
    <3>4. \A c \in C : \E i \in 1 .. n : kinds[i] = c
      BY <2>3, <3>1
    <3>5. \A i, j \in 1 .. n : kinds[i] = kinds[j] => i = j
      BY <2>3, <3>1
    <3> HIDE DEF C
    <3>6. kinds \in [1 .. n -> C]
      BY <3>2, <3>3
    <3>7. n = Cardinality(C)
      BY <2>2, <3>4, <3>5, <3>6, AllCounted
    <3> QED
      BY <3>7 DEF C
  <2> QED
    BY <2>2, <2>3, <2>4, <2>5
<1>2. ASSUME NEW R, LoopInv(R, S), NEW T, LoopInv(T, S), NEW x \in ToSet(R)
      PROVE  \E y \in ToSet(T) : Said(x) = Said(y)
  <2>1. PICK i \in 1 .. Len(R) : R[i] = x
    BY <1>1, <1>2
  <2>2. x \in Issue /\ Tells(x, S) /\ \E f \in S : f.kind = x.kind
    BY <1>1, <1>2, <2>1
  <2>3. PICK f \in S : f.kind = x.kind
    BY <2>2
  <2>4. PICK j \in 1 .. Len(T) : T[j].kind = f.kind
    BY <1>1, <1>2
  <2>5. T[j] \in Issue /\ T[j] \in ToSet(T) /\ Tells(T[j], S)
    BY <1>1, <1>2
  <2>6. Said(x) = Said(T[j])
    BY <2>2, <2>3, <2>4, <2>5, IssueAgain
  <2> QED
    BY <2>5, <2>6
<1>3. {Said(x) : x \in ToSet(P)} = {Said(x) : x \in ToSet(Q)}
  <2>1. \A x \in ToSet(P) : \E y \in ToSet(Q) : Said(x) = Said(y)
    BY <1>2
  <2>2. \A x \in ToSet(Q) : \E y \in ToSet(P) : Said(x) = Said(y)
    BY <1>2
  <2> QED
    BY <2>1, <2>2
<1>4. Len(P) = Len(Q)
  BY <1>1
<1> QED
  BY <1>3, <1>4

\* f and g are one row, read with its evidence in two orders.
Reads(f, g) ==
    /\ f.kind = g.kind /\ f.place = g.place
    /\ f.severity = g.severity /\ f.confidence = g.confidence
    /\ f.risk = g.risk /\ f.engines = g.engines

Alike(S, T) ==
    /\ \A f \in S : \E g \in T : Reads(f, g)
    /\ \A g \in T : \E f \in S : Reads(f, g)

\* A report says nothing of the order in which the evidence was read.
LEMMA AlikeTell ==
    ASSUME NEW S, NEW T, Alike(S, T), NEW report, LoopInv(report, S)
    PROVE  LoopInv(report, T)
<1>1. ASSUME NEW kind
      PROVE  Alike(OfKind(S, kind), OfKind(T, kind))
  <2>1. ASSUME NEW f \in OfKind(S, kind)
        PROVE  \E g \in OfKind(T, kind) : Reads(f, g)
    BY DEF Alike, OfKind, Reads
  <2>2. ASSUME NEW g \in OfKind(T, kind)
        PROVE  \E f \in OfKind(S, kind) : Reads(f, g)
    BY DEF Alike, OfKind, Reads
  <2> QED
    BY <2>1, <2>2 DEF Alike
<1>2. ASSUME NEW K, NEW L, Alike(K, L), NEW x, Raised(x, K)
      PROVE  Raised(x, L)
  <2>1. /\ \E f \in L : f.severity = x.severity
        /\ \E f \in L : f.confidence = x.confidence
        /\ \E f \in L : f.risk = x.risk
    BY <1>2 DEF Raised, Alike, Reads
  <2>2. \A f \in L : /\ SeverityRank[x.severity] >= SeverityRank[f.severity]
                     /\ ConfidenceRank[x.confidence] >= ConfidenceRank[f.confidence]
                     /\ x.risk >= f.risk
                     /\ f.engines \subseteq x.engines
    <3> SUFFICES ASSUME NEW g \in L
                 PROVE  /\ SeverityRank[x.severity] >= SeverityRank[g.severity]
                        /\ ConfidenceRank[x.confidence] >= ConfidenceRank[g.confidence]
                        /\ x.risk >= g.risk
                        /\ g.engines \subseteq x.engines
      OBVIOUS
    <3>1. PICK f \in K : Reads(f, g)
      BY <1>2 DEF Alike
    <3>2. /\ SeverityRank[x.severity] >= SeverityRank[f.severity]
          /\ ConfidenceRank[x.confidence] >= ConfidenceRank[f.confidence]
          /\ x.risk >= f.risk
          /\ f.engines \subseteq x.engines
      BY <1>2 DEF Raised
    <3> QED
      BY <3>1, <3>2 DEF Reads
  <2>3. \A e \in x.engines : \E f \in L : e \in f.engines
    <3> SUFFICES ASSUME NEW e \in x.engines
                 PROVE  \E f \in L : e \in f.engines
      OBVIOUS
    <3>1. PICK f \in K : e \in f.engines
      BY <1>2 DEF Raised
    <3>2. PICK g \in L : Reads(f, g)
      BY <1>2 DEF Alike
    <3> QED
      BY <3>1, <3>2 DEF Reads
  <2> QED
    BY <2>1, <2>2, <2>3 DEF Raised
<1>3. ASSUME NEW K, NEW L, Alike(K, L), NEW locations, Located(locations, K)
      PROVE  Located(locations, L)
  <2>1. \A f \in L : \E l \in 1 .. Len(locations) : locations[l].place = f.place
    <3> SUFFICES ASSUME NEW g \in L
                 PROVE  \E l \in 1 .. Len(locations) : locations[l].place = g.place
      OBVIOUS
    <3>1. PICK f \in K : Reads(f, g)
      BY <1>3 DEF Alike
    <3> QED
      BY <1>3, <3>1 DEF Located, Reads
  <2>2. \A l \in 1 .. Len(locations) : \E f \in L : f.place = locations[l].place
    <3> SUFFICES ASSUME NEW l \in 1 .. Len(locations)
                 PROVE  \E f \in L : f.place = locations[l].place
      OBVIOUS
    <3>1. PICK f \in K : f.place = locations[l].place
      BY <1>3 DEF Located
    <3>2. PICK g \in L : Reads(f, g)
      BY <1>3 DEF Alike
    <3> QED
      BY <3>1, <3>2 DEF Reads
  <2> QED
    BY <1>3, <2>1, <2>2 DEF Located
<1>4. \A i \in 1 .. Len(report) : Tells(report[i], T)
  <2> SUFFICES ASSUME NEW i \in 1 .. Len(report)
               PROVE  Tells(report[i], T)
    OBVIOUS
  <2> DEFINE K == OfKind(S, report[i].kind)
             L == OfKind(T, report[i].kind)
  <2>1. Alike(K, L)
    BY <1>1
  <2>2. Raised(report[i], K) /\ Located(report[i].locations, K)
    BY DEF LoopInv, Tells
  <2> HIDE DEF K, L
  <2>3. Raised(report[i], L) /\ Located(report[i].locations, L)
    BY <1>2, <1>3, <2>1, <2>2
  <2> QED
    BY <2>3 DEF Tells, L
<1>5. \A f \in T : \E i \in 1 .. Len(report) : report[i].kind = f.kind
  <2> SUFFICES ASSUME NEW g \in T
               PROVE  \E i \in 1 .. Len(report) : report[i].kind = g.kind
    OBVIOUS
  <2>1. PICK f \in S : Reads(f, g)
    BY DEF Alike
  <2> QED
    BY <2>1 DEF LoopInv, Reads
<1> QED
  BY <1>4, <1>5 DEF LoopInv

-----------------------------------------------------------------------------
(* One scan, delivered one or more times.                                   *)

\* The rows of the batches in B.
RowsOf(B) == UNION {ToSet(correlate_findings(b)) : b \in B}

\* The rows are those of all the batches; the last report was made of the rows of the
\* batches seen then, which are all of them until the scan is delivered again.
Inv ==
    /\ raw \in Seq(Drafts)
    /\ batches \in Seq(Seq(Drafts))
    /\ rows \in Seq(Row)
    /\ ToSet(rows) = RowsOf(ToSet(batches))
    /\ stage \in {"scanning", "reporting", "reported"}
    /\ stage # "scanning" => batches # << >>
    /\ stage = "reported" => LoopInv(issues, ToSet(rows))
    /\ \E seen \in SUBSET ToSet(batches) : LoopInv(issues, RowsOf(seen))

\* Appending and concatenating sequences, and the sets of their elements.
LEMMA AppendHas ==
    ASSUME NEW S, NEW s \in Seq(S), NEW x \in S
    PROVE  /\ Append(s, x) \in Seq(S)
           /\ Append(s, x) # << >>
           /\ ToSet(Append(s, x)) = ToSet(s) \union {x}
           /\ x \in ToSet(Append(s, x))
<1> DEFINE t == Append(s, x)
           n == Len(s)
<1>1. t \in Seq(S) /\ Len(t) = n + 1 /\ n \in Nat
  BY AppendProperties, LenProperties
<1>2. t[n + 1] = x /\ \A i \in 1 .. n : t[i] = s[i]
  BY AppendProperties
<1>3. DOMAIN t = 1 .. n + 1 /\ DOMAIN s = 1 .. n
  BY <1>1, LenProperties
<1> HIDE DEF t, n
<1>4. ToSet(t) = {t[i] : i \in 1 .. n + 1} /\ ToSet(s) = {s[i] : i \in 1 .. n}
  BY <1>3 DEF ToSet
<1>5. ToSet(t) \subseteq ToSet(s) \union {x}
  BY <1>1, <1>2, <1>4
<1>6. ToSet(s) \union {x} \subseteq ToSet(t)
  <2>1. n + 1 \in 1 .. n + 1 /\ \A i \in 1 .. n : i \in 1 .. n + 1
    BY <1>1
  <2> QED
    BY <1>2, <1>4, <2>1
<1>7. t # << >>
  <2>1. Len(<< >>) = 0
    OBVIOUS
  <2> QED
    BY <1>1, <2>1
<1> QED
  BY <1>1, <1>5, <1>6, <1>7 DEF t

\* What a concatenation contains.
LEMMA ConcatHas ==
    ASSUME NEW S, NEW s \in Seq(S), NEW t \in Seq(S)
    PROVE  s \o t \in Seq(S) /\ ToSet(s \o t) = ToSet(s) \union ToSet(t)
<1> DEFINE u == s \o t
           m == Len(s)
           n == Len(t)
<1>1. u \in Seq(S) /\ Len(u) = m + n /\ m \in Nat /\ n \in Nat
  BY ConcatProperties, LenProperties
<1>2. \A i \in 1 .. m + n : u[i] = IF i <= m THEN s[i] ELSE t[i - m]
  BY ConcatProperties
<1>3. DOMAIN u = 1 .. m + n /\ DOMAIN s = 1 .. m /\ DOMAIN t = 1 .. n
  BY <1>1, LenProperties
<1> HIDE DEF u, m, n
<1>4. /\ ToSet(u) = {u[i] : i \in 1 .. m + n}
      /\ ToSet(s) = {s[i] : i \in 1 .. m} /\ ToSet(t) = {t[i] : i \in 1 .. n}
  BY <1>3 DEF ToSet
<1>5. ASSUME NEW x \in ToSet(u)
      PROVE  x \in ToSet(s) \union ToSet(t)
  <2>1. PICK i \in 1 .. m + n : u[i] = x
    BY <1>4
  <2>2. CASE i <= m
    <3>1. i \in 1 .. m /\ x = s[i]
      BY <1>1, <1>2, <2>1, <2>2
    <3> QED
      BY <1>4, <3>1
  <2>3. CASE ~ (i <= m)
    <3>1. i - m \in 1 .. n
      BY <1>1, <2>3
    <3>2. x = t[i - m]
      BY <1>2, <2>1, <2>3
    <3> QED
      BY <1>4, <3>1, <3>2
  <2> QED
    BY <2>2, <2>3
<1>6. ASSUME NEW x \in ToSet(s)
      PROVE  x \in ToSet(u)
  <2>1. PICK i \in 1 .. m : s[i] = x
    BY <1>4
  <2>2. i \in 1 .. m + n /\ i <= m
    BY <1>1
  <2> QED
    BY <1>2, <1>4, <2>1, <2>2
<1>7. ASSUME NEW x \in ToSet(t)
      PROVE  x \in ToSet(u)
  <2>1. PICK i \in 1 .. n : t[i] = x
    BY <1>4
  <2>2. i + m \in 1 .. m + n /\ ~ (i + m <= m) /\ (i + m) - m = i
    BY <1>1
  <2>3. u[i + m] = t[i]
    BY <1>2, <2>2
  <2> QED
    BY <1>4, <2>1, <2>2, <2>3
<1> QED
  BY <1>1, <1>5, <1>6, <1>7 DEF u

\* Before the first report there is no issue.
LEMMA EmptyReport == LoopInv(<< >>, {})
<1>1. << >> \in Seq(Issue) /\ Len(<< >>) = 0
  OBVIOUS
<1>2. 1 .. 0 = {}
  OBVIOUS
<1> QED
  BY <1>1, <1>2 DEF LoopInv

\* The invariant holds initially.
LEMMA InvInitially == Init => Inv
<1> SUFFICES ASSUME Init
             PROVE  Inv
  OBVIOUS
<1>1. \A S : << >> \in Seq(S)
  OBVIOUS
<1>2. ToSet(<< >>) = {}
  BY DEF ToSet
<1>3. RowsOf({}) = {}
  BY DEF RowsOf
<1>4. {} \in SUBSET ToSet(batches) /\ LoopInv(issues, RowsOf({}))
  BY <1>3, EmptyReport DEF Init
<1> QED
  BY <1>1, <1>2, <1>3, <1>4 DEF Init, Inv

\* Shuffling changes no element.
LEMMA ShuffleIs ==
    ASSUME NEW S, NEW seq \in Seq(S), NEW read \in Shuffles(seq)
    PROVE  /\ read \in Seq(S)
           /\ ToSet(read) = ToSet(seq)
           /\ seq # << >> => read # << >>
<1> DEFINE n == Len(seq)
<1>1. /\ n \in Nat /\ DOMAIN seq = 1 .. n
      /\ \A i \in 1 .. n : seq[i] \in S /\ seq[i] \in ToSet(seq)
      /\ \A x \in ToSet(seq) : \E i \in 1 .. n : seq[i] = x
  BY SequenceIs
<1> HIDE DEF n
<1>2. PICK at \in Bijection(1 .. n, 1 .. n) : read = [k \in 1 .. n |-> seq[at[k]]]
  BY <1>1 DEF Shuffles
<1>3. /\ \A k \in 1 .. n : at[k] \in 1 .. n
      /\ \A i \in 1 .. n : \E k \in 1 .. n : at[k] = i
  BY DEF Bijection, Injection, Surjection
<1>4. \A k \in 1 .. n : read[k] = seq[at[k]]
  BY <1>2
<1>5. \A k \in 1 .. n : read[k] \in S
  BY <1>1, <1>3, <1>4
<1>6. read \in Seq(S) /\ Len(read) = n /\ DOMAIN read = 1 .. n
  <2>1. read = [k \in 1 .. n |-> read[k]]
    BY <1>2
  <2> QED
    BY <1>1, <1>5, <2>1, FunctionIs
<1>7. /\ \A k \in 1 .. n : read[k] \in ToSet(read)
      /\ \A x \in ToSet(read) : \E k \in 1 .. n : read[k] = x
  BY <1>6, SequenceIs
<1>8. ASSUME NEW x \in ToSet(read)
      PROVE  x \in ToSet(seq)
  <2>1. PICK k \in 1 .. n : read[k] = x
    BY <1>7
  <2>2. x = seq[at[k]] /\ at[k] \in 1 .. n
    BY <1>3, <1>4, <2>1
  <2> QED
    BY <1>1, <2>2
<1>9. ASSUME NEW x \in ToSet(seq)
      PROVE  x \in ToSet(read)
  <2>1. PICK i \in 1 .. n : seq[i] = x
    BY <1>1
  <2>2. PICK k \in 1 .. n : at[k] = i
    BY <1>3
  <2> QED
    BY <1>4, <1>7, <2>1, <2>2
<1>10. seq # << >> => read # << >>
  <2>1. seq # << >> => n # 0
    BY EmptySeq DEF n
  <2>2. Len(<< >>) = 0
    OBVIOUS
  <2> QED
    BY <1>6, <2>1, <2>2
<1> QED
  BY <1>6, <1>8, <1>9, <1>10

\* A row is loaded with its evidence in some order.
LEMMA LoadIs ==
    ASSUME NEW f \in Row, NEW g \in Loads(f)
    PROVE  g \in Row /\ Reads(g, f)
<1>1. PICK seq \in Shuffles(f.evidence) : g = [f EXCEPT !.evidence = seq]
  BY DEF Loads
<1>2. f.evidence \in Seq(Proofs) /\ f.evidence # << >>
  BY RowsAre
<1>3. seq \in Seq(Proofs) /\ seq # << >>
  BY <1>2, ShuffleIs
<1>4. g = [kind |-> f.kind, place |-> f.place, severity |-> f.severity,
           confidence |-> f.confidence, risk |-> f.risk, engines |-> f.engines,
           evidence |-> seq]
  BY <1>1 DEF Row
<1> QED
  BY <1>3, <1>4, RowsAre DEF Row, Reads

\* The rows are read in some order, each as often as it is there.
LEMMA ReadIs ==
    ASSUME NEW seq \in Seq(Row), NEW read \in Read(seq)
    PROVE  read \in Seq(Row) /\ Alike(ToSet(read), ToSet(seq))
<1> DEFINE n == Len(seq)
           loads == UNION {Loads(f) : f \in ToSet(seq)}
<1>1. /\ n \in Nat /\ DOMAIN seq = 1 .. n
      /\ \A i \in 1 .. n : seq[i] \in Row /\ seq[i] \in ToSet(seq)
      /\ \A x \in ToSet(seq) : \E i \in 1 .. n : seq[i] = x
  BY SequenceIs
<1> HIDE DEF n
<1>2. PICK loaded \in [1 .. n -> loads] :
        /\ \A k \in 1 .. n : loaded[k] \in Loads(seq[k])
        /\ read \in Shuffles(loaded)
  BY <1>1 DEF Read
<1>3. \A k \in 1 .. n : loaded[k] \in Row /\ Reads(loaded[k], seq[k])
  BY <1>1, <1>2, LoadIs
<1>4. loaded \in Seq(Row) /\ Len(loaded) = n
  <2>1. loaded = [k \in 1 .. n |-> loaded[k]]
    OBVIOUS
  <2> HIDE DEF loads
  <2> QED
    BY <1>1, <1>3, <2>1, FunctionIs
<1>5. /\ \A k \in 1 .. n : loaded[k] \in ToSet(loaded)
      /\ \A x \in ToSet(loaded) : \E k \in 1 .. n : loaded[k] = x
  BY <1>4, SequenceIs
<1>6. Alike(ToSet(loaded), ToSet(seq))
  <2>1. ASSUME NEW f \in ToSet(loaded)
        PROVE  \E g \in ToSet(seq) : Reads(f, g)
    BY <1>1, <1>3, <1>5
  <2>2. ASSUME NEW g \in ToSet(seq)
        PROVE  \E f \in ToSet(loaded) : Reads(f, g)
    BY <1>1, <1>3, <1>5
  <2> QED
    BY <2>1, <2>2 DEF Alike
<1>7. read \in Seq(Row) /\ ToSet(read) = ToSet(loaded)
  BY <1>2, <1>4, ShuffleIs
<1> QED
  BY <1>6, <1>7

\* What the report is made of when it is written, in whatever order the rows are read.
LEMMA WrittenIs ==
    ASSUME Inv, NEW findings \in Read(rows)
    PROVE  LoopInv(pentest_payload(TechnicalFindings(findings)), ToSet(rows))
<1>1. findings \in Seq(Row) /\ Alike(ToSet(findings), ToSet(rows))
  BY ReadIs DEF Inv
<1>2. /\ TechnicalFindings(findings) \in Seq(Row)
      /\ ToSet(TechnicalFindings(findings)) = ToSet(findings)
  BY <1>1, TechnicalIs
<1>3. LoopInv(pentest_payload(TechnicalFindings(findings)), ToSet(findings))
  <2>1. \A t \in Seq(Row) : LoopInv(pentest_payload(t), ToSet(t))
    BY PayloadIs
  <2> QED
    BY <1>2, <2>1
<1> QED
  BY <1>1, <1>3, AlikeTell

\* Every step keeps the invariant.
LEMMA InvStep == Inv /\ [Next]_vars => Inv'
<1> SUFFICES ASSUME Inv, [Next]_vars
             PROVE  Inv'
  OBVIOUS
<1>0. PICK seen \in SUBSET ToSet(batches) : LoopInv(issues, RowsOf(seen))
  BY DEF Inv
<1>1. ASSUME NEW d \in Drafts, Report(d)
      PROVE  Inv'
  <2>1. raw' \in Seq(Drafts)
    BY <1>1, AppendHas DEF Report, Inv
  <2> QED
    BY <1>1, <2>1 DEF Report, Inv
<1>2. CASE SaveFindings
  <2>1. /\ raw \in Seq(Drafts) /\ batches \in Seq(Seq(Drafts)) /\ rows \in Seq(Row)
        /\ ToSet(rows) = RowsOf(ToSet(batches))
    BY DEF Inv
  <2>2. correlate_findings(raw) \in Seq(Row)
    BY <2>1, CorrelatedIs
  <2>3. rows' \in Seq(Row) /\ ToSet(rows') = ToSet(rows) \union ToSet(correlate_findings(raw))
    BY <1>2, <2>1, <2>2, ConcatHas DEF SaveFindings
  <2>4. /\ batches' \in Seq(Seq(Drafts)) /\ batches' # << >>
        /\ ToSet(batches') = ToSet(batches) \union {raw}
    BY <1>2, <2>1, AppendHas DEF SaveFindings
  <2>5. RowsOf(ToSet(batches) \union {raw})
          = RowsOf(ToSet(batches)) \union ToSet(correlate_findings(raw))
    BY DEF RowsOf
  <2>6. ToSet(rows') = RowsOf(ToSet(batches'))
    BY <2>1, <2>3, <2>4, <2>5
  <2>7. seen \in SUBSET ToSet(batches') /\ issues' = issues /\ raw' = raw
    BY <1>2, <2>4 DEF SaveFindings
  <2>8. stage' = "reporting"
    BY <1>2 DEF SaveFindings
  <2> QED
    BY <1>0, <2>1, <2>3, <2>4, <2>6, <2>7, <2>8 DEF Inv
<1>3. CASE WriteReports
  <2>1. LoopInv(issues', ToSet(rows))
    BY <1>3, WrittenIs DEF WriteReports
  <2>2. ToSet(rows) = RowsOf(ToSet(batches)) /\ stage = "reporting" /\ stage' = "reported"
        /\ raw' = raw /\ batches' = batches /\ rows' = rows
    BY <1>3 DEF WriteReports, Inv
  <2>3. ToSet(batches) \in SUBSET ToSet(batches)
        /\ LoopInv(issues', RowsOf(ToSet(batches)))
    BY <2>1, <2>2
  <2> QED
    BY <2>1, <2>2, <2>3 DEF Inv
<1>4. CASE Redeliver
  <2>1. raw' = << >> /\ << >> \in Seq(Drafts)
    BY <1>4 DEF Redeliver
  <2>2. stage' = "scanning" /\ batches' = batches /\ rows' = rows /\ issues' = issues
    BY <1>4 DEF Redeliver
  <2> QED
    BY <1>0, <2>1, <2>2 DEF Inv
<1>5. CASE UNCHANGED vars
  BY <1>5 DEF vars, Inv
<1> QED
  BY <1>1, <1>2, <1>3, <1>4, <1>5 DEF Next, Finished

\* It holds always.
LEMMA Invariant == Spec => []Inv
<1> QED BY InvInitially, InvStep, PTL DEF Spec

\* Rows, issues and their examples are of the kinds that the reports can show.
THEOREM TypeCorrect == Spec => []TypeOK
<1>1. Inv => TypeOK
  <2> SUFFICES ASSUME Inv
               PROVE  TypeOK
    OBVIOUS
  <2>1. ASSUME NEW f \in ToSet(rows)
        PROVE  /\ f.severity \in Severities /\ f.confidence \in Confidences
               /\ f.risk \in 0 .. 100 /\ Len(f.evidence) \in Nat \ {0}
    <3>1. f \in Row
      BY SequenceIs DEF Inv
    <3>2. f.evidence \in Seq(Proofs) /\ f.evidence # << >>
      BY <3>1, RowsAre
    <3>3. Len(f.evidence) \in Nat /\ 1 \in 1 .. Len(f.evidence)
      BY <3>2, SequenceIs
    <3> QED
      BY <3>1, <3>3, RowsAre
  <2>2. ASSUME NEW x \in ToSet(issues), NEW l \in ToSet(x.locations)
        PROVE  Len(l.evidence) \in 0 .. 3
    <3>1. PICK S : LoopInv(issues, S)
      BY DEF Inv
    <3>2. issues \in Seq(Issue) /\ \A i \in 1 .. Len(issues) : Tells(issues[i], S)
      BY <3>1 DEF LoopInv
    <3>3. PICK i \in 1 .. Len(issues) : issues[i] = x
      BY <3>2, SequenceIs
    <3>4. x \in Issue /\ Tells(x, S)
      BY <3>2, <3>3, SequenceIs
    <3>5. x.locations \in Seq(Location)
      BY <3>4 DEF Issue
    <3>6. PICK k \in 1 .. Len(x.locations) : x.locations[k] = l
      BY <3>5, SequenceIs
    <3>7. Len(x.locations[k].evidence) \in 0 .. 3
      BY <3>4 DEF Tells, Located
    <3> QED
      BY <3>6, <3>7
  <2> QED
    BY <2>1, <2>2 DEF TypeOK, Inv
<1> QED BY Invariant, <1>1, PTL

\* Every draft of a batch is in one row, which says at least as much (correlate_findings).
THEOREM NothingIsLost == Spec => []NothingLost
<1>1. Inv => NothingLost
  <2> DEFINE batch == Last(batches)
             found == correlate_findings(batch)
  <2> SUFFICES ASSUME Inv, stage = "reporting", NEW d \in ToSet(batch)
               PROVE  \E i \in DOMAIN found :
                /\ {j \in DOMAIN found : Fingerprint(found[j]) = Fingerprint(d)} = {i}
                /\ SeverityRank[found[i].severity] >= SeverityRank[d.severity]
                /\ d.engine \in found[i].engines
                /\ d.proof \in ToSet(found[i].evidence)
                /\ found[i] \in ToSet(rows)
    BY DEF NothingLost
  <2>1. batches \in Seq(Seq(Drafts)) /\ batches # << >>
        /\ ToSet(rows) = RowsOf(ToSet(batches))
    BY DEF Inv
  <2>2. batch \in Seq(Drafts) /\ batch \in ToSet(batches)
    <3>1. Len(batches) \in Nat /\ 1 \in 1 .. Len(batches)
      BY <2>1, SequenceIs
    <3>2. Len(batches) \in 1 .. Len(batches)
      BY <3>1
    <3> QED
      BY <2>1, <3>2, SequenceIs DEF Last
  <2> HIDE DEF batch
  <2>3. /\ found \in Seq(Row)
        /\ \A i, j \in 1 .. Len(found) : Fingerprint(found[i]) = Fingerprint(found[j]) => i = j
        /\ \A e \in ToSet(batch) :
             \E i \in 1 .. Len(found) :
               LET f == found[i]
               IN /\ Fingerprint(f) = Fingerprint(e)
                  /\ SeverityRank[f.severity] >= SeverityRank[e.severity]
                  /\ e.engine \in f.engines
                  /\ e.proof \in ToSet(f.evidence)
    BY <2>2, CorrelatedIs
  <2>4. ToSet(found) \subseteq ToSet(rows)
    BY <2>1, <2>2 DEF RowsOf
  <2> HIDE DEF found
  <2>5. PICK i \in 1 .. Len(found) :
          /\ Fingerprint(found[i]) = Fingerprint(d)
          /\ SeverityRank[found[i].severity] >= SeverityRank[d.severity]
          /\ d.engine \in found[i].engines
          /\ d.proof \in ToSet(found[i].evidence)
    BY <2>3
  <2>6. DOMAIN found = 1 .. Len(found) /\ found[i] \in ToSet(found)
    BY <2>3, SequenceIs
  <2>7. {j \in DOMAIN found : Fingerprint(found[j]) = Fingerprint(d)} = {i}
    BY <2>3, <2>5, <2>6
  <2> QED
    BY <2>4, <2>5, <2>6, <2>7
<1> QED BY Invariant, <1>1, PTL

\* Every row is in the one issue of its kind, at its place, and not shown as less than it
\* is (pentest_payload).
THEOREM RowsReachTheReport == Spec => []RowsAreReported
<1>1. Inv => RowsAreReported
  <2> SUFFICES ASSUME Inv, stage = "reported", NEW f \in ToSet(rows)
               PROVE
        \E i \in DOMAIN issues :
                /\ {j \in DOMAIN issues : issues[j].kind = f.kind} = {i}
                /\ \E l \in DOMAIN issues[i].locations :
                     {m \in DOMAIN issues[i].locations :
                         issues[i].locations[m].place = f.place} = {l}
                /\ SeverityRank[issues[i].severity] >= SeverityRank[f.severity]
                /\ ConfidenceRank[issues[i].confidence] >= ConfidenceRank[f.confidence]
                /\ issues[i].risk >= f.risk
                /\ f.engines \subseteq issues[i].engines
    BY DEF RowsAreReported
  <2> DEFINE S == ToSet(rows)
             n == Len(issues)
  <2>1. /\ issues \in Seq(Issue)
        /\ \A i, j \in 1 .. n : issues[i].kind = issues[j].kind => i = j
        /\ \A g \in S : \E i \in 1 .. n : issues[i].kind = g.kind
        /\ \A i \in 1 .. n : Tells(issues[i], S)
    BY DEF Inv, LoopInv
  <2>2. DOMAIN issues = 1 .. n /\ \A i \in 1 .. n : issues[i] \in Issue
    BY <2>1, SequenceIs
  <2>3. PICK i \in 1 .. n : issues[i].kind = f.kind
    BY <2>1
  <2>4. f \in S
    OBVIOUS
  <2> HIDE DEF S, n
  <2>5. {j \in DOMAIN issues : issues[j].kind = f.kind} = {i}
    BY <2>1, <2>2, <2>3
  <2> DEFINE K == OfKind(S, issues[i].kind)
             places == issues[i].locations
  <2>6. f \in K
    BY <2>3, <2>4 DEF OfKind
  <2>7. Raised(issues[i], K) /\ Located(places, K)
    BY <2>1 DEF Tells
  <2> HIDE DEF K
  <2>8. places \in Seq(Location)
    BY <2>2 DEF Issue
  <2> HIDE DEF places
  <2>9. DOMAIN places = 1 .. Len(places)
    BY <2>8, SequenceIs
  <2>10. PICK l \in 1 .. Len(places) : places[l].place = f.place
    BY <2>6, <2>7 DEF Located
  <2>11. {m \in DOMAIN places : places[m].place = f.place} = {l}
    BY <2>7, <2>9, <2>10 DEF Located
  <2>12. /\ SeverityRank[issues[i].severity] >= SeverityRank[f.severity]
         /\ ConfidenceRank[issues[i].confidence] >= ConfidenceRank[f.confidence]
         /\ issues[i].risk >= f.risk
         /\ f.engines \subseteq issues[i].engines
    BY <2>6, <2>7 DEF Raised
  <2>13. \E k \in DOMAIN places : {m \in DOMAIN places : places[m].place = f.place} = {k}
    BY <2>9, <2>11
  <2>14. i \in DOMAIN issues
    BY <2>2
  <2> QED
    BY <2>5, <2>12, <2>13, <2>14 DEF places
<1> QED BY Invariant, <1>1, PTL

\* An issue that was reported has the risk of one of the rows, and its severity and
\* confidence stand for it.
THEOREM RiskIsAlwaysBacked == Spec => []RiskIsBacked
<1>1. Inv => RiskIsBacked
  <2> SUFFICES ASSUME Inv, NEW x \in ToSet(issues)
               PROVE  /\ \E f \in ToSet(rows) : f.kind = x.kind /\ f.risk = x.risk
                      /\ x.risk <= Risk(x.severity, x.confidence)
    BY DEF RiskIsBacked
  <2>1. PICK seen \in SUBSET ToSet(batches) : LoopInv(issues, RowsOf(seen))
    BY DEF Inv
  <2> DEFINE S == RowsOf(seen)
  <2>2. issues \in Seq(Issue) /\ \A i \in 1 .. Len(issues) : Tells(issues[i], S)
    BY <2>1 DEF LoopInv
  <2>3. x \in Issue /\ Tells(x, S)
    <3>1. PICK i \in 1 .. Len(issues) : issues[i] = x
      BY <2>2, SequenceIs
    <3> QED
      BY <2>2, <3>1, SequenceIs
  <2>4. S \subseteq ToSet(rows)
    BY DEF Inv, RowsOf
  <2> HIDE DEF S
  <2>5. PICK f \in S : f.kind = x.kind /\ f.risk = x.risk
        /\ SeverityRank[f.severity] <= SeverityRank[x.severity]
        /\ ConfidenceRank[f.confidence] <= ConfidenceRank[x.confidence]
    <3>1. PICK f \in OfKind(S, x.kind) : f.risk = x.risk
      BY <2>3 DEF Tells, Raised
    <3>2. SeverityRank[x.severity] >= SeverityRank[f.severity]
          /\ ConfidenceRank[x.confidence] >= ConfidenceRank[f.confidence]
      BY <2>3 DEF Tells, Raised
    <3>3. f \in S /\ f.kind = x.kind
      BY DEF OfKind
    <3>4. f \in Row
      BY <2>4, <3>3, SequenceIs DEF Inv
    <3>5. /\ f.severity \in Severities /\ x.severity \in Severities
          /\ f.confidence \in Confidences /\ x.confidence \in Confidences
      BY <2>3, <3>4, RowsAre DEF Issue
    <3>6. /\ SeverityRank[f.severity] \in 0 .. 4 /\ SeverityRank[x.severity] \in 0 .. 4
          /\ ConfidenceRank[f.confidence] \in 0 .. 2 /\ ConfidenceRank[x.confidence] \in 0 .. 2
      BY <3>5, RanksAre
    <3>7. SeverityRank[f.severity] <= SeverityRank[x.severity]
          /\ ConfidenceRank[f.confidence] <= ConfidenceRank[x.confidence]
      BY <3>2, <3>6
    <3> QED
      BY <3>1, <3>3, <3>7
  <2>6. f \in Row
    BY <2>4, SequenceIs DEF Inv
  <2>7. /\ f.risk = Risk(f.severity, f.confidence)
        /\ f.severity \in Severities /\ f.confidence \in Confidences
        /\ x.severity \in Severities /\ x.confidence \in Confidences
    BY <2>3, <2>6, RowsAre DEF Issue
  <2>8. Risk(f.severity, f.confidence) <= Risk(x.severity, x.confidence)
    BY <2>5, <2>7, RiskIs
  <2> QED
    BY <2>4, <2>5, <2>7, <2>8
<1> QED BY Invariant, <1>1, PTL

\* A report that is not empty has been made of some rows.
LEMMA ReportHasRows ==
    ASSUME NEW S, NEW report, LoopInv(report, S), report # << >>
    PROVE  S # {}
<1>1. report \in Seq(Issue)
  BY DEF LoopInv
<1>2. 1 \in 1 .. Len(report)
  BY <1>1, SequenceIs
<1>3. Tells(report[1], S)
  BY <1>2 DEF LoopInv
<1> QED
  BY <1>3 DEF Tells, Raised, OfKind

\* Delivering a scan again changes no issue if it finds the same, but for numbers, order
\* and examples, and takes away nothing that was reported, whatever it finds
\* (correlate_findings, pentest_payload).
THEOREM RedeliveriesKeepIssues == Spec => RedeliveryKeepsIssues
<1> DEFINE Same == \A batch \in ToSet(batches) : batch = Head(batches)
           Kept == /\ Len(issues') = Len(issues)
                   /\ {Said(x) : x \in ToSet(issues')} = {Said(x) : x \in ToSet(issues)}
           Still == \A old \in ToSet(issues) : \E new \in ToSet(issues') :
              /\ new.kind = old.kind
              /\ {l.place : l \in ToSet(old.locations)}
                   \subseteq {l.place : l \in ToSet(new.locations)}
              /\ SeverityRank[new.severity] >= SeverityRank[old.severity]
<1>1. ASSUME Inv, [Next]_vars, stage = "reporting", stage' = "reported", issues # << >>
      PROVE  (Same => Kept) /\ Still
  <2>1. PICK findings \in Read(rows) : issues' = pentest_payload(TechnicalFindings(findings))
    BY <1>1 DEF Next, Report, SaveFindings, WriteReports, Redeliver, Finished, vars
  <2> DEFINE S == ToSet(rows)
  <2>2. LoopInv(issues', S)
    BY <1>1, <2>1, WrittenIs
  <2>3. PICK seen \in SUBSET ToSet(batches) : LoopInv(issues, RowsOf(seen))
    BY <1>1 DEF Inv
  <2> DEFINE T == RowsOf(seen)
  <2>4. /\ rows \in Seq(Row) /\ S = RowsOf(ToSet(batches))
        /\ batches \in Seq(Seq(Drafts)) /\ batches # << >>
    BY <1>1 DEF Inv
  <2>5. T \subseteq S
    BY <2>4 DEF RowsOf
  <2>6. S \in SUBSET Row
    BY <2>4, SequenceIs
  <2>7. T # {}
    BY <1>1, <2>3, ReportHasRows
  <2>8. ASSUME Same
        PROVE  Kept
    <3> DEFINE batch == Head(batches)
    <3>1. 1 \in 1 .. Len(batches) /\ batches[1] \in Seq(Drafts) /\ batches[1] \in ToSet(batches)
      BY <2>4, SequenceIs
    <3>2. batch = batches[1]
      BY <2>4
    <3>3. ToSet(batches) = {batch}
      BY <2>8, <3>1, <3>2
    <3>4. seen # {}
      BY <2>7 DEF RowsOf
    <3>5. seen = ToSet(batches)
      BY <3>3, <3>4
    <3>6. T = S
      BY <2>4, <3>5
    <3>7. LoopInv(issues, S)
      BY <2>3, <3>6
    <3> HIDE DEF S
    <3> QED
      BY <2>2, <2>6, <3>7, ReportAgain
  <2>9. ASSUME NEW old \in ToSet(issues)
        PROVE  \E new \in ToSet(issues') :
              /\ new.kind = old.kind
              /\ {l.place : l \in ToSet(old.locations)}
                   \subseteq {l.place : l \in ToSet(new.locations)}
              /\ SeverityRank[new.severity] >= SeverityRank[old.severity]
    <3> HIDE DEF S, T
    <3>1. /\ issues \in Seq(Issue) /\ \A i \in 1 .. Len(issues) : Tells(issues[i], T)
          /\ issues' \in Seq(Issue) /\ \A i \in 1 .. Len(issues') : Tells(issues'[i], S)
          /\ \A f \in S : \E i \in 1 .. Len(issues') : issues'[i].kind = f.kind
      BY <2>2, <2>3 DEF LoopInv, T
    <3>2. old \in Issue /\ Tells(old, T)
      <4>1. PICK i \in 1 .. Len(issues) : issues[i] = old
        BY <3>1, SequenceIs
      <4> QED
        BY <3>1, <4>1, SequenceIs
    <3> DEFINE before == OfKind(T, old.kind)
               now == OfKind(S, old.kind)
    <3>3. before \subseteq now
      BY <2>5 DEF OfKind
    <3>4. Raised(old, before) /\ Located(old.locations, before)
      BY <3>2 DEF Tells
    <3>5. PICK f \in before : f.severity = old.severity
      BY <3>4 DEF Raised
    <3>6. f \in S /\ f.kind = old.kind
      BY <2>5 DEF OfKind
    <3>7. PICK i \in 1 .. Len(issues') : issues'[i].kind = f.kind
      BY <3>1, <3>6
    <3> DEFINE new == issues'[i]
    <3>8. /\ new \in Issue /\ new \in ToSet(issues')
          /\ Tells(new, S) /\ new.kind = old.kind
      BY <3>1, <3>6, <3>7, SequenceIs
    <3> HIDE DEF new
    <3>9. Raised(new, now) /\ Located(new.locations, now)
      BY <3>8 DEF Tells
    <3> HIDE DEF before, now
    <3>10. SeverityRank[new.severity] >= SeverityRank[old.severity]
      BY <3>3, <3>5, <3>9 DEF Raised
    <3>11. old.locations \in Seq(Location) /\ new.locations \in Seq(Location)
      BY <3>2, <3>8 DEF Issue
    <3>12. ASSUME NEW l \in ToSet(old.locations)
           PROVE  \E m \in ToSet(new.locations) : m.place = l.place
      <4>1. PICK k \in 1 .. Len(old.locations) : old.locations[k] = l
        BY <3>11, SequenceIs
      <4>2. PICK g \in before : g.place = old.locations[k].place
        BY <3>4 DEF Located
      <4>3. PICK j \in 1 .. Len(new.locations) : new.locations[j].place = g.place
        BY <3>3, <3>9 DEF Located
      <4>4. new.locations[j] \in ToSet(new.locations)
        BY <3>11, SequenceIs
      <4> QED
        BY <4>1, <4>2, <4>3, <4>4
    <3>13. {l.place : l \in ToSet(old.locations)} \subseteq {l.place : l \in ToSet(new.locations)}
      BY <3>12
    <3> QED
      BY <3>8, <3>10, <3>13
  <2> QED
    BY <2>8, <2>9
<1>2. Inv /\ [Next]_vars
        => [stage = "reporting" /\ stage' = "reported" /\ issues # << >>
              => (Same => Kept) /\ Still]_vars
  BY <1>1
<1> QED
  BY Invariant, <1>2, PTL DEF Spec, RedeliveryKeepsIssues
=============================================================================
