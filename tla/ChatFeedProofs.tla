---------------------------- MODULE ChatFeedProofs ----------------------------
(***************************************************************************)
(* Theorems about ChatFeed for any channels and threads, pages of any size, *)
(* and any number of messages, sends and upsets.                            *)
(***************************************************************************)
EXTENDS ChatFeed, FiniteSetTheorems, SequenceTheorems, TLAPS

-----------------------------------------------------------------------------
(* Lists *)

Rank(S, x) == Cardinality({y \in S : y <= x})

LEMMA InRange ==
  ASSUME NEW f, NEW x
  PROVE  x \in Range(f) <=> \E i \in DOMAIN f : f[i] = x
BY DEF Range

LEMMA RankGrows ==
  ASSUME NEW S \in SUBSET Int, IsFiniteSet(S)
  PROVE  /\ Cardinality(S) \in Nat
         /\ \A x \in S : Rank(S, x) \in 1..Cardinality(S)
         /\ \A x, y \in S : x < y => Rank(S, x) < Rank(S, y)
<1>1. Cardinality(S) \in Nat
  BY FS_CardinalityType
<1>2. ASSUME NEW x \in S PROVE Rank(S, x) \in 1..Cardinality(S)
  <2> DEFINE B == {y \in S : y <= x}
  <2>1. B \in SUBSET S /\ x \in B
    OBVIOUS
  <2>2. IsFiniteSet(B) /\ Cardinality(B) <= Cardinality(S)
    BY <2>1, FS_Subset
  <2>3. Cardinality(B) \in Nat /\ Cardinality(B) # 0
    BY <2>1, <2>2, FS_CardinalityType, FS_EmptySet
  <2> QED
    BY <1>1, <2>2, <2>3 DEF Rank
<1>3. ASSUME NEW x \in S, NEW y \in S, x < y PROVE Rank(S, x) < Rank(S, y)
  <2> DEFINE B == {z \in S : z <= x}
             C == {z \in S : z <= y}
  <2>1. B \in SUBSET C /\ C \in SUBSET S /\ y \in C /\ y \notin B
    <3>1. x \in Int /\ y \in Int /\ \A z \in S : z \in Int
      OBVIOUS
    <3>2. ~(y <= x) /\ \A z \in S : z <= x => z <= y
      BY <1>3, <3>1
    <3>3. y <= y
      BY <3>1
    <3> QED
      BY <3>2, <3>3
  <2>2. IsFiniteSet(C)
    BY <2>1, FS_Subset
  <2>3. Cardinality(B) <= Cardinality(C) /\ Cardinality(B) # Cardinality(C) /\ IsFiniteSet(B)
    BY <2>1, <2>2, FS_Subset
  <2>4. Cardinality(B) \in Nat /\ Cardinality(C) \in Nat
    BY <2>2, <2>3, FS_CardinalityType
  <2> QED
    BY <2>3, <2>4 DEF Rank
<1> QED
  BY <1>1, <1>2, <1>3

\* Every place is taken, by one that all places before it are below.
LEMMA AscendingIs ==
  ASSUME NEW S \in SUBSET Int, IsFiniteSet(S)
  PROVE  /\ Cardinality(S) \in Nat
         /\ Ascending(S) \in [1..Cardinality(S) -> S]
         /\ \A m, n \in 1..Cardinality(S) : m < n => Ascending(S)[m] < Ascending(S)[n]
         /\ \A x \in S : \E n \in 1..Cardinality(S) : Ascending(S)[n] = x
<1> DEFINE N == Cardinality(S)
           f == [x \in S |-> Rank(S, x)]
<1>1. /\ N \in Nat
      /\ \A x \in S : Rank(S, x) \in 1..N
      /\ \A x, y \in S : x < y => Rank(S, x) < Rank(S, y)
  BY RankGrows
<1>2. \A x, y \in S : Rank(S, x) = Rank(S, y) => x = y
  <2> SUFFICES ASSUME NEW x \in S, NEW y \in S, x # y PROVE Rank(S, x) # Rank(S, y)
    OBVIOUS
  <2>1. x < y \/ y < x
    OBVIOUS
  <2>2. Rank(S, x) \in Int /\ Rank(S, y) \in Int
    BY <1>1
  <2> QED
    BY <1>1, <2>1, <2>2
<1>3. f \in Injection(S, 1..N)
  BY <1>1, <1>2 DEF Injection, IsInjective
<1>4. IsFiniteSet(1..N) /\ Cardinality(1..N) = N
  BY <1>1, FS_Interval
<1>5. f \in Surjection(S, 1..N)
  BY <1>3, <1>4, FS_Injection
<1>6. \A n \in 1..N : \E x \in S : Rank(S, x) = n
  BY <1>5 DEF Surjection
<1>7. \A n \in 1..N : Ascending(S)[n] \in S /\ Rank(S, Ascending(S)[n]) = n
  <2> SUFFICES ASSUME NEW n \in 1..N
               PROVE  Ascending(S)[n] \in S /\ Rank(S, Ascending(S)[n]) = n
    OBVIOUS
  <2>1. Ascending(S)[n] = CHOOSE x \in S : Rank(S, x) = n
    BY DEF Ascending, Rank
  <2> QED
    BY <1>6, <2>1
<1>8. Ascending(S) \in [1..N -> S]
  BY <1>7 DEF Ascending
<1>9. ASSUME NEW m \in 1..N, NEW n \in 1..N, m < n PROVE Ascending(S)[m] < Ascending(S)[n]
  <2>1. PICK x \in S, y \in S : /\ x = Ascending(S)[m] /\ y = Ascending(S)[n]
                               /\ Rank(S, x) = m /\ Rank(S, y) = n
    BY <1>7
  <2>2. m \in Int /\ n \in Int /\ x \in Int /\ y \in Int
    BY <1>1
  <2>3. ~(y < x) /\ x # y
    BY <1>1, <1>9, <2>1, <2>2
  <2> QED
    BY <2>1, <2>2, <2>3
<1>10. ASSUME NEW x \in S PROVE \E n \in 1..N : Ascending(S)[n] = x
  BY <1>1, <1>2, <1>7
<1> QED
  BY <1>1, <1>8, <1>9, <1>10

LEMMA NewestIs ==
  ASSUME NEW S \in SUBSET Int, IsFiniteSet(S), NEW n \in Nat \ {0}
  PROVE  /\ Newest(S, n) \in Seq(S) /\ IsInjective(Newest(S, n))
         /\ Range(Newest(S, n)) \subseteq S
         /\ \A x \in S \ Range(Newest(S, n)) : \A y \in Range(Newest(S, n)) : x < y
         /\ S # {} => Newest(S, n) # <<>>
         /\ Len(Newest(S, n)) < n => S \subseteq Range(Newest(S, n))
<1> DEFINE N == Cardinality(S)
           a == Ascending(S)
           M == IF n < N THEN n ELSE N
           s == Newest(S, n)
<1>1. /\ N \in Nat
      /\ a \in [1..N -> S]
      /\ \A i, j \in 1..N : i < j => a[i] < a[j]
      /\ \A x \in S : \E i \in 1..N : a[i] = x
  BY AscendingIs
<1>2. Len(a) = N /\ M \in Nat /\ M <= N /\ \A i \in 1..M : N + 1 - i \in 1..N
  BY <1>1
<1>3. s = [i \in 1..M |-> a[N + 1 - i]]
  BY <1>2 DEF Newest
<1> HIDE DEF a, N, M, s
<1>4. s \in Seq(S) /\ Len(s) = M /\ DOMAIN s = 1..M
  BY <1>1, <1>2, <1>3
<1>5. \A i, j \in 1..M : i < j => s[j] < s[i]
  <2> SUFFICES ASSUME NEW i \in 1..M, NEW j \in 1..M, i < j PROVE s[j] < s[i]
    OBVIOUS
  <2>1. N + 1 - j \in 1..N /\ N + 1 - i \in 1..N /\ N + 1 - j < N + 1 - i
    BY <1>1, <1>2
  <2> QED
    BY <1>1, <1>3, <2>1
<1>6. IsInjective(s)
  <2> SUFFICES ASSUME NEW i \in 1..M, NEW j \in 1..M, i # j PROVE s[i] # s[j]
    BY <1>4 DEF IsInjective
  <2>1. s[i] \in S /\ s[j] \in S /\ i \in Int /\ j \in Int
    BY <1>2, <1>4
  <2>2. s[i] \in Int /\ s[j] \in Int
    BY <2>1
  <2>4. i < j \/ j < i
    BY <2>1
  <2>3. s[i] < s[j] \/ s[j] < s[i]
    BY <1>5, <2>4
  <2> QED
    BY <2>2, <2>3
<1>7. Range(s) \subseteq S
  BY <1>4 DEF Range
<1>8. ASSUME NEW x \in S \ Range(s) PROVE (\A y \in Range(s) : x < y) /\ M = n
  <2>1. PICK i \in 1..N : a[i] = x
    BY <1>1
  <2>2. ~(N + 1 - i \in 1..M)
    <3> SUFFICES ASSUME N + 1 - i \in 1..M PROVE x \in Range(s)
      BY <1>8
    <3>1. s[N + 1 - i] = a[N + 1 - (N + 1 - i)] /\ N + 1 - (N + 1 - i) = i
      BY <1>1, <1>3
    <3> QED
      BY <1>4, <2>1, <3>1 DEF Range
  <2>3. \A k \in 1..M : i < N + 1 - k
    BY <1>1, <1>2, <2>2
  <2>4. \A k \in 1..M : x < s[k]
    BY <1>1, <1>2, <1>3, <2>1, <2>3
  <2>5. M < N
    BY <1>1, <1>2, <2>2
  <2> QED
    BY <1>4, <2>4, <2>5 DEF Range, M
<1>9. S # {} => s # <<>>
  <2> SUFFICES ASSUME S # {} PROVE M # 0
    BY <1>4
  <2>1. N # 0
    <3>1. PICK x \in S : TRUE
      OBVIOUS
    <3>2. PICK i \in 1..N : a[i] = x
      BY <1>1, <3>1
    <3> QED
      BY <1>1, <3>2
  <2> QED
    BY <1>1, <2>1 DEF M
<1>10. Len(s) < n => S \subseteq Range(s)
  BY <1>4, <1>8
<1> QED
  BY <1>4, <1>6, <1>7, <1>8, <1>9, <1>10 DEF s

LEMMA WithoutIs ==
  ASSUME NEW list \in Seq(Int), NEW S
  PROVE  /\ Without(list, S) \in Seq(Int)
         /\ Range(Without(list, S)) = Range(list) \ S
         /\ IsInjective(list) => IsInjective(Without(list, S))
         /\ list # <<>> /\ Last(list) \notin S =>
              Without(list, S) # <<>> /\ Last(Without(list, S)) = Last(list)
<1> DEFINE I == {i \in DOMAIN list : list[i] \notin S}
           N == Cardinality(I)
           a == Ascending(I)
           s == Without(list, S)
<1>1. I \in SUBSET (1..Len(list)) /\ I \in SUBSET Int /\ Len(list) \in Nat
  OBVIOUS
<1>2. IsFiniteSet(I)
  BY <1>1, FS_Interval, FS_Subset
<1>3. /\ N \in Nat
      /\ a \in [1..N -> I]
      /\ \A i, j \in 1..N : i < j => a[i] < a[j]
      /\ \A x \in I : \E i \in 1..N : a[i] = x
  BY <1>1, <1>2, AscendingIs
<1>4. s = [i \in 1..N |-> list[a[i]]]
  BY <1>3 DEF Without
<1> HIDE DEF N, a, s
<1>5. s \in Seq(Int) /\ Len(s) = N /\ DOMAIN s = 1..N
  BY <1>3, <1>4
<1>6. Range(s) = Range(list) \ S
  <2>1. ASSUME NEW x, x \in Range(s) PROVE x \in Range(list) \ S
    <3>1. PICK i \in 1..N : s[i] = x
      BY <1>5, <2>1, InRange
    <3>2. a[i] \in I /\ x = list[a[i]]
      BY <1>3, <1>4, <3>1
    <3> QED
      BY <3>2, InRange
  <2>2. ASSUME NEW x, x \in Range(list) \ S PROVE x \in Range(s)
    <3>1. PICK j \in DOMAIN list : list[j] = x
      BY <2>2, InRange
    <3>2. PICK i \in 1..N : a[i] = j
      BY <1>3, <2>2, <3>1
    <3>3. i \in DOMAIN s /\ s[i] = x
      BY <1>4, <1>5, <3>1, <3>2
    <3> QED
      BY <3>3, InRange
  <2> QED
    BY <2>1, <2>2
<1>7. IsInjective(list) => IsInjective(s)
  <2> SUFFICES ASSUME IsInjective(list), NEW i \in 1..N, NEW j \in 1..N, s[i] = s[j] PROVE i = j
    BY <1>5 DEF IsInjective
  <2>1. a[i] = a[j] /\ a[i] \in Int
    BY <1>1, <1>3, <1>4 DEF IsInjective
  <2> QED
    BY <1>3, <2>1
<1>8. ASSUME list # <<>>, Last(list) \notin S PROVE s # <<>> /\ Last(s) = Last(list)
  <2>1. Len(list) \in I /\ \A i \in I : i <= Len(list)
    BY <1>1, <1>8 DEF Last
  <2>2. PICK m \in 1..N : a[m] = Len(list)
    BY <1>3, <2>1
  <2>3. m = N
    <3> SUFFICES ASSUME m < N PROVE FALSE
      BY <1>3
    <3>1. N \in 1..N /\ a[m] < a[N] /\ a[N] \in I
      BY <1>3
    <3> QED
      BY <1>1, <2>1, <2>2, <3>1
  <2> QED
    BY <1>4, <1>5, <2>2, <2>3 DEF Last
<1> QED
  BY <1>5, <1>6, <1>7, <1>8 DEF s

LEMMA PutIs ==
  ASSUME NEW list \in Seq(Int), NEW id \in Int
  PROVE  /\ <<id>> \o list \in Seq(Int)
         /\ Range(<<id>> \o list) = Range(list) \cup {id}
         /\ IsInjective(list) /\ id \notin Range(list) => IsInjective(<<id>> \o list)
         /\ Last(<<id>> \o list) = IF list = <<>> THEN id ELSE Last(list)
         /\ Latest(<<id>> \o list) = id
         /\ <<id>> \o list # <<>>
<1> DEFINE s == <<id>> \o list
<1>1. s \in Seq(Int) /\ Len(s) = Len(list) + 1 /\ s[1] = id /\ DOMAIN s = 1..(Len(list) + 1)
      /\ Len(list) \in Nat
  OBVIOUS
<1>2. \A i \in 1..Len(list) : s[i + 1] = list[i]
  OBVIOUS
<1>3. \A i \in DOMAIN s : i = 1 \/ (i - 1 \in DOMAIN list /\ s[i] = list[i - 1])
  BY <1>1, <1>2
<1> HIDE DEF s
<1>4. Range(s) = Range(list) \cup {id}
  <2>1. ASSUME NEW x, x \in Range(s) PROVE x \in Range(list) \cup {id}
    <3>1. PICK i \in DOMAIN s : s[i] = x
      BY <2>1, InRange
    <3>2. x = id \/ \E j \in DOMAIN list : list[j] = x
      BY <1>1, <1>3, <3>1
    <3> QED
      BY <3>2, InRange
  <2>2. id \in Range(s)
    <3>1. 1 \in DOMAIN s
      BY <1>1
    <3> QED
      BY <1>1, <3>1, InRange
  <2>3. ASSUME NEW x, x \in Range(list) PROVE x \in Range(s)
    <3>1. PICK i \in DOMAIN list : list[i] = x
      BY <2>3, InRange
    <3>2. i + 1 \in DOMAIN s /\ s[i + 1] = x
      <4>1. i \in 1..Len(list)
        OBVIOUS
      <4> QED
        BY <1>1, <1>2, <3>1, <4>1
    <3> QED
      BY <3>2, InRange
  <2> QED
    BY <2>1, <2>2, <2>3
<1>5. ASSUME IsInjective(list), id \notin Range(list) PROVE IsInjective(s)
  <2> SUFFICES ASSUME NEW i \in DOMAIN s, NEW j \in DOMAIN s, s[i] = s[j] PROVE i = j
    BY DEF IsInjective
  <2>1. CASE i = 1 /\ j = 1
    BY <2>1
  <2>2. CASE i # 1 /\ j # 1
    <3>1. /\ i - 1 \in DOMAIN list /\ j - 1 \in DOMAIN list /\ i \in Int /\ j \in Int
          /\ list[i - 1] = list[j - 1]
      BY <1>1, <1>3, <2>2
    <3>2. i - 1 = j - 1
      BY <1>5, <3>1 DEF IsInjective
    <3> QED
      BY <3>1, <3>2
  <2>3. CASE i = 1 /\ j # 1
    <3>1. j - 1 \in DOMAIN list /\ list[j - 1] = id
      BY <1>1, <1>3, <2>3
    <3> QED
      BY <1>5, <3>1, InRange
  <2>4. CASE i # 1 /\ j = 1
    <3>1. i - 1 \in DOMAIN list /\ list[i - 1] = id
      BY <1>1, <1>3, <2>4
    <3> QED
      BY <1>5, <3>1, InRange
  <2> QED
    BY <2>1, <2>2, <2>3, <2>4
<1>6. Last(s) = IF list = <<>> THEN id ELSE Last(list)
  BY <1>1, <1>2 DEF Last
<1> QED
  BY <1>1, <1>4, <1>5, <1>6 DEF s, Latest

LEMMA ConcatIs ==
  ASSUME NEW list \in Seq(Int), NEW page \in Seq(Int)
  PROVE  /\ list \o page \in Seq(Int)
         /\ Range(list \o page) = Range(list) \cup Range(page)
         /\ IsInjective(list) /\ IsInjective(page) /\ Range(list) \cap Range(page) = {}
              => IsInjective(list \o page)
         /\ list # <<>> => /\ list \o page # <<>>
                          /\ Last(list \o page) \in {Last(list)} \cup Range(page)
<1> DEFINE s == list \o page
<1>1. s \in Seq(Int) /\ Len(s) = Len(list) + Len(page) /\ DOMAIN s = 1..(Len(list) + Len(page))
  OBVIOUS
<1>2. /\ \A i \in DOMAIN list : i \in DOMAIN s /\ s[i] = list[i]
      /\ \A i \in DOMAIN page : Len(list) + i \in DOMAIN s /\ s[Len(list) + i] = page[i]
  OBVIOUS
<1>3. \A i \in DOMAIN s : \/ i \in DOMAIN list /\ s[i] = list[i]
                          \/ i - Len(list) \in DOMAIN page /\ s[i] = page[i - Len(list)] /\ i > Len(list)
  OBVIOUS
<1> HIDE DEF s
<1>4. Range(s) = Range(list) \cup Range(page)
  BY <1>2, <1>3 DEF Range
<1>5. ASSUME IsInjective(list), IsInjective(page), Range(list) \cap Range(page) = {}
      PROVE  IsInjective(s)
  <2> SUFFICES ASSUME NEW i \in DOMAIN s, NEW j \in DOMAIN s, s[i] = s[j] PROVE i = j
    BY DEF IsInjective
  <2>1. CASE i \in DOMAIN list /\ j \in DOMAIN list
    BY <1>2, <1>5, <2>1 DEF IsInjective
  <2>2. CASE i \notin DOMAIN list /\ j \notin DOMAIN list
    <3>1. /\ i - Len(list) \in DOMAIN page /\ j - Len(list) \in DOMAIN page
          /\ page[i - Len(list)] = page[j - Len(list)]
      BY <1>3, <2>2
    <3>2. i - Len(list) = j - Len(list) /\ i \in Int /\ j \in Int
      BY <1>1, <1>5, <3>1 DEF IsInjective
    <3> QED
      BY <3>2
  <2>3. CASE i \in DOMAIN list /\ j \notin DOMAIN list
    <3>1. j - Len(list) \in DOMAIN page /\ page[j - Len(list)] = list[i]
      BY <1>2, <1>3, <2>3
    <3>2. list[i] \in Range(list) /\ list[i] \in Range(page)
      BY <2>3, <3>1, InRange
    <3> QED
      BY <1>5, <3>2
  <2>4. CASE i \notin DOMAIN list /\ j \in DOMAIN list
    <3>1. i - Len(list) \in DOMAIN page /\ page[i - Len(list)] = list[j]
      BY <1>2, <1>3, <2>4
    <3>2. list[j] \in Range(list) /\ list[j] \in Range(page)
      BY <2>4, <3>1, InRange
    <3> QED
      BY <1>5, <3>2
  <2> QED
    BY <2>1, <2>2, <2>3, <2>4
<1>6. ASSUME list # <<>> PROVE s # <<>> /\ Last(s) \in {Last(list)} \cup Range(page)
  <2>1. Len(list) \in Nat /\ Len(page) \in Nat /\ Len(list) > 0 /\ Len(s) \in DOMAIN s
    BY <1>1, <1>6
  <2>2. CASE Len(s) \in DOMAIN list
    <3>1. Len(s) = Len(list)
      BY <1>1, <2>1, <2>2
    <3> QED
      BY <1>1, <1>2, <2>1, <2>2, <3>1 DEF Last
  <2>3. CASE Len(s) \notin DOMAIN list
    <3>1. Len(s) - Len(list) \in DOMAIN page /\ s[Len(s)] = page[Len(s) - Len(list)]
      BY <1>3, <2>1, <2>3
    <3>2. s[Len(s)] \in Range(page)
      BY <3>1, InRange
    <3>3. s # <<>>
      BY <1>1, <2>1
    <3> QED
      BY <3>2, <3>3 DEF Last
  <2> QED
    BY <2>2, <2>3
<1> QED
  BY <1>1, <1>4, <1>5, <1>6 DEF s

LEMMA ReplacedIs ==
  ASSUME NEW list \in Seq(Int), NEW i \in DOMAIN list, NEW id \in Int
  PROVE  LET s == [list EXCEPT ![i] = id] IN
         /\ s \in Seq(Int) /\ s # <<>> /\ Len(s) = Len(list)
         /\ Range(s) \subseteq Range(list) \cup {id} /\ id \in Range(s)
         /\ Range(list) \ {list[i]} \subseteq Range(s)
         /\ IsInjective(list) => list[i] \notin Range(s) \/ list[i] = id
         /\ IsInjective(list) /\ id \notin Range(list) => IsInjective(s)
         /\ list[i] # Last(list) => Last(s) = Last(list)
<1> DEFINE s == [list EXCEPT ![i] = id]
<1>1. s \in Seq(Int) /\ DOMAIN s = DOMAIN list /\ Len(s) = Len(list) /\ s[i] = id
  OBVIOUS
<1>2. \A j \in DOMAIN list : j # i => s[j] = list[j]
  OBVIOUS
<1> HIDE DEF s
<1> QED
  BY <1>1, <1>2 DEF s, Range, IsInjective, Last

LEMMA RemovedAt ==
  ASSUME NEW list \in Seq(Int), NEW n \in Nat, n = Len(list), NEW i \in 1..n
  PROVE  /\ RemoveAt(list, i) \in Seq(Int)
         /\ Len(RemoveAt(list, i)) = n - 1 /\ DOMAIN RemoveAt(list, i) = 1..(n - 1)
         /\ \A j \in 1..(n - 1) : RemoveAt(list, i)[j] = IF j < i THEN list[j] ELSE list[j + 1]
<1>0. \A j \in 1..n : list[j] \in Int
  OBVIOUS
<1>1. PICK t : /\ t = SubSeq(list, 1, i - 1) /\ t \in Seq(Int) /\ Len(t) = i - 1
              /\ \A j \in 1..(i - 1) : t[j] = list[j]
  <2>1. 1 \in Int /\ i - 1 \in Int /\ \A j \in 1..(i - 1) : list[j] \in Int
    BY <1>0
  <2>2. /\ SubSeq(list, 1, i - 1) \in Seq(Int)
        /\ Len(SubSeq(list, 1, i - 1)) = IF 1 <= i - 1 THEN (i - 1) - 1 + 1 ELSE 0
        /\ \A j \in 1..((i - 1) - 1 + 1) : SubSeq(list, 1, i - 1)[j] = list[1 + j - 1]
    BY <2>1, SubSeqProperties
  <2>3. \A j \in 1..(i - 1) : SubSeq(list, 1, i - 1)[j] = list[j]
    <3> SUFFICES ASSUME NEW j \in 1..(i - 1) PROVE SubSeq(list, 1, i - 1)[j] = list[j]
      OBVIOUS
    <3>1. j \in 1..((i - 1) - 1 + 1) /\ 1 + j - 1 = j
      OBVIOUS
    <3> QED
      BY <2>2, <3>1
  <2>4. Len(SubSeq(list, 1, i - 1)) = i - 1
    BY <2>2
  <2> QED
    BY <2>2, <2>3, <2>4
<1>2. PICK u : /\ u = SubSeq(list, i + 1, n) /\ u \in Seq(Int) /\ Len(u) = n - i
              /\ \A j \in 1..(n - i) : u[j] = list[j + i]
  <2>1. i + 1 \in Int /\ n \in Int /\ \A j \in (i + 1)..n : list[j] \in Int
    BY <1>0
  <2>2. /\ SubSeq(list, i + 1, n) \in Seq(Int)
        /\ Len(SubSeq(list, i + 1, n)) = IF i + 1 <= n THEN n - (i + 1) + 1 ELSE 0
        /\ \A j \in 1..(n - (i + 1) + 1) : SubSeq(list, i + 1, n)[j] = list[(i + 1) + j - 1]
    BY <2>1, SubSeqProperties
  <2>3. \A j \in 1..(n - i) : SubSeq(list, i + 1, n)[j] = list[j + i]
    <3> SUFFICES ASSUME NEW j \in 1..(n - i) PROVE SubSeq(list, i + 1, n)[j] = list[j + i]
      OBVIOUS
    <3>1. j \in 1..(n - (i + 1) + 1) /\ (i + 1) + j - 1 = j + i
      OBVIOUS
    <3> QED
      BY <2>2, <3>1
  <2>4. Len(SubSeq(list, i + 1, n)) = n - i
    BY <2>2
  <2> QED
    BY <2>2, <2>3, <2>4
<1>3. \A j \in 1..(i - 1) : t[j] = list[j]
  BY <1>1
<1>4. \A j \in 1..(n - i) : u[j] = list[j + i]
  BY <1>2
<1>5. RemoveAt(list, i) = t \o u
  BY <1>1, <1>2 DEF RemoveAt
<1>6. i - 1 \in Nat /\ n - i \in Nat /\ (i - 1) + (n - i) = n - 1 /\ i \in Int
  OBVIOUS
<1>7. /\ t \o u \in Seq(Int) /\ Len(t \o u) = n - 1 /\ DOMAIN (t \o u) = 1..(n - 1)
      /\ \A j \in 1..(n - 1) : (t \o u)[j] = IF j <= i - 1 THEN t[j] ELSE u[j - (i - 1)]
  <2>1. PICK p \in Nat, q \in Nat : p = Len(t) /\ p = i - 1 /\ q = Len(u) /\ q = n - i
    BY <1>1, <1>2, <1>6
  <2>2. t \in Seq(Int) /\ u \in Seq(Int)
    BY <1>1, <1>2
  <2>3. /\ t \o u \in Seq(Int) /\ Len(t \o u) = p + q
        /\ DOMAIN (t \o u) = 1..(p + q)
        /\ \A j \in 1..(p + q) : (t \o u)[j] = IF j <= p THEN t[j] ELSE u[j - p]
    <3>1. Len(t) = p /\ Len(u) = q
      BY <2>1
    <3>2. /\ t \o u \in Seq(Int) /\ Len(t \o u) = Len(t) + Len(u)
          /\ \A j \in 1..(Len(t) + Len(u)) : (t \o u)[j] = IF j <= Len(t) THEN t[j] ELSE u[j - Len(t)]
      BY <2>2, ConcatProperties
    <3>3. DOMAIN (t \o u) = 1..Len(t \o u)
      BY <3>2
    <3> QED
      BY <3>1, <3>2, <3>3
  <2>4. p + q = n - 1
    BY <2>1
  <2> QED
    BY <2>1, <2>3, <2>4
<1>8. ASSUME NEW j \in 1..(n - 1) PROVE (t \o u)[j] = IF j < i THEN list[j] ELSE list[j + 1]
  <2>1. CASE j < i
    <3>1. j \in 1..(i - 1) /\ j <= i - 1
      BY <2>1
    <3> QED
      BY <1>3, <1>7, <2>1, <3>1
  <2>2. CASE ~(j < i)
    <3>1. j - (i - 1) \in 1..(n - i) /\ (j - (i - 1)) + i = j + 1 /\ ~(j <= i - 1)
      BY <2>2
    <3> QED
      BY <1>4, <1>7, <2>2, <3>1
  <2> QED
    BY <2>1, <2>2
<1> QED
  BY <1>5, <1>7, <1>8

LEMMA RemovedIs ==
  ASSUME NEW list \in Seq(Int), NEW i \in DOMAIN list
  PROVE  LET s == RemoveAt(list, i) IN
         /\ s \in Seq(Int)
         /\ Range(s) \subseteq Range(list)
         /\ Range(list) \ {list[i]} \subseteq Range(s)
         /\ IsInjective(list) => IsInjective(s) /\ list[i] \notin Range(s)
         /\ list[i] # Last(list) => s # <<>> /\ Last(s) = Last(list)
<1>0. PICK n \in Nat : n = Len(list) /\ DOMAIN list = 1..n /\ i \in 1..n
  OBVIOUS
<1>1. PICK s : s = RemoveAt(list, i)
  OBVIOUS
<1>2. /\ s \in Seq(Int) /\ Len(s) = n - 1 /\ DOMAIN s = 1..(n - 1)
      /\ \A j \in 1..(n - 1) : s[j] = IF j < i THEN list[j] ELSE list[j + 1]
  BY <1>0, <1>1, RemovedAt
<1>3. ASSUME NEW j \in 1..n, j # i
      PROVE  \E k \in 1..(n - 1) : s[k] = list[j] /\ k = IF j < i THEN j ELSE j - 1
  <2>1. CASE j < i
    BY <1>0, <1>2, <2>1
  <2>2. CASE ~(j < i)
    <3>1. j - 1 \in 1..(n - 1) /\ ~(j - 1 < i) /\ (j - 1) + 1 = j
      BY <1>0, <1>3, <2>2
    <3> QED
      BY <1>2, <2>2, <3>1
  <2> QED
    BY <2>1, <2>2
<1>4. ASSUME NEW k \in 1..(n - 1)
      PROVE  \E j \in 1..n : s[k] = list[j] /\ j # i /\ j = IF k < i THEN k ELSE k + 1
  <2>1. CASE k < i
    BY <1>0, <1>2, <2>1
  <2>2. CASE ~(k < i)
    BY <1>0, <1>2, <2>2
  <2> QED
    BY <2>1, <2>2
<1>5. Range(s) \subseteq Range(list)
  <2> SUFFICES ASSUME NEW x, x \in Range(s) PROVE x \in Range(list)
    OBVIOUS
  <2>1. PICK k \in 1..(n - 1) : s[k] = x
    BY <1>2, InRange
  <2> QED
    BY <1>0, <1>4, <2>1, InRange
<1>6. Range(list) \ {list[i]} \subseteq Range(s)
  <2> SUFFICES ASSUME NEW x, x \in Range(list), x # list[i] PROVE x \in Range(s)
    OBVIOUS
  <2>1. PICK j \in 1..n : list[j] = x
    BY <1>0, InRange
  <2> QED
    BY <1>2, <1>3, <2>1, InRange
<1>7. ASSUME IsInjective(list) PROVE IsInjective(s) /\ list[i] \notin Range(s)
  <2>1. ASSUME NEW j \in 1..(n - 1), NEW k \in 1..(n - 1), s[j] = s[k] PROVE j = k
    <3>1. PICK p \in 1..n : s[j] = list[p] /\ p = IF j < i THEN j ELSE j + 1
      BY <1>4
    <3>2. PICK q \in 1..n : s[k] = list[q] /\ q = IF k < i THEN k ELSE k + 1
      BY <1>4
    <3>3. p = q
      BY <1>0, <1>7, <2>1, <3>1, <3>2 DEF IsInjective
    <3> QED
      BY <1>0, <3>1, <3>2, <3>3
  <2>2. \A k \in 1..(n - 1) : s[k] # list[i]
    BY <1>0, <1>4, <1>7 DEF IsInjective
  <2>3. list[i] \notin Range(s)
    BY <1>2, <2>2, InRange
  <2> QED
    BY <1>2, <2>1, <2>3 DEF IsInjective
<1>8. ASSUME list[i] # Last(list) PROVE s # <<>> /\ Last(s) = Last(list)
  <2>1. Last(list) = list[n] /\ n # i
    BY <1>0, <1>8 DEF Last
  <2>2. n \in 1..n /\ ~(n < i) /\ n - 1 \in 1..(n - 1)
    BY <1>0, <2>1
  <2>3. s[n - 1] = list[n]
    BY <1>3, <2>1, <2>2
  <2>4. s # <<>>
    BY <1>2, <2>2
  <2> QED
    BY <1>2, <2>1, <2>3, <2>4 DEF Last
<1> QED
  BY <1>1, <1>2, <1>5, <1>6, <1>7, <1>8

-----------------------------------------------------------------------------
(* The inductive invariants *)

Shown(c) == Range(cache[c].list)

\* A send and the message it is stored as agree; before it is stored there is none.
Sent ==
    /\ \A i \in DOMAIN posted : posted[i].send # 0 =>
           LET s == sends[posted[i].send]
           IN  /\ s.at \in {"posted", "failed", "settled"}
               /\ s.ch = posted[i].ch /\ s.parent = posted[i].parent
    /\ \A k \in DOMAIN sends :
           /\ sends[k].at = "posted" => \E i \in DOMAIN posted : posted[i].send = k
           /\ strayed \/ sends[k].at = "unsent" \/ sends[k].key = sends[k].ch
    /\ composing # 0 => sends[composing].at # "unsent"

\* A feed shows messages and temps of its channel, each once.
Fits(c, x) ==
    \/ x \in DOMAIN posted /\ (strayed \/ posted[x].ch = c)
    \/ -x \in DOMAIN sends /\ sends[-x].at # "unsent" /\ sends[-x].ch = c
Feeds ==
    \A c \in Channels :
        /\ IsInjective(cache[c].list)
        /\ \A x \in Shown(c) : Fits(c, x)
        /\ ~cache[c].loaded => cache[c].list = <<>>
        /\ cache[c].upto <= Len(posted)
        /\ reads[c] # 0 => reads[c] \in DOMAIN posted /\ (strayed \/ posted[reads[c]].ch = c)
Answers ==
    /\ \A c \in Channels : IsInjective(fetch[c].list) /\ Range(fetch[c].list) \subseteq TopLevel(c)
    /\ \A r \in older : r.before > 0 => r.before \in DOMAIN posted
    /\ \A p \in Threads :
           /\ IsInjective(replies[p].list) /\ Range(replies[p].list) \subseteq RepliesTo(p)
           /\ IsInjective(replies[p].got) /\ Range(replies[p].got) \subseteq RepliesTo(p)
    /\ known \subseteq DOMAIN posted

Entries == TypeOK /\ Sent /\ Feeds /\ Answers

\* Without another temp beside it, the message of a temp in the feed is newer than all
\* that is fetched as older.
Temps ==
    \A c \in Channels : \A k \in DOMAIN sends : -k \in Shown(c) =>
        /\ sends[k].at = "settled" => strayed
        /\ crowded \/
             /\ \A j \in DOMAIN sends : -j \in Shown(c) => j = k
             /\ \A i \in DOMAIN posted : posted[i].send = k =>
                    /\ i \notin Shown(c)
                    /\ Last(cache[c].list) < i
                    /\ \A r \in older : r.ch = c => r.before < i

\* What the feed knows and does not show is older than all it shows, and an answer
\* leaves out only what is older than all of it or newer.
Missing(c) == (known \cap TopLevel(c)) \ (Shown(c) \cup overtaken)
MissingOlder ==
    torn \/ lagged \/
    \A c \in Channels : \A i \in Missing(c) :
        /\ cache[c].list # <<>> /\ Last(cache[c].list) \in TopLevel(c)
        /\ \A j \in Shown(c) \cap TopLevel(c) : i < j
AnswersWhole ==
    \A c \in Channels : fetch[c].at = "back" =>
        LET got == Range(fetch[c].list) IN
        /\ \A i \in TopLevel(c) \ got : (\A j \in got : i < j) \/ (\A j \in got : i > j)
        /\ \A i \in (known \cap TopLevel(c)) \ got :
               \/ i \in Shown(c) \cup overtaken
               \/ got # {} /\ \A j \in got : i < j

\* A feed that is not covered is as long as a page.
Covered(c) ==
    \A i \in TopLevel(c) : i <= cache[c].upto => \E j \in Shown(c) : 0 < j /\ j <= i
Messages(c) == {j \in Shown(c) : 0 < j}
Pages ==
    /\ \A c \in Channels : Covered(c) \/ Cardinality(Messages(c)) >= FirstPage
    /\ \A c \in Channels : fetch[c].at = "back" =>
           LET list == fetch[c].list
           IN  Len(list) >= FirstPage \/ \A i \in TopLevel(c) : i <= Latest(list) => i \in Range(list)
-----------------------------------------------------------------------------
(* Types *)

LEMMA ActionCases ==
  ASSUME [Next]_vars
  PROVE  \/ \E c \in Channels : FetchAnswer(c) \/ FetchSettle(c) \/ FetchFail(c)
         \/ \E c \in Channels, cached \in BOOLEAN : Switch(c, cached)
         \/ \E p \in Threads : RepliesAnswer(p) \/ RepliesSettle(p) \/ RepliesFail(p)
         \/ \E again \in BOOLEAN : Receive(again)
         \/ LinkLost \/ Mount \/ ScrollUp \/ Others \/ UNCHANGED vars
         \/ \E p \in {0} \cup Threads : Send(p)
         \/ \E k \in DOMAIN sends : SendSettle(k)
         \/ \E r \in older : OlderSettle(r) \/ OlderFail(r)
BY DEF Next

LEMMA PostedTyped ==
  ASSUME TypeOK
  PROVE  /\ Len(posted) \in Nat /\ DOMAIN posted = 1..Len(posted)
         /\ DOMAIN posted \subseteq Nat \ {0} /\ IsFiniteSet(DOMAIN posted)
         /\ \A i \in DOMAIN posted : /\ posted[i].ch \in Channels /\ posted[i].send \in 0..MaxSends
                                     /\ posted[i].parent \in {0} \cup Threads
         /\ Threads \subseteq DOMAIN posted /\ 0 \notin Threads
         /\ DOMAIN sends = 1..MaxSends /\ DOMAIN sends \subseteq Nat \ {0}
<1>1. Len(posted) \in Nat /\ DOMAIN posted = 1..Len(posted)
  BY DEF TypeOK
<1>2. IsFiniteSet(DOMAIN posted)
  BY <1>1, FS_Interval
<1>3. Len(Start) \in Nat /\ DOMAIN Start = 1..Len(Start)
  BY ChatFeedAssumption
<1>4. Threads \subseteq 1..Len(posted)
  BY <1>1, <1>3, ChatFeedAssumption DEF TypeOK
<1>5. \A i \in DOMAIN posted : /\ posted[i].ch \in Channels /\ posted[i].send \in 0..MaxSends
                              /\ posted[i].parent \in {0} \cup Threads
  <2> SUFFICES ASSUME NEW i \in DOMAIN posted
               PROVE  posted[i] \in [ch : Channels, send : 0..MaxSends, parent : {0} \cup Threads]
    OBVIOUS
  <2>1. posted \in Seq(Post)
    BY DEF TypeOK
  <2>2. posted[i] \in Post
    BY <2>1
  <2> QED
    BY <2>2 DEF Post
<1>6. DOMAIN sends = 1..MaxSends /\ MaxSends \in Nat
  BY ChatFeedAssumption DEF TypeOK
<1>7. DOMAIN posted \subseteq Nat \ {0} /\ DOMAIN sends \subseteq Nat \ {0}
  BY <1>1, <1>6
<1> QED
  BY <1>1, <1>2, <1>4, <1>5, <1>6, <1>7

LEMMA MessageSets ==
  ASSUME TypeOK, NEW S, S \subseteq DOMAIN posted
  PROVE  /\ S \in SUBSET Int /\ IsFiniteSet(S)
         /\ Ascending(S) \in Seq(S) /\ IsInjective(Ascending(S)) /\ Range(Ascending(S)) = S
         /\ Seq(S) \subseteq Seq(Nat)
<1>1. S \in SUBSET Int /\ IsFiniteSet(S)
  BY PostedTyped, FS_Subset
<1>2. PICK n \in Nat : n = Cardinality(S)
  BY <1>1, FS_CardinalityType
<1>3. PICK a : a = Ascending(S)
  OBVIOUS
<1>4. /\ a \in [1..n -> S]
      /\ \A i, j \in 1..n : i < j => a[i] < a[j]
      /\ \A x \in S : \E i \in 1..n : a[i] = x
  BY <1>1, <1>2, <1>3, AscendingIs
<1>5. a \in Seq(S) /\ DOMAIN a = 1..n
  BY <1>4
<1>6. IsInjective(a)
  <2> SUFFICES ASSUME NEW i \in 1..n, NEW j \in 1..n, i # j PROVE a[i] # a[j]
    BY <1>5 DEF IsInjective
  <2>1. i < j \/ j < i
    OBVIOUS
  <2>2. a[i] \in Int /\ a[j] \in Int
    BY <1>1, <1>4
  <2> QED
    BY <1>4, <2>1, <2>2
<1>7. Range(a) = S
  <2>1. Range(a) \subseteq S
    BY <1>4 DEF Range
  <2>2. \A x \in S : x \in Range(a)
    BY <1>4, <1>5, InRange
  <2> QED
    BY <2>1, <2>2
<1>8. Seq(S) \subseteq Seq(Nat)
  <2>1. S \subseteq Nat
    BY PostedTyped
  <2> QED
    BY <2>1
<1> QED
  BY <1>1, <1>3, <1>5, <1>6, <1>7, <1>8

LEMMA RenderedIs ==
  ASSUME TypeOK, NEW c \in Channels, NEW m \in BOOLEAN, NEW new \in [Channels -> Feed],
         NEW rep \in [Threads -> Thread], NEW more, NEW told \in SUBSET DOMAIN posted,
         Rendered(c, m, new, rep, more, told)
  PROVE  /\ cur' = c /\ mounted' = m /\ cache' = new /\ hasMore' \in BOOLEAN
         /\ replies' \in [Threads -> Thread]
         /\ \A p \in Threads : /\ replies'[p].list = rep[p].list /\ replies'[p].got = rep[p].got
                               /\ replies'[p].loaded = rep[p].loaded
         /\ reads' \in [Channels -> Nat]
         /\ \A d \in Channels : \/ reads'[d] = reads[d]
                                \/ reads'[d] > 0 /\ reads'[d] \in Range(new[d].list)
         /\ known' \in SUBSET Nat
         /\ known' = known \cup told \cup UNION {Range(new[d].list) \cap TopLevel(d) : d \in Channels}
<1>1. cur' = c /\ mounted' = m /\ cache' = new
  BY DEF Rendered
<1>2. hasMore' \in BOOLEAN
  BY DEF Rendered
<1>3. /\ replies' \in [Threads -> Thread]
      /\ \A p \in Threads : /\ replies'[p].list = rep[p].list /\ replies'[p].got = rep[p].got
                            /\ replies'[p].loaded = rep[p].loaded
  <2>1. PICK aged \in BOOLEAN :
          replies' = [p \in Threads |-> IF p \in Observed(m, c, new) \ ObservedNow
                                        THEN Subscribed(rep[p], aged) ELSE rep[p]]
    BY DEF Rendered
  <2>2. \A p \in Threads : LET r == Subscribed(rep[p], aged)
                           IN  /\ r \in Thread /\ r.list = rep[p].list /\ r.got = rep[p].got
                               /\ r.loaded = rep[p].loaded
    BY DEF Subscribed, Thread
  <2> QED
    BY <2>1, <2>2
<1>4. /\ reads' \in [Channels -> Nat]
      /\ \A d \in Channels : \/ reads'[d] = reads[d]
                             \/ reads'[d] > 0 /\ reads'[d] \in Range(new[d].list)
  <2>1. reads' = reads \/ reads' = [reads EXCEPT ![c] = MarkedRead(c, new[c].list)]
    BY DEF Rendered
  <2>2. reads \in [Channels -> Nat] /\ new[c].list \in Seq(Int)
    BY DEF TypeOK, Feed
  <2>3. \/ MarkedRead(c, new[c].list) = reads[c]
        \/ MarkedRead(c, new[c].list) > 0 /\ MarkedRead(c, new[c].list) \in Range(new[c].list)
    BY <2>2 DEF MarkedRead, Latest, Range
  <2>4. MarkedRead(c, new[c].list) \in Nat
    BY <2>2 DEF MarkedRead, Latest
  <2> QED
    BY <2>1, <2>2, <2>3, <2>4
<1>5. known' = known \cup told \cup UNION {Range(new[d].list) \cap TopLevel(d) : d \in Channels}
  BY DEF Rendered
<1>6. known' \in SUBSET Nat
  <2>1. DOMAIN posted \subseteq Nat /\ \A d \in Channels : TopLevel(d) \subseteq DOMAIN posted
    BY PostedTyped DEF TopLevel
  <2> QED
    BY <1>5, <2>1 DEF TypeOK
<1> QED
  BY <1>1, <1>2, <1>3, <1>4, <1>5, <1>6

LEMMA TopLevelIs ==
  ASSUME TypeOK, NEW c
  PROVE  /\ TopLevel(c) \subseteq DOMAIN posted /\ TopLevel(c) \in SUBSET Int
         /\ IsFiniteSet(TopLevel(c)) /\ Seq(TopLevel(c)) \subseteq Seq(Nat)
<1>1. TopLevel(c) \subseteq DOMAIN posted
  BY DEF TopLevel
<1> QED
  BY <1>1, MessageSets

LEMMA FetchAnswerTyped ==
  ASSUME TypeOK, NEW c \in Channels, FetchAnswer(c)
  PROVE  TypeOK'
<1>1. Newest(TopLevel(c), FirstPage) \in Seq(Nat)
  BY TopLevelIs, NewestIs, ChatFeedAssumption
<1>2. fetch' \in [Channels -> Request]
  BY <1>1 DEF FetchAnswer, TypeOK, Request
<1> QED
  BY <1>2 DEF FetchAnswer, TypeOK, server, route, paging, composer

LEMMA LatestIs ==
  ASSUME NEW list \in Seq(Nat)
  PROVE  /\ Latest(list) \in Nat /\ list \in Seq(Int)
         /\ list # <<>> => Latest(list) \in Range(list)
         /\ list = <<>> => Latest(list) = 0
BY DEF Latest, Range

LEMMA FetchSettleTyped ==
  ASSUME TypeOK, NEW c \in Channels, FetchSettle(c)
  PROVE  TypeOK'
<1> DEFINE f == fetch[c]
           new == [cache EXCEPT ![c] = [loaded |-> TRUE, upto |-> Latest(f.list), list |-> f.list, threaded |-> f.threaded]]
<1>1. f \in Request
  BY DEF TypeOK
<1>2. Latest(f.list) \in Nat /\ f.list \in Seq(Int) /\ f.threaded \in SUBSET Threads
  BY <1>1, LatestIs DEF Request
<1>3. new \in [Channels -> Feed]
  BY <1>2 DEF TypeOK, Feed
<1>4. Rendered(cur, mounted, new, replies, hasMore, {})
  BY DEF FetchSettle, Shows
<1>5. fetch' \in [Channels -> Request]
  BY DEF FetchSettle, TypeOK, Request, NoFetch
<1>6. overtaken' \in SUBSET Nat
  <2>1. TopLevel(c) \subseteq Nat
    BY TopLevelIs, PostedTyped
  <2>2. overtaken' \subseteq overtaken \cup TopLevel(c)
    BY DEF FetchSettle
  <2> QED
    BY <2>1, <2>2 DEF TypeOK
<1>7. cur \in Channels /\ mounted \in BOOLEAN /\ replies \in [Threads -> Thread] /\ {} \in SUBSET DOMAIN posted
  BY DEF TypeOK
<1> HIDE DEF new, f
<1>8. /\ cur' = cur /\ mounted' = mounted /\ cache' = new /\ hasMore' \in BOOLEAN
      /\ replies' \in [Threads -> Thread] /\ reads' \in [Channels -> Nat] /\ known' \in SUBSET Nat
  BY <1>3, <1>4, <1>7, RenderedIs
<1>9. cut' \in BOOLEAN
  BY DEF FetchSettle, TypeOK
<1> QED
  BY <1>3, <1>5, <1>6, <1>8, <1>9 DEF FetchSettle, TypeOK, server, paging, composer

LEMMA FetchFailTyped ==
  ASSUME TypeOK, NEW c \in Channels, FetchFail(c)
  PROVE  TypeOK'
<1>1. fetch' \in [Channels -> Request]
  BY DEF FetchFail, TypeOK, Request, NoFetch
<1>2. upsets' \in 0..MaxUpsets
  BY ChatFeedAssumption DEF FetchFail, Upset, TypeOK
<1> QED
  BY <1>1, <1>2 DEF FetchFail, TypeOK, server, route, paging, composer

LEMMA RepliesToIs ==
  ASSUME TypeOK, NEW p
  PROVE  /\ RepliesTo(p) \subseteq DOMAIN posted /\ RepliesTo(p) \subseteq Nat
         /\ Ascending(RepliesTo(p)) \in Seq(Nat) /\ IsInjective(Ascending(RepliesTo(p)))
         /\ Range(Ascending(RepliesTo(p))) = RepliesTo(p)
<1>1. RepliesTo(p) \subseteq DOMAIN posted
  BY DEF RepliesTo
<1> QED
  BY <1>1, MessageSets, PostedTyped

LEMMA RepliesTyped ==
  ASSUME TypeOK, NEW p \in Threads, RepliesAnswer(p) \/ RepliesSettle(p) \/ RepliesFail(p)
  PROVE  TypeOK'
<1>1. CASE RepliesAnswer(p)
  <2>1. replies' \in [Threads -> Thread]
    <3>1. [replies[p] EXCEPT !.fetch = "back", !.got = Ascending(RepliesTo(p))] \in Thread
      <4>1. replies[p] \in Thread /\ Ascending(RepliesTo(p)) \in Seq(Nat)
        BY RepliesToIs DEF TypeOK
      <4> QED
        BY <4>1 DEF Thread
    <3> QED
      BY <1>1, <3>1 DEF RepliesAnswer, RepliesChange, TypeOK
  <2> QED
    BY <1>1, <2>1 DEF RepliesAnswer, RepliesChange, TypeOK, server, route, paging, composer
<1>2. CASE RepliesSettle(p)
  <2>1. replies' \in [Threads -> Thread]
    <3>1. [NoReplies EXCEPT !.loaded = TRUE, !.list = replies[p].got] \in Thread
      <4>1. replies[p].got \in Seq(Nat) /\ <<>> \in Seq(Nat)
        BY DEF TypeOK, Thread
      <4>2. NoReplies \in Thread
        BY <4>1 DEF Thread, NoReplies
      <4> QED
        BY <4>1, <4>2 DEF Thread
    <3> QED
      BY <1>2, <3>1 DEF RepliesSettle, RepliesChange, TypeOK
  <2>2. overtaken' \in SUBSET Nat
    BY <1>2, RepliesToIs DEF RepliesSettle, TypeOK
  <2> QED
    BY <1>2, <2>1, <2>2 DEF RepliesSettle, RepliesChange, TypeOK, server, route, paging, composer
<1>3. CASE RepliesFail(p)
  <2>1. replies' \in [Threads -> Thread]
    <3>1. [replies[p] EXCEPT !.fetch = "idle"] \in Thread
      <4>1. replies[p] \in Thread
        BY DEF TypeOK
      <4> QED
        BY <4>1 DEF Thread
    <3> QED
      BY <1>3, <3>1 DEF RepliesFail, RepliesChange, TypeOK
  <2>2. upsets' \in 0..MaxUpsets
    BY <1>3, ChatFeedAssumption DEF RepliesFail, Upset, TypeOK
  <2> QED
    BY <1>3, <2>1, <2>2 DEF RepliesFail, RepliesChange, TypeOK, server, route, paging, composer
<1> QED
  BY <1>1, <1>2, <1>3

-----------------------------------------------------------------------------
(* The hub's events *)

LEMMA EchoIs ==
  ASSUME NEW m, NEW list, NEW i \in EchoOf(m, list)
  PROVE  i = 0 \/ (i \in DOMAIN list /\ list[i] < 0 /\ m.send # 0 /\ sends[-list[i]].parent = m.parent)
<1>1. EchoOf(m, list) \subseteq TempsLike(m, list) \cup {0}
  BY DEF EchoOf
<1> QED
  BY <1>1 DEF TempsLike

LEMMA CreatedIs ==
  ASSUME TypeOK, NEW id \in DOMAIN posted, NEW i \in EchoOf(posted[id], cache[cur].list)
  PROVE  Created(id, i) \in Seq(Int) /\ Patched(cur, Created(id, i)) \in [Channels -> Feed]
<1> DEFINE list == cache[cur].list
<1>1. list \in Seq(Int) /\ cur \in Channels
  BY DEF TypeOK, Feed
<1>2. id \in Int
  BY PostedTyped
<1>3. <<id>> \o list \in Seq(Int) /\ <<id>> \in Seq(Int)
  BY <1>1, <1>2
<1>4. i # 0 => [list EXCEPT ![i] = id] \in Seq(Int)
  BY <1>1, <1>2, EchoIs, ReplacedIs
<1>5. Created(id, i) \in Seq(Int)
  BY <1>1, <1>3, <1>4 DEF Created
<1> QED
  BY <1>1, <1>5 DEF Patched, TypeOK, Feed

LEMMA ReplyCreatedIs ==
  ASSUME TypeOK, NEW id \in DOMAIN posted, NEW i \in EchoOf(posted[id], cache[cur].list),
         NEW p \in Threads, ReplyCreated(id, p, i)
  PROVE  /\ cur' = cur /\ mounted' = TRUE /\ hasMore' \in BOOLEAN
         /\ cache' \in [Channels -> Feed]
         /\ \A d \in Channels : /\ cache'[d].upto = cache[d].upto /\ cache'[d].loaded = cache[d].loaded
                                /\ \/ cache'[d].list = cache[d].list
                                   \/ d = cur /\ i # 0 /\ cache'[d].list = RemoveAt(cache[d].list, i)
         /\ i = 0 \/ ~cache[cur].loaded \/ cache'[cur].list = RemoveAt(cache[cur].list, i)
         /\ replies' \in [Threads -> Thread]
         /\ \A q \in Threads :
               /\ replies'[q].loaded = replies[q].loaded /\ replies'[q].got = replies[q].got
               /\ replies'[q].list = IF q = p /\ replies[p].loaded /\ id \notin Range(replies[p].list)
                                     THEN Append(replies[q].list, id) ELSE replies[q].list
         /\ reads' \in [Channels -> Nat]
         /\ \A d \in Channels : \/ reads'[d] = reads[d]
                                \/ reads'[d] > 0 /\ reads'[d] \in Range(cache'[d].list)
         /\ known' \in SUBSET Nat
         /\ known' = known \cup {id} \cup UNION {Range(cache'[d].list) \cap TopLevel(d) : d \in Channels}
<1> DEFINE c == cache[cur]
           list == IF i = 0 THEN c.list ELSE RemoveAt(c.list, i)
           r == replies[p]
           th == IF p \in Range(list) THEN c.threaded \cup {p} ELSE c.threaded
           new == IF ~c.loaded THEN cache
                  ELSE [cache EXCEPT ![cur].list = list,
                                     ![cur].threaded = IF p \in Range(list) THEN @ \cup {p} ELSE @]
           thread == IF r.loaded /\ id \notin Range(r.list) THEN [r EXCEPT !.list = Append(@, id)] ELSE r
           rep == [replies EXCEPT ![p] = thread]
<1>1. Rendered(cur, TRUE, new, rep, hasMore, {id})
  BY DEF ReplyCreated
<1>2. cur \in Channels /\ c \in Feed /\ c.list \in Seq(Int) /\ cache \in [Channels -> Feed]
  BY DEF TypeOK, Feed
<1>3. i # 0 => i \in DOMAIN c.list
  BY EchoIs
<1>4. list \in Seq(Int)
  BY <1>2, <1>3, RemovedIs
<1>5. new \in [Channels -> Feed]
  BY <1>2, <1>4 DEF Feed
<1>6. \A d \in Channels : /\ new[d].upto = cache[d].upto /\ new[d].loaded = cache[d].loaded
                          /\ new[d].list = IF d = cur /\ c.loaded THEN list ELSE cache[d].list
  BY <1>2, <1>4 DEF Feed
<1>7. /\ rep \in [Threads -> Thread]
      /\ \A q \in Threads :
               /\ rep[q].loaded = replies[q].loaded /\ rep[q].got = replies[q].got
               /\ rep[q].list = IF q = p /\ r.loaded /\ id \notin Range(r.list)
                                THEN Append(replies[q].list, id) ELSE replies[q].list
  <2>1. id \in Nat
    BY PostedTyped
  <2>2. replies \in [Threads -> Thread]
    BY DEF TypeOK
  <2>3. r \in Thread /\ Append(r.list, id) \in Seq(Nat)
    BY <2>1, <2>2 DEF Thread
  <2>4. /\ thread \in Thread /\ thread.loaded = r.loaded /\ thread.got = r.got
        /\ thread.list = IF r.loaded /\ id \notin Range(r.list) THEN Append(r.list, id) ELSE r.list
    BY <2>3 DEF Thread
  <2> HIDE DEF thread
  <2> QED
    BY <2>2, <2>4
<1>8. {id} \in SUBSET DOMAIN posted
  OBVIOUS
<1> HIDE DEF new, rep
<1>9. /\ cur' = cur /\ mounted' = TRUE /\ cache' = new /\ hasMore' \in BOOLEAN
      /\ replies' \in [Threads -> Thread]
      /\ \A q \in Threads : /\ replies'[q].list = rep[q].list /\ replies'[q].got = rep[q].got
                            /\ replies'[q].loaded = rep[q].loaded
      /\ reads' \in [Channels -> Nat]
      /\ \A d \in Channels : \/ reads'[d] = reads[d]
                             \/ reads'[d] > 0 /\ reads'[d] \in Range(new[d].list)
      /\ known' \in SUBSET Nat
      /\ known' = known \cup {id} \cup UNION {Range(new[d].list) \cap TopLevel(d) : d \in Channels}
  BY <1>1, <1>2, <1>5, <1>7, <1>8, RenderedIs
<1> QED
  BY <1>2, <1>5, <1>6, <1>7, <1>9

LEMMA GrowsIs ==
  ASSUME TypeOK, NEW c \in Channels, NEW list \in Seq(Int), Grows(c, list)
  PROVE  /\ cur' = cur /\ mounted' = mounted /\ hasMore' \in BOOLEAN
         /\ cache' \in [Channels -> Feed]
         /\ cache' = Patched(c, list)
         /\ \A d \in Channels : /\ cache'[d].upto = cache[d].upto
                                /\ ~cache'[d].loaded => ~cache[d].loaded /\ d # c
                                /\ cache'[d].list = IF d = c THEN list ELSE cache[d].list
         /\ replies' \in [Threads -> Thread]
         /\ \A p \in Threads : /\ replies'[p].list = replies[p].list /\ replies'[p].got = replies[p].got
                               /\ replies'[p].loaded = replies[p].loaded
         /\ reads' \in [Channels -> Nat]
         /\ \A d \in Channels : \/ reads'[d] = reads[d]
                                \/ reads'[d] > 0 /\ reads'[d] \in Range(cache'[d].list)
         /\ known' \in SUBSET Nat
         /\ known' = known \cup UNION {Range(cache'[d].list) \cap TopLevel(d) : d \in Channels}
<1>1. Rendered(cur, mounted, Patched(c, list), replies, hasMore, {})
  BY DEF Grows, Shows
<1>2. /\ Patched(c, list) \in [Channels -> Feed]
      /\ \A d \in Channels : LET new == Patched(c, list)[d] IN
            /\ new.upto = cache[d].upto
            /\ ~new.loaded => ~cache[d].loaded /\ d # c
            /\ new.list = IF d = c THEN list ELSE cache[d].list
  BY DEF Patched, TypeOK, Feed
<1>3. cur \in Channels /\ mounted \in BOOLEAN /\ replies \in [Threads -> Thread] /\ {} \in SUBSET DOMAIN posted
  BY DEF TypeOK
<1>4. /\ cur' = cur /\ mounted' = mounted /\ cache' = Patched(c, list) /\ hasMore' \in BOOLEAN
      /\ replies' \in [Threads -> Thread]
      /\ \A p \in Threads : /\ replies'[p].list = replies[p].list /\ replies'[p].got = replies[p].got
                            /\ replies'[p].loaded = replies[p].loaded
      /\ reads' \in [Channels -> Nat]
      /\ \A d \in Channels : \/ reads'[d] = reads[d]
                             \/ reads'[d] > 0 /\ reads'[d] \in Range(Patched(c, list)[d].list)
      /\ known' \in SUBSET Nat
      /\ known' = known \cup {} \cup UNION {Range(Patched(c, list)[d].list) \cap TopLevel(d) : d \in Channels}
  BY <1>1, <1>2, <1>3, RenderedIs
<1> QED
  BY <1>2, <1>4

LEMMA MessageCreatedTyped ==
  ASSUME TypeOK, NEW id \in DOMAIN posted, MessageCreated(id), mounted
  PROVE  /\ cur' \in Channels /\ mounted' \in BOOLEAN /\ hasMore' \in BOOLEAN
         /\ cache' \in [Channels -> Feed] /\ fetch' = fetch /\ replies' \in [Threads -> Thread]
         /\ reads' \in [Channels -> Nat] /\ known' \in SUBSET Nat /\ lagged' \in BOOLEAN /\ cut' = cut
<1> DEFINE m == posted[id]
<1>1. PICK i \in EchoOf(m, cache[cur].list) :
        IF m.parent = 0 THEN Grows(cur, Created(id, i)) ELSE ReplyCreated(id, m.parent, i)
  BY DEF MessageCreated
<1>2. fetch' = fetch /\ cut' = cut /\ lagged' \in BOOLEAN /\ cur \in Channels
  BY DEF MessageCreated, TypeOK
<1>3. CASE m.parent = 0
  <2>1. Created(id, i) \in Seq(Int)
    BY CreatedIs
  <2> QED
    BY <1>1, <1>2, <1>3, <2>1, GrowsIs DEF TypeOK
<1>4. CASE m.parent # 0
  <2>1. m.parent \in Threads
    BY <1>4, PostedTyped
  <2> QED
    BY <1>1, <1>2, <1>4, <2>1, ReplyCreatedIs
<1> QED
  BY <1>3, <1>4

LEMMA OutIs == Out \in Request /\ Out.at = "out" /\ Out.list = <<>>
<1>1. <<>> \in Seq(Nat)
  OBVIOUS
<1>2. NoFetch \in Request /\ NoFetch.list = <<>>
  BY <1>1 DEF NoFetch, Request
<1> QED
  BY <1>2 DEF Out, Request

LEMMA TouchedTyped ==
  ASSUME TypeOK, Touched
  PROVE  /\ fetch' \in [Channels -> Request] /\ replies' \in [Threads -> Thread]
         /\ \A c \in Channels : fetch'[c] = fetch[c] \/ (fetch'[c].at = "out" /\ fetch'[c].list = <<>>)
         /\ \A p \in Threads : /\ replies'[p].list = replies[p].list /\ replies'[p].loaded = replies[p].loaded
                               /\ replies'[p].got \in {replies[p].got, <<>>}
         /\ UNCHANGED <<cur, mounted, cache, hasMore, reads, known, cut, lagged>>
<1>1. fetch \in [Channels -> Request] /\ replies \in [Threads -> Thread] /\ cur \in Channels
  BY DEF TypeOK
<1>2. Out \in Request /\ Out.at = "out" /\ Out.list = <<>>
  BY OutIs
<1>3. Invalidated(cur) \in {Out, fetch[cur]}
  BY DEF Invalidated
<1>4. /\ fetch' \in [Channels -> Request]
      /\ \A c \in Channels : fetch'[c] = fetch[c] \/ (fetch'[c].at = "out" /\ fetch'[c].list = <<>>)
  BY <1>1, <1>2, <1>3 DEF Touched
<1>5. ASSUME NEW p \in Threads
      PROVE  /\ replies'[p] \in Thread
             /\ replies'[p].list = replies[p].list /\ replies'[p].loaded = replies[p].loaded
             /\ replies'[p].got \in {replies[p].got, <<>>}
  <2> DEFINE r == [replies[p] EXCEPT !.invalid = TRUE]
             s == [r EXCEPT !.fetch = "out", !.got = <<>>]
  <2>1. /\ r \in Thread /\ r.list = replies[p].list /\ r.loaded = replies[p].loaded
        /\ r.got = replies[p].got
    BY <1>1 DEF Thread
  <2>2. s \in Thread /\ s.list = r.list /\ s.loaded = r.loaded /\ s.got = <<>>
    <3>1. <<>> \in Seq(Nat)
      OBVIOUS
    <3> QED
      BY <2>1, <3>1 DEF Thread
  <2>3. replies'[p] \in {r, s}
    BY DEF Touched
  <2> HIDE DEF s, r
  <2> QED
    BY <2>1, <2>2, <2>3
<1>6. replies' \in [Threads -> Thread]
  <2>1. replies' = [p \in Threads |-> replies'[p]]
    BY DEF Touched
  <2> QED
    BY <1>5, <2>1
<1> QED
  BY <1>4, <1>5, <1>6 DEF Touched

LEMMA ReceiveIs ==
  ASSUME TypeOK, NEW again \in BOOLEAN, Receive(again)
  PROVE  /\ \/ UNCHANGED <<cur, mounted, cache, fetch, replies, hasMore, reads, known, cut, lagged>>
            \/ mounted /\ Touched
            \/ \E id \in DOMAIN posted : mounted /\ posted[id].ch = cur /\ MessageCreated(id)
         /\ UNCHANGED <<posted, paging, composer, overtaken, strayed, torn, crowded>>
<1>1. inbox # <<>> /\ inbox \in Seq(Event)
  BY DEF Receive, TypeOK
<1>2. 1 \in DOMAIN inbox /\ Head(inbox) = inbox[1] /\ inbox[1] \in Event
  BY <1>1
<1>3. inbox[1].kind = "created" => inbox[1].id \in DOMAIN posted /\ posted[inbox[1].id].ch = inbox[1].ch
  BY <1>2 DEF TypeOK
<1> QED
  <2>1. UNCHANGED <<posted, paging, composer, overtaken, strayed, torn, crowded>>
    BY DEF Receive
  <2>2. \/ UNCHANGED <<cur, mounted, cache, fetch, replies, hasMore, reads, known, cut, lagged>>
        \/ mounted /\ inbox[1].ch = cur /\ inbox[1].kind = "created" /\ MessageCreated(inbox[1].id)
        \/ mounted /\ Touched
    BY <1>2 DEF Receive
  <2> QED
    BY <1>3, <2>1, <2>2

LEMMA ReceiveTyped ==
  ASSUME TypeOK, NEW again \in BOOLEAN, Receive(again)
  PROVE  TypeOK'
<1>1. inbox # <<>> /\ inbox \in Seq(Event) /\ upsets' \in 0..MaxUpsets
  BY ChatFeedAssumption DEF Receive, Upset, TypeOK
<1>2. /\ inbox' \in Seq(Event)
      /\ \A n \in DOMAIN inbox' : \E j \in DOMAIN inbox : inbox'[n] = inbox[j]
  <2>1. CASE inbox' = inbox
    BY <1>1, <2>1
  <2>2. CASE inbox' = Tail(inbox)
    BY <1>1, <2>2
  <2> QED
    BY <2>1, <2>2 DEF Receive
<1>3. /\ UNCHANGED <<posted, paging, composer, overtaken, strayed, torn, crowded>>
      /\ \/ UNCHANGED <<cur, mounted, cache, fetch, replies, hasMore, reads, known, cut, lagged>>
         \/ mounted /\ Touched
         \/ \E id \in DOMAIN posted : mounted /\ posted[id].ch = cur /\ MessageCreated(id)
  BY ReceiveIs
<1>4. \A n \in DOMAIN inbox' : inbox'[n].kind = "created" =>
           inbox'[n].id \in DOMAIN posted' /\ posted'[inbox'[n].id].ch = inbox'[n].ch
  BY <1>2, <1>3 DEF TypeOK
<1>5. /\ cur' \in Channels /\ mounted' \in BOOLEAN /\ hasMore' \in BOOLEAN
      /\ cache' \in [Channels -> Feed] /\ fetch' \in [Channels -> Request]
      /\ replies' \in [Threads -> Thread] /\ reads' \in [Channels -> Nat]
      /\ known' \in SUBSET Nat /\ lagged' \in BOOLEAN /\ cut' \in BOOLEAN
  <2>1. CASE UNCHANGED <<cur, mounted, cache, fetch, replies, hasMore, reads, known, cut, lagged>>
    BY <2>1 DEF TypeOK
  <2>2. CASE Touched
    BY <2>2, TouchedTyped DEF TypeOK
  <2>3. CASE \E id \in DOMAIN posted : mounted /\ posted[id].ch = cur /\ MessageCreated(id)
    BY <2>3, MessageCreatedTyped DEF TypeOK
  <2> QED
    BY <1>3, <2>1, <2>2, <2>3
<1> QED
  BY <1>1, <1>2, <1>3, <1>4, <1>5 DEF TypeOK, paging, composer

LEMMA LinkLostTyped ==
  ASSUME TypeOK, LinkLost
  PROVE  TypeOK'
<1>1. inbox' \in Seq(Event) /\ DOMAIN inbox' = {}
  BY DEF LinkLost
<1>2. upsets' \in 0..MaxUpsets
  BY ChatFeedAssumption DEF LinkLost, Upset, TypeOK
<1> QED
  BY <1>1, <1>2 DEF LinkLost, TypeOK, route, paging, composer

-----------------------------------------------------------------------------
(* The user *)

\* What a change of the channel or a mount leaves alone.
LEMMA MovesIs ==
  ASSUME TypeOK, NEW c \in Channels, NEW m \in BOOLEAN, Rendered(c, m, cache, replies, TRUE, {}),
         fetch' = [fetch EXCEPT ![c] = Mounting(@)]
  PROVE  /\ cur' = c /\ mounted' = m /\ cache' = cache /\ hasMore' = TRUE
         /\ replies' \in [Threads -> Thread]
         /\ \A p \in Threads : /\ replies'[p].list = replies[p].list /\ replies'[p].got = replies[p].got
                               /\ replies'[p].loaded = replies[p].loaded
         /\ reads' \in [Channels -> Nat]
         /\ \A d \in Channels : \/ reads'[d] = reads[d]
                                \/ reads'[d] > 0 /\ reads'[d] \in Range(cache[d].list)
         /\ known' \in SUBSET Nat
         /\ known' = known \cup UNION {Range(cache[d].list) \cap TopLevel(d) : d \in Channels}
         /\ fetch' \in [Channels -> Request]
         /\ \A d \in Channels : fetch'[d] = fetch[d] \/ (fetch'[d].at = "out" /\ fetch'[d].list = <<>>)
<1>1. cache \in [Channels -> Feed] /\ replies \in [Threads -> Thread] /\ {} \in SUBSET DOMAIN posted
  BY DEF TypeOK
<1>2. /\ cur' = c /\ mounted' = m /\ cache' = cache
      /\ replies' \in [Threads -> Thread]
      /\ \A p \in Threads : /\ replies'[p].list = replies[p].list /\ replies'[p].got = replies[p].got
                            /\ replies'[p].loaded = replies[p].loaded
      /\ reads' \in [Channels -> Nat]
      /\ \A d \in Channels : \/ reads'[d] = reads[d]
                             \/ reads'[d] > 0 /\ reads'[d] \in Range(cache[d].list)
      /\ known' \in SUBSET Nat
      /\ known' = known \cup {} \cup UNION {Range(cache[d].list) \cap TopLevel(d) : d \in Channels}
  <2>1. PICK more \in BOOLEAN, told \in SUBSET DOMAIN posted : more = TRUE /\ told = {}
    OBVIOUS
  <2>2. Rendered(c, m, cache, replies, more, told)
    BY <2>1 DEF Rendered
  <2>3. told = {}
    BY <2>1
  <2> QED
    BY <1>1, <2>2, <2>3, RenderedIs
<1>3. hasMore' = TRUE
  BY DEF Rendered, Same
<1>4. Out \in Request /\ Out.at = "out" /\ Out.list = <<>> /\ fetch \in [Channels -> Request]
  BY OutIs DEF TypeOK
<1>5. /\ fetch' \in [Channels -> Request]
      /\ \A d \in Channels : fetch'[d] = fetch[d] \/ (fetch'[d].at = "out" /\ fetch'[d].list = <<>>)
  BY <1>4 DEF Mounting
<1> QED
  BY <1>2, <1>3, <1>5

LEMMA SwitchTyped ==
  ASSUME TypeOK, NEW c \in Channels, NEW cached \in BOOLEAN, Switch(c, cached)
  PROVE  TypeOK'
<1>1. Rendered(c, cached, cache, replies, TRUE, {}) /\ fetch' = [fetch EXCEPT ![c] = Mounting(@)]
  BY DEF Switch
<1>2. /\ cur' = c /\ mounted' = cached /\ cache' = cache /\ hasMore' = TRUE
      /\ replies' \in [Threads -> Thread] /\ reads' \in [Channels -> Nat]
      /\ known' \in SUBSET Nat /\ fetch' \in [Channels -> Request]
  BY <1>1, MovesIs
<1>3. upsets' \in 0..MaxUpsets
  BY ChatFeedAssumption DEF Switch, Upset, TypeOK
<1>4. older' \in SUBSET Older
  <2>1. \A r \in older : [r EXCEPT !.live = FALSE] \in Older
    BY DEF TypeOK, Older
  <2> QED
    BY <2>1 DEF Switch, TypeOK
<1>5. sends' \in [1..MaxSends -> Mutation] /\ composing' \in 0..MaxSends
  <2>1. /\ sends' = sends \/ (composing # 0 /\ sends' = [sends EXCEPT ![composing].key = c])
        /\ composing' \in {composing, 0}
    BY DEF Switch
  <2>2. sends \in [1..MaxSends -> Mutation] /\ composing \in 0..MaxSends /\ MaxSends \in Nat
    BY ChatFeedAssumption DEF TypeOK
  <2>3. \A k \in 1..MaxSends : [sends[k] EXCEPT !.key = c] \in Mutation
    BY <2>2 DEF Mutation
  <2>4. composing # 0 => composing \in 1..MaxSends
    BY <2>2
  <2> QED
    BY <2>1, <2>2, <2>3, <2>4
<1>6. loadingOlder' = FALSE /\ cut' = FALSE /\ strayed' \in BOOLEAN
  BY DEF Switch
<1> QED
  BY <1>2, <1>3, <1>4, <1>5, <1>6 DEF Switch, TypeOK, server

LEMMA MountTyped ==
  ASSUME TypeOK, Mount
  PROVE  TypeOK'
<1>1. Rendered(cur, TRUE, cache, replies, TRUE, {}) /\ fetch' = [fetch EXCEPT ![cur] = Mounting(@)]
      /\ cur \in Channels
  BY DEF Mount, TypeOK
<1>2. /\ cur' = cur /\ mounted' = TRUE /\ cache' = cache /\ hasMore' = TRUE
      /\ replies' \in [Threads -> Thread] /\ reads' \in [Channels -> Nat]
      /\ known' \in SUBSET Nat /\ fetch' \in [Channels -> Request]
  BY <1>1, MovesIs
<1> QED
  BY <1>1, <1>2 DEF Mount, TypeOK, server, paging, composer

LEMMA SendIs ==
  ASSUME TypeOK, NEW p \in {0} \cup Threads, Send(p)
  PROVE  \E k \in DOMAIN sends :
            /\ sends[k].at = "unsent" /\ mounted /\ composing = 0
            /\ sends' = [sends EXCEPT ![k] = [at |-> "out", ch |-> cur, parent |-> p, key |-> cur]]
            /\ composing' = k
            /\ Grows(cur, <<-k>> \o cache[cur].list)
            /\ crowded' = (crowded \/ \E i \in Range(cache[cur].list) : i < 0)
<1> DEFINE First1(k) == sends[k].at = "unsent" /\ \A j \in 1..(k - 1) : sends[j].at # "unsent"
           K == {k \in DOMAIN sends : sends[k].at = "unsent"}
<1>1. K # {} /\ K \subseteq Int /\ IsFiniteSet(K)
  <2>1. K \subseteq 1..MaxSends /\ K # {}
    BY DEF Send, TypeOK
  <2> QED
    <3>1. IsFiniteSet(1..MaxSends) /\ 1..MaxSends \subseteq Int
      BY ChatFeedAssumption, FS_Interval
    <3> QED
      BY <2>1, <3>1, FS_Subset
<1>2. PICK n \in Nat : n = Cardinality(K) /\ n # 0
  BY <1>1, FS_CardinalityType, FS_EmptySet
<1> HIDE DEF K
<1>3. PICK a : /\ a \in [1..n -> K] /\ \A i, j \in 1..n : i < j => a[i] < a[j]
              /\ \A x \in K : \E i \in 1..n : a[i] = x
  <2>1. K \in SUBSET Int
    BY <1>1
  <2> QED
    BY <1>1, <1>2, <2>1, AscendingIs
<1>4. 1 \in 1..n /\ a[1] \in K
  <2>1. 1 \in 1..n
    BY <1>2
  <2> QED
    BY <1>3, <2>1
<1>5. \A j \in K : a[1] <= j
  <2> SUFFICES ASSUME NEW i \in 1..n PROVE a[1] <= a[i]
    BY <1>3
  <2>1. a[i] \in Int /\ a[1] \in Int
    BY <1>1, <1>3, <1>4
  <2>2. i = 1 \/ 1 < i
    OBVIOUS
  <2> QED
    BY <1>3, <1>4, <2>1, <2>2
<1>6. First1(a[1])
  <2> SUFFICES ASSUME NEW j \in 1..(a[1] - 1), sends[j].at = "unsent" PROVE FALSE
    BY <1>4 DEF K
  <2>1. a[1] \in 1..MaxSends /\ DOMAIN sends = 1..MaxSends
    BY <1>4, PostedTyped DEF K
  <2>2. j \in K /\ j < a[1]
    BY <2>1, ChatFeedAssumption DEF K
  <2> QED
    BY <1>5, <2>1, <2>2
<1>7. PICK k \in DOMAIN sends : First1(k) /\ k = CHOOSE x \in DOMAIN sends : First1(x)
  BY <1>4, <1>6 DEF K
<1> QED
  BY <1>7 DEF Send

LEMMA FeedListIs ==
  ASSUME TypeOK, NEW c \in Channels
  PROVE  cache[c].list \in Seq(Int)
BY DEF TypeOK, Feed

LEMMA SendTyped ==
  ASSUME TypeOK, NEW p \in {0} \cup Threads, Send(p)
  PROVE  TypeOK'
<1>1. PICK k \in DOMAIN sends :
        /\ sends' = [sends EXCEPT ![k] = [at |-> "out", ch |-> cur, parent |-> p, key |-> cur]]
        /\ composing' = k
        /\ Grows(cur, <<-k>> \o cache[cur].list)
        /\ crowded' = (crowded \/ \E i \in Range(cache[cur].list) : i < 0)
  BY SendIs
<1>2. k \in 1..MaxSends /\ -k \in Int /\ cur \in Channels /\ sends \in [1..MaxSends -> Mutation]
  BY PostedTyped DEF TypeOK
<1>3. <<-k>> \o cache[cur].list \in Seq(Int)
  BY <1>2, FeedListIs, PutIs
<1>4. sends' \in [1..MaxSends -> Mutation] /\ composing' \in 0..MaxSends
  BY <1>1, <1>2, ChatFeedAssumption DEF Mutation
<1>5. /\ cur' = cur /\ mounted' = mounted /\ hasMore' \in BOOLEAN
      /\ cache' \in [Channels -> Feed] /\ replies' \in [Threads -> Thread]
      /\ reads' \in [Channels -> Nat] /\ known' \in SUBSET Nat
  BY <1>1, <1>2, <1>3, GrowsIs
<1>6. UNCHANGED <<server, fetch, paging, overtaken, strayed, torn, lagged, cut, upsets>>
  BY DEF Send
<1> QED
  BY <1>1, <1>4, <1>5, <1>6 DEF TypeOK, server, paging

LEMMA StoredIs ==
  ASSUME TypeOK, Sent, NEW k \in DOMAIN sends, sends[k].at = "posted"
  PROVE  Stored(k) \in DOMAIN posted /\ posted[Stored(k)].send = k /\ Stored(k) \in Int
<1>1. \E i \in DOMAIN posted : posted[i].send = k
  BY DEF Sent
<1> QED
  BY <1>1, PostedTyped DEF Stored

LEMMA AfterSendIs ==
  ASSUME TypeOK, Sent, NEW k \in DOMAIN sends, sends[k].at \in {"posted", "failed"}
  PROVE  LET list == cache[sends[k].key].list
             s == AfterSend(k)
         IN  /\ list \in Seq(Int) /\ s \in Seq(Int) /\ sends[k].key \in Channels
             /\ IsInjective(list) => IsInjective(s)
             /\ Range(s) = (Range(list) \ {-k}) \cup (IF sends[k].at = "posted" THEN {Stored(k)} ELSE {})
             /\ list # <<>> /\ Last(list) # -k => s # <<>> /\ Last(s) = Last(list)
             /\ list = <<>> /\ sends[k].at = "failed" => s = <<>>
<1>1. sends[k].key \in Channels
  BY DEF TypeOK, Mutation
<1>2. PICK list \in Seq(Int) : list = cache[sends[k].key].list
  BY <1>1, FeedListIs
<1>3. PICK rest : rest = Without(list, {-k})
  OBVIOUS
<1>4. /\ rest \in Seq(Int) /\ Range(rest) = Range(list) \ {-k}
      /\ IsInjective(list) => IsInjective(rest)
      /\ list # <<>> /\ Last(list) # -k => rest # <<>> /\ Last(rest) = Last(list)
  BY <1>3, WithoutIs
<1>5. AfterSend(k) = IF sends[k].at = "failed" \/ Stored(k) \in Range(rest) THEN rest ELSE <<Stored(k)>> \o rest
  BY <1>2, <1>3 DEF AfterSend
<1>6. list = <<>> => rest = <<>>
  <2> SUFFICES ASSUME list = <<>>, rest # <<>> PROVE FALSE
    OBVIOUS
  <2>1. 1 \in DOMAIN rest
    BY <1>4
  <2>2. rest[1] \in Range(rest)
    BY <2>1, InRange
  <2>3. \E i \in DOMAIN list : list[i] = rest[1]
    BY <1>4, <2>2, InRange
  <2> QED
    BY <2>3
<1>7. CASE sends[k].at = "failed"
  BY <1>1, <1>2, <1>4, <1>5, <1>6, <1>7
<1>8. CASE sends[k].at = "posted" /\ Stored(k) \in Range(rest)
  BY <1>1, <1>2, <1>4, <1>5, <1>6, <1>8
<1>9. CASE sends[k].at = "posted" /\ Stored(k) \notin Range(rest)
  <2>1. PICK id \in Int : id = Stored(k)
    BY <1>9, StoredIs
  <2>2. /\ <<id>> \o rest \in Seq(Int)
        /\ Range(<<id>> \o rest) = Range(rest) \cup {id}
        /\ IsInjective(rest) => IsInjective(<<id>> \o rest)
        /\ Last(<<id>> \o rest) = IF rest = <<>> THEN id ELSE Last(rest)
        /\ <<id>> \o rest # <<>>
    BY <1>4, <1>9, <2>1, PutIs
  <2>3. AfterSend(k) = <<id>> \o rest
    BY <1>5, <1>9, <2>1
  <2> QED
    BY <1>1, <1>2, <1>4, <1>9, <2>1, <2>2, <2>3
<1> QED
  BY <1>7, <1>8, <1>9

LEMMA SendSettleIs ==
  ASSUME TypeOK, Sent, NEW k \in DOMAIN sends, SendSettle(k)
  PROVE  LET c == sends[k].key IN
         /\ sends[k].at \in {"posted", "failed"} /\ c \in Channels
         /\ sends' = [sends EXCEPT ![k].at = "settled"] /\ composing' \in {0, composing}
         /\ cur' = cur /\ mounted' = mounted /\ hasMore' \in BOOLEAN
         /\ cache' \in [Channels -> Feed]
         /\ \A d \in Channels :
               /\ cache'[d].upto = cache[d].upto
               /\ ~cache'[d].loaded => ~cache[d].loaded /\ (d # c \/ sends[k].at = "failed")
               /\ cache'[d].list = IF d = c THEN AfterSend(k) ELSE cache[d].list
         /\ replies' \in [Threads -> Thread]
         /\ \A p \in Threads : /\ replies'[p].list = replies[p].list /\ replies'[p].got = replies[p].got
                               /\ replies'[p].loaded = replies[p].loaded
         /\ reads' \in [Channels -> Nat]
         /\ \A d \in Channels : \/ reads'[d] = reads[d]
                                \/ reads'[d] > 0 /\ reads'[d] \in Range(cache'[d].list)
         /\ known' \in SUBSET Nat
         /\ known' = known \cup UNION {Range(cache'[d].list) \cap TopLevel(d) : d \in Channels}
         /\ lagged' = (lagged \/ (sends[k].at = "posted" /\ PutLast(c, Stored(k))))
<1> DEFINE c == sends[k].key
<1>1. sends[k].at \in {"posted", "failed"}
  BY DEF SendSettle
<1>2. AfterSend(k) \in Seq(Int) /\ c \in Channels
  BY <1>1, AfterSendIs
<1>3. /\ sends' = [sends EXCEPT ![k].at = "settled"] /\ composing' \in {0, composing}
  BY DEF SendSettle
<1>4. CASE sends[k].at = "posted"
  <2>1. Grows(c, AfterSend(k)) /\ lagged' = (lagged \/ PutLast(c, Stored(k)))
    BY <1>4 DEF SendSettle
  <2>3. \A d \in Channels : ~cache'[d].loaded => ~cache[d].loaded /\ d # c
    BY <1>2, <2>1, GrowsIs
  <2>4. lagged' = (lagged \/ (sends[k].at = "posted" /\ PutLast(c, Stored(k))))
    BY <1>4, <2>1
  <2>5. \A d \in Channels : /\ cache'[d].upto = cache[d].upto
                            /\ cache'[d].list = IF d = c THEN AfterSend(k) ELSE cache[d].list
    BY <1>2, <2>1, GrowsIs
  <2>6. /\ cur' = cur /\ mounted' = mounted /\ hasMore' \in BOOLEAN
        /\ cache' \in [Channels -> Feed] /\ replies' \in [Threads -> Thread]
        /\ \A p \in Threads : /\ replies'[p].list = replies[p].list /\ replies'[p].got = replies[p].got
                              /\ replies'[p].loaded = replies[p].loaded
        /\ reads' \in [Channels -> Nat]
        /\ \A d \in Channels : \/ reads'[d] = reads[d]
                               \/ reads'[d] > 0 /\ reads'[d] \in Range(cache'[d].list)
        /\ known' \in SUBSET Nat
        /\ known' = known \cup UNION {Range(cache'[d].list) \cap TopLevel(d) : d \in Channels}
    BY <1>2, <2>1, GrowsIs
  <2> QED
    BY <1>1, <1>2, <1>3, <2>3, <2>4, <2>5, <2>6
<1>5. CASE sends[k].at = "failed"
  <2> DEFINE new == [cache EXCEPT ![c].list = AfterSend(k)]
  <2>1. Rendered(cur, mounted, new, replies, hasMore, {}) /\ lagged' = lagged
    BY <1>5 DEF SendSettle, Shows
  <2>2. /\ new \in [Channels -> Feed]
        /\ \A d \in Channels : /\ new[d].upto = cache[d].upto
                               /\ new[d].loaded = cache[d].loaded
                               /\ new[d].list = IF d = c THEN AfterSend(k) ELSE cache[d].list
    BY <1>2 DEF TypeOK, Feed
  <2>3. cur \in Channels /\ mounted \in BOOLEAN /\ replies \in [Threads -> Thread] /\ {} \in SUBSET DOMAIN posted
    BY DEF TypeOK
  <2> HIDE DEF new
  <2>4. /\ cur' = cur /\ mounted' = mounted /\ cache' = new /\ hasMore' \in BOOLEAN
        /\ replies' \in [Threads -> Thread]
        /\ \A p \in Threads : /\ replies'[p].list = replies[p].list /\ replies'[p].got = replies[p].got
                              /\ replies'[p].loaded = replies[p].loaded
        /\ reads' \in [Channels -> Nat]
        /\ \A d \in Channels : \/ reads'[d] = reads[d]
                               \/ reads'[d] > 0 /\ reads'[d] \in Range(new[d].list)
        /\ known' \in SUBSET Nat
        /\ known' = known \cup {} \cup UNION {Range(new[d].list) \cap TopLevel(d) : d \in Channels}
    BY <2>1, <2>2, <2>3, RenderedIs
  <2>5. \A d \in Channels : ~cache'[d].loaded => ~cache[d].loaded /\ (d # c \/ sends[k].at = "failed")
    BY <1>5, <2>2, <2>4
  <2>6. lagged' = (lagged \/ (sends[k].at = "posted" /\ PutLast(c, Stored(k))))
    BY <1>5, <2>1 DEF TypeOK
  <2>7. \A d \in Channels : /\ cache'[d].upto = cache[d].upto
                            /\ cache'[d].list = IF d = c THEN AfterSend(k) ELSE cache[d].list
    BY <2>2, <2>4
  <2>8. /\ \A d \in Channels : \/ reads'[d] = reads[d]
                               \/ reads'[d] > 0 /\ reads'[d] \in Range(cache'[d].list)
        /\ known' = known \cup UNION {Range(cache'[d].list) \cap TopLevel(d) : d \in Channels}
        /\ cache' \in [Channels -> Feed]
    BY <2>2, <2>4
  <2> QED
    BY <1>1, <1>2, <1>3, <2>4, <2>5, <2>6, <2>7, <2>8
<1> QED
  BY <1>1, <1>4, <1>5

LEMMA SendSettleTyped ==
  ASSUME TypeOK, Sent, NEW k \in DOMAIN sends, SendSettle(k)
  PROVE  TypeOK'
<1>1. /\ sends' = [sends EXCEPT ![k].at = "settled"] /\ composing' \in {0, composing}
      /\ cur' = cur /\ mounted' = mounted /\ hasMore' \in BOOLEAN
      /\ cache' \in [Channels -> Feed] /\ replies' \in [Threads -> Thread]
      /\ reads' \in [Channels -> Nat] /\ known' \in SUBSET Nat /\ lagged' \in BOOLEAN
  BY SendSettleIs
<1>2. sends' \in [1..MaxSends -> Mutation] /\ composing' \in 0..MaxSends
  <2>1. sends \in [1..MaxSends -> Mutation] /\ composing \in 0..MaxSends /\ MaxSends \in Nat
    BY ChatFeedAssumption DEF TypeOK
  <2>2. [sends[k] EXCEPT !.at = "settled"] \in Mutation
    BY <2>1 DEF Mutation
  <2> QED
    BY <1>1, <2>1, <2>2
<1>3. UNCHANGED <<server, fetch, paging, overtaken, strayed, torn, crowded, cut, upsets>>
  BY DEF SendSettle
<1> QED
  BY <1>1, <1>2, <1>3 DEF TypeOK, server, paging

LEMMA ScrollUpTyped ==
  ASSUME TypeOK, ScrollUp
  PROVE  TypeOK'
<1>1. [ch |-> cur, before |-> Last(cache[cur].list), live |-> TRUE] \in Older
  <2>1. cur \in Channels /\ cache[cur].list \in Seq(Int) /\ cache[cur].list # <<>>
    BY FeedListIs DEF TypeOK, ScrollUp
  <2> QED
    BY <2>1 DEF Older, Last
<1>2. older' \in SUBSET Older /\ loadingOlder' \in BOOLEAN
  BY <1>1 DEF ScrollUp, TypeOK
<1> QED
  BY <1>2 DEF ScrollUp, TypeOK, server, route, composer

Earlier(r) == {i \in TopLevel(r.ch) : i < r.before}

LEMMA OlderSettleIs ==
  ASSUME TypeOK, NEW r \in older, OlderSettle(r)
  PROVE  LET c == r.ch
             list == cache[c].list
             page == Range(Newest(Earlier(r), OlderPage))
         IN
         /\ c \in Channels /\ r.before \in Int /\ r.before > 0
         /\ cur' = cur /\ mounted' = mounted /\ hasMore' \in BOOLEAN
         /\ cache' \in [Channels -> Feed]
         /\ page \subseteq Earlier(r)
         /\ \A x \in Earlier(r) \ page : \A y \in page : x < y
         /\ \A d \in Channels :
               /\ cache'[d].upto = cache[d].upto
               /\ cache[d].loaded => cache'[d].loaded
               /\ cache'[d].list # <<>> => cache[d].list # <<>> \/ cache'[d].loaded
               /\ d # c => cache'[d].list = cache[d].list
         /\ cache'[c].list \in Seq(Int)
         /\ Range(cache'[c].list) = Range(list) \cup page
         /\ IsInjective(list) => IsInjective(cache'[c].list)
         /\ list # <<>> => /\ cache'[c].list # <<>>
                          /\ Last(cache'[c].list) \in {Last(list)} \cup page
         /\ replies' \in [Threads -> Thread]
         /\ \A p \in Threads : /\ replies'[p].list = replies[p].list /\ replies'[p].got = replies[p].got
                               /\ replies'[p].loaded = replies[p].loaded
         /\ reads' \in [Channels -> Nat]
         /\ \A d \in Channels : \/ reads'[d] = reads[d]
                                \/ reads'[d] > 0 /\ reads'[d] \in Range(cache'[d].list)
         /\ known' \in SUBSET Nat
         /\ known' = known \cup UNION {Range(cache'[d].list) \cap TopLevel(d) : d \in Channels}
<1> DEFINE c == r.ch
           list == cache[c].list
           page == Newest(Earlier(r), OlderPage)
           more == Without(page, Range(list))
           new == IF page = <<>> THEN cache ELSE Patched(c, list \o more)
           last == hasMore /\ ~(r.live /\ LastPage(page))
<1>1. c \in Channels /\ r.before \in Int /\ r.before > 0
  BY DEF OlderSettle, TypeOK, Older
<1>2. list \in Seq(Int)
  BY <1>1, FeedListIs
<1>3. Earlier(r) \in SUBSET Int /\ IsFiniteSet(Earlier(r)) /\ Earlier(r) \subseteq DOMAIN posted
  <2>1. Earlier(r) \subseteq DOMAIN posted
    BY TopLevelIs DEF Earlier
  <2> QED
    BY <2>1, MessageSets
<1>4. /\ page \in Seq(Earlier(r)) /\ IsInjective(page) /\ Range(page) \subseteq Earlier(r)
      /\ \A x \in Earlier(r) \ Range(page) : \A y \in Range(page) : x < y
  BY <1>3, NewestIs, ChatFeedAssumption
<1>5. page \in Seq(Int)
  BY <1>3, <1>4
<1>6. more \in Seq(Int) /\ Range(more) = Range(page) \ Range(list) /\ IsInjective(more)
  BY <1>4, <1>5, WithoutIs
<1>7. Rendered(cur, mounted, new, replies, last, {})
  BY DEF OlderSettle, Earlier
<1> HIDE DEF page, more, last
<1>8. /\ list \o more \in Seq(Int) /\ Range(list \o more) = Range(list) \cup Range(page)
      /\ IsInjective(list) => IsInjective(list \o more)
      /\ list # <<>> => /\ list \o more # <<>>
                       /\ Last(list \o more) \in {Last(list)} \cup Range(page)
  BY <1>2, <1>6, ConcatIs
<1>9. page = <<>> => Range(page) = {}
  BY InRange
<1>10. /\ new \in [Channels -> Feed]
       /\ \A d \in Channels : /\ new[d].upto = cache[d].upto
                              /\ cache[d].loaded => new[d].loaded
                              /\ new[d].list # <<>> => cache[d].list # <<>> \/ new[d].loaded
                              /\ d # c => new[d].list = cache[d].list
       /\ new[c].list = IF page = <<>> THEN list ELSE list \o more
  <2>1. cache \in [Channels -> Feed]
    BY DEF TypeOK
  <2> HIDE DEF list
  <2> QED
    BY <1>1, <1>8, <2>1 DEF Patched, Feed, list
<1>11. /\ new[c].list \in Seq(Int)
       /\ Range(new[c].list) = Range(list) \cup Range(page)
       /\ IsInjective(list) => IsInjective(new[c].list)
       /\ list # <<>> => new[c].list # <<>> /\ Last(new[c].list) \in {Last(list)} \cup Range(page)
  BY <1>2, <1>8, <1>9, <1>10
<1>12. cur \in Channels /\ mounted \in BOOLEAN /\ replies \in [Threads -> Thread] /\ {} \in SUBSET DOMAIN posted
  BY DEF TypeOK
<1> HIDE DEF new
<1>13. /\ cur' = cur /\ mounted' = mounted /\ cache' = new /\ hasMore' \in BOOLEAN
       /\ replies' \in [Threads -> Thread]
       /\ \A p \in Threads : /\ replies'[p].list = replies[p].list /\ replies'[p].got = replies[p].got
                             /\ replies'[p].loaded = replies[p].loaded
       /\ reads' \in [Channels -> Nat]
       /\ \A d \in Channels : \/ reads'[d] = reads[d]
                              \/ reads'[d] > 0 /\ reads'[d] \in Range(new[d].list)
       /\ known' \in SUBSET Nat
       /\ known' = known \cup {} \cup UNION {Range(new[d].list) \cap TopLevel(d) : d \in Channels}
  BY <1>7, <1>10, <1>12, RenderedIs
<1>14. page \in Seq(Int) /\ Range(page) \subseteq Earlier(r)
  BY <1>4, <1>5
<1>15. /\ \A d \in Channels :
            /\ cache'[d].upto = cache[d].upto
            /\ cache[d].loaded => cache'[d].loaded
            /\ cache'[d].list # <<>> => cache[d].list # <<>> \/ cache'[d].loaded
            /\ d # c => cache'[d].list = cache[d].list
       /\ cache'[c].list \in Seq(Int)
       /\ Range(cache'[c].list) = Range(list) \cup Range(page)
       /\ IsInjective(list) => IsInjective(cache'[c].list)
       /\ list # <<>> => /\ cache'[c].list # <<>>
                        /\ Last(cache'[c].list) \in {Last(list)} \cup Range(page)
  BY <1>10, <1>11, <1>13
<1>16. /\ \A d \in Channels : \/ reads'[d] = reads[d]
                              \/ reads'[d] > 0 /\ reads'[d] \in Range(cache'[d].list)
       /\ known' = known \cup UNION {Range(cache'[d].list) \cap TopLevel(d) : d \in Channels}
       /\ cache' \in [Channels -> Feed]
  BY <1>10, <1>13
<1> QED
  BY <1>1, <1>4, <1>13, <1>15, <1>16 DEF page

LEMMA OlderSettleTyped ==
  ASSUME TypeOK, NEW r \in older, OlderSettle(r) \/ OlderFail(r)
  PROVE  TypeOK'
<1>1. older' \in SUBSET Older /\ loadingOlder' \in BOOLEAN
  BY DEF OlderSettle, OlderFail, TypeOK
<1>2. CASE OlderSettle(r)
  <2>1. /\ cur' = cur /\ mounted' = mounted /\ hasMore' \in BOOLEAN
        /\ cache' \in [Channels -> Feed] /\ replies' \in [Threads -> Thread]
        /\ reads' \in [Channels -> Nat] /\ known' \in SUBSET Nat
    BY <1>2, OlderSettleIs
  <2>2. /\ torn' \in BOOLEAN /\ cut' \in BOOLEAN
        /\ UNCHANGED <<server, fetch, composer, overtaken, strayed, lagged, crowded, upsets>>
    BY <1>2 DEF OlderSettle
  <2> QED
    BY <1>1, <2>1, <2>2 DEF TypeOK, server, composer
<1>3. CASE OlderFail(r)
  <2>1. upsets' \in 0..MaxUpsets
    BY <1>3, ChatFeedAssumption DEF OlderFail, Upset, TypeOK
  <2> QED
    BY <1>1, <1>3, <2>1 DEF OlderFail, TypeOK, server, route, composer
<1> QED
  BY <1>2, <1>3

-----------------------------------------------------------------------------
(* The server *)

LEMMA StoreIs ==
  ASSUME TypeOK, NEW m \in Post, Store(m)
  PROVE  /\ posted' \in Seq(Post) /\ Len(posted') = Len(posted) + 1
         /\ DOMAIN posted' = DOMAIN posted \cup {Len(posted) + 1}
         /\ Len(posted) + 1 \notin DOMAIN posted
         /\ \A i \in DOMAIN posted : posted'[i] = posted[i] /\ i < Len(posted) + 1
         /\ posted'[Len(posted) + 1] = m
         /\ inbox' \in Seq(Event)
         /\ \A n \in DOMAIN inbox' : inbox'[n].kind = "created" =>
                inbox'[n].id \in DOMAIN posted' /\ posted'[inbox'[n].id].ch = inbox'[n].ch
<1> DEFINE e == [kind |-> "created", id |-> Len(posted) + 1, ch |-> m.ch]
<1>1. posted \in Seq(Post) /\ inbox \in Seq(Event)
  BY DEF TypeOK
<1>2. posted' = Append(posted, m) /\ inbox' = Append(inbox, e)
  BY DEF Store, Broadcast
<1>3. /\ posted' \in Seq(Post) /\ Len(posted') = Len(posted) + 1
      /\ DOMAIN posted' = DOMAIN posted \cup {Len(posted) + 1}
      /\ Len(posted) + 1 \notin DOMAIN posted
      /\ \A i \in DOMAIN posted : posted'[i] = posted[i] /\ i < Len(posted) + 1
      /\ posted'[Len(posted) + 1] = m
  BY <1>1, <1>2
<1>4. e \in Event /\ e.id = Len(posted) + 1 /\ e.ch = m.ch
  BY <1>1 DEF Event, Post
<1> HIDE DEF e
<1>5. inbox' \in Seq(Event)
  BY <1>1, <1>2, <1>4
<1>6. \A n \in DOMAIN inbox' : (n \in DOMAIN inbox /\ inbox'[n] = inbox[n]) \/ inbox'[n] = e
  BY <1>1, <1>2
<1>7. \A n \in DOMAIN inbox' : inbox'[n].kind = "created" =>
           inbox'[n].id \in DOMAIN posted' /\ posted'[inbox'[n].id].ch = inbox'[n].ch
  BY <1>3, <1>4, <1>6 DEF TypeOK
<1> QED
  BY <1>3, <1>5, <1>7

\* What the server does: it stores a message, of a send or of another, or none.
LEMMA OthersIs ==
  ASSUME TypeOK, Others
  PROVE  /\ UNCHANGED <<route, cache, fetch, replies, paging, hasMore, composing, reads,
                        known, overtaken, strayed, torn, lagged, crowded, cut>>
         /\ \/ /\ \E m \in Post : m.send = 0 /\ Store(m)
               /\ UNCHANGED <<sends, upsets>>
            \/ \E k \in DOMAIN sends :
                  /\ sends[k].at = "out" /\ sends' = [sends EXCEPT ![k].at = "posted"] /\ UNCHANGED upsets
                  /\ \E m \in Post : /\ m.send = k /\ m.ch = sends[k].ch /\ m.parent = sends[k].parent
                                     /\ Store(m)
            \/ \E k \in DOMAIN sends :
                  /\ sends[k].at \in {"out", "posted"} /\ sends' = [sends EXCEPT ![k].at = "failed"]
                  /\ UNCHANGED <<posted, inbox>> /\ Upset
            \/ /\ UNCHANGED <<posted, sends>> /\ Upset
               /\ \E c \in Channels : Broadcast([kind |-> "touched", id |-> 0, ch |-> c])
<1>1. UNCHANGED <<route, cache, fetch, replies, paging, hasMore, composing, reads,
                  known, overtaken, strayed, torn, lagged, crowded, cut>>
  BY DEF Others
<1>2. CASE Elsewhere
  <2>1. \A c \in Channels : Message(c, 0, 0) \in Post /\ Message(c, 0, 0).send = 0
    BY ChatFeedAssumption DEF Message, Post
  <2>2. \A p \in Threads : Message(posted[p].ch, 0, p) \in Post /\ Message(posted[p].ch, 0, p).send = 0
    BY PostedTyped, ChatFeedAssumption DEF Message, Post
  <2>3. \/ (\E m \in Post : m.send = 0 /\ Store(m)) /\ UNCHANGED <<sends, upsets>>
        \/ /\ UNCHANGED <<posted, sends>> /\ Upset
           /\ \E c \in Channels : Broadcast([kind |-> "touched", id |-> 0, ch |-> c])
    BY <1>2, <2>1, <2>2 DEF Elsewhere
  <2> QED
    BY <1>1, <2>3
<1>3. ASSUME NEW k \in DOMAIN sends, Serve(k)
      PROVE  \/ /\ sends[k].at = "out" /\ sends' = [sends EXCEPT ![k].at = "posted"] /\ UNCHANGED upsets
                /\ \E m \in Post : /\ m.send = k /\ m.ch = sends[k].ch /\ m.parent = sends[k].parent
                                   /\ Store(m)
             \/ /\ sends[k].at \in {"out", "posted"} /\ sends' = [sends EXCEPT ![k].at = "failed"]
                /\ UNCHANGED <<posted, inbox>> /\ Upset
  <2>1. sends[k] \in Mutation /\ k \in 0..MaxSends
    BY PostedTyped, ChatFeedAssumption DEF TypeOK
  <2>2. LET m == Message(sends[k].ch, k, sends[k].parent)
        IN  m \in Post /\ m.send = k /\ m.ch = sends[k].ch /\ m.parent = sends[k].parent
    BY <2>1 DEF Message, Post, Mutation
  <2> QED
    BY <1>3, <2>2 DEF Serve, server
<1>4. Elsewhere \/ \E k \in DOMAIN sends : Serve(k)
  BY DEF Others
<1> QED
  BY <1>1, <1>2, <1>3, <1>4

LEMMA OthersTyped ==
  ASSUME TypeOK, Others
  PROVE  TypeOK'
<1>1. UNCHANGED <<route, cache, fetch, replies, paging, hasMore, composing, reads,
                  known, overtaken, strayed, torn, lagged, crowded, cut>>
  BY DEF Others
<1>2. sends' \in [1..MaxSends -> Mutation] /\ upsets' \in 0..MaxUpsets
  <2>1. sends \in [1..MaxSends -> Mutation] /\ DOMAIN sends = 1..MaxSends
    BY PostedTyped DEF TypeOK
  <2>2. \A k \in DOMAIN sends : \A at \in {"posted", "failed"} : [sends[k] EXCEPT !.at = at] \in Mutation
    BY <2>1 DEF Mutation
  <2>3. upsets' \in {upsets, upsets + 1} /\ (upsets' = upsets \/ upsets < MaxUpsets)
    BY OthersIs DEF Upset
  <2>4. upsets' \in 0..MaxUpsets
    BY <2>3, ChatFeedAssumption DEF TypeOK
  <2>5. sends' = sends \/ \E k \in DOMAIN sends : \E at \in {"posted", "failed"} : sends' = [sends EXCEPT ![k].at = at]
    BY OthersIs
  <2> QED
    BY <2>1, <2>2, <2>4, <2>5
<1>3. /\ posted' \in Seq(Post) /\ Len(Start) <= Len(posted') /\ inbox' \in Seq(Event)
      /\ \A n \in DOMAIN inbox' : inbox'[n].kind = "created" =>
             inbox'[n].id \in DOMAIN posted' /\ posted'[inbox'[n].id].ch = inbox'[n].ch
  <2>1. CASE \E m \in Post : Store(m)
    <3>1. Len(Start) \in Nat /\ Len(posted) \in Nat /\ Len(Start) <= Len(posted)
      BY ChatFeedAssumption, PostedTyped DEF TypeOK
    <3> QED
      BY <2>1, <3>1, StoreIs
  <2>2. CASE UNCHANGED <<posted, inbox>>
    BY <2>2 DEF TypeOK
  <2>3. CASE posted' = posted /\ \E c \in Channels : Broadcast([kind |-> "touched", id |-> 0, ch |-> c])
    <3>1. PICK c \in Channels : Broadcast([kind |-> "touched", id |-> 0, ch |-> c])
      BY <2>3
    <3>2. PICK e \in Event : e.kind = "touched" /\ inbox' = Append(inbox, e)
      BY <3>1 DEF Broadcast, Event
    <3>3. inbox \in Seq(Event)
      BY DEF TypeOK
    <3>4. inbox' \in Seq(Event) /\ \A n \in DOMAIN inbox' : (n \in DOMAIN inbox /\ inbox'[n] = inbox[n]) \/ inbox'[n] = e
      BY <3>2, <3>3
    <3> QED
      BY <2>3, <3>2, <3>4 DEF TypeOK
  <2> QED
    BY <2>1, <2>2, <2>3, OthersIs
<1> QED
  BY <1>1, <1>2, <1>3 DEF TypeOK, route, paging

LEMMA SentKept ==
  ASSUME TypeOK, Sent, [Next]_vars
  PROVE  Sent'
<1>1. CASE UNCHANGED <<posted, sends, composing, strayed>>
  BY <1>1 DEF Sent
<1>2. sends \in [1..MaxSends -> Mutation] /\ DOMAIN sends = 1..MaxSends
  BY PostedTyped DEF TypeOK
<1>3. ASSUME NEW c \in Channels, NEW cached \in BOOLEAN, Switch(c, cached) PROVE Sent'
  <2>1. posted' = posted /\ composing' \in {0, composing}
    BY <1>3 DEF Switch, server
  <2>2. CASE sends' = sends /\ strayed' = strayed
    BY <2>1, <2>2 DEF Sent
  <2>3. CASE sends' = [sends EXCEPT ![composing].key = c] /\ strayed' = TRUE
    <3>1. DOMAIN sends' = DOMAIN sends /\ \A k \in DOMAIN sends :
             sends'[k].at = sends[k].at /\ sends'[k].ch = sends[k].ch /\ sends'[k].parent = sends[k].parent
      BY <1>2, <2>3 DEF Mutation
    <3>2. \A i \in DOMAIN posted : posted[i].send # 0 => posted[i].send \in DOMAIN sends
      BY <1>2, PostedTyped
    <3>3. composing' # 0 => composing' \in DOMAIN sends
      BY <1>2, <2>1 DEF TypeOK
    <3> QED
      BY <2>1, <2>3, <3>1, <3>2, <3>3 DEF Sent
  <2> QED
    BY <1>3, <2>2, <2>3 DEF Switch, TypeOK
<1>4. ASSUME NEW p \in {0} \cup Threads, Send(p) PROVE Sent'
  <2>1. PICK k \in DOMAIN sends :
          /\ sends[k].at = "unsent"
          /\ sends' = [sends EXCEPT ![k] = [at |-> "out", ch |-> cur, parent |-> p, key |-> cur]]
          /\ composing' = k
    BY <1>4, SendIs
  <2>2. posted' = posted /\ strayed' = strayed
    BY <1>4 DEF Send, server
  <2>3. \A i \in DOMAIN posted : posted[i].send # k
    BY <1>2, <2>1, PostedTyped DEF Sent
  <2>4. /\ DOMAIN sends' = DOMAIN sends /\ \A j \in DOMAIN sends : j # k => sends'[j] = sends[j]
        /\ sends'[k].at = "out" /\ sends'[k].ch = sends'[k].key
    BY <1>2, <2>1
  <2>5. \A i \in DOMAIN posted : posted[i].send # 0 => posted[i].send \in DOMAIN sends
    BY <1>2, PostedTyped
  <2> QED
    BY <2>1, <2>2, <2>3, <2>4, <2>5 DEF Sent
<1>5. ASSUME NEW k \in DOMAIN sends, SendSettle(k) PROVE Sent'
  <2>1. /\ sends[k].at \in {"posted", "failed"} /\ composing' \in {0, composing}
        /\ sends' = [sends EXCEPT ![k].at = "settled"]
    BY <1>5, SendSettleIs
  <2>2. posted' = posted /\ strayed' = strayed
    BY <1>5 DEF SendSettle, server
  <2>3. /\ DOMAIN sends' = DOMAIN sends /\ \A j \in DOMAIN sends : j # k => sends'[j] = sends[j]
        /\ sends'[k].at = "settled" /\ sends'[k].ch = sends[k].ch /\ sends'[k].key = sends[k].key
        /\ sends'[k].parent = sends[k].parent
    BY <1>2, <2>1 DEF Mutation
  <2>4. \A i \in DOMAIN posted : posted[i].send # 0 => posted[i].send \in DOMAIN sends
    BY <1>2, PostedTyped
  <2>5. composing' # 0 => composing' \in DOMAIN sends
    BY <1>2, <2>1 DEF TypeOK
  <2> QED
    BY <2>1, <2>2, <2>3, <2>4, <2>5 DEF Sent
<1>6. CASE Others
  <2>1. composing' = composing /\ strayed' = strayed
    BY <1>6 DEF Others
  <2>2. \A i \in DOMAIN posted : posted[i].send # 0 => posted[i].send \in DOMAIN sends
    BY <1>2, PostedTyped
  <2>3. composing # 0 => composing \in DOMAIN sends
    BY <1>2 DEF TypeOK
  <2>4. ASSUME NEW m \in Post, m.send = 0, Store(m), sends' = sends PROVE Sent'
    BY <2>1, <2>2, <2>3, <2>4, StoreIs DEF Sent
  <2>5. ASSUME NEW k \in DOMAIN sends, sends[k].at = "out", sends' = [sends EXCEPT ![k].at = "posted"],
               NEW m \in Post, m.send = k, m.ch = sends[k].ch, m.parent = sends[k].parent, Store(m)
        PROVE  Sent'
    <3>1. /\ DOMAIN sends' = DOMAIN sends /\ \A j \in DOMAIN sends : j # k => sends'[j] = sends[j]
          /\ sends'[k].at = "posted" /\ sends'[k].ch = sends[k].ch /\ sends'[k].key = sends[k].key
          /\ sends'[k].parent = sends[k].parent
      BY <1>2, <2>5 DEF Mutation
    <3>2. PICK n : /\ DOMAIN posted' = DOMAIN posted \cup {n} /\ posted'[n] = m
                   /\ \A i \in DOMAIN posted : posted'[i] = posted[i]
      BY <1>2, <2>5, StoreIs
    <3>3. ASSUME NEW i \in DOMAIN posted', posted'[i].send # 0
          PROVE  LET s == sends'[posted'[i].send]
                 IN  /\ s.at \in {"posted", "failed", "settled"}
                     /\ s.ch = posted'[i].ch /\ s.parent = posted'[i].parent
      <4>1. CASE i = n
        BY <2>5, <3>1, <3>2, <4>1
      <4>2. CASE i \in DOMAIN posted
        <5>1. posted'[i] = posted[i] /\ posted[i].send \in DOMAIN sends
          BY <2>2, <3>2, <3>3, <4>2
        <5>2. posted[i].send # k
          BY <2>5, <3>3, <4>2, <5>1 DEF Sent
        <5> QED
          BY <3>1, <3>3, <4>2, <5>1, <5>2 DEF Sent
      <4> QED
        BY <3>2, <4>1, <4>2
    <3>4. ASSUME NEW j \in DOMAIN sends
          PROVE  /\ sends'[j].at = "posted" => \E i \in DOMAIN posted' : posted'[i].send = j
                 /\ strayed \/ sends'[j].at = "unsent" \/ sends'[j].key = sends'[j].ch
      <4>1. CASE j = k
        BY <2>5, <3>1, <3>2, <4>1 DEF Sent
      <4>2. CASE j # k
        BY <3>1, <3>2, <4>2 DEF Sent
      <4> QED
        BY <4>1, <4>2
    <3>5. composing # 0 => sends'[composing].at # "unsent"
      BY <2>3, <3>1 DEF Sent
    <3> QED
      BY <2>1, <3>1, <3>3, <3>4, <3>5 DEF Sent
  <2>6. ASSUME NEW k \in DOMAIN sends, sends[k].at \in {"out", "posted"},
               sends' = [sends EXCEPT ![k].at = "failed"], posted' = posted
        PROVE  Sent'
    <3>1. /\ DOMAIN sends' = DOMAIN sends /\ \A j \in DOMAIN sends : j # k => sends'[j] = sends[j]
          /\ sends'[k].at = "failed" /\ sends'[k].ch = sends[k].ch /\ sends'[k].key = sends[k].key
          /\ sends'[k].parent = sends[k].parent
      BY <1>2, <2>6 DEF Mutation
    <3> QED
      BY <2>1, <2>2, <2>3, <2>6, <3>1 DEF Sent
  <2>7. CASE UNCHANGED <<posted, sends>>
    BY <1>1, <2>1, <2>7
  <2> QED
    BY <1>6, <2>4, <2>5, <2>6, <2>7, OthersIs
<1>7. ASSUME NEW again \in BOOLEAN, Receive(again) PROVE Sent'
  BY <1>1, <1>7 DEF Receive, composer
<1>8. ASSUME NEW c \in Channels, FetchAnswer(c) \/ FetchSettle(c) \/ FetchFail(c) PROVE Sent'
  BY <1>1, <1>8 DEF FetchAnswer, FetchSettle, FetchFail, composer, server
<1>9. ASSUME NEW p \in Threads, RepliesAnswer(p) \/ RepliesSettle(p) \/ RepliesFail(p) PROVE Sent'
  BY <1>1, <1>9 DEF RepliesAnswer, RepliesSettle, RepliesFail, RepliesChange, composer, server
<1>10. CASE LinkLost \/ Mount \/ ScrollUp \/ UNCHANGED vars
  BY <1>1, <1>10 DEF LinkLost, Mount, ScrollUp, vars, composer, server
<1>11. ASSUME NEW r \in older, OlderSettle(r) \/ OlderFail(r) PROVE Sent'
  BY <1>1, <1>11 DEF OlderSettle, OlderFail, composer, server
<1> QED
  BY <1>3, <1>4, <1>5, <1>6, <1>7, <1>8, <1>9, <1>10, <1>11, ActionCases

LEMMA TypesKept ==
  ASSUME TypeOK, Sent, [Next]_vars
  PROVE  TypeOK'
<1>1. CASE UNCHANGED vars
  BY <1>1 DEF vars, TypeOK
<1> QED
  BY <1>1, ActionCases, FetchAnswerTyped, FetchSettleTyped, FetchFailTyped, SwitchTyped, RepliesTyped,
     ReceiveTyped, LinkLostTyped, MountTyped, ScrollUpTyped, OthersTyped, SendTyped, SendSettleTyped,
     OlderSettleTyped

LEMMA InitTyped == Init => TypeOK /\ Sent
<1> SUFFICES ASSUME Init PROVE TypeOK /\ Sent
  OBVIOUS
<1>1. DOMAIN Start = 1..Len(Start) /\ Len(Start) \in Nat /\ \A i \in DOMAIN Start : Start[i] \in Channels
  BY ChatFeedAssumption
<1>2. \A i \in DOMAIN Start : Message(Start[i], 0, 0) \in Post /\ Message(Start[i], 0, 0).send = 0
  BY <1>1, ChatFeedAssumption DEF Message, Post
<1>3. posted \in Seq(Post) /\ Len(posted) = Len(Start) /\ \A i \in DOMAIN posted : posted[i].send = 0
  BY <1>1, <1>2 DEF Init
<1>4. inbox \in Seq(Event) /\ DOMAIN inbox = {}
  BY DEF Init
<1>5. cur \in Channels /\ mounted \in BOOLEAN
  BY ChatFeedAssumption DEF Init
<1>6. cache \in [Channels -> Feed]
  <2>1. [loaded |-> FALSE, upto |-> 0, list |-> <<>>, threaded |-> {}] \in Feed
    <3>1. <<>> \in Seq(Int)
      OBVIOUS
    <3> QED
      BY <3>1 DEF Feed
  <2> QED
    BY <2>1 DEF Init
<1>7. fetch \in [Channels -> Request]
  <2>1. NoFetch \in Request
    <3>1. <<>> \in Seq(Nat)
      OBVIOUS
    <3> QED
      BY <3>1 DEF NoFetch, Request
  <2> QED
    BY <2>1, OutIs DEF Init
<1>8. replies \in [Threads -> Thread]
  <2>1. NoReplies \in Thread
    <3>1. <<>> \in Seq(Nat)
      OBVIOUS
    <3> QED
      BY <3>1 DEF NoReplies, Thread
  <2> QED
    BY <2>1 DEF Init
<1>9. sends \in [1..MaxSends -> Mutation] /\ composing \in 0..MaxSends /\ upsets \in 0..MaxUpsets
  BY <1>5, ChatFeedAssumption DEF Init, Mutation
<1>10. \A k \in DOMAIN sends : sends[k].at = "unsent"
  BY DEF Init
<1>11. TypeOK
  <2>1. /\ older \in SUBSET Older /\ loadingOlder \in BOOLEAN /\ hasMore \in BOOLEAN
        /\ reads \in [Channels -> Nat] /\ known \in SUBSET Nat /\ overtaken \in SUBSET Nat
        /\ strayed \in BOOLEAN /\ torn \in BOOLEAN /\ lagged \in BOOLEAN
        /\ crowded \in BOOLEAN /\ cut \in BOOLEAN
    BY DEF Init
  <2>2. Len(Start) <= Len(posted)
    BY <1>1, <1>3
  <2> QED
    BY <1>3, <1>4, <1>5, <1>6, <1>7, <1>8, <1>9, <2>1, <2>2 DEF TypeOK
<1>12. Sent
  BY <1>3, <1>10 DEF Init, Sent
<1> QED
  BY <1>11, <1>12

\* Whatever comes back in whatever order, the feeds, the threads and the requests stay
\* what they are typed as; that a send is answered as posted only once its message is
\* stored is what the induction needs.
THEOREM TypeCorrect == Spec => []TypeOK
<1>1. Init => TypeOK /\ Sent
  BY InitTyped
<1>2. (TypeOK /\ Sent) /\ [Next]_vars => (TypeOK /\ Sent)'
  BY TypesKept, SentKept
<1> QED
  BY <1>1, <1>2, PTL DEF Spec

-----------------------------------------------------------------------------
(* What every step keeps *)

LEMMA ServerKept ==
  ASSUME TypeOK, Sent, [Next]_vars
  PROVE  /\ DOMAIN posted \subseteq DOMAIN posted' /\ Len(posted) <= Len(posted')
         /\ \A i \in DOMAIN posted : posted'[i] = posted[i]
         /\ \A i \in DOMAIN posted' \ DOMAIN posted :
                i = Len(posted) + 1 /\ \A j \in DOMAIN posted : j < i
         /\ DOMAIN sends' = DOMAIN sends
         /\ \A k \in DOMAIN sends : sends[k].at # "unsent" =>
                /\ sends'[k].at # "unsent"
                /\ sends'[k].ch = sends[k].ch /\ sends'[k].parent = sends[k].parent
         /\ \A k \in DOMAIN sends : sends[k].at = "settled" => sends'[k].at = "settled"
         /\ \A k \in DOMAIN sends : sends'[k].at = "settled" => sends[k].at = "settled" \/ SendSettle(k)
         /\ (strayed => strayed') /\ (torn => torn') /\ (lagged => lagged') /\ (crowded => crowded')
<1>1. sends \in [1..MaxSends -> Mutation] /\ DOMAIN sends = 1..MaxSends /\ Len(posted) \in Nat
  BY PostedTyped DEF TypeOK
<1> DEFINE SendsKept ==
             /\ DOMAIN sends' = DOMAIN sends
             /\ \A k \in DOMAIN sends : sends[k].at # "unsent" =>
                /\ sends'[k].at # "unsent"
                /\ sends'[k].ch = sends[k].ch /\ sends'[k].parent = sends[k].parent
             /\ \A k \in DOMAIN sends : sends[k].at = "settled" => sends'[k].at = "settled"
             /\ \A k \in DOMAIN sends : sends'[k].at = "settled" => sends[k].at = "settled" \/ SendSettle(k)
           Marks == /\ (strayed => strayed') /\ (torn => torn') /\ (lagged => lagged')
                    /\ (crowded => crowded')
<1>2. CASE UNCHANGED <<posted, sends>> /\ Marks
  BY <1>1, <1>2
<1>3. ASSUME NEW c \in Channels, FetchAnswer(c) \/ FetchSettle(c) \/ FetchFail(c)
      PROVE  UNCHANGED <<posted, sends>> /\ Marks
  BY <1>3 DEF FetchAnswer, FetchSettle, FetchFail, server, composer
<1>4. ASSUME NEW p \in Threads, RepliesAnswer(p) \/ RepliesSettle(p) \/ RepliesFail(p)
      PROVE  UNCHANGED <<posted, sends>> /\ Marks
  BY <1>4 DEF RepliesAnswer, RepliesSettle, RepliesFail, RepliesChange, server, composer
<1>5. ASSUME NEW again \in BOOLEAN, Receive(again)
      PROVE  UNCHANGED <<posted, sends>> /\ Marks
  <2>1. UNCHANGED <<posted, sends, strayed, torn, crowded>>
    BY <1>5, ReceiveIs DEF composer
  <2>2. lagged => lagged'
    BY <1>5, ReceiveIs DEF Touched, MessageCreated
  <2> QED
    BY <2>1, <2>2
<1>6. ASSUME LinkLost \/ Mount \/ ScrollUp \/ UNCHANGED vars
      PROVE  UNCHANGED <<posted, sends>> /\ Marks
  <2>1. CASE LinkLost
    BY <2>1 DEF LinkLost, composer
  <2>2. CASE Mount
    BY <2>2 DEF Mount, server, composer
  <2>3. CASE ScrollUp
    BY <2>3 DEF ScrollUp, server, composer
  <2>4. CASE UNCHANGED vars
    BY <2>4 DEF vars
  <2> QED
    BY <1>6, <2>1, <2>2, <2>3, <2>4
<1>7. ASSUME NEW r \in older, OlderSettle(r) \/ OlderFail(r)
      PROVE  UNCHANGED <<posted, sends>> /\ Marks
  <2>1. CASE OlderSettle(r)
    BY <2>1 DEF OlderSettle, server, composer
  <2>2. CASE OlderFail(r)
    BY <2>2 DEF OlderFail, server, composer
  <2> QED
    BY <1>7, <2>1, <2>2
<1>8. ASSUME NEW c \in Channels, NEW cached \in BOOLEAN, Switch(c, cached)
      PROVE  posted' = posted /\ Marks /\ SendsKept
  <2>1. posted' = posted /\ Marks
    BY <1>8 DEF Switch, server
  <2>2. sends' = sends \/ sends' = [sends EXCEPT ![composing].key = c]
    BY <1>8 DEF Switch
  <2>3. DOMAIN sends' = DOMAIN sends /\ \A k \in DOMAIN sends :
           sends'[k].at = sends[k].at /\ sends'[k].ch = sends[k].ch /\ sends'[k].parent = sends[k].parent
    <3>1. CASE sends' = sends
      BY <3>1
    <3>2. CASE sends' = [sends EXCEPT ![composing].key = c]
      <4>1. \A k \in DOMAIN sends : sends[k] \in Mutation
        BY <1>1
      <4>2. \A k \in DOMAIN sends : sends'[k] = sends[k] \/ sends'[k] = [sends[k] EXCEPT !.key = c]
        BY <1>1, <3>2
      <4> QED
        BY <1>1, <3>2, <4>1, <4>2 DEF Mutation
    <3> QED
      BY <2>2, <3>1, <3>2
  <2> QED
    BY <2>1, <2>3
<1>9. ASSUME NEW p \in {0} \cup Threads, Send(p)
      PROVE  posted' = posted /\ Marks /\ SendsKept
  <2>1. posted' = posted /\ Marks
    BY <1>9 DEF Send, server
  <2>2. PICK k \in DOMAIN sends :
          /\ sends[k].at = "unsent"
          /\ sends' = [sends EXCEPT ![k] = [at |-> "out", ch |-> cur, parent |-> p, key |-> cur]]
    BY <1>9, SendIs
  <2>3. DOMAIN sends' = DOMAIN sends /\ sends'[k].at = "out" /\ \A j \in DOMAIN sends : j # k => sends'[j] = sends[j]
    BY <1>1, <2>2
  <2> QED
    BY <2>1, <2>2, <2>3
<1>10. ASSUME NEW k \in DOMAIN sends, SendSettle(k)
       PROVE  posted' = posted /\ Marks /\ SendsKept
  <2>1. posted' = posted /\ Marks
    BY <1>10 DEF SendSettle, server
  <2>2. sends' = [sends EXCEPT ![k].at = "settled"]
    BY <1>10 DEF SendSettle
  <2>3. /\ DOMAIN sends' = DOMAIN sends /\ \A j \in DOMAIN sends : j # k => sends'[j] = sends[j]
        /\ sends'[k].at = "settled" /\ sends'[k].ch = sends[k].ch /\ sends'[k].parent = sends[k].parent
    BY <1>1, <2>2 DEF Mutation
  <2> QED
    BY <1>10, <2>1, <2>3
<1>11. CASE Others
  <2>1. Marks
    BY <1>11 DEF Others
  <2>2. sends' = sends \/ \E k \in DOMAIN sends : /\ sends[k].at \in {"out", "posted"}
                                              /\ \E at \in {"posted", "failed"} : sends' = [sends EXCEPT ![k].at = at]
    BY <1>11, OthersIs
  <2>3. SendsKept
    <3>1. CASE sends' = sends
      BY <3>1
    <3>2. ASSUME NEW k \in DOMAIN sends, sends[k].at \in {"out", "posted"}, NEW at \in {"posted", "failed"},
                 sends' = [sends EXCEPT ![k].at = at]
          PROVE  SendsKept
      <4>1. /\ DOMAIN sends' = DOMAIN sends /\ \A j \in DOMAIN sends : j # k => sends'[j] = sends[j]
            /\ sends'[k].at = at /\ sends'[k].ch = sends[k].ch /\ sends'[k].parent = sends[k].parent
        BY <1>1, <3>2 DEF Mutation
      <4> QED
        BY <3>2, <4>1
    <3> QED
      BY <2>2, <3>1, <3>2
  <2>4. posted' = posted \/ \E m \in Post : Store(m)
    BY <1>11, OthersIs
  <2>5. /\ DOMAIN posted \subseteq DOMAIN posted' /\ Len(posted) <= Len(posted')
        /\ \A i \in DOMAIN posted : posted'[i] = posted[i]
        /\ \A i \in DOMAIN posted' \ DOMAIN posted :
                i = Len(posted) + 1 /\ \A j \in DOMAIN posted : j < i
    BY <1>1, <2>4, StoreIs
  <2> QED
    BY <2>1, <2>3, <2>5
<1> HIDE DEF SendsKept, Marks
<1>12. SendsKept /\ Marks /\ (posted' = posted \/ Others)
  <2>1. ASSUME UNCHANGED <<posted, sends>> PROVE SendsKept /\ posted' = posted
    BY <2>1 DEF SendsKept
  <2>2. CASE Others
    <3>1. SendsKept /\ Marks
      BY <1>11, <2>2 DEF SendsKept, Marks
    <3> QED
      BY <2>2, <3>1
  <2> QED
    BY <1>3, <1>4, <1>5, <1>6, <1>7, <1>8, <1>9, <1>10, <2>1, <2>2, ActionCases
<1>13. /\ DOMAIN posted \subseteq DOMAIN posted' /\ Len(posted) <= Len(posted')
       /\ \A i \in DOMAIN posted : posted'[i] = posted[i]
       /\ \A i \in DOMAIN posted' \ DOMAIN posted :
               i = Len(posted) + 1 /\ \A j \in DOMAIN posted : j < i
  BY <1>1, <1>11, <1>12
<1> QED
  BY <1>12, <1>13 DEF SendsKept, Marks

LEMMA FitsKept ==
  ASSUME TypeOK, Sent, [Next]_vars, NEW c \in Channels, NEW x \in Int, Fits(c, x)
  PROVE  Fits(c, x)'
BY ServerKept DEF Fits

LEMMA FetchSettleIs ==
  ASSUME TypeOK, NEW c \in Channels, FetchSettle(c)
  PROVE  LET f == fetch[c] IN
         /\ f.at = "back" /\ f.list \in Seq(Nat) /\ Latest(f.list) \in Nat
         /\ fetch' = [fetch EXCEPT ![c] = NoFetch]
         /\ cur' = cur /\ mounted' = mounted
         /\ \A d \in Channels : d # c => cache'[d] = cache[d]
         /\ cache'[c].list = f.list /\ cache'[c].upto = Latest(f.list) /\ cache'[c].loaded
         /\ \A p \in Threads : /\ replies'[p].list = replies[p].list /\ replies'[p].got = replies[p].got
                               /\ replies'[p].loaded = replies[p].loaded
         /\ \A d \in Channels : \/ reads'[d] = reads[d]
                                \/ reads'[d] > 0 /\ reads'[d] \in Range(cache'[d].list)
         /\ known' = known \cup UNION {Range(cache'[d].list) \cap TopLevel(d) : d \in Channels}
         /\ UNCHANGED <<server, paging, composer, strayed, torn, lagged, crowded>>
<1> DEFINE f == fetch[c]
           new == [cache EXCEPT ![c] = [loaded |-> TRUE, upto |-> Latest(f.list), list |-> f.list, threaded |-> f.threaded]]
<1>1. f \in Request
  BY DEF TypeOK
<1>2. f.list \in Seq(Nat) /\ Latest(f.list) \in Nat /\ f.list \in Seq(Int) /\ f.threaded \in SUBSET Threads
  BY <1>1, LatestIs DEF Request
<1>3. /\ new \in [Channels -> Feed] /\ \A d \in Channels : d # c => new[d] = cache[d]
      /\ new[c].list = f.list /\ new[c].upto = Latest(f.list) /\ new[c].loaded
  BY <1>2 DEF TypeOK, Feed
<1>4. Rendered(cur, mounted, new, replies, hasMore, {})
  BY DEF FetchSettle, Shows
<1>5. cur \in Channels /\ mounted \in BOOLEAN /\ replies \in [Threads -> Thread] /\ {} \in SUBSET DOMAIN posted
  BY DEF TypeOK
<1>6. /\ f.at = "back" /\ fetch' = [fetch EXCEPT ![c] = NoFetch]
      /\ UNCHANGED <<server, paging, composer, strayed, torn, lagged, crowded>>
  BY DEF FetchSettle
<1> HIDE DEF new, f
<1>7. /\ cur' = cur /\ mounted' = mounted /\ cache' = new
      /\ \A p \in Threads : /\ replies'[p].list = replies[p].list /\ replies'[p].got = replies[p].got
                            /\ replies'[p].loaded = replies[p].loaded
      /\ \A d \in Channels : \/ reads'[d] = reads[d]
                             \/ reads'[d] > 0 /\ reads'[d] \in Range(new[d].list)
      /\ known' = known \cup {} \cup UNION {Range(new[d].list) \cap TopLevel(d) : d \in Channels}
  BY <1>3, <1>4, <1>5, RenderedIs
<1>8. /\ \A d \in Channels : \/ reads'[d] = reads[d]
                             \/ reads'[d] > 0 /\ reads'[d] \in Range(cache'[d].list)
      /\ known' = known \cup UNION {Range(cache'[d].list) \cap TopLevel(d) : d \in Channels}
  BY <1>7
<1>9. /\ \A d \in Channels : d # c => cache'[d] = cache[d]
      /\ cache'[c].list = f.list /\ cache'[c].upto = Latest(f.list) /\ cache'[c].loaded
  BY <1>3, <1>7
<1> QED
  BY <1>2, <1>6, <1>7, <1>8, <1>9 DEF f

LEMMA FeedSteps ==
  ASSUME TypeOK, [Next]_vars
  PROVE  \/ cache' = cache
         \/ \E c \in Channels : FetchSettle(c)
         \/ \E again \in BOOLEAN, id \in DOMAIN posted :
               Receive(again) /\ mounted /\ posted[id].ch = cur /\ MessageCreated(id)
         \/ \E p \in {0} \cup Threads : Send(p)
         \/ \E k \in DOMAIN sends : SendSettle(k)
         \/ \E r \in older : OlderSettle(r)
<1>1. ASSUME NEW c \in Channels, FetchAnswer(c) \/ FetchFail(c) PROVE cache' = cache
  BY <1>1 DEF FetchAnswer, FetchFail
<1>2. ASSUME NEW p \in Threads, RepliesAnswer(p) \/ RepliesSettle(p) \/ RepliesFail(p) PROVE cache' = cache
  BY <1>2 DEF RepliesAnswer, RepliesSettle, RepliesFail, RepliesChange
<1>3. ASSUME NEW c \in Channels, NEW cached \in BOOLEAN, Switch(c, cached) PROVE cache' = cache
  BY <1>3 DEF Switch, Rendered
<1>4. CASE LinkLost \/ ScrollUp \/ Others \/ UNCHANGED vars
  BY <1>4 DEF LinkLost, ScrollUp, Others, vars
<1>5. CASE Mount
  BY <1>5 DEF Mount, Rendered
<1>6. ASSUME NEW r \in older, OlderFail(r) PROVE cache' = cache
  BY <1>6 DEF OlderFail
<1>7. ASSUME NEW again \in BOOLEAN, Receive(again)
      PROVE  \/ cache' = cache
             \/ \E id \in DOMAIN posted : mounted /\ posted[id].ch = cur /\ MessageCreated(id)
  BY <1>7, ReceiveIs DEF Touched
<1> QED
  BY <1>1, <1>2, <1>3, <1>4, <1>5, <1>6, <1>7, ActionCases

\* The watermark of a channel is what was sent last for it or a message its feed shows.
LEMMA ReadsFollow ==
  ASSUME TypeOK, Sent, [Next]_vars, NEW d \in Channels
  PROVE  reads'[d] = reads[d] \/ (reads'[d] > 0 /\ reads'[d] \in Range(cache'[d].list))
<1>1. ASSUME NEW c \in Channels, FetchAnswer(c) \/ FetchFail(c) PROVE reads' = reads
  BY <1>1 DEF FetchAnswer, FetchFail
<1>2. ASSUME NEW c \in Channels, FetchSettle(c)
      PROVE  reads'[d] = reads[d] \/ (reads'[d] > 0 /\ reads'[d] \in Range(cache'[d].list))
  BY <1>2, FetchSettleIs
<1>3. ASSUME NEW p \in Threads, RepliesAnswer(p) \/ RepliesSettle(p) \/ RepliesFail(p) PROVE reads' = reads
  BY <1>3 DEF RepliesAnswer, RepliesSettle, RepliesFail, RepliesChange
<1>4. ASSUME NEW c \in Channels, NEW cached \in BOOLEAN, Switch(c, cached)
      PROVE  reads'[d] = reads[d] \/ (reads'[d] > 0 /\ reads'[d] \in Range(cache'[d].list))
  <2>1. Rendered(c, cached, cache, replies, TRUE, {}) /\ fetch' = [fetch EXCEPT ![c] = Mounting(@)]
    BY <1>4 DEF Switch
  <2> QED
    BY <2>1, MovesIs
<1>5. CASE LinkLost \/ ScrollUp \/ Others \/ UNCHANGED vars
  BY <1>5 DEF LinkLost, ScrollUp, Others, vars
<1>6. CASE Mount
  <2>1. /\ Rendered(cur, TRUE, cache, replies, TRUE, {}) /\ fetch' = [fetch EXCEPT ![cur] = Mounting(@)]
        /\ cur \in Channels
    BY <1>6 DEF Mount, TypeOK
  <2> QED
    BY <2>1, MovesIs
<1>7. ASSUME NEW r \in older, OlderSettle(r) \/ OlderFail(r)
      PROVE  reads'[d] = reads[d] \/ (reads'[d] > 0 /\ reads'[d] \in Range(cache'[d].list))
  <2>1. CASE OlderSettle(r)
    BY <2>1, OlderSettleIs
  <2>2. CASE OlderFail(r)
    BY <2>2 DEF OlderFail
  <2> QED
    BY <1>7, <2>1, <2>2
<1>8. ASSUME NEW p \in {0} \cup Threads, Send(p)
      PROVE  reads'[d] = reads[d] \/ (reads'[d] > 0 /\ reads'[d] \in Range(cache'[d].list))
  <2>1. PICK k \in DOMAIN sends : Grows(cur, <<-k>> \o cache[cur].list)
    BY <1>8, SendIs
  <2>2. cur \in Channels /\ <<-k>> \o cache[cur].list \in Seq(Int)
    <3>1. cur \in Channels /\ -k \in Int
      BY PostedTyped DEF TypeOK
    <3> QED
      BY <3>1, FeedListIs, PutIs
  <2> QED
    BY <2>1, <2>2, GrowsIs
<1>9. ASSUME NEW k \in DOMAIN sends, SendSettle(k)
      PROVE  reads'[d] = reads[d] \/ (reads'[d] > 0 /\ reads'[d] \in Range(cache'[d].list))
  BY <1>9, SendSettleIs
<1>10. ASSUME NEW again \in BOOLEAN, Receive(again)
       PROVE  reads'[d] = reads[d] \/ (reads'[d] > 0 /\ reads'[d] \in Range(cache'[d].list))
  <2>1. CASE reads' = reads
    BY <2>1
  <2>2. ASSUME NEW id \in DOMAIN posted, mounted, MessageCreated(id)
        PROVE  reads'[d] = reads[d] \/ (reads'[d] > 0 /\ reads'[d] \in Range(cache'[d].list))
    <3>1. PICK i \in EchoOf(posted[id], cache[cur].list) :
            IF posted[id].parent = 0 THEN Grows(cur, Created(id, i)) ELSE ReplyCreated(id, posted[id].parent, i)
      BY <2>2 DEF MessageCreated
    <3>2. CASE posted[id].parent = 0
      <4>1. Created(id, i) \in Seq(Int) /\ cur \in Channels
        BY CreatedIs DEF TypeOK
      <4> QED
        BY <3>1, <3>2, <4>1, GrowsIs
    <3>3. CASE posted[id].parent # 0
      <4>1. posted[id].parent \in Threads
        BY <3>3, PostedTyped
      <4> QED
        BY <3>1, <3>3, <4>1, ReplyCreatedIs
    <3> QED
      BY <3>2, <3>3
  <2> QED
    BY <1>10, <2>1, <2>2, ReceiveIs DEF Touched
<1> QED
  BY <1>1, <1>2, <1>3, <1>4, <1>5, <1>6, <1>7, <1>8, <1>9, <1>10, ActionCases

-----------------------------------------------------------------------------
(* What a feed shows *)

\* The feed of channel c gains what is in add and loses what is in drop.
Edited(c, add, drop) ==
    /\ \A d \in Channels : /\ cache'[d].upto = cache[d].upto
                           /\ d # c => cache'[d].list = cache[d].list
                           /\ ~cache'[d].loaded => cache'[d].list = <<>>
    /\ cache'[c].list \in Seq(Int) /\ IsInjective(cache'[c].list)
    /\ Range(cache'[c].list) = (Shown(c) \ drop) \cup add
    /\ (cache[c].list # <<>> /\ Last(cache[c].list) \notin drop) =>
           cache'[c].list # <<>> /\ Last(cache'[c].list) = Last(cache[c].list)

LEMMA ShownIs ==
  ASSUME Entries, NEW c \in Channels
  PROVE  /\ Shown(c) \subseteq Int
         /\ \A x \in Shown(c) : \/ x > 0 /\ x \in DOMAIN posted /\ (strayed \/ posted[x].ch = c)
                                \/ x < 0 /\ -x \in DOMAIN sends /\ sends[-x].at # "unsent" /\ sends[-x].ch = c
         /\ \A x \in Shown(c) : x \in DOMAIN posted <=> x > 0
         /\ \A k \in DOMAIN sends : -k \in Int /\ -k < 0 /\ -(-k) = k
<1>1. cache[c].list \in Seq(Int)
  BY FeedListIs DEF Entries
<1>2. Shown(c) \subseteq Int
  BY <1>1 DEF Shown, Range
<1>3. DOMAIN posted \subseteq Nat \ {0} /\ DOMAIN sends \subseteq Nat \ {0}
  BY PostedTyped DEF Entries
<1>4. \A x \in Shown(c) : Fits(c, x)
  BY DEF Entries, Feeds
<1> QED
  BY <1>2, <1>3, <1>4 DEF Fits

LEMMA EchoOwn ==
  ASSUME Entries, NEW id \in DOMAIN posted, NEW i \in EchoOf(posted[id], cache[cur].list),
         posted[id].send # 0, -posted[id].send \in Shown(cur)
  PROVE  /\ i # 0
         /\ (\A j \in DOMAIN sends : -j \in Shown(cur) => j = posted[id].send) =>
               cache[cur].list[i] = -posted[id].send
<1> DEFINE m == posted[id]
           list == cache[cur].list
<1>1. cur \in Channels /\ list \in Seq(Int) /\ TypeOK /\ Sent
  BY FeedListIs DEF Entries, TypeOK
<1>2. m.send \in DOMAIN sends /\ -m.send < 0 /\ -(-m.send) = m.send
  BY <1>1, PostedTyped
<1>3. sends[m.send].parent = m.parent
  BY <1>1 DEF Sent
<1>4. PICK n \in DOMAIN list : list[n] = -m.send
  BY InRange DEF Shown
<1>5. n \in {t \in TempsLike(m, list) : -list[t] = m.send}
  BY <1>2, <1>3, <1>4 DEF TempsLike
<1>6. i \in TempsLike(m, list)
  BY <1>5 DEF EchoOf
<1>7. i \in DOMAIN list /\ list[i] < 0 /\ i # 0
  BY <1>1, <1>6 DEF TempsLike
<1>8. list[i] \in Shown(cur)
  BY <1>7, InRange DEF Shown
<1>9. -list[i] \in DOMAIN sends /\ -(-list[i]) = list[i]
  BY <1>1, <1>7, <1>8, ShownIs
<1> QED
  BY <1>7, <1>8, <1>9

LEMMA CreatedEdits ==
  ASSUME Entries, NEW id \in DOMAIN posted, mounted, MessageCreated(id)
  PROVE  \E drop :
            /\ Edited(cur, IF posted[id].parent = 0 THEN {id} ELSE {}, drop)
            /\ \A x \in drop : x \in Shown(cur) /\ x < 0
            /\ LET k == posted[id].send
               IN  (k # 0 /\ -k \in Shown(cur) /\ id \notin Shown(cur)
                      /\ \A j \in DOMAIN sends : -j \in Shown(cur) => j = k) => -k \in drop
<1> DEFINE m == posted[id]
           k == m.send
           Only == /\ k # 0 /\ -k \in Shown(cur) /\ id \notin Shown(cur)
                   /\ \A j \in DOMAIN sends : -j \in Shown(cur) => j = k
<1>1. TypeOK /\ cur \in Channels /\ id \in Int /\ id > 0
  BY PostedTyped DEF Entries, TypeOK
<1>2. PICK list \in Seq(Int) : list = cache[cur].list
  BY <1>1, FeedListIs
<1>3. PICK i \in EchoOf(m, list) :
        IF m.parent = 0 THEN Grows(cur, Created(id, i)) ELSE ReplyCreated(id, m.parent, i)
  BY <1>2 DEF MessageCreated
<1>4. IsInjective(list) /\ Shown(cur) = Range(list) /\ (~cache[cur].loaded => list = <<>>)
      /\ \A d \in Channels : ~cache[d].loaded => cache[d].list = <<>>
  BY <1>1, <1>2 DEF Entries, Feeds, Shown
<1>5. Only => i # 0 /\ list[i] = -k
  BY <1>2, <1>3, EchoOwn
<1>6. i # 0 => i \in DOMAIN list /\ list[i] < 0 /\ list[i] \in Range(list)
  BY <1>3, EchoIs, InRange
<1>7. CASE m.parent = 0
  <2>1. PICK s \in Seq(Int) : s = Created(id, i)
    BY <1>1, <1>2, <1>3, CreatedIs
  <2>2. \A d \in Channels : /\ cache'[d].upto = cache[d].upto
                            /\ cache'[d].list = IF d = cur THEN s ELSE cache[d].list
                            /\ ~cache'[d].loaded => cache'[d].list = <<>>
    <3>1. Grows(cur, s)
      BY <1>3, <1>7, <2>1
    <3>2. \A d \in Channels : /\ cache'[d].upto = cache[d].upto
                              /\ ~cache'[d].loaded => ~cache[d].loaded /\ d # cur
                              /\ cache'[d].list = IF d = cur THEN s ELSE cache[d].list
      BY <1>1, <3>1, GrowsIs
    <3> QED
      BY <1>4, <3>2
  <2>3. ASSUME NEW drop, IsInjective(s), Range(s) = (Range(list) \ drop) \cup {id},
               (list # <<>> /\ Last(list) \notin drop) => s # <<>> /\ Last(s) = Last(list)
        PROVE  Edited(cur, {id}, drop)
    BY <1>1, <1>2, <1>4, <2>1, <2>2, <2>3 DEF Edited
  <2>4. CASE ~cache[cur].loaded
    <3>1. s = <<id>> \o list /\ list = <<>>
      BY <1>1, <1>2, <1>4, <2>1, <2>4 DEF Created
    <3>2. Range(list) = {} /\ id \notin Range(list)
      BY <3>1, InRange
    <3>3. IsInjective(s) /\ Range(s) = (Range(list) \ {}) \cup {id}
      BY <1>1, <1>4, <3>1, <3>2, PutIs
    <3>4. Edited(cur, {id}, {})
      BY <2>3, <3>1, <3>3
    <3> QED
      BY <1>4, <1>7, <3>2, <3>4
  <2>5. CASE cache[cur].loaded /\ id \in Range(list)
    <3>1. s = list
      BY <1>2, <2>1, <2>5 DEF Created
    <3>2. Range(s) = (Range(list) \ {}) \cup {id}
      BY <2>5, <3>1
    <3>3. Edited(cur, {id}, {})
      BY <1>4, <2>3, <3>1, <3>2
    <3> QED
      BY <1>4, <1>7, <2>5, <3>3
  <2>6. CASE cache[cur].loaded /\ id \notin Range(list) /\ i # 0
    <3>1. s = [list EXCEPT ![i] = id] /\ list[i] # id
      BY <1>1, <1>2, <1>6, <2>1, <2>6 DEF Created
    <3>2. /\ Range(s) \subseteq Range(list) \cup {id} /\ id \in Range(s)
          /\ Range(list) \ {list[i]} \subseteq Range(s)
          /\ list[i] \notin Range(s) /\ IsInjective(s) /\ s # <<>>
          /\ list[i] # Last(list) => Last(s) = Last(list)
      <4>1. i \in DOMAIN list /\ id \in Int /\ IsInjective(list)
        BY <1>1, <1>4, <1>6, <2>6
      <4>2. /\ Range(s) \subseteq Range(list) \cup {id} /\ id \in Range(s)
            /\ Range(list) \ {list[i]} \subseteq Range(s)
            /\ list[i] \notin Range(s) \/ list[i] = id
            /\ id \notin Range(list) => IsInjective(s)
            /\ s # <<>>
            /\ list[i] # Last(list) => Last(s) = Last(list)
        BY <3>1, <4>1, ReplacedIs
      <4> QED
        BY <2>6, <3>1, <4>2
    <3>3. Range(s) = (Range(list) \ {list[i]}) \cup {id}
      BY <3>2
    <3>4. Edited(cur, {id}, {list[i]})
      BY <2>3, <3>2, <3>3
    <3> QED
      BY <1>4, <1>5, <1>6, <1>7, <2>6, <3>4
  <2>7. CASE cache[cur].loaded /\ id \notin Range(list) /\ i = 0
    <3>1. s = <<id>> \o list
      BY <1>2, <2>1, <2>7 DEF Created
    <3>2. /\ IsInjective(s) /\ Range(s) = (Range(list) \ {}) \cup {id} /\ s # <<>>
          /\ Last(s) = IF list = <<>> THEN id ELSE Last(list)
      BY <1>1, <1>4, <2>7, <3>1, PutIs
    <3>3. Edited(cur, {id}, {})
      BY <2>3, <3>2
    <3> QED
      BY <1>5, <1>7, <2>7, <3>3
  <2> QED
    BY <2>4, <2>5, <2>6, <2>7
<1>8. CASE m.parent # 0
  <2>1. m.parent \in Threads
    BY <1>1, <1>8, PostedTyped
  <2>2. ReplyCreated(id, m.parent, i)
    BY <1>3, <1>8
  <2>3. /\ \A d \in Channels : /\ cache'[d].upto = cache[d].upto /\ cache'[d].loaded = cache[d].loaded
                               /\ \/ cache'[d].list = cache[d].list
                                  \/ d = cur /\ i # 0 /\ cache'[d].list = RemoveAt(cache[d].list, i)
        /\ i = 0 \/ ~cache[cur].loaded \/ cache'[cur].list = RemoveAt(cache[cur].list, i)
    BY <1>1, <1>2, <1>3, <2>1, <2>2, ReplyCreatedIs
  <2>4. PICK s : s = cache'[cur].list
    OBVIOUS
  <2>5. ASSUME NEW drop, s \in Seq(Int), IsInjective(s), Range(s) = Range(list) \ drop,
               (list # <<>> /\ Last(list) \notin drop) => s # <<>> /\ Last(s) = Last(list),
               ~cache[cur].loaded => s = <<>>
        PROVE  Edited(cur, {}, drop)
    <3>1. \A d \in Channels : ~cache'[d].loaded => cache'[d].list = <<>>
      BY <1>4, <2>3, <2>4, <2>5
    <3>2. \A d \in Channels : /\ cache'[d].upto = cache[d].upto
                              /\ d # cur => cache'[d].list = cache[d].list
      BY <2>3
    <3>3. Range(s) = (Shown(cur) \ drop) \cup {}
      BY <1>4, <2>5
    <3> QED
      BY <1>2, <2>4, <2>5, <3>1, <3>2, <3>3 DEF Edited
  <2>6. CASE i # 0
    <3>1. cache[cur].loaded
      BY <1>2, <1>4, <1>6, <2>6
    <3>2. s = RemoveAt(list, i)
      BY <1>2, <2>3, <2>4, <2>6, <3>1
    <3>3. /\ s \in Seq(Int) /\ Range(s) \subseteq Range(list)
          /\ Range(list) \ {list[i]} \subseteq Range(s)
          /\ IsInjective(s) /\ list[i] \notin Range(s)
          /\ list[i] # Last(list) => s # <<>> /\ Last(s) = Last(list)
      BY <1>4, <1>6, <2>6, <3>2, RemovedIs
    <3>4. Range(s) = Range(list) \ {list[i]}
      BY <3>3
    <3>5. Edited(cur, {}, {list[i]})
      BY <2>5, <3>1, <3>3, <3>4
    <3> QED
      BY <1>4, <1>5, <1>6, <1>8, <2>6, <3>5
  <2>7. CASE i = 0
    <3>1. s = list
      BY <1>1, <1>2, <2>3, <2>4, <2>7
    <3>2. Edited(cur, {}, {})
      BY <1>4, <2>5, <3>1
    <3> QED
      BY <1>5, <1>8, <2>7, <3>2
  <2> QED
    BY <2>6, <2>7
<1> QED
  BY <1>7, <1>8

LEMMA SendEdits ==
  ASSUME Entries, NEW p \in {0} \cup Threads, Send(p)
  PROVE  \E k \in DOMAIN sends :
            /\ sends[k].at = "unsent" /\ sends'[k].at = "out" /\ sends'[k].ch = cur
            /\ cache'[cur].list = <<-k>> \o cache[cur].list
            /\ \A i \in DOMAIN posted : posted[i].send # k
            /\ \A d \in Channels : -k \notin Shown(d)
            /\ Edited(cur, {-k}, {})
            /\ crowded' = (crowded \/ \E i \in Shown(cur) : i < 0)
            /\ known' = known \cup UNION {Range(cache'[d].list) \cap TopLevel(d) : d \in Channels}
<1>1. TypeOK /\ Sent /\ cur \in Channels
  BY DEF Entries, TypeOK
<1>2. PICK k \in DOMAIN sends :
        /\ sends[k].at = "unsent"
        /\ sends' = [sends EXCEPT ![k] = [at |-> "out", ch |-> cur, parent |-> p, key |-> cur]]
        /\ Grows(cur, <<-k>> \o cache[cur].list)
        /\ crowded' = (crowded \/ \E i \in Range(cache[cur].list) : i < 0)
  BY <1>1, SendIs
<1>3. PICK list \in Seq(Int) : list = cache[cur].list
  BY <1>1, FeedListIs
<1>4. IsInjective(list) /\ Shown(cur) = Range(list) /\ \A d \in Channels : ~cache[d].loaded => cache[d].list = <<>>
  BY <1>1, <1>3 DEF Entries, Feeds, Shown
<1>5. \A d \in Channels : -k \notin Shown(d)
  <2> SUFFICES ASSUME NEW d \in Channels, -k \in Shown(d) PROVE FALSE
    OBVIOUS
  <2>1. -k < 0 /\ -(-k) = k
    BY ShownIs
  <2> QED
    BY <1>2, <2>1, ShownIs
<1>6. \A i \in DOMAIN posted : posted[i].send # k
  BY <1>1, <1>2, PostedTyped DEF Sent
<1>7. PICK s \in Seq(Int) : /\ s = <<-k>> \o list /\ IsInjective(s) /\ s # <<>>
                           /\ Range(s) = (Range(list) \ {}) \cup {-k}
                           /\ Last(s) = IF list = <<>> THEN -k ELSE Last(list)
  <2>1. -k \in Int /\ -k \notin Range(list)
    BY <1>1, <1>4, <1>5, ShownIs
  <2> QED
    BY <1>4, <2>1, PutIs
<1>8. /\ \A d \in Channels : /\ cache'[d].upto = cache[d].upto
                             /\ ~cache'[d].loaded => ~cache[d].loaded /\ d # cur
                             /\ cache'[d].list = IF d = cur THEN s ELSE cache[d].list
      /\ known' = known \cup UNION {Range(cache'[d].list) \cap TopLevel(d) : d \in Channels}
  <2>1. Grows(cur, s)
    BY <1>2, <1>3, <1>7
  <2> QED
    BY <1>1, <2>1, GrowsIs
<1>9. Edited(cur, {-k}, {})
  BY <1>1, <1>3, <1>4, <1>7, <1>8 DEF Edited
<1>10. sends'[k].at = "out" /\ sends'[k].ch = cur
  BY <1>1, <1>2 DEF TypeOK
<1> QED
  BY <1>1, <1>2, <1>3, <1>4, <1>5, <1>6, <1>7, <1>8, <1>9, <1>10

LEMMA SettleEdits ==
  ASSUME Entries, NEW k \in DOMAIN sends, SendSettle(k)
  PROVE  /\ sends[k].key \in Channels
         /\ Edited(sends[k].key, IF sends[k].at = "posted" THEN {Stored(k)} ELSE {}, {-k})
         /\ sends[k].at = "posted" => /\ Stored(k) \in DOMAIN posted
                                      /\ posted[Stored(k)].send = k
                                      /\ strayed \/ posted[Stored(k)].ch = sends[k].key
<1>1. TypeOK /\ Sent /\ sends[k].at \in {"posted", "failed"}
  BY DEF Entries, SendSettle
<1>2. PICK c \in Channels : c = sends[k].key
  BY <1>1 DEF TypeOK, Mutation
<1>3. PICK list \in Seq(Int), s \in Seq(Int) :
        /\ list = cache[c].list /\ s = AfterSend(k)
        /\ IsInjective(list) => IsInjective(s)
        /\ Range(s) = (Range(list) \ {-k}) \cup (IF sends[k].at = "posted" THEN {Stored(k)} ELSE {})
        /\ list # <<>> /\ Last(list) # -k => s # <<>> /\ Last(s) = Last(list)
        /\ list = <<>> /\ sends[k].at = "failed" => s = <<>>
  BY <1>1, <1>2, AfterSendIs
<1>4. IsInjective(list) /\ Shown(c) = Range(list) /\ \A d \in Channels : ~cache[d].loaded => cache[d].list = <<>>
  BY <1>2, <1>3 DEF Entries, Feeds, Shown
<1>5. \A d \in Channels :
         /\ cache'[d].upto = cache[d].upto
         /\ ~cache'[d].loaded => ~cache[d].loaded /\ (d # c \/ sends[k].at = "failed")
         /\ cache'[d].list = IF d = c THEN s ELSE cache[d].list
  BY <1>1, <1>2, <1>3, SendSettleIs
<1>6. Edited(c, IF sends[k].at = "posted" THEN {Stored(k)} ELSE {}, {-k})
  <2>1. \A d \in Channels : ~cache'[d].loaded => cache'[d].list = <<>>
    BY <1>3, <1>4, <1>5
  <2> QED
    BY <1>2, <1>3, <1>4, <1>5, <2>1 DEF Edited
<1>7. ASSUME sends[k].at = "posted"
      PROVE  /\ Stored(k) \in DOMAIN posted /\ posted[Stored(k)].send = k
             /\ strayed \/ posted[Stored(k)].ch = c
  <2>1. Stored(k) \in DOMAIN posted /\ posted[Stored(k)].send = k /\ k # 0
    BY <1>1, <1>7, StoredIs, PostedTyped
  <2>2. posted[Stored(k)].ch = sends[k].ch /\ (strayed \/ sends[k].key = sends[k].ch)
    BY <1>1, <1>7, <2>1 DEF Sent
  <2> QED
    BY <1>2, <2>1, <2>2
<1> QED
  BY <1>2, <1>6, <1>7

LEMMA FeedsKept ==
  ASSUME Entries, [Next]_vars
  PROVE  Feeds'
<1> TypeOK /\ Sent /\ Feeds /\ Answers
  BY DEF Entries
<1> DEFINE Good(c) == /\ IsInjective(cache'[c].list)
                      /\ \A x \in Range(cache'[c].list) : Fits(c, x)'
                      /\ ~cache'[c].loaded => cache'[c].list = <<>>
                      /\ cache'[c].upto <= Len(posted')
<1>1. \A c \in Channels : \A x \in Shown(c) : Fits(c, x)'
  <2> SUFFICES ASSUME NEW c \in Channels, NEW x \in Shown(c) PROVE Fits(c, x)'
    OBVIOUS
  <2>1. x \in Int /\ Fits(c, x)
    BY ShownIs DEF Feeds
  <2> QED
    BY <2>1, FitsKept
<1>2. \A c \in Channels : cache[c].upto <= Len(posted')
  <2>1. Len(posted) \in Nat /\ Len(posted) <= Len(posted') /\ Len(posted') \in Nat
    <3>1. TypeOK' /\ Len(posted) <= Len(posted')
      BY ServerKept, TypesKept
    <3> QED
      BY <3>1 DEF TypeOK
  <2>2. \A c \in Channels : cache[c].upto \in Nat
    BY DEF TypeOK, Feed
  <2> QED
    BY <2>1, <2>2 DEF Feeds
<1>3. ASSUME cache' = cache PROVE \A d \in Channels : Good(d)
  BY <1>1, <1>2, <1>3 DEF Feeds, Shown
<1>4. ASSUME NEW c \in Channels, NEW add, NEW drop, Edited(c, add, drop), \A x \in add : Fits(c, x)'
      PROVE  \A d \in Channels : Good(d)
  <2> SUFFICES ASSUME NEW d \in Channels PROVE Good(d)
    OBVIOUS
  <2>1. IsInjective(cache'[d].list) /\ (~cache'[d].loaded => cache'[d].list = <<>>) /\ cache'[d].upto = cache[d].upto
    BY <1>4 DEF Edited, Feeds
  <2>2. \A x \in Range(cache'[d].list) : Fits(d, x)'
    <3>1. CASE d = c
      BY <1>1, <1>4, <3>1 DEF Edited
    <3>2. CASE d # c
      BY <1>1, <1>4, <3>2 DEF Edited, Shown
    <3> QED
      BY <3>1, <3>2
  <2> QED
    BY <1>2, <2>1, <2>2
<1>5. ASSUME NEW c \in Channels, FetchSettle(c) PROVE \A d \in Channels : Good(d)
  <2> SUFFICES ASSUME NEW d \in Channels PROVE Good(d)
    OBVIOUS
  <2>1. CASE d # c
    <3>1. cache'[d] = cache[d]
      BY <1>5, <2>1, FetchSettleIs
    <3> QED
      BY <1>1, <1>2, <3>1 DEF Feeds, Shown
  <2>2. CASE d = c
    <3>1. /\ fetch[c].list \in Seq(Nat) /\ cache'[c].list = fetch[c].list
          /\ cache'[c].upto = Latest(fetch[c].list) /\ cache'[c].loaded /\ posted' = posted
      BY <1>5, FetchSettleIs DEF server
    <3>2. IsInjective(fetch[c].list) /\ Range(fetch[c].list) \subseteq TopLevel(c)
      BY DEF Answers
    <3>3. \A x \in Range(cache'[c].list) : Fits(c, x)'
      BY <3>1, <3>2 DEF Fits, TopLevel
    <3>4. Latest(fetch[c].list) = 0 \/ Latest(fetch[c].list) \in DOMAIN posted
      BY <3>1, <3>2, LatestIs DEF TopLevel
    <3>5. cache'[c].upto <= Len(posted')
      BY <3>1, <3>4, PostedTyped
    <3> QED
      BY <2>2, <3>1, <3>2, <3>3, <3>5
  <2> QED
    BY <2>1, <2>2
<1>6. ASSUME NEW again \in BOOLEAN, NEW id \in DOMAIN posted,
             Receive(again), mounted, posted[id].ch = cur, MessageCreated(id)
      PROVE  \A d \in Channels : Good(d)
  <2>1. PICK c \in Channels : c = cur
    BY DEF TypeOK
  <2>2. PICK drop : Edited(cur, IF posted[id].parent = 0 THEN {id} ELSE {}, drop)
    BY <1>6, CreatedEdits
  <2>3. posted' = posted
    BY <1>6, ReceiveIs
  <2>4. Fits(c, id)'
    BY <1>6, <2>1, <2>3 DEF Fits
  <2>5. PICK add : add = IF posted[id].parent = 0 THEN {id} ELSE {}
    OBVIOUS
  <2>6. Edited(c, add, drop)
    BY <2>1, <2>2, <2>5 DEF Edited
  <2>7. \A x \in add : x = id
    BY <2>5
  <2> QED
    BY <1>4, <2>4, <2>6, <2>7
<1>7. ASSUME NEW p \in {0} \cup Threads, Send(p) PROVE \A d \in Channels : Good(d)
  <2>1. PICK c \in Channels : c = cur
    BY DEF TypeOK
  <2>2. PICK k \in DOMAIN sends : sends'[k].at = "out" /\ sends'[k].ch = cur /\ Edited(cur, {-k}, {})
    BY <1>7, SendEdits
  <2>3. -(-k) = k /\ DOMAIN sends' = DOMAIN sends
    BY <2>1, ServerKept, ShownIs
  <2>4. Fits(c, -k)'
    BY <2>1, <2>2, <2>3 DEF Fits
  <2>5. Edited(c, {-k}, {})
    BY <2>1, <2>2 DEF Edited
  <2> QED
    BY <1>4, <2>4, <2>5
<1>8. ASSUME NEW k \in DOMAIN sends, SendSettle(k) PROVE \A d \in Channels : Good(d)
  <2>1. PICK c \in Channels : c = sends[k].key
    BY <1>8, SettleEdits
  <2>2. PICK add : add = IF sends[k].at = "posted" THEN {Stored(k)} ELSE {}
    OBVIOUS
  <2>6. Edited(c, add, {-k})
    BY <1>8, <2>1, <2>2, SettleEdits
  <2>3. \A x \in add : Fits(c, x)
    BY <1>8, <2>1, <2>2, SettleEdits DEF Fits
  <2>4. \A x \in add : x \in Int
    <3>1. \A x \in add : x \in DOMAIN posted
      BY <1>8, <2>2, SettleEdits
    <3> QED
      BY <3>1, PostedTyped
  <2>5. \A x \in add : Fits(c, x)'
    BY <2>3, <2>4, FitsKept
  <2> QED
    BY <1>4, <2>5, <2>6
<1>9. ASSUME NEW r \in older, OlderSettle(r) PROVE \A d \in Channels : Good(d)
  <2> DEFINE page == Range(Newest(Earlier(r), OlderPage))
  <2>1. PICK c \in Channels : c = r.ch
    BY <1>9, OlderSettleIs
  <2> SUFFICES ASSUME NEW d \in Channels PROVE Good(d)
    OBVIOUS
  <2>2. /\ page \subseteq TopLevel(c)
        /\ cache'[d].upto = cache[d].upto
        /\ cache[d].loaded => cache'[d].loaded
        /\ cache'[d].list # <<>> => cache[d].list # <<>> \/ cache'[d].loaded
        /\ d # c => cache'[d].list = cache[d].list
        /\ Range(cache'[c].list) = Shown(c) \cup page
        /\ IsInjective(cache[c].list) => IsInjective(cache'[c].list)
    BY <1>9, <2>1, OlderSettleIs DEF Earlier, Shown
  <2>3. \A x \in page : Fits(c, x)'
    <3>1. \A x \in page : x \in Int /\ Fits(c, x)
      BY <2>2, PostedTyped DEF Fits, TopLevel
    <3> QED
      BY <3>1, FitsKept
  <2>4. IsInjective(cache'[d].list) /\ \A x \in Range(cache'[d].list) : Fits(d, x)'
    <3>1. CASE d = c
      BY <1>1, <2>2, <2>3, <3>1 DEF Feeds
    <3>2. CASE d # c
      BY <1>1, <2>2, <3>2 DEF Feeds, Shown
    <3> QED
      BY <3>1, <3>2
  <2>5. ~cache'[d].loaded => cache'[d].list = <<>>
    BY <2>2 DEF Feeds
  <2> QED
    BY <1>2, <2>2, <2>4, <2>5
<1>10. \A d \in Channels : Good(d)
  BY <1>3, <1>5, <1>6, <1>7, <1>8, <1>9, FeedSteps
<1>11. ASSUME NEW d \in Channels
       PROVE  reads'[d] # 0 => reads'[d] \in DOMAIN posted' /\ (strayed' \/ posted'[reads'[d]].ch = d)
  <2>1. CASE reads'[d] = reads[d]
    BY <2>1, ServerKept DEF Feeds
  <2>2. CASE reads'[d] > 0 /\ reads'[d] \in Range(cache'[d].list)
    <3>1. PICK x \in Range(cache'[d].list) : x = reads'[d] /\ x > 0
      BY <2>2
    <3>2. Fits(d, x)'
      BY <1>10
    <3>3. DOMAIN sends' \subseteq Nat \ {0} /\ x \in Nat
      <4>1. TypeOK'
        BY TypesKept
      <4> QED
        BY <3>1, <4>1, ServerKept, PostedTyped DEF TypeOK
    <3> QED
      BY <3>1, <3>2, <3>3 DEF Fits
  <2> QED
    BY <2>1, <2>2, ReadsFollow
<1> QED
  BY <1>10, <1>11 DEF Feeds, Shown

-----------------------------------------------------------------------------
(* What comes back, and what is remembered *)

LEMMA FetchFollows ==
  ASSUME TypeOK, [Next]_vars, NEW c \in Channels
  PROVE  \/ fetch'[c] = fetch[c]
         \/ fetch'[c].at # "back" /\ fetch'[c].list = <<>>
         \/ FetchAnswer(c)
<1> DEFINE Follows == \/ fetch'[c] = fetch[c]
                      \/ fetch'[c].at # "back" /\ fetch'[c].list = <<>>
                      \/ FetchAnswer(c)
<1>1. ASSUME NEW d \in Channels, FetchAnswer(d) \/ FetchSettle(d) \/ FetchFail(d) PROVE Follows
  <2>1. CASE d = c /\ FetchAnswer(d)
    BY <2>1
  <2>2. CASE d = c /\ ~FetchAnswer(d)
    <3>1. fetch' = [fetch EXCEPT ![c] = NoFetch]
      BY <1>1, <2>2 DEF FetchSettle, FetchFail
    <3> QED
      BY <3>1 DEF TypeOK, NoFetch
  <2>3. CASE d # c
    BY <1>1, <2>3 DEF FetchAnswer, FetchSettle, FetchFail, TypeOK
  <2> QED
    BY <2>1, <2>2, <2>3
<1>2. ASSUME NEW p \in Threads, RepliesAnswer(p) \/ RepliesSettle(p) \/ RepliesFail(p) PROVE Follows
  BY <1>2 DEF RepliesAnswer, RepliesSettle, RepliesFail, RepliesChange
<1>3. ASSUME NEW d \in Channels, NEW cached \in BOOLEAN, Switch(d, cached) PROVE Follows
  <2>1. Rendered(d, cached, cache, replies, TRUE, {}) /\ fetch' = [fetch EXCEPT ![d] = Mounting(@)]
    BY <1>3 DEF Switch
  <2>2. fetch'[c] = fetch[c] \/ (fetch'[c].at = "out" /\ fetch'[c].list = <<>>)
    BY <2>1, MovesIs
  <2> QED
    BY <2>2
<1>4. CASE LinkLost \/ ScrollUp \/ Others \/ UNCHANGED vars
  BY <1>4 DEF LinkLost, ScrollUp, Others, vars
<1>5. CASE Mount
  <2>1. /\ Rendered(cur, TRUE, cache, replies, TRUE, {}) /\ fetch' = [fetch EXCEPT ![cur] = Mounting(@)]
        /\ cur \in Channels
    BY <1>5 DEF Mount, TypeOK
  <2>2. fetch'[c] = fetch[c] \/ (fetch'[c].at = "out" /\ fetch'[c].list = <<>>)
    BY <2>1, MovesIs
  <2> QED
    BY <2>2
<1>6. ASSUME NEW r \in older, OlderSettle(r) \/ OlderFail(r) PROVE Follows
  BY <1>6 DEF OlderSettle, OlderFail
<1>7. ASSUME NEW p \in {0} \cup Threads, Send(p) PROVE Follows
  BY <1>7 DEF Send
<1>8. ASSUME NEW k \in DOMAIN sends, SendSettle(k) PROVE Follows
  BY <1>8 DEF SendSettle
<1>9. ASSUME NEW again \in BOOLEAN, Receive(again) PROVE Follows
  <2>1. CASE fetch' = fetch
    BY <2>1
  <2>2. ASSUME Touched PROVE Follows
    <3>1. fetch'[c] = fetch[c] \/ (fetch'[c].at = "out" /\ fetch'[c].list = <<>>)
      BY <2>2, TouchedTyped
    <3> QED
      BY <3>1
  <2> QED
    BY <1>9, <2>1, <2>2, ReceiveIs DEF MessageCreated
<1> QED
  BY <1>1, <1>2, <1>3, <1>4, <1>5, <1>6, <1>7, <1>8, <1>9, ActionCases

LEMMA OlderFollows ==
  ASSUME TypeOK, [Next]_vars, NEW r \in older'
  PROVE  \/ \E s \in older : s.ch = r.ch /\ s.before = r.before
         \/ ScrollUp /\ cache[cur].list # <<>> /\ r.ch = cur /\ r.before = Last(cache[cur].list)
<1>1. CASE older' = older
  BY <1>1
<1>2. ASSUME NEW c \in Channels, NEW cached \in BOOLEAN, Switch(c, cached)
      PROVE  \E s \in older : s.ch = r.ch /\ s.before = r.before
  <2>1. r \in older \/ \E s \in older : r = [s EXCEPT !.live = FALSE]
    BY <1>2 DEF Switch
  <2>2. \A s \in older : s \in Older
    BY DEF TypeOK
  <2> QED
    BY <2>1, <2>2 DEF Older
<1>3. ASSUME NEW s \in older, OlderSettle(s) \/ OlderFail(s) PROVE r \in older
  BY <1>3 DEF OlderSettle, OlderFail
<1>4. CASE ScrollUp
  <2>1. r \in older \/ r = [ch |-> cur, before |-> Last(cache[cur].list), live |-> TRUE]
    BY <1>4 DEF ScrollUp
  <2>2. cache[cur].list # <<>>
    BY <1>4 DEF ScrollUp
  <2> QED
    BY <1>4, <2>1, <2>2
<1>5. ASSUME NEW c \in Channels, FetchAnswer(c) \/ FetchSettle(c) \/ FetchFail(c) PROVE older' = older
  BY <1>5 DEF FetchAnswer, FetchSettle, FetchFail, paging
<1>6. ASSUME NEW p \in Threads, RepliesAnswer(p) \/ RepliesSettle(p) \/ RepliesFail(p) PROVE older' = older
  BY <1>6 DEF RepliesAnswer, RepliesSettle, RepliesFail, RepliesChange, paging
<1>7. CASE LinkLost \/ Mount \/ Others \/ UNCHANGED vars
  BY <1>1, <1>7 DEF LinkLost, Mount, Others, vars, paging
<1>8. ASSUME NEW p \in {0} \cup Threads, Send(p) PROVE older' = older
  BY <1>8 DEF Send, paging
<1>9. ASSUME NEW k \in DOMAIN sends, SendSettle(k) PROVE older' = older
  BY <1>9 DEF SendSettle, paging
<1>10. ASSUME NEW again \in BOOLEAN, Receive(again) PROVE older' = older
  BY <1>10, ReceiveIs DEF paging
<1> QED
  BY <1>1, <1>2, <1>3, <1>4, <1>5, <1>6, <1>7, <1>8, <1>9, <1>10, ActionCases

LEMMA ThreadsFollow ==
  ASSUME TypeOK, Sent, [Next]_vars, NEW p \in Threads
  PROVE  \/ /\ replies'[p].list = replies[p].list /\ replies'[p].loaded = replies[p].loaded
            /\ replies'[p].got \in {replies[p].got, <<>>}
         \/ RepliesAnswer(p)
         \/ RepliesSettle(p)
         \/ \E id \in RepliesTo(p) :
               /\ id \notin Range(replies[p].list) /\ replies[p].loaded /\ replies'[p].loaded
               /\ replies'[p].list = Append(replies[p].list, id) /\ replies'[p].got = replies[p].got
<1> DEFINE Stays == /\ replies'[p].list = replies[p].list /\ replies'[p].loaded = replies[p].loaded
                    /\ replies'[p].got \in {replies[p].got, <<>>}
           Grew == \E id \in RepliesTo(p) :
               /\ id \notin Range(replies[p].list) /\ replies[p].loaded /\ replies'[p].loaded
               /\ replies'[p].list = Append(replies[p].list, id) /\ replies'[p].got = replies[p].got
<1>1. ASSUME NEW c \in Channels, FetchAnswer(c) \/ FetchSettle(c) \/ FetchFail(c) PROVE Stays
  <2>1. CASE FetchSettle(c)
    BY <2>1, FetchSettleIs
  <2>2. CASE ~FetchSettle(c)
    BY <1>1, <2>2 DEF FetchAnswer, FetchFail
  <2> QED
    BY <2>1, <2>2
<1>2. ASSUME NEW q \in Threads, RepliesAnswer(q) \/ RepliesSettle(q) \/ RepliesFail(q)
      PROVE  Stays \/ RepliesAnswer(p) \/ RepliesSettle(p)
  <2>1. CASE q = p /\ ~RepliesFail(p)
    BY <1>2, <2>1
  <2>2. CASE RepliesFail(p)
    <3>1. replies' = [replies EXCEPT ![p] = [replies[p] EXCEPT !.fetch = "idle"]]
      BY <2>2 DEF RepliesFail, RepliesChange
    <3>2. replies[p] \in Thread /\ DOMAIN replies = Threads
      BY DEF TypeOK
    <3> QED
      BY <3>1, <3>2 DEF Thread
  <2>3. CASE q # p
    BY <1>2, <2>3 DEF RepliesAnswer, RepliesSettle, RepliesFail, RepliesChange, TypeOK
  <2> QED
    BY <1>2, <2>1, <2>2, <2>3
<1>3. ASSUME NEW c \in Channels, NEW cached \in BOOLEAN, Switch(c, cached) PROVE Stays
  <2>1. Rendered(c, cached, cache, replies, TRUE, {}) /\ fetch' = [fetch EXCEPT ![c] = Mounting(@)]
    BY <1>3 DEF Switch
  <2> QED
    BY <2>1, MovesIs
<1>4. CASE LinkLost \/ ScrollUp \/ Others \/ UNCHANGED vars
  BY <1>4 DEF LinkLost, ScrollUp, Others, vars
<1>5. CASE Mount
  <2>1. /\ Rendered(cur, TRUE, cache, replies, TRUE, {}) /\ fetch' = [fetch EXCEPT ![cur] = Mounting(@)]
        /\ cur \in Channels
    BY <1>5 DEF Mount, TypeOK
  <2> QED
    BY <2>1, MovesIs
<1>6. ASSUME NEW r \in older, OlderSettle(r) \/ OlderFail(r) PROVE Stays
  <2>1. CASE OlderSettle(r)
    BY <2>1, OlderSettleIs
  <2>2. CASE OlderFail(r)
    BY <2>2 DEF OlderFail
  <2> QED
    BY <1>6, <2>1, <2>2
<1>7. ASSUME NEW q \in {0} \cup Threads, Send(q) PROVE Stays
  <2>1. PICK k \in DOMAIN sends : Grows(cur, <<-k>> \o cache[cur].list)
    BY <1>7, SendIs
  <2>2. cur \in Channels /\ <<-k>> \o cache[cur].list \in Seq(Int)
    <3>1. cur \in Channels /\ -k \in Int
      BY PostedTyped DEF TypeOK
    <3> QED
      BY <3>1, FeedListIs, PutIs
  <2> QED
    BY <2>1, <2>2, GrowsIs
<1>8. ASSUME NEW k \in DOMAIN sends, SendSettle(k) PROVE Stays
  BY <1>8, SendSettleIs
<1>9. ASSUME NEW again \in BOOLEAN, Receive(again) PROVE Stays \/ Grew
  <2>1. CASE replies' = replies
    BY <2>1
  <2>2. ASSUME Touched PROVE Stays
    BY <2>2, TouchedTyped
  <2>3. ASSUME NEW id \in DOMAIN posted, mounted, MessageCreated(id) PROVE Stays \/ Grew
    <3>1. PICK i \in EchoOf(posted[id], cache[cur].list) :
            IF posted[id].parent = 0 THEN Grows(cur, Created(id, i)) ELSE ReplyCreated(id, posted[id].parent, i)
      BY <2>3 DEF MessageCreated
    <3>2. CASE posted[id].parent = 0
      <4>1. Created(id, i) \in Seq(Int) /\ cur \in Channels
        BY CreatedIs DEF TypeOK
      <4> QED
        BY <3>1, <3>2, <4>1, GrowsIs
    <3>3. CASE posted[id].parent # 0
      <4>1. posted[id].parent \in Threads
        BY <3>3, PostedTyped
      <4>2. /\ replies'[p].loaded = replies[p].loaded /\ replies'[p].got = replies[p].got
            /\ replies'[p].list =
                 IF p = posted[id].parent /\ replies[posted[id].parent].loaded
                    /\ id \notin Range(replies[posted[id].parent].list)
                 THEN Append(replies[p].list, id) ELSE replies[p].list
        BY <3>1, <3>3, <4>1, ReplyCreatedIs
      <4>3. CASE p = posted[id].parent /\ replies[p].loaded /\ id \notin Range(replies[p].list)
        <5>1. id \in RepliesTo(p)
          BY <4>3 DEF RepliesTo
        <5> QED
          BY <4>2, <4>3, <5>1
      <4>4. CASE ~(p = posted[id].parent /\ replies[p].loaded /\ id \notin Range(replies[p].list))
        BY <4>2, <4>4
      <4> QED
        BY <4>3, <4>4
    <3> QED
      BY <3>2, <3>3
  <2> QED
    BY <1>9, <2>1, <2>2, <2>3, ReceiveIs
<1> QED
  BY <1>1, <1>2, <1>3, <1>4, <1>5, <1>6, <1>7, <1>8, <1>9, ActionCases

\* What is known is a message, at the top level of a feed that shows it or a reply told of.
LEMMA KnownFollows ==
  ASSUME TypeOK, Sent, [Next]_vars
  PROVE  /\ known \subseteq known'
         /\ \A i \in known' \ known :
               /\ i \in DOMAIN posted
               /\ \/ \E c \in Channels : i \in TopLevel(c) /\ i \in Range(cache'[c].list)
                  \/ /\ posted[i].parent \in Threads
                     /\ replies'[posted[i].parent].loaded => i \in Range(replies'[posted[i].parent].list)
<1> DEFINE Seen == known' = known \cup UNION {Range(cache'[d].list) \cap TopLevel(d) : d \in Channels}
<1>1. ASSUME NEW c \in Channels, FetchAnswer(c) \/ FetchSettle(c) \/ FetchFail(c) PROVE known' = known \/ Seen
  <2>1. CASE FetchSettle(c)
    BY <2>1, FetchSettleIs
  <2>2. CASE ~FetchSettle(c)
    BY <1>1, <2>2 DEF FetchAnswer, FetchFail
  <2> QED
    BY <2>1, <2>2
<1>2. ASSUME NEW q \in Threads, RepliesAnswer(q) \/ RepliesSettle(q) \/ RepliesFail(q) PROVE known' = known
  BY <1>2 DEF RepliesAnswer, RepliesSettle, RepliesFail, RepliesChange
<1>3. ASSUME NEW c \in Channels, NEW cached \in BOOLEAN, Switch(c, cached) PROVE Seen
  <2>1. Rendered(c, cached, cache, replies, TRUE, {}) /\ fetch' = [fetch EXCEPT ![c] = Mounting(@)]
    BY <1>3 DEF Switch
  <2> QED
    BY <2>1, MovesIs
<1>4. CASE LinkLost \/ ScrollUp \/ Others \/ UNCHANGED vars
  BY <1>4 DEF LinkLost, ScrollUp, Others, vars
<1>5. ASSUME Mount PROVE Seen
  <2>1. /\ Rendered(cur, TRUE, cache, replies, TRUE, {}) /\ fetch' = [fetch EXCEPT ![cur] = Mounting(@)]
        /\ cur \in Channels
    BY <1>5 DEF Mount, TypeOK
  <2> QED
    BY <2>1, MovesIs
<1>6. ASSUME NEW r \in older, OlderSettle(r) \/ OlderFail(r) PROVE known' = known \/ Seen
  <2>1. CASE OlderSettle(r)
    BY <2>1, OlderSettleIs
  <2>2. CASE OlderFail(r)
    BY <2>2 DEF OlderFail
  <2> QED
    BY <1>6, <2>1, <2>2
<1>7. ASSUME NEW q \in {0} \cup Threads, Send(q) PROVE Seen
  <2>1. PICK k \in DOMAIN sends : Grows(cur, <<-k>> \o cache[cur].list)
    BY <1>7, SendIs
  <2>2. cur \in Channels /\ <<-k>> \o cache[cur].list \in Seq(Int)
    <3>1. cur \in Channels /\ -k \in Int
      BY PostedTyped DEF TypeOK
    <3> QED
      BY <3>1, FeedListIs, PutIs
  <2> QED
    BY <2>1, <2>2, GrowsIs
<1>8. ASSUME NEW k \in DOMAIN sends, SendSettle(k) PROVE Seen
  BY <1>8, SendSettleIs
<1>9. ASSUME NEW again \in BOOLEAN, Receive(again)
      PROVE  \/ known' = known \/ Seen
             \/ \E id \in DOMAIN posted :
                   /\ known' = known \cup {id} \cup UNION {Range(cache'[d].list) \cap TopLevel(d) : d \in Channels}
                   /\ posted[id].parent \in Threads
                   /\ replies'[posted[id].parent].loaded => id \in Range(replies'[posted[id].parent].list)
  <2>1. CASE known' = known
    BY <2>1
  <2>2. ASSUME NEW id \in DOMAIN posted, mounted, MessageCreated(id)
        PROVE  \/ Seen
               \/ /\ known' = known \cup {id} \cup UNION {Range(cache'[d].list) \cap TopLevel(d) : d \in Channels}
                  /\ posted[id].parent \in Threads
                  /\ replies'[posted[id].parent].loaded => id \in Range(replies'[posted[id].parent].list)
    <3>1. PICK i \in EchoOf(posted[id], cache[cur].list) :
            IF posted[id].parent = 0 THEN Grows(cur, Created(id, i)) ELSE ReplyCreated(id, posted[id].parent, i)
      BY <2>2 DEF MessageCreated
    <3>2. ASSUME posted[id].parent = 0 PROVE Seen
      <4>1. Created(id, i) \in Seq(Int) /\ cur \in Channels
        BY CreatedIs DEF TypeOK
      <4> QED
        BY <3>1, <3>2, <4>1, GrowsIs
    <3>3. CASE posted[id].parent # 0
      <4>1. PICK p \in Threads : p = posted[id].parent
        BY <3>3, PostedTyped
      <4>2. /\ replies'[p].loaded = replies[p].loaded
            /\ replies'[p].list = IF replies[p].loaded /\ id \notin Range(replies[p].list)
                                  THEN Append(replies[p].list, id) ELSE replies[p].list
            /\ known' = known \cup {id} \cup UNION {Range(cache'[d].list) \cap TopLevel(d) : d \in Channels}
        <5>1. ReplyCreated(id, p, i)
          BY <3>1, <3>3, <4>1
        <5> QED
          BY <5>1, ReplyCreatedIs
      <4>3. replies[p].list \in Seq(Nat) /\ id \in Nat
        BY PostedTyped DEF TypeOK, Thread
      <4>4. id \in Range(Append(replies[p].list, id))
        <5>1. PICK s \in Seq(Nat) : s = replies[p].list
          BY <4>3
        <5>2. Len(s) + 1 \in DOMAIN Append(s, id) /\ Append(s, id)[Len(s) + 1] = id
          BY <4>3, <5>1
        <5> QED
          BY <5>1, <5>2, InRange
      <4>5. replies'[p].loaded => id \in Range(replies'[p].list)
        BY <4>2, <4>4
      <4> QED
        BY <4>1, <4>2, <4>5
    <3> QED
      BY <3>2, <3>3
  <2> QED
    BY <1>9, <2>1, <2>2, ReceiveIs DEF Touched
<1>10. \A c \in Channels : TopLevel(c) \subseteq DOMAIN posted
  BY DEF TopLevel
<1>11. CASE known' = known \/ Seen
  BY <1>10, <1>11
<1>12. ASSUME NEW id \in DOMAIN posted,
              known' = known \cup {id} \cup UNION {Range(cache'[d].list) \cap TopLevel(d) : d \in Channels},
              posted[id].parent \in Threads,
              replies'[posted[id].parent].loaded => id \in Range(replies'[posted[id].parent].list)
       PROVE  /\ known \subseteq known'
              /\ \A i \in known' \ known :
                    /\ i \in DOMAIN posted
                    /\ \/ \E c \in Channels : i \in TopLevel(c) /\ i \in Range(cache'[c].list)
                       \/ /\ posted[i].parent \in Threads
                          /\ replies'[posted[i].parent].loaded => i \in Range(replies'[posted[i].parent].list)
  BY <1>10, <1>12
<1> QED
  BY <1>1, <1>2, <1>3, <1>4, <1>5, <1>6, <1>7, <1>8, <1>9, <1>11, <1>12, ActionCases

LEMMA OvertakenFollows ==
  ASSUME TypeOK, [Next]_vars
  PROVE  \/ overtaken' = overtaken
         \/ \E c \in Channels : FetchSettle(c)
         \/ \E p \in Threads : RepliesSettle(p)
<1>1. ASSUME NEW c \in Channels, FetchAnswer(c) \/ FetchFail(c) PROVE overtaken' = overtaken
  BY <1>1 DEF FetchAnswer, FetchFail
<1>2. ASSUME NEW p \in Threads, RepliesAnswer(p) \/ RepliesFail(p) PROVE overtaken' = overtaken
  BY <1>2 DEF RepliesAnswer, RepliesFail
<1>3. ASSUME NEW c \in Channels, NEW cached \in BOOLEAN, Switch(c, cached) PROVE overtaken' = overtaken
  BY <1>3 DEF Switch
<1>4. CASE LinkLost \/ Mount \/ ScrollUp \/ Others \/ UNCHANGED vars
  BY <1>4 DEF LinkLost, Mount, ScrollUp, Others, vars
<1>5. ASSUME NEW r \in older, OlderSettle(r) \/ OlderFail(r) PROVE overtaken' = overtaken
  BY <1>5 DEF OlderSettle, OlderFail
<1>6. ASSUME NEW p \in {0} \cup Threads, Send(p) PROVE overtaken' = overtaken
  BY <1>6 DEF Send
<1>7. ASSUME NEW k \in DOMAIN sends, SendSettle(k) PROVE overtaken' = overtaken
  BY <1>7 DEF SendSettle
<1>8. ASSUME NEW again \in BOOLEAN, Receive(again) PROVE overtaken' = overtaken
  BY <1>8, ReceiveIs
<1> QED
  BY <1>1, <1>2, <1>3, <1>4, <1>5, <1>6, <1>7, <1>8, ActionCases

LEMMA EmptyIs == IsInjective(<<>>) /\ Range(<<>>) = {}
<1>1. DOMAIN <<>> = {}
  OBVIOUS
<1> QED
  BY <1>1, InRange DEF IsInjective

LEMMA LastIn ==
  ASSUME NEW list \in Seq(Int), list # <<>>
  PROVE  Last(list) \in Range(list)
<1>1. Len(list) \in DOMAIN list
  BY LenProperties, EmptySeq
<1> QED
  BY <1>1, InRange DEF Last

LEMMA AppendIs ==
  ASSUME NEW list \in Seq(Nat), NEW id \in Nat
  PROVE  /\ Range(Append(list, id)) = Range(list) \cup {id}
         /\ IsInjective(list) /\ id \notin Range(list) => IsInjective(Append(list, id))
<1>1. PICK n \in Nat : n = Len(list)
  OBVIOUS
<1>2. /\ DOMAIN list = 1..n /\ DOMAIN Append(list, id) = 1..(n + 1)
      /\ \A j \in 1..n : Append(list, id)[j] = list[j]
      /\ Append(list, id)[n + 1] = id
  BY <1>1
<1>3. Range(Append(list, id)) = Range(list) \cup {id}
  <2>1. \A j : j \in 1..(n + 1) <=> j \in 1..n \/ j = n + 1
    BY <1>1
  <2>2. PICK s : s = Append(list, id)
    OBVIOUS
  <2>3. ASSUME NEW x PROVE x \in Range(s) <=> x \in Range(list) \cup {id}
    <3>1. x \in Range(s) <=> \E j \in 1..(n + 1) : s[j] = x
      <4>1. DOMAIN s = 1..(n + 1)
        BY <1>2, <2>2
      <4>2. x \in Range(s) <=> \E j \in DOMAIN s : s[j] = x
        BY InRange
      <4> QED
        BY <4>1, <4>2
    <3>2. x \in Range(list) <=> \E j \in 1..n : list[j] = x
      BY <1>2, InRange
    <3>3. (\A j \in 1..n : s[j] = list[j]) /\ s[n + 1] = id
      BY <1>2, <2>2
    <3> QED
      BY <2>1, <3>1, <3>2, <3>3
  <2> QED
    BY <2>2, <2>3
<1>4. ASSUME IsInjective(list), id \notin Range(list) PROVE IsInjective(Append(list, id))
  <2>1. \A j \in 1..n : list[j] # id
    BY <1>2, <1>4, InRange
  <2>2. \A j \in 1..(n + 1) : j \in 1..n \/ j = n + 1
    BY <1>1
  <2> QED
    BY <1>2, <1>4, <2>1, <2>2 DEF IsInjective
<1> QED
  BY <1>3, <1>4

LEMMA SetsGrow ==
  ASSUME TypeOK, Sent, [Next]_vars
  PROVE  /\ \A c : TopLevel(c) = TopLevel(c)' \cap DOMAIN posted
         /\ \A p : RepliesTo(p) = RepliesTo(p)' \cap DOMAIN posted
         /\ \A c : \A i \in TopLevel(c)' \ TopLevel(c) : i \notin DOMAIN posted /\ \A j \in DOMAIN posted : j < i
  BY ServerKept DEF TopLevel, RepliesTo

LEMMA AnswersKept ==
  ASSUME Entries, [Next]_vars
  PROVE  Answers'
<1> TypeOK /\ Sent /\ Feeds /\ Answers /\ TypeOK'
  BY TypesKept DEF Entries
<1>1. /\ \A c : TopLevel(c) \subseteq TopLevel(c)'
      /\ \A p : RepliesTo(p) \subseteq RepliesTo(p)'
      /\ DOMAIN posted \subseteq DOMAIN posted'
  BY SetsGrow, ServerKept
<1>2. ASSUME NEW c \in Channels
      PROVE  IsInjective(fetch'[c].list) /\ Range(fetch'[c].list) \subseteq TopLevel(c)'
  <2>1. ASSUME fetch'[c] = fetch[c] \/ fetch'[c].list = <<>>
        PROVE  IsInjective(fetch'[c].list) /\ Range(fetch'[c].list) \subseteq TopLevel(c)'
    BY <1>1, <2>1, EmptyIs DEF Answers
  <2>2. ASSUME FetchAnswer(c)
        PROVE  IsInjective(fetch'[c].list) /\ Range(fetch'[c].list) \subseteq TopLevel(c)'
    <3>1. fetch'[c].list = Newest(TopLevel(c), FirstPage)
      BY <2>2 DEF FetchAnswer, TypeOK
    <3>2. FirstPage \in Nat \ {0}
      BY ChatFeedAssumption
    <3> QED
      BY <1>1, <3>1, <3>2, TopLevelIs, NewestIs
  <2> QED
    BY <2>1, <2>2, FetchFollows
<1>3. ASSUME NEW r \in older', r.before > 0 PROVE r.before \in DOMAIN posted'
  <2>1. CASE \E s \in older : s.ch = r.ch /\ s.before = r.before
    BY <1>1, <1>3, <2>1 DEF Answers
  <2>2. CASE cache[cur].list # <<>> /\ r.before = Last(cache[cur].list)
    <3>1. cur \in Channels /\ cache[cur].list \in Seq(Int)
      BY FeedListIs DEF TypeOK
    <3>2. r.before \in Shown(cur)
      BY <2>2, <3>1, LastIn DEF Shown
    <3> QED
      BY <1>1, <1>3, <3>1, <3>2, ShownIs
  <2> QED
    BY <2>1, <2>2, OlderFollows
<1>4. ASSUME NEW p \in Threads
      PROVE  /\ IsInjective(replies'[p].list) /\ Range(replies'[p].list) \subseteq RepliesTo(p)'
             /\ IsInjective(replies'[p].got) /\ Range(replies'[p].got) \subseteq RepliesTo(p)'
  <2> DEFINE Good == /\ IsInjective(replies'[p].list) /\ Range(replies'[p].list) \subseteq RepliesTo(p)'
                     /\ IsInjective(replies'[p].got) /\ Range(replies'[p].got) \subseteq RepliesTo(p)'
  <2>1. ASSUME replies'[p].list = replies[p].list, replies'[p].got \in {replies[p].got, <<>>}
        PROVE  Good
    BY <1>1, <2>1, EmptyIs DEF Answers
  <2>2. ASSUME RepliesAnswer(p) PROVE Good
    <3>1. replies' = [replies EXCEPT ![p] = [replies[p] EXCEPT !.fetch = "back", !.got = Ascending(RepliesTo(p))]]
      BY <2>2 DEF RepliesAnswer, RepliesChange
    <3>2. replies'[p].list = replies[p].list /\ replies'[p].got = Ascending(RepliesTo(p))
      BY <3>1 DEF TypeOK, Thread
    <3> QED
      BY <1>1, <3>2, RepliesToIs DEF Answers
  <2>3. ASSUME RepliesSettle(p) PROVE Good
    <3>1. replies' = [replies EXCEPT ![p] = [NoReplies EXCEPT !.loaded = TRUE, !.list = replies[p].got]]
      BY <2>3 DEF RepliesSettle, RepliesChange
    <3>2. replies'[p].list = replies[p].got /\ replies'[p].got = <<>>
      BY <3>1 DEF TypeOK, NoReplies
    <3> QED
      BY <1>1, <3>2, EmptyIs DEF Answers
  <2>4. ASSUME NEW id \in RepliesTo(p), id \notin Range(replies[p].list),
               replies'[p].list = Append(replies[p].list, id), replies'[p].got = replies[p].got
        PROVE  Good
    <3>1. id \in Nat /\ replies[p].list \in Seq(Nat)
      BY RepliesToIs DEF TypeOK, Thread
    <3>2. IsInjective(replies'[p].list) /\ Range(replies'[p].list) = Range(replies[p].list) \cup {id}
      BY <2>4, <3>1, AppendIs DEF Answers
    <3> QED
      BY <1>1, <2>4, <3>2 DEF Answers
  <2> QED
    BY <2>1, <2>2, <2>3, <2>4, ThreadsFollow
<1>5. known' \subseteq DOMAIN posted'
  BY <1>1, KnownFollows DEF Answers
<1> QED
  BY <1>2, <1>3, <1>4, <1>5 DEF Answers

LEMMA EntriesKept ==
  ASSUME Entries, [Next]_vars
  PROVE  Entries'
<1>1. TypeOK /\ Sent
  BY DEF Entries
<1>2. TypeOK' /\ Sent'
  BY <1>1, TypesKept, SentKept
<1> QED
  BY <1>2, FeedsKept, AnswersKept DEF Entries

LEMMA InitEntries == Init => Entries
<1> SUFFICES ASSUME Init PROVE Entries
  OBVIOUS
<1>1. TypeOK /\ Sent
  BY InitTyped
<1>2. \A c \in Channels : /\ cache[c].list = <<>> /\ cache[c].upto = 0 /\ reads[c] = 0
                          /\ fetch[c].list = <<>>
  BY DEF Init, Out, NoFetch
<1>3. \A p \in Threads : replies[p].list = <<>> /\ replies[p].got = <<>>
  BY DEF Init, NoReplies
<1>4. Feeds
  <2>1. Len(posted) >= 0
    BY <1>1, PostedTyped
  <2> QED
    BY <1>2, <2>1, EmptyIs DEF Feeds, Shown
<1>5. Answers
  BY <1>2, <1>3, EmptyIs DEF Answers, Init
<1> QED
  BY <1>1, <1>4, <1>5 DEF Entries

\* In every state: the cached feeds and threads hold messages of their own channel and
\* thread, each once.
LEMMA EntriesHold == Spec => []Entries
<1>1. Init => Entries
  BY InitEntries
<1>2. Entries /\ [Next]_vars => Entries'
  BY EntriesKept
<1> QED
  BY <1>1, <1>2, PTL DEF Spec

\* EachOnce: no event delivered twice, no older page and no late answer puts a
\* message in a feed or a thread a second time.
THEOREM ShownOnce == Spec => []EachOnce
<1>1. Entries => EachOnce
  BY DEF Entries, Feeds, Answers, EachOnce
<1> QED
  BY <1>1, EntriesHold, PTL

\* StaysInChannel: whatever comes back after the channel was changed, a feed, a
\* thread and a watermark are of their own channel, unless a send was strayed.
THEOREM OwnChannelOnly == Spec => []StaysInChannel
<1>1. ASSUME Entries PROVE StaysInChannel
  <2>1. TypeOK /\ Feeds /\ Answers
    BY <1>1 DEF Entries
  <2>2. ASSUME NEW c \in Channels, ~strayed
        PROVE  LET own == {i \in DOMAIN posted : posted[i].ch = c} \cup {-k : k \in DOMAIN sends}
               IN  Range(cache[c].list) \subseteq own /\ reads[c] \in {0} \cup (own \cap DOMAIN posted)
    <3> DEFINE own == {i \in DOMAIN posted : posted[i].ch = c} \cup {-k : k \in DOMAIN sends}
    <3>1. ASSUME NEW x \in Range(cache[c].list) PROVE x \in own
      <4>1. x \in Int /\ \/ x \in DOMAIN posted /\ posted[x].ch = c
                         \/ -x \in DOMAIN sends
        BY <1>1, <2>2, <3>1, ShownIs DEF Shown
      <4>2. -(-x) = x
        BY <4>1
      <4> QED
        BY <4>1, <4>2
    <3>2. reads[c] \in {0} \cup (own \cap DOMAIN posted)
      BY <2>1, <2>2 DEF Feeds
    <3> QED
      BY <3>1, <3>2
  <2> QED
    BY <2>1, <2>2 DEF StaysInChannel, Answers
<1> QED
  BY <1>1, EntriesHold, PTL

LEMMA RepliesKept ==
  ASSUME Entries, RepliesShown, [Next]_vars
  PROVE  RepliesShown'
<1> TypeOK /\ Sent /\ Answers
  BY DEF Entries
<1> SUFFICES ASSUME NEW i \in known', posted'[i].parent # 0, replies'[posted'[i].parent].loaded
             PROVE  i \in Range(replies'[posted'[i].parent].list) \cup overtaken'
  BY DEF RepliesShown
<1>1. i \in DOMAIN posted /\ posted'[i] = posted[i]
  BY KnownFollows, ServerKept DEF Answers
<1>2. PICK p \in Threads : p = posted[i].parent
  BY <1>1, PostedTyped
<1>3. replies'[p].loaded /\ i \in RepliesTo(p) /\ \A c \in Channels : i \notin TopLevel(c)
  BY <1>1, <1>2 DEF RepliesTo, TopLevel
<1> SUFFICES i \in Range(replies'[p].list) \cup overtaken'
  BY <1>1, <1>2
<1>4. CASE i \notin known
  BY <1>2, <1>3, <1>4, KnownFollows
<1>5. CASE i \in known
  <2>1. ASSUME NEW q \in Threads, RepliesSettle(q)
        PROVE  /\ replies' = [replies EXCEPT ![q] = [NoReplies EXCEPT !.loaded = TRUE, !.list = replies[q].got]]
               /\ overtaken' = (overtaken \cup (known \cap RepliesTo(q))) \ Range(replies[q].got)
    BY <2>1 DEF RepliesSettle, RepliesChange
  <2>2. CASE RepliesSettle(p)
    <3>1. replies'[p].list = replies[p].got
      <4>1. replies' = [replies EXCEPT ![p] = [NoReplies EXCEPT !.loaded = TRUE, !.list = replies[p].got]]
        BY <2>1, <2>2
      <4> QED
        BY <4>1 DEF TypeOK, NoReplies
    <3> QED
      BY <1>3, <1>5, <2>1, <2>2, <3>1
  <2>3. CASE ~RepliesSettle(p)
    <3>1. i \in overtaken => i \in overtaken'
      <4>1. ASSUME NEW c \in Channels, FetchSettle(c), i \in overtaken PROVE i \in overtaken'
        <5>1. Range(fetch[c].list) \subseteq TopLevel(c)
          BY DEF Answers
        <5>2. i \notin Range(fetch[c].list)
          BY <1>3, <5>1
        <5> QED
          BY <4>1, <5>2 DEF FetchSettle
      <4>2. ASSUME NEW q \in Threads, RepliesSettle(q), i \in overtaken PROVE i \in overtaken'
        <5>1. q # p /\ Range(replies[q].got) \subseteq RepliesTo(q)
          BY <2>3, <4>2 DEF Answers
        <5>2. i \notin Range(replies[q].got)
          BY <1>2, <5>1 DEF RepliesTo
        <5> QED
          BY <2>1, <4>2, <5>2
      <4> QED
        BY <4>1, <4>2, OvertakenFollows
    <3>2. ASSUME replies[p].loaded PROVE i \in Range(replies[p].list) \cup overtaken
      BY <1>1, <1>2, <1>5, <3>2 DEF RepliesShown
    <3>3. ASSUME replies'[p].list = replies[p].list, replies'[p].loaded = replies[p].loaded
          PROVE  i \in Range(replies'[p].list) \cup overtaken'
      BY <1>3, <3>1, <3>2, <3>3
    <3>4. ASSUME RepliesAnswer(p) PROVE i \in Range(replies'[p].list) \cup overtaken'
      <4>1. replies' = [replies EXCEPT ![p] = [replies[p] EXCEPT !.fetch = "back", !.got = Ascending(RepliesTo(p))]]
        BY <3>4 DEF RepliesAnswer, RepliesChange
      <4>2. replies'[p].list = replies[p].list /\ replies'[p].loaded = replies[p].loaded
        BY <4>1 DEF TypeOK, Thread
      <4> QED
        BY <3>3, <4>2
    <3>5. ASSUME NEW id \in RepliesTo(p), replies[p].loaded, replies'[p].list = Append(replies[p].list, id)
          PROVE  i \in Range(replies'[p].list) \cup overtaken'
      <4>1. id \in Nat /\ replies[p].list \in Seq(Nat)
        BY RepliesToIs DEF TypeOK, Thread
      <4>2. Range(replies'[p].list) = Range(replies[p].list) \cup {id}
        BY <3>5, <4>1, AppendIs
      <4> QED
        BY <3>1, <3>2, <3>5, <4>2
    <3> QED
      BY <2>3, <3>3, <3>4, <3>5, ThreadsFollow
  <2> QED
    BY <2>2, <2>3
<1> QED
  BY <1>4, <1>5

\* RepliesShown: a reply the feed was told of is in its thread once that is loaded,
\* unless an older answer took it away again.
THEOREM ToldRepliesShown == Spec => []RepliesShown
<1>1. Init => RepliesShown
  BY DEF Init, RepliesShown
<1>2. Entries /\ RepliesShown /\ [Next]_vars => RepliesShown'
  BY RepliesKept
<1> QED
  BY <1>1, <1>2, EntriesHold, PTL DEF Spec

LEMMA PostedFollows ==
  ASSUME TypeOK, [Next]_vars
  PROVE  posted' = posted \/ Others
<1>1. ASSUME NEW c \in Channels, FetchAnswer(c) \/ FetchSettle(c) \/ FetchFail(c) PROVE posted' = posted
  BY <1>1 DEF FetchAnswer, FetchSettle, FetchFail, server
<1>2. ASSUME NEW p \in Threads, RepliesAnswer(p) \/ RepliesSettle(p) \/ RepliesFail(p) PROVE posted' = posted
  BY <1>2 DEF RepliesAnswer, RepliesSettle, RepliesFail, RepliesChange, server
<1>3. ASSUME NEW c \in Channels, NEW cached \in BOOLEAN, Switch(c, cached) PROVE posted' = posted
  BY <1>3 DEF Switch, server
<1>4. CASE LinkLost \/ Mount \/ ScrollUp \/ UNCHANGED vars
  BY <1>4 DEF LinkLost, Mount, ScrollUp, vars, server
<1>5. ASSUME NEW r \in older, OlderSettle(r) \/ OlderFail(r) PROVE posted' = posted
  BY <1>5 DEF OlderSettle, OlderFail, server
<1>6. ASSUME NEW p \in {0} \cup Threads, Send(p) PROVE posted' = posted
  BY <1>6 DEF Send, server
<1>7. ASSUME NEW k \in DOMAIN sends, SendSettle(k) PROVE posted' = posted
  BY <1>7 DEF SendSettle, server
<1>8. ASSUME NEW again \in BOOLEAN, Receive(again) PROVE posted' = posted
  BY <1>8, ReceiveIs
<1> QED
  BY <1>1, <1>2, <1>3, <1>4, <1>5, <1>6, <1>7, <1>8, ActionCases

\* What can change the feed of channel c.
LEMMA FeedCases ==
  ASSUME Entries, [Next]_vars, NEW c \in Channels
  PROVE  \/ cache'[c].list = cache[c].list /\ cache'[c].upto = cache[c].upto
         \/ FetchSettle(c)
         \/ \E again \in BOOLEAN, id \in DOMAIN posted :
               Receive(again) /\ mounted /\ cur = c /\ posted[id].ch = c /\ MessageCreated(id)
         \/ \E p \in {0} \cup Threads : Send(p) /\ cur = c
         \/ \E k \in DOMAIN sends : SendSettle(k) /\ sends[k].key = c
         \/ \E r \in older : OlderSettle(r) /\ r.ch = c
<1> TypeOK /\ Sent
  BY DEF Entries
<1> DEFINE Same0 == cache'[c].list = cache[c].list /\ cache'[c].upto = cache[c].upto
<1>1. ASSUME NEW d \in Channels, FetchSettle(d), d # c PROVE Same0
  BY <1>1, FetchSettleIs
<1>2. ASSUME NEW id \in DOMAIN posted, mounted, MessageCreated(id), cur # c PROVE Same0
  <2>1. PICK drop : Edited(cur, IF posted[id].parent = 0 THEN {id} ELSE {}, drop)
    BY <1>2, CreatedEdits
  <2> QED
    BY <1>2, <2>1 DEF Edited
<1>3. ASSUME NEW p \in {0} \cup Threads, Send(p), cur # c PROVE Same0
  <2>1. PICK k \in DOMAIN sends : Edited(cur, {-k}, {})
    BY <1>3, SendEdits
  <2> QED
    BY <1>3, <2>1 DEF Edited
<1>4. ASSUME NEW k \in DOMAIN sends, SendSettle(k), sends[k].key # c PROVE Same0
  BY <1>4, SettleEdits DEF Edited
<1>5. ASSUME NEW r \in older, OlderSettle(r), r.ch # c PROVE Same0
  BY <1>5, OlderSettleIs
<1>6. CASE cache' = cache
  BY <1>6
<1> QED
  BY <1>1, <1>2, <1>3, <1>4, <1>5, <1>6, FeedSteps

-----------------------------------------------------------------------------
(* The temps *)

\* A temp in a feed was there before, or is the one of the message being sent.
LEMMA TempsFollow ==
  ASSUME Entries, [Next]_vars, NEW c \in Channels, NEW k \in DOMAIN sends,
         -k \in Range(cache'[c].list)
  PROVE  -k \in Shown(c) \/ \E p \in {0} \cup Threads : Send(p) /\ cur = c
<1> TypeOK /\ Sent /\ Answers
  BY DEF Entries
<1>0. -k \in Int /\ -k < 0 /\ -k \notin DOMAIN posted
  BY ShownIs, PostedTyped
<1>1. CASE cache'[c].list = cache[c].list
  BY <1>1 DEF Shown
<1>2. ASSUME FetchSettle(c) PROVE FALSE
  <2>1. -k \in TopLevel(c)
    BY <1>2, FetchSettleIs DEF Answers
  <2> QED
    BY <1>0, <2>1 DEF TopLevel
<1>3. ASSUME NEW id \in DOMAIN posted, mounted, cur = c, MessageCreated(id) PROVE -k \in Shown(c)
  <2>1. PICK drop : Edited(cur, IF posted[id].parent = 0 THEN {id} ELSE {}, drop)
    BY <1>3, CreatedEdits
  <2> QED
    BY <1>0, <1>3, <2>1 DEF Edited
<1>4. ASSUME NEW j \in DOMAIN sends, SendSettle(j), sends[j].key = c PROVE -k \in Shown(c)
  <2>1. PICK add : add = IF sends[j].at = "posted" THEN {Stored(j)} ELSE {}
    OBVIOUS
  <2>2. Edited(c, add, {-j}) /\ add \subseteq DOMAIN posted
    BY <1>4, <2>1, SettleEdits
  <2> QED
    BY <1>0, <2>2 DEF Edited
<1>5. ASSUME NEW r \in older, OlderSettle(r), r.ch = c PROVE -k \in Shown(c)
  <2>1. /\ Range(cache'[c].list) = Shown(c) \cup Range(Newest(Earlier(r), OlderPage))
        /\ Range(Newest(Earlier(r), OlderPage)) \subseteq DOMAIN posted
    BY <1>5, OlderSettleIs DEF Shown, Earlier, TopLevel
  <2> QED
    BY <1>0, <2>1
<1> QED
  BY <1>1, <1>2, <1>3, <1>4, <1>5, FeedCases

LEMMA SettledStrayed ==
  ASSUME Entries, Temps, [Next]_vars, NEW c \in Channels, NEW k \in DOMAIN sends,
         -k \in Range(cache'[c].list), sends'[k].at = "settled"
  PROVE  strayed'
<1> TypeOK /\ Sent
  BY DEF Entries
<1>1. CASE sends[k].at = "settled"
  <2>1. -k \in Shown(c)
    <3> SUFFICES ASSUME NEW p \in {0} \cup Threads, Send(p), cur = c, -k \notin Shown(c) PROVE FALSE
      BY TempsFollow
    <3>1. PICK j \in DOMAIN sends : /\ sends[j].at = "unsent"
                                    /\ Edited(cur, {-j}, {})
      BY SendEdits
    <3>2. -k = -j
      BY <3>1 DEF Edited
    <3>3. k = j
      BY <3>2, ShownIs
    <3> QED
      BY <1>1, <3>1, <3>3
  <2>2. strayed
    BY <1>1, <2>1 DEF Temps
  <2> QED
    BY <2>2, ServerKept
<1>2. CASE sends[k].at # "settled"
  <2>1. SendSettle(k)
    BY <1>2, ServerKept
  <2>2. sends[k].at \in {"posted", "failed"} /\ sends[k].key \in Channels
    BY <2>1, SendSettleIs
  <2>3. PICK add : add = IF sends[k].at = "posted" THEN {Stored(k)} ELSE {}
    OBVIOUS
  <2>4. Edited(sends[k].key, add, {-k}) /\ add \subseteq DOMAIN posted
    BY <2>1, <2>3, SettleEdits
  <2>5. -k \notin DOMAIN posted
    BY ShownIs, PostedTyped
  <2>6. c # sends[k].key /\ -k \in Shown(c)
    BY <2>4, <2>5 DEF Edited, Shown
  <2>7. sends[k].ch = c
    <3>1. -(-k) = k /\ -k < 0
      BY ShownIs
    <3> QED
      BY <2>6, <3>1, ShownIs
  <2>8. strayed
    BY <2>2, <2>6, <2>7 DEF Sent
  <2> QED
    BY <2>8, ServerKept
<1> QED
  BY <1>1, <1>2

\* A temp that stays, and is alone, is older than no page to come back, and the
\* message it stands for is newer than all of the feed.
LEMMA AloneKept ==
  ASSUME Entries, Temps, [Next]_vars, NEW c \in Channels, NEW k \in DOMAIN sends,
         -k \in Shown(c), -k \in Range(cache'[c].list), ~crowded,
         NEW i \in DOMAIN posted, posted[i].send = k
  PROVE  i \notin Range(cache'[c].list) /\ Last(cache'[c].list) < i
<1> TypeOK /\ Sent
  BY DEF Entries
<1>1. /\ \A j \in DOMAIN sends : -j \in Shown(c) => j = k
      /\ i \notin Shown(c) /\ Last(cache[c].list) < i
      /\ \A r \in older : r.ch = c => r.before < i
  BY DEF Temps
<1>2. cache[c].list # <<>>
  BY EmptyIs DEF Shown
<1>3. -k < 0 /\ -(-k) = k /\ -k \notin DOMAIN posted /\ k # 0
  BY ShownIs, PostedTyped
<1>4. Last(cache[c].list) \in Shown(c)
  BY <1>2, FeedListIs, LastIn DEF Shown
<1>5. \A x \in Shown(c) : x < 0 => x = -k
  <2> SUFFICES ASSUME NEW x \in Shown(c), x < 0 PROVE x = -k
    OBVIOUS
  <2>1. -x \in DOMAIN sends /\ x \in Int
    BY ShownIs
  <2>2. -(-x) = x
    BY <2>1
  <2> QED
    BY <1>1, <2>1, <2>2
<1>6. CASE cache'[c].list = cache[c].list
  BY <1>1, <1>6 DEF Shown
<1>7. CASE FetchSettle(c)
  <2>1. -k \in TopLevel(c)
    BY <1>7, FetchSettleIs DEF Answers, Entries
  <2> QED
    BY <1>3, <2>1 DEF TopLevel
<1>8. ASSUME NEW id \in DOMAIN posted, mounted, cur = c, MessageCreated(id)
      PROVE  i \notin Range(cache'[c].list) /\ Last(cache'[c].list) < i
  <2>1. PICK add : add = IF posted[id].parent = 0 THEN {id} ELSE {}
    OBVIOUS
  <2>2. PICK drop : /\ Edited(c, add, drop)
                    /\ \A x \in drop : x \in Shown(c) /\ x < 0
                    /\ (posted[id].send # 0 /\ -posted[id].send \in Shown(c) /\ id \notin Shown(c)
                          /\ \A j \in DOMAIN sends : -j \in Shown(c) => j = posted[id].send)
                        => -posted[id].send \in drop
    BY <1>8, <2>1, CreatedEdits DEF Edited
  <2>3. add \subseteq {id} /\ -k \notin add
    BY <1>3, <2>1
  <2>4. -k \notin drop
    BY <2>2, <2>3 DEF Edited
  <2>5. drop = {}
    BY <1>5, <2>2, <2>4
  <2>6. id # i
    BY <1>1, <1>3, <2>2, <2>5
  <2> QED
    BY <1>1, <1>2, <2>2, <2>3, <2>5, <2>6 DEF Edited
<1>9. ASSUME NEW p \in {0} \cup Threads, Send(p), cur = c
      PROVE  i \notin Range(cache'[c].list) /\ Last(cache'[c].list) < i
  <2>1. PICK j \in DOMAIN sends : Edited(c, {-j}, {})
    BY <1>9, SendEdits DEF Edited
  <2>2. -j \notin DOMAIN posted
    BY ShownIs, PostedTyped
  <2> QED
    BY <1>1, <1>2, <2>1, <2>2 DEF Edited
<1>10. ASSUME NEW j \in DOMAIN sends, SendSettle(j), sends[j].key = c
       PROVE  i \notin Range(cache'[c].list) /\ Last(cache'[c].list) < i
  <2>1. PICK add : add = IF sends[j].at = "posted" THEN {Stored(j)} ELSE {}
    OBVIOUS
  <2>2. Edited(c, add, {-j}) /\ \A x \in add : x \in DOMAIN posted /\ posted[x].send = j
    BY <1>10, <2>1, SettleEdits
  <2>3. j # k
    BY <1>3, <2>2 DEF Edited
  <2>4. -j \notin Shown(c)
    BY <1>1, <2>3
  <2> QED
    BY <1>1, <1>2, <1>4, <2>2, <2>3, <2>4 DEF Edited
<1>11. ASSUME NEW r \in older, OlderSettle(r), r.ch = c
       PROVE  i \notin Range(cache'[c].list) /\ Last(cache'[c].list) < i
  <2>1. PICK page : page = Range(Newest(Earlier(r), OlderPage))
    OBVIOUS
  <2>2. /\ page \subseteq Earlier(r)
        /\ Range(cache'[c].list) = Shown(c) \cup page
        /\ Last(cache'[c].list) \in {Last(cache[c].list)} \cup page
    BY <1>2, <1>11, <2>1, OlderSettleIs DEF Shown
  <2>3. r.before \in Int /\ r.before < i /\ i \in Int
    BY <1>1, <1>11, OlderSettleIs, PostedTyped
  <2>4. \A x \in page : x \in Int /\ x < r.before
    BY <2>2, TopLevelIs DEF Earlier
  <2>5. \A x \in page : x < i /\ x # i
    BY <2>3, <2>4
  <2> QED
    BY <1>1, <2>2, <2>5
<1> QED
  BY <1>6, <1>7, <1>8, <1>9, <1>10, <1>11, FeedCases

LEMMA TempsKept ==
  ASSUME Entries, Temps, [Next]_vars
  PROVE  Temps'
<1> TypeOK /\ Sent /\ Answers /\ Entries'
  BY EntriesKept DEF Entries
<1> SUFFICES ASSUME NEW c \in Channels, NEW k \in DOMAIN sends, -k \in Range(cache'[c].list), ~crowded'
             PROVE  /\ \A j \in DOMAIN sends : -j \in Range(cache'[c].list) => j = k
                    /\ \A i \in DOMAIN posted' : posted'[i].send = k =>
                          /\ i \notin Range(cache'[c].list)
                          /\ Last(cache'[c].list) < i
                          /\ \A r \in older' : r.ch = c => r.before < i
  BY SettledStrayed, ServerKept DEF Temps, Shown
<1>0. ~crowded /\ -(-k) = k /\ -k < 0
  BY ServerKept, ShownIs
<1>1. CASE -k \notin Shown(c)
  <2>1. PICK p \in {0} \cup Threads : Send(p) /\ cur = c
    BY <1>1, TempsFollow
  <2>2. PICK n \in DOMAIN sends :
            /\ \A i \in DOMAIN posted : posted[i].send # n
            /\ Edited(c, {-n}, {})
            /\ crowded' = (crowded \/ \E i \in Shown(c) : i < 0)
    BY <2>1, SendEdits DEF Edited
  <2>3. \A i \in Shown(c) : ~(i < 0)
    BY <2>2
  <2>4. Range(cache'[c].list) = Shown(c) \cup {-n}
    BY <2>2 DEF Edited
  <2>5. \A j \in DOMAIN sends : -j \in Range(cache'[c].list) => j = n
    <3> SUFFICES ASSUME NEW j \in DOMAIN sends, -j \in Range(cache'[c].list) PROVE j = n
      OBVIOUS
    <3>1. -j < 0 /\ -(-j) = j /\ -(-n) = n
      BY ShownIs
    <3> QED
      BY <2>3, <2>4, <3>1
  <2>6. posted' = posted
    BY <2>1 DEF Send, server
  <2> QED
    BY <2>2, <2>5, <2>6
<1>2. CASE -k \in Shown(c)
  <2>1. /\ \A j \in DOMAIN sends : -j \in Shown(c) => j = k
        /\ \A i \in DOMAIN posted : posted[i].send = k =>
               /\ Last(cache[c].list) < i
               /\ \A r \in older : r.ch = c => r.before < i
    BY <1>0, <1>2 DEF Temps
  <2>2. ASSUME NEW j \in DOMAIN sends, -j \in Range(cache'[c].list) PROVE j = k
    <3>1. CASE -j \in Shown(c)
      BY <2>1, <3>1
    <3>2. CASE -j \notin Shown(c)
      <4>1. PICK p \in {0} \cup Threads : Send(p) /\ cur = c
        BY <2>2, <3>2, TempsFollow
      <4>2. crowded' = (crowded \/ \E i \in Shown(c) : i < 0)
        BY <4>1, SendEdits
      <4> QED
        BY <1>0, <1>2, <4>2
    <3> QED
      BY <3>1, <3>2
  <2>3. ASSUME NEW i \in DOMAIN posted', posted'[i].send = k
        PROVE  /\ i \notin Range(cache'[c].list)
               /\ Last(cache'[c].list) < i
               /\ \A r \in older' : r.ch = c => r.before < i
    <3>1. CASE i \in DOMAIN posted
      <4>1. posted[i].send = k
        BY <2>3, <3>1, ServerKept
      <4>2. ASSUME NEW r \in older', r.ch = c PROVE r.before < i
        BY <2>1, <3>1, <4>1, <4>2, OlderFollows
      <4> QED
        BY <1>0, <1>2, <3>1, <4>1, <4>2, AloneKept
    <3>2. CASE i \notin DOMAIN posted
      <4>1. cache' = cache /\ older' = older
        BY <3>2, PostedFollows DEF Others, paging
      <4>2. \A j \in DOMAIN posted : j < i
        BY <3>2, ServerKept
      <4>3. i \in Nat \ {0}
        <5>1. posted' \in Seq(Post)
          BY DEF Entries, TypeOK
        <5>2. DOMAIN posted' \subseteq Nat \ {0}
          BY <5>1
        <5> QED
          BY <5>2
      <4>4. \A x \in Shown(c) : x \in Int /\ x < i
        BY <4>2, <4>3, ShownIs
      <4>5. Last(cache[c].list) \in Shown(c)
        <5>1. cache[c].list # <<>>
          BY <1>2, EmptyIs DEF Shown
        <5> QED
          BY <5>1, FeedListIs, LastIn DEF Shown
      <4>6. ASSUME NEW r \in older PROVE r.before < i
        <5>1. r.before \in Int
          BY DEF TypeOK, Older
        <5> QED
          BY <4>2, <4>3, <5>1 DEF Answers
      <4> QED
        BY <4>1, <4>4, <4>5, <4>6 DEF Shown
    <3> QED
      BY <3>1, <3>2
  <2> QED
    BY <2>2, <2>3
<1> QED
  BY <1>1, <1>2

\* TempsGoAway: a temp goes with its send, unless it was strayed, and no message is
\* shown beside its own temp, unless two temps crowded the feed.
THEOREM NoTempStays == Spec => []TempsGoAway
<1>1. Init => Temps
  <2> SUFFICES ASSUME Init PROVE Temps
    OBVIOUS
  <2>1. \A c \in Channels : Shown(c) = {}
    BY EmptyIs DEF Init, Shown
  <2> QED
    BY <2>1 DEF Temps
<1>2. Entries /\ Temps /\ [Next]_vars => Temps'
  BY TempsKept
<1>3. ASSUME Entries, Temps PROVE TempsGoAway
  <2>1. TypeOK
    BY <1>3 DEF Entries
  <2>2. ASSUME NEW c \in Channels, NEW i \in Shown(c), i > 0, posted[i].send # 0,
               -posted[i].send \in Shown(c)
        PROVE  crowded
    <3>1. i \in DOMAIN posted
      BY <1>3, <2>2, ShownIs
    <3>2. posted[i].send \in DOMAIN sends
      BY <2>1, <2>2, <3>1, PostedTyped
    <3> QED
      BY <1>3, <2>2, <3>1, <3>2 DEF Temps
  <2> QED
    BY <1>3, <2>2 DEF Temps, TempsGoAway, Shown
<1> QED
  BY <1>1, <1>2, <1>3, EntriesHold, PTL DEF Spec

-----------------------------------------------------------------------------
(* The messages a feed has lost sight of *)

\* Only what a fetch brings takes a message out of the feed.
LEMMA ShownKept ==
  ASSUME Entries, [Next]_vars, NEW c \in Channels, NEW x \in Shown(c), x > 0
  PROVE  x \in Range(cache'[c].list) \/ FetchSettle(c)
<1>0. \A k \in DOMAIN sends : x # -k
  BY ShownIs
<1>1. CASE cache'[c].list = cache[c].list
  BY <1>1 DEF Shown
<1>2. ASSUME NEW id \in DOMAIN posted, mounted, cur = c, MessageCreated(id) PROVE x \in Range(cache'[c].list)
  <2>1. PICK add : add = IF posted[id].parent = 0 THEN {id} ELSE {}
    OBVIOUS
  <2>2. PICK drop : Edited(c, add, drop) /\ \A y \in drop : y < 0
    BY <1>2, <2>1, CreatedEdits DEF Edited
  <2>3. ~(x < 0)
    BY ShownIs
  <2> QED
    BY <2>2, <2>3 DEF Edited
<1>3. ASSUME NEW p \in {0} \cup Threads, Send(p), cur = c PROVE x \in Range(cache'[c].list)
  <2>1. PICK k \in DOMAIN sends : Edited(c, {-k}, {})
    BY <1>3, SendEdits DEF Edited
  <2> QED
    BY <2>1 DEF Edited
<1>4. ASSUME NEW k \in DOMAIN sends, SendSettle(k), sends[k].key = c PROVE x \in Range(cache'[c].list)
  <2>1. PICK add : add = IF sends[k].at = "posted" THEN {Stored(k)} ELSE {}
    OBVIOUS
  <2>2. Edited(c, add, {-k})
    BY <1>4, <2>1, SettleEdits
  <2> QED
    BY <1>0, <2>2 DEF Edited
<1>5. ASSUME NEW r \in older, OlderSettle(r), r.ch = c PROVE x \in Range(cache'[c].list)
  <2>1. Range(cache'[c].list) = Shown(c) \cup Range(Newest(Earlier(r), OlderPage))
    BY <1>5, OlderSettleIs DEF Shown, Entries
  <2> QED
    BY <2>1
<1> QED
  BY <1>1, <1>2, <1>3, <1>4, <1>5, FeedCases

LEMMA OvertakenKept ==
  ASSUME Entries, [Next]_vars, NEW c \in Channels, NEW x \in overtaken \cap TopLevel(c)
  PROVE  x \in overtaken' \/ (FetchSettle(c) /\ x \in Range(fetch[c].list))
<1> TypeOK /\ Answers
  BY DEF Entries
<1>1. posted[x].ch = c /\ posted[x].parent = 0
  BY DEF TopLevel
<1>2. ASSUME NEW d \in Channels, FetchSettle(d), x \notin overtaken' PROVE d = c /\ x \in Range(fetch[c].list)
  <2>1. x \in Range(fetch[d].list)
    BY <1>2 DEF FetchSettle
  <2>2. x \in TopLevel(d)
    BY <2>1 DEF Answers
  <2> QED
    BY <1>1, <2>1, <2>2 DEF TopLevel
<1>3. ASSUME NEW p \in Threads, RepliesSettle(p) PROVE x \in overtaken'
  <2>1. x \notin RepliesTo(p)
    BY <1>1, PostedTyped DEF RepliesTo
  <2>2. x \notin Range(replies[p].got)
    BY <2>1 DEF Answers
  <2> QED
    BY <1>3, <2>2 DEF RepliesSettle
<1> QED
  BY <1>2, <1>3, OvertakenFollows

LEMMA KnownBefore ==
  ASSUME Entries, [Next]_vars, NEW c \in Channels, NEW i \in known' \cap TopLevel(c)'
  PROVE  i \in TopLevel(c) /\ (i \in known \/ i \in Range(cache'[c].list))
<1> TypeOK /\ Sent /\ Answers
  BY DEF Entries
<1>1. i \in DOMAIN posted
  BY KnownFollows DEF Answers
<1>2. i \in TopLevel(c)
  BY <1>1, SetsGrow
<1>3. posted[i].ch = c /\ posted[i].parent = 0
  BY <1>2 DEF TopLevel
<1>4. ASSUME NEW d \in Channels, i \in TopLevel(d) PROVE d = c
  BY <1>3, <1>4 DEF TopLevel
<1>5. posted[i].parent \notin Threads
  BY <1>3, PostedTyped
<1> QED
  BY <1>2, <1>4, <1>5, KnownFollows

LEMMA AnswersWholeKept ==
  ASSUME Entries, AnswersWhole, [Next]_vars
  PROVE  AnswersWhole'
<1> TypeOK /\ Sent /\ Answers
  BY DEF Entries
<1> SUFFICES ASSUME NEW c \in Channels, fetch'[c].at = "back"
             PROVE  LET got == Range(fetch'[c].list) IN
                    /\ \A i \in TopLevel(c)' \ got : (\A j \in got : i < j) \/ (\A j \in got : i > j)
                    /\ \A i \in (known' \cap TopLevel(c)') \ got :
                           \/ i \in Range(cache'[c].list) \cup overtaken'
                           \/ got # {} /\ \A j \in got : i < j
  BY DEF AnswersWhole, Shown
<1>1. PICK got : got = Range(fetch'[c].list)
  OBVIOUS
<1>2. got \subseteq TopLevel(c)' /\ got \subseteq Nat
  <2>1. fetch'[c].list \in Seq(Nat)
    <3>1. TypeOK'
      BY TypesKept
    <3> QED
      BY <3>1 DEF TypeOK, Request
  <2>2. Range(fetch'[c].list) \subseteq Nat
    BY <2>1 DEF Range
  <2> QED
    BY <1>1, <2>2, AnswersKept DEF Answers
<1>3. ~FetchSettle(c)
  <2>1. FetchSettle(c) => fetch'[c].at = "idle"
    BY FetchSettleIs DEF TypeOK, NoFetch
  <2> QED
    BY <2>1
<1>4. CASE FetchAnswer(c)
  <2>1. fetch'[c].list = Newest(TopLevel(c), FirstPage) /\ posted' = posted
    BY <1>4 DEF FetchAnswer, TypeOK, server
  <2>2. TopLevel(c)' = TopLevel(c)
    BY <2>1 DEF TopLevel
  <2>3. /\ \A x \in TopLevel(c) \ got : \A y \in got : x < y
        /\ TopLevel(c) # {} => got # {}
    <3>1. FirstPage \in Nat \ {0}
      BY ChatFeedAssumption
    <3>2. PICK s \in Seq(TopLevel(c)) : s = Newest(TopLevel(c), FirstPage)
      BY <3>1, TopLevelIs, NewestIs
    <3>3. /\ \A x \in TopLevel(c) \ Range(s) : \A y \in Range(s) : x < y
          /\ TopLevel(c) # {} => s # <<>>
      BY <3>1, <3>2, TopLevelIs, NewestIs
    <3>4. s # <<>> => Range(s) # {}
      <4>1. s # <<>> => 1 \in DOMAIN s
        BY EmptySeq, LenProperties
      <4> QED
        BY <4>1, InRange
    <3> QED
      BY <1>1, <2>1, <3>2, <3>3, <3>4
  <2> QED
    BY <1>1, <2>2, <2>3
<1>5. CASE ~FetchAnswer(c)
  <2>1. fetch'[c] = fetch[c]
    BY <1>5, FetchFollows
  <2>2. /\ \A i \in TopLevel(c) \ got : (\A j \in got : i < j) \/ (\A j \in got : i > j)
        /\ \A i \in (known \cap TopLevel(c)) \ got :
               \/ i \in Shown(c) \cup overtaken
               \/ got # {} /\ \A j \in got : i < j
        /\ got \subseteq DOMAIN posted
    BY <1>1, <2>1 DEF AnswersWhole, Answers, TopLevel
  <2>3. ASSUME NEW i \in TopLevel(c)' \ got PROVE (\A j \in got : i < j) \/ (\A j \in got : i > j)
    <3>1. CASE i \in TopLevel(c)
      BY <2>2, <3>1
    <3>2. CASE i \notin TopLevel(c)
      <4>1. \A j \in DOMAIN posted : j < i
        BY <3>2, SetsGrow
      <4>2. i \in Nat
        <5>1. TypeOK'
          BY TypesKept
        <5>2. posted' \in Seq(Post)
          BY <5>1 DEF TypeOK
        <5> QED
          BY <5>2 DEF TopLevel
      <4> QED
        BY <1>2, <2>2, <4>1, <4>2
    <3> QED
      BY <3>1, <3>2
  <2>4. ASSUME NEW i \in (known' \cap TopLevel(c)') \ got
        PROVE  \/ i \in Range(cache'[c].list) \cup overtaken'
               \/ got # {} /\ \A j \in got : i < j
    <3>1. i \in TopLevel(c) /\ (i \in known \/ i \in Range(cache'[c].list))
      BY KnownBefore
    <3>2. CASE i \in Shown(c)
      <4>1. i > 0
        BY <3>1, PostedTyped DEF TopLevel
      <4> QED
        BY <1>3, <3>2, <4>1, ShownKept
    <3>3. CASE i \in overtaken
      BY <1>3, <3>1, <3>3, OvertakenKept
    <3> QED
      BY <2>2, <3>1, <3>2, <3>3
  <2> QED
    BY <1>1, <2>3, <2>4
<1> QED
  BY <1>4, <1>5

\* What an edit adds to a feed that misses i is newer than i.
LEMMA EditMissing ==
  ASSUME Entries, [Next]_vars, NEW c \in Channels, NEW i \in TopLevel(c), NEW add, NEW drop,
         Edited(c, add, drop), \A x \in drop : x \notin TopLevel(c),
         \A x \in add : x \notin TopLevel(c) \/ ~PutLast(c, x),
         cache[c].list # <<>>, Last(cache[c].list) \in TopLevel(c),
         \A j \in Shown(c) \cap TopLevel(c) : i < j
  PROVE  /\ cache'[c].list # <<>> /\ Last(cache'[c].list) \in TopLevel(c)
         /\ \A j \in Range(cache'[c].list) \cap TopLevel(c) : i < j
<1>1. cache'[c].list # <<>> /\ Last(cache'[c].list) = Last(cache[c].list)
  BY DEF Edited
<1>2. ASSUME NEW j \in add, j \in TopLevel(c) PROVE i < j
  <2>1. Last(cache[c].list) \in Shown(c) \cap TopLevel(c)
    BY FeedListIs, LastIn DEF Shown, Entries
  <2>2. PICK n \in Shown(c) \cap TopLevel(c) : ~(j < n)
    BY <1>2, <2>1 DEF PutLast, Shown
  <2>3. i < n /\ i \in Int /\ j \in Int /\ n \in Int
    BY <1>2, <2>2, TopLevelIs DEF Entries
  <2> QED
    BY <2>2, <2>3
<1>3. ASSUME NEW j \in Range(cache'[c].list) \cap TopLevel(c) PROVE i < j
  BY <1>2, <1>3 DEF Edited
<1> QED
  BY <1>1, <1>3

LEMMA MissingOlderKept ==
  ASSUME Entries, AnswersWhole, MissingOlder, [Next]_vars
  PROVE  MissingOlder'
<1> TypeOK /\ Sent /\ Answers
  BY DEF Entries
<1> SUFFICES ASSUME ~torn', ~lagged', NEW c \in Channels, NEW i \in known' \cap TopLevel(c)',
                    i \notin Range(cache'[c].list), i \notin overtaken'
             PROVE  /\ cache'[c].list # <<>> /\ Last(cache'[c].list) \in TopLevel(c)'
                    /\ \A j \in Range(cache'[c].list) \cap TopLevel(c)' : i < j
  BY DEF MissingOlder, Missing, Shown
<1>1. i \in known /\ i \in TopLevel(c) /\ ~torn /\ ~lagged
  BY KnownBefore, ServerKept
<1>2. i \in Int /\ i > 0
  BY <1>1, PostedTyped DEF TopLevel
<1>3. CASE FetchSettle(c)
  <2>1. PICK got : got = Range(fetch[c].list)
    OBVIOUS
  <2>2. cache'[c].list = fetch[c].list /\ fetch[c].at = "back" /\ posted' = posted
    BY <1>3, FetchSettleIs DEF server
  <2>3. i \notin got /\ got \subseteq TopLevel(c)
    BY <2>1, <2>2 DEF Answers
  <2>4. got # {} /\ \A j \in got : i < j
    <3>1. /\ (\A j \in got : i < j) \/ (\A j \in got : i > j)
          /\ i \in Shown(c) \cup overtaken \/ (got # {} /\ \A j \in got : i < j)
      BY <1>1, <2>1, <2>2, <2>3 DEF AnswersWhole
    <3>2. overtaken' = (overtaken \cup {x \in Shown(c) \cap TopLevel(c) :
                           x \notin got /\ \A j \in got : x > j}) \ got
      BY <1>3, <2>1 DEF FetchSettle, Shown
    <3>3. i \notin overtaken
      BY <2>3, <3>2
    <3>4. i \in Shown(c) => \E j \in got : ~(i > j)
      BY <1>1, <2>3, <3>2
    <3> QED
      BY <3>1, <3>3, <3>4
  <2>5. fetch[c].list # <<>>
    BY <2>1, <2>4, EmptyIs
  <2>6. Last(fetch[c].list) \in got
    BY <1>3, <2>1, <2>5, FetchSettleIs, LatestIs, LastIn
  <2>7. TopLevel(c)' = TopLevel(c)
    BY <2>2 DEF TopLevel
  <2> QED
    BY <2>1, <2>2, <2>3, <2>4, <2>5, <2>6, <2>7
<1>4. CASE ~FetchSettle(c)
  <2>1. i \notin Shown(c) /\ i \notin overtaken
    BY <1>1, <1>2, <1>4, ShownKept, OvertakenKept
  <2>2. /\ cache[c].list # <<>> /\ Last(cache[c].list) \in TopLevel(c)
        /\ \A j \in Shown(c) \cap TopLevel(c) : i < j
    BY <1>1, <2>1 DEF MissingOlder, Missing
  <2>3. ASSUME posted' = posted, cache'[c].list # <<>>, Last(cache'[c].list) \in TopLevel(c),
               \A j \in Range(cache'[c].list) \cap TopLevel(c) : i < j
        PROVE  /\ cache'[c].list # <<>> /\ Last(cache'[c].list) \in TopLevel(c)'
               /\ \A j \in Range(cache'[c].list) \cap TopLevel(c)' : i < j
    <3>1. TopLevel(c)' = TopLevel(c)
      BY <2>3 DEF TopLevel
    <3> QED
      BY <2>3, <3>1
  <2>4. CASE cache'[c].list = cache[c].list
    <3>1. TopLevel(c) \subseteq TopLevel(c)'
      BY SetsGrow
    <3>2. ASSUME NEW j \in Shown(c) \cap TopLevel(c)' PROVE j \in TopLevel(c)
      <4>1. j > 0
        <5>1. TypeOK'
          BY TypesKept
        <5>2. posted' \in Seq(Post)
          BY <5>1 DEF TypeOK
        <5> QED
          BY <5>2 DEF TopLevel
      <4> QED
        BY <4>1, ShownIs, SetsGrow
    <3> QED
      BY <2>2, <2>4, <3>1, <3>2 DEF Shown
  <2>5. ASSUME NEW again \in BOOLEAN, NEW id \in DOMAIN posted, Receive(again), mounted,
               cur = c, posted[id].ch = c, MessageCreated(id)
        PROVE  /\ cache'[c].list # <<>> /\ Last(cache'[c].list) \in TopLevel(c)'
               /\ \A j \in Range(cache'[c].list) \cap TopLevel(c)' : i < j
    <3>1. PICK add : add = IF posted[id].parent = 0 THEN {id} ELSE {}
      OBVIOUS
    <3>2. PICK drop : Edited(c, add, drop) /\ \A x \in drop : x \in Shown(c) /\ x < 0
      BY <2>5, <3>1, CreatedEdits DEF Edited
    <3>3. ~PutLast(c, id) /\ posted' = posted
      BY <2>5, ReceiveIs DEF MessageCreated
    <3>4. \A x \in drop : x \notin TopLevel(c)
      BY <3>2, ShownIs DEF TopLevel
    <3>5. \A x \in add : x \notin TopLevel(c) \/ ~PutLast(c, x)
      BY <3>1, <3>3
    <3>6. /\ cache'[c].list # <<>> /\ Last(cache'[c].list) \in TopLevel(c)
          /\ \A j \in Range(cache'[c].list) \cap TopLevel(c) : i < j
      BY <1>1, <2>2, <3>2, <3>4, <3>5, EditMissing
    <3> QED
      BY <2>3, <3>3, <3>6
  <2>6. ASSUME NEW p \in {0} \cup Threads, Send(p), cur = c
        PROVE  /\ cache'[c].list # <<>> /\ Last(cache'[c].list) \in TopLevel(c)'
               /\ \A j \in Range(cache'[c].list) \cap TopLevel(c)' : i < j
    <3>1. PICK k \in DOMAIN sends : Edited(c, {-k}, {})
      BY <2>6, SendEdits DEF Edited
    <3>2. -k \notin TopLevel(c) /\ posted' = posted
      BY <2>6, ShownIs, PostedTyped DEF TopLevel, Send, server
    <3>3. /\ cache'[c].list # <<>> /\ Last(cache'[c].list) \in TopLevel(c)
          /\ \A j \in Range(cache'[c].list) \cap TopLevel(c) : i < j
      <4>1. /\ \A x \in {} : x \notin TopLevel(c)
            /\ \A x \in {-k} : x \notin TopLevel(c) \/ ~PutLast(c, x)
        BY <3>2
      <4> QED
        BY <1>1, <2>2, <3>1, <4>1, EditMissing
    <3> QED
      BY <2>3, <3>2, <3>3
  <2>7. ASSUME NEW k \in DOMAIN sends, SendSettle(k), sends[k].key = c
        PROVE  /\ cache'[c].list # <<>> /\ Last(cache'[c].list) \in TopLevel(c)'
               /\ \A j \in Range(cache'[c].list) \cap TopLevel(c)' : i < j
    <3>1. PICK add : add = IF sends[k].at = "posted" THEN {Stored(k)} ELSE {}
      OBVIOUS
    <3>2. Edited(c, add, {-k})
      BY <2>7, <3>1, SettleEdits
    <3>3. -k \notin TopLevel(c) /\ posted' = posted
      BY <2>7, ShownIs, PostedTyped DEF TopLevel, SendSettle, server
    <3>4. \A x \in add : x \notin TopLevel(c) \/ ~PutLast(c, x)
      BY <2>7, <3>1, SendSettleIs
    <3>5. /\ cache'[c].list # <<>> /\ Last(cache'[c].list) \in TopLevel(c)
          /\ \A j \in Range(cache'[c].list) \cap TopLevel(c) : i < j
      <4>1. \A x \in {-k} : x \notin TopLevel(c)
        BY <3>3
      <4> QED
        BY <1>1, <2>2, <3>2, <3>4, <4>1, EditMissing
    <3> QED
      BY <2>3, <3>3, <3>5
  <2>8. ASSUME NEW r \in older, OlderSettle(r), r.ch = c
        PROVE  /\ cache'[c].list # <<>> /\ Last(cache'[c].list) \in TopLevel(c)'
               /\ \A j \in Range(cache'[c].list) \cap TopLevel(c)' : i < j
    <3>1. PICK page : page = Range(Newest(Earlier(r), OlderPage))
      OBVIOUS
    <3>2. /\ page \subseteq Earlier(r)
          /\ \A x \in Earlier(r) \ page : \A y \in page : x < y
          /\ Range(cache'[c].list) = Shown(c) \cup page
          /\ cache'[c].list # <<>>
          /\ Last(cache'[c].list) \in {Last(cache[c].list)} \cup page
      BY <2>2, <2>8, <3>1, OlderSettleIs DEF Shown
    <3>3. r.before = Last(cache[c].list) /\ posted' = posted
      BY <2>8 DEF OlderSettle, server
    <3>4. Last(cache[c].list) \in Shown(c) \cap TopLevel(c)
      BY <2>2, FeedListIs, LastIn DEF Shown
    <3>5. i \in Earlier(r) \ page
      BY <1>1, <2>2, <2>8, <3>2, <3>3, <3>4 DEF Earlier
    <3>6. page \subseteq TopLevel(c)
      BY <2>8, <3>2 DEF Earlier
    <3> QED
      BY <2>2, <2>3, <3>2, <3>3, <3>5, <3>6
  <2> QED
    BY <1>4, <2>4, <2>5, <2>6, <2>7, <2>8, FeedCases
<1> QED
  BY <1>3, <1>4

\* StaysShown: a message once in the feed stays between its oldest and newest one,
\* unless a fetch older than its event took it, an older page came back to a feed
\* refetched meanwhile, or a message came in that the feed had been refetched past.
THEOREM NothingDropsOut == Spec => []StaysShown
<1>1. Init => AnswersWhole /\ MissingOlder
  <2> SUFFICES ASSUME Init PROVE AnswersWhole /\ MissingOlder
    OBVIOUS
  <2>1. \A c \in Channels : fetch[c].at # "back"
    BY DEF Init, Out, NoFetch
  <2>2. known = {}
    BY DEF Init
  <2> QED
    BY <2>1, <2>2 DEF AnswersWhole, MissingOlder, Missing
<1>2. Entries /\ AnswersWhole /\ MissingOlder /\ [Next]_vars => AnswersWhole' /\ MissingOlder'
  BY AnswersWholeKept, MissingOlderKept
<1>3. ASSUME Entries, MissingOlder PROVE StaysShown
  <2> SUFFICES ASSUME NEW i \in known, posted[i].parent = 0,
                      i \notin Shown(posted[i].ch), i \notin overtaken, ~torn, ~lagged
               PROVE  \A j \in Shown(posted[i].ch) \cap TopLevel(posted[i].ch) : i < j
    BY DEF StaysShown, Shown
  <2>1. i \in DOMAIN posted /\ posted[i].ch \in Channels
    BY <1>3, PostedTyped DEF Entries, Answers
  <2>2. i \in Missing(posted[i].ch)
    BY <2>1 DEF Missing, TopLevel
  <2> QED
    BY <1>3, <2>1, <2>2 DEF MissingOlder
<1> QED
  BY <1>1, <1>2, <1>3, EntriesHold, PTL DEF Spec

-----------------------------------------------------------------------------
(* The older messages *)

LEMMA RangeSize ==
  ASSUME NEW s \in Seq(Int)
  PROVE  /\ IsFiniteSet(Range(s)) /\ Cardinality(Range(s)) \in Nat /\ Len(s) \in Nat
         /\ Cardinality(Range(s)) <= Len(s)
         /\ IsInjective(s) => Cardinality(Range(s)) = Len(s)
<1>1. PICK n \in Nat : n = Len(s)
  OBVIOUS
<1>2. DOMAIN s = 1..n /\ s = [i \in 1..n |-> s[i]]
  BY <1>1
<1>3. \A x \in Range(s) : \E i \in 1..n : s[i] = x
  BY <1>2, InRange
<1>4. s \in [1..n -> Range(s)]
  BY <1>2, InRange
<1>5. s \in Surjection(1..n, Range(s))
  BY <1>3, <1>4 DEF Surjection
<1>6. IsFiniteSet(1..n) /\ Cardinality(1..n) = n
  BY FS_Interval
<1>7. IsFiniteSet(Range(s)) /\ Cardinality(Range(s)) <= n
  BY <1>5, <1>6, FS_Surjection
<1>8. IsInjective(s) => s \in Injection(1..n, Range(s))
  BY <1>4 DEF Injection
<1>9. s \in Injection(1..n, Range(s)) => Cardinality(Range(s)) = n
  BY <1>5, <1>6, FS_Surjection
<1> QED
  BY <1>1, <1>7, <1>8, <1>9, FS_CardinalityType

LEMMA MessagesIs ==
  ASSUME Entries, NEW c \in Channels
  PROVE  /\ IsFiniteSet(Messages(c)) /\ Cardinality(Messages(c)) \in Nat
         /\ Cardinality(Messages(c)) <= Len(cache[c].list) /\ Len(cache[c].list) \in Nat
<1>1. PICK s \in Seq(Int) : s = cache[c].list
  BY FeedListIs DEF Entries
<1>2. IsFiniteSet(Range(s)) /\ Cardinality(Range(s)) \in Nat /\ Cardinality(Range(s)) <= Len(s) /\ Len(s) \in Nat
  BY RangeSize
<1>3. Messages(c) \in SUBSET Range(s)
  BY <1>1 DEF Messages, Shown
<1>4. IsFiniteSet(Messages(c)) /\ Cardinality(Messages(c)) <= Cardinality(Range(s))
  BY <1>2, <1>3, FS_Subset
<1>5. Cardinality(Messages(c)) \in Nat
  BY <1>4, FS_CardinalityType
<1> QED
  BY <1>1, <1>2, <1>4, <1>5

LEMMA UptoKept ==
  ASSUME Entries, [Next]_vars, NEW c \in Channels, ~FetchSettle(c)
  PROVE  cache'[c].upto = cache[c].upto
<1> TypeOK
  BY DEF Entries
<1>1. ASSUME NEW id \in DOMAIN posted, mounted, MessageCreated(id) PROVE cache'[c].upto = cache[c].upto
  BY <1>1, CreatedEdits DEF Edited
<1>2. ASSUME NEW p \in {0} \cup Threads, Send(p) PROVE cache'[c].upto = cache[c].upto
  BY <1>2, SendEdits DEF Edited
<1>3. ASSUME NEW k \in DOMAIN sends, SendSettle(k) PROVE cache'[c].upto = cache[c].upto
  BY <1>3, SettleEdits DEF Edited
<1>4. ASSUME NEW r \in older, OlderSettle(r) PROVE cache'[c].upto = cache[c].upto
  BY <1>4, OlderSettleIs
<1> QED
  BY <1>1, <1>2, <1>3, <1>4, FeedCases

LEMMA CoveredKept ==
  ASSUME Entries, [Next]_vars, NEW c \in Channels, ~FetchSettle(c), Covered(c)
  PROVE  Covered(c)'
<1> TypeOK /\ Sent /\ Feeds
  BY DEF Entries
<1> SUFFICES ASSUME NEW i \in TopLevel(c)', i <= cache'[c].upto
             PROVE  \E j \in Range(cache'[c].list) : 0 < j /\ j <= i
  BY DEF Covered, Shown
<1>1. cache'[c].upto = cache[c].upto /\ cache[c].upto \in Nat /\ cache[c].upto <= Len(posted)
  BY UptoKept DEF TypeOK, Feed, Feeds
<1>2. i \in TopLevel(c)
  <2> SUFFICES ASSUME i \notin TopLevel(c) PROVE FALSE
    OBVIOUS
  <2>1. i \in DOMAIN posted' \ DOMAIN posted
    BY SetsGrow DEF TopLevel
  <2>2. i = Len(posted) + 1
    BY <2>1, ServerKept
  <2> QED
    BY <1>1, <2>2, PostedTyped
<1>3. PICK j \in Shown(c) : 0 < j /\ j <= i
  BY <1>1, <1>2 DEF Covered
<1>4. j > 0
  BY <1>3, ShownIs
<1>5. j \in Range(cache'[c].list)
  BY <1>4, ShownKept
<1> QED
  BY <1>3, <1>5

\* An answer shorter than a page is all there was.
LEMMA ShortAnswer ==
  ASSUME Entries, Pages, NEW c \in Channels, FetchSettle(c), ~(Len(fetch[c].list) >= FirstPage)
  PROVE  Covered(c)'
<1> TypeOK /\ Answers
  BY DEF Entries
<1>1. /\ cache'[c].list = fetch[c].list /\ cache'[c].upto = Latest(fetch[c].list)
      /\ fetch[c].at = "back" /\ posted' = posted
  BY FetchSettleIs DEF server
<1>2. \A i \in TopLevel(c) : i <= Latest(fetch[c].list) => i \in Range(fetch[c].list)
  BY <1>1 DEF Pages
<1>3. TopLevel(c)' = TopLevel(c) /\ \A i \in TopLevel(c) : i \in Nat \ {0} /\ 0 < i /\ i <= i
  BY <1>1, PostedTyped DEF TopLevel
<1> QED
  BY <1>1, <1>2, <1>3 DEF Covered, Shown

LEMMA PagesKept ==
  ASSUME Entries, Pages, [Next]_vars
  PROVE  Pages'
<1> TypeOK /\ Sent /\ Feeds /\ Answers /\ Entries' /\ FirstPage \in Nat \ {0}
  BY EntriesKept, ChatFeedAssumption DEF Entries
<1>1. ASSUME NEW c \in Channels PROVE Covered(c)' \/ Cardinality({j \in Range(cache'[c].list) : 0 < j}) >= FirstPage
  <2> DEFINE now == {j \in Range(cache'[c].list) : 0 < j}
  <2>0. IsFiniteSet(now) /\ Cardinality(now) \in Nat
    <3>1. cache'[c].list \in Seq(Int)
      <4>1. TypeOK'
        BY DEF Entries
      <4> QED
        BY <4>1 DEF TypeOK, Feed
    <3>2. now \in SUBSET Range(cache'[c].list)
      OBVIOUS
    <3>3. IsFiniteSet(now)
      BY <3>1, <3>2, RangeSize, FS_Subset
    <3> QED
      BY <3>3, FS_CardinalityType
  <2>1. CASE FetchSettle(c)
    <3>1. CASE ~(Len(fetch[c].list) >= FirstPage)
      BY <2>1, <3>1, ShortAnswer
    <3>2. CASE Len(fetch[c].list) >= FirstPage
      <4>1. /\ cache'[c].list = fetch[c].list /\ fetch[c].list \in Seq(Int)
            /\ IsInjective(fetch[c].list) /\ Range(fetch[c].list) \subseteq TopLevel(c)
        BY <2>1, FetchSettleIs, LatestIs DEF Answers
      <4>2. \A j \in TopLevel(c) : 0 < j
        BY PostedTyped DEF TopLevel
      <4>3. now = Range(fetch[c].list)
        BY <4>1, <4>2
      <4>4. Cardinality(Range(fetch[c].list)) = Len(fetch[c].list)
        BY <4>1, RangeSize
      <4> QED
        BY <3>2, <4>3, <4>4
    <3> QED
      BY <3>1, <3>2
  <2>2. CASE ~FetchSettle(c)
    <3>1. CASE Covered(c)
      BY <2>2, <3>1, CoveredKept
    <3>2. CASE Cardinality(Messages(c)) >= FirstPage
      <4>1. Messages(c) \in SUBSET now
        <5> SUFFICES ASSUME NEW x \in Shown(c), 0 < x PROVE x \in Range(cache'[c].list)
          BY DEF Messages
        <5>1. x > 0
          BY ShownIs
        <5> QED
          BY <2>2, <5>1, ShownKept
      <4>2. Cardinality(Messages(c)) <= Cardinality(now)
        BY <2>0, <4>1, FS_Subset
      <4> QED
        BY <2>0, <3>2, <4>2, MessagesIs
    <3> QED
      BY <3>1, <3>2 DEF Pages
  <2> QED
    BY <2>1, <2>2
<1>2. ASSUME NEW c \in Channels, fetch'[c].at = "back"
      PROVE  \/ Len(fetch'[c].list) >= FirstPage
             \/ \A i \in TopLevel(c)' : i <= Latest(fetch'[c].list) => i \in Range(fetch'[c].list)
  <2>1. CASE FetchAnswer(c)
    <3>1. fetch'[c].list = Newest(TopLevel(c), FirstPage) /\ posted' = posted
      BY <2>1 DEF FetchAnswer, TypeOK, server
    <3>2. TopLevel(c)' = TopLevel(c)
      BY <3>1 DEF TopLevel
    <3>3. PICK s \in Seq(TopLevel(c)) : s = Newest(TopLevel(c), FirstPage)
      BY TopLevelIs, NewestIs
    <3>4. Len(s) < FirstPage => TopLevel(c) \subseteq Range(s)
      BY <3>3, TopLevelIs, NewestIs
    <3>5. Len(s) \in Nat
      OBVIOUS
    <3> QED
      BY <3>1, <3>2, <3>3, <3>4, <3>5
  <2>2. CASE ~FetchAnswer(c)
    <3>1. fetch'[c] = fetch[c]
      BY <1>2, <2>2, FetchFollows
    <3>2. PICK list \in Seq(Nat) : list = fetch[c].list
      BY DEF TypeOK, Request
    <3>3. Range(list) \subseteq TopLevel(c)
      BY <3>2 DEF Answers
    <3>4. Latest(list) = 0 \/ Latest(list) \in DOMAIN posted
      BY <3>3, LatestIs DEF TopLevel
    <3>5. Len(list) >= FirstPage \/ \A i \in TopLevel(c) : i <= Latest(list) => i \in Range(list)
      BY <1>2, <3>1, <3>2 DEF Pages
    <3>6. ASSUME NEW i \in TopLevel(c)', i <= Latest(list) PROVE i \in TopLevel(c)
      <4> SUFFICES ASSUME i \notin TopLevel(c) PROVE FALSE
        OBVIOUS
      <4>1. i \in DOMAIN posted' \ DOMAIN posted
        BY SetsGrow DEF TopLevel
      <4>2. i = Len(posted) + 1 /\ \A j \in DOMAIN posted : j < i
        BY <4>1, ServerKept
      <4> QED
        BY <3>4, <3>6, <4>2, PostedTyped
    <3> QED
      BY <3>1, <3>2, <3>5, <3>6
  <2> QED
    BY <2>1, <2>2
<1> QED
  BY <1>1, <1>2 DEF Pages, Messages, Shown

LEMMA RenderedMore ==
  ASSUME NEW c, NEW m, NEW new, NEW rep, NEW more, NEW told,
         Rendered(c, m, new, rep, more, told), m, ~hasMore'
  PROVE  c = cur /\ mounted /\ (more => ~(Len(new[c].list) >= FirstPage))
BY DEF Rendered

\* The feed stops asking because it had, because its list became short, or because
\* the last page came in.
LEMMA MoreFollows ==
  ASSUME Entries, [Next]_vars, mounted', ~hasMore'
  PROVE  /\ cur' = cur /\ mounted
         /\ \/ ~hasMore
            \/ ~(Len(cache'[cur].list) >= FirstPage)
            \/ \E r \in older : OlderSettle(r) /\ r.live /\ LastPage(Newest(Earlier(r), OlderPage))
<1> TypeOK /\ Sent
  BY DEF Entries
<1> DEFINE Stopped == /\ cur' = cur /\ mounted
                      /\ ~hasMore \/ ~(Len(cache'[cur].list) >= FirstPage)
<1>0. ASSUME NEW new, Shows(new) PROVE Stopped /\ cache' = new
  <2>1. Rendered(cur, mounted, new, replies, hasMore, {})
    BY <1>0 DEF Shows
  <2>2. cur' = cur /\ mounted' = mounted /\ cache' = new
    BY <2>1 DEF Rendered
  <2>3. PICK none : none = {}
    OBVIOUS
  <2>4. Rendered(cur, mounted, new, replies, hasMore, none)
    BY <2>1, <2>3
  <2>5. hasMore => ~(Len(new[cur].list) >= FirstPage)
    BY <2>2, <2>4, RenderedMore
  <2> QED
    BY <2>2, <2>5
<1>1. ASSUME NEW c \in Channels, FetchAnswer(c) \/ FetchSettle(c) \/ FetchFail(c) PROVE Stopped
  <2>1. CASE FetchSettle(c)
    BY <1>0, <2>1 DEF FetchSettle
  <2>2. CASE ~FetchSettle(c)
    <3>1. UNCHANGED <<cur, mounted, hasMore>>
      BY <1>1, <2>2 DEF FetchAnswer, FetchFail, route
    <3> QED
      BY <3>1
  <2> QED
    BY <2>1, <2>2
<1>2. ASSUME NEW p \in Threads, RepliesAnswer(p) \/ RepliesSettle(p) \/ RepliesFail(p) PROVE Stopped
  <2>1. UNCHANGED <<cur, mounted, hasMore>>
    BY <1>2 DEF RepliesAnswer, RepliesSettle, RepliesFail, RepliesChange, route
  <2> QED
    BY <2>1
<1>3. ASSUME NEW c \in Channels, NEW cached \in BOOLEAN, Switch(c, cached) PROVE FALSE
  <2>1. Rendered(c, cached, cache, replies, TRUE, {}) /\ fetch' = [fetch EXCEPT ![c] = Mounting(@)]
    BY <1>3 DEF Switch
  <2> QED
    BY <2>1, MovesIs
<1>4. ASSUME LinkLost \/ ScrollUp \/ Others \/ UNCHANGED vars PROVE Stopped
  <2>1. UNCHANGED <<cur, mounted, hasMore>>
    BY <1>4 DEF LinkLost, ScrollUp, Others, vars, route
  <2> QED
    BY <2>1
<1>5. ASSUME Mount PROVE FALSE
  <2>1. /\ Rendered(cur, TRUE, cache, replies, TRUE, {}) /\ fetch' = [fetch EXCEPT ![cur] = Mounting(@)]
        /\ cur \in Channels
    BY <1>5 DEF Mount, TypeOK
  <2> QED
    BY <2>1, MovesIs
<1>6. ASSUME NEW r \in older, OlderSettle(r)
      PROVE  Stopped \/ (cur' = cur /\ mounted /\ r.live /\ LastPage(Newest(Earlier(r), OlderPage)))
  <2>1. PICK page : page = Newest(Earlier(r), OlderPage)
    OBVIOUS
  <2>2. \E new : Rendered(cur, mounted, new, replies, hasMore /\ ~(r.live /\ LastPage(page)), {})
    BY <1>6, <2>1 DEF OlderSettle, Earlier
  <2>3. PICK more, new, none : /\ Rendered(cur, mounted, new, replies, more, none)
                               /\ hasMore /\ ~(r.live /\ LastPage(page)) => more
    BY <2>2
  <2>4. cur' = cur /\ mounted' = mounted /\ cache' = new
    BY <2>3 DEF Rendered
  <2>5. more => ~(Len(new[cur].list) >= FirstPage)
    BY <2>3, <2>4, RenderedMore
  <2> QED
    BY <2>1, <2>3, <2>4, <2>5
<1>7. ASSUME NEW r \in older, OlderFail(r) PROVE Stopped
  BY <1>7 DEF OlderFail, route
<1>8. ASSUME NEW p \in {0} \cup Threads, Send(p) PROVE Stopped
  BY <1>0, <1>8 DEF Send, Grows
<1>9. ASSUME NEW k \in DOMAIN sends, SendSettle(k) PROVE Stopped
  BY <1>0, <1>9 DEF SendSettle, Grows
<1>10. ASSUME NEW again \in BOOLEAN, Receive(again) PROVE Stopped
  <2>1. CASE UNCHANGED <<cur, mounted, hasMore>>
    BY <2>1
  <2>2. ASSUME NEW id \in DOMAIN posted, mounted, MessageCreated(id) PROVE Stopped
    <3>1. PICK i \in EchoOf(posted[id], cache[cur].list) :
            IF posted[id].parent = 0 THEN Grows(cur, Created(id, i)) ELSE ReplyCreated(id, posted[id].parent, i)
      BY <2>2 DEF MessageCreated
    <3>2. CASE posted[id].parent = 0
      BY <1>0, <3>1, <3>2 DEF Grows
    <3>3. CASE posted[id].parent # 0
      <4>1. \E new, rep : Rendered(cur, TRUE, new, rep, hasMore, {id})
        BY <3>1, <3>3 DEF ReplyCreated
      <4>2. PICK new, rep, on : Rendered(cur, on, new, rep, hasMore, {id}) /\ on
        BY <4>1
      <4>3. cur' = cur /\ cache' = new
        BY <4>2 DEF Rendered
      <4>4. hasMore => ~(Len(new[cur].list) >= FirstPage)
        BY <4>2, RenderedMore
      <4> QED
        BY <2>2, <4>3, <4>4
    <3> QED
      BY <3>2, <3>3
  <2> QED
    BY <1>10, <2>1, <2>2, ReceiveIs DEF Touched
<1>12. Stopped \/ \E r \in older : /\ OlderSettle(r) /\ cur' = cur /\ mounted
                                   /\ r.live /\ LastPage(Newest(Earlier(r), OlderPage))
  <2> HIDE DEF Stopped
  <2> QED
    BY <1>1, <1>2, <1>3, <1>4, <1>5, <1>6, <1>7, <1>8, <1>9, <1>10, ActionCases
<1> QED
  BY <1>12

\* The feed was cut before, unless its channel was only now entered.
LEMMA CutFollows ==
  ASSUME Entries, [Next]_vars, cut
  PROVE  cut' \/ (mounted' => hasMore')
<1> TypeOK /\ Sent
  BY DEF Entries
<1>1. ASSUME NEW c \in Channels, FetchAnswer(c) \/ FetchSettle(c) \/ FetchFail(c) PROVE cut'
  BY <1>1 DEF FetchAnswer, FetchSettle, FetchFail
<1>2. ASSUME NEW p \in Threads, RepliesAnswer(p) \/ RepliesSettle(p) \/ RepliesFail(p) PROVE cut'
  BY <1>2 DEF RepliesAnswer, RepliesSettle, RepliesFail, RepliesChange
<1>3. ASSUME NEW c \in Channels, NEW cached \in BOOLEAN, Switch(c, cached) PROVE hasMore'
  <2>1. Rendered(c, cached, cache, replies, TRUE, {}) /\ fetch' = [fetch EXCEPT ![c] = Mounting(@)]
    BY <1>3 DEF Switch
  <2> QED
    BY <2>1, MovesIs
<1>4. CASE LinkLost \/ ScrollUp \/ Others \/ UNCHANGED vars
  BY <1>4 DEF LinkLost, ScrollUp, Others, vars
<1>5. ASSUME Mount PROVE hasMore'
  <2>1. /\ Rendered(cur, TRUE, cache, replies, TRUE, {}) /\ fetch' = [fetch EXCEPT ![cur] = Mounting(@)]
        /\ cur \in Channels
    BY <1>5 DEF Mount, TypeOK
  <2> QED
    BY <2>1, MovesIs
<1>6. ASSUME NEW r \in older, OlderSettle(r) \/ OlderFail(r) PROVE cut'
  BY <1>6 DEF OlderSettle, OlderFail
<1>7. ASSUME NEW p \in {0} \cup Threads, Send(p) PROVE cut'
  BY <1>7 DEF Send
<1>8. ASSUME NEW k \in DOMAIN sends, SendSettle(k) PROVE cut'
  BY <1>8 DEF SendSettle
<1>9. ASSUME NEW again \in BOOLEAN, Receive(again) PROVE cut'
  BY <1>9, ReceiveIs DEF Touched, MessageCreated
<1> QED
  BY <1>1, <1>2, <1>3, <1>4, <1>5, <1>6, <1>7, <1>8, <1>9, ActionCases

\* The feed stops asking for older messages only when it shows the oldest.
Reached == (mounted /\ ~hasMore /\ ~cut /\ ~torn) => Covered(cur)
LEMMA ReachedKept ==
  ASSUME Entries, Pages, Reached, [Next]_vars
  PROVE  Reached'
<1> TypeOK /\ Sent /\ FirstPage \in Nat \ {0} /\ OlderPage \in Nat \ {0} /\ Entries' /\ Pages'
  BY EntriesKept, PagesKept, ChatFeedAssumption DEF Entries
<1> SUFFICES ASSUME mounted', ~hasMore', ~cut', ~torn' PROVE Covered(cur)'
  BY DEF Reached
<1>1. PICK c \in Channels : c = cur
  BY DEF TypeOK
<1>2. cur' = c /\ mounted /\ ~cut /\ ~torn
  BY <1>1, MoreFollows, CutFollows, ServerKept
<1> SUFFICES Covered(c)'
  <2>1. \A i : i \in TopLevel(cur)' <=> i \in TopLevel(c)'
    BY <1>2 DEF TopLevel
  <2> QED
    BY <1>2, <2>1 DEF Covered, Shown
<1>3. CASE ~hasMore
  <2>1. CASE FetchSettle(c)
    <3>1. ~(Len(fetch[c].list) >= FirstPage)
      BY <1>1, <1>3, <2>1 DEF FetchSettle
    <3> QED
      BY <2>1, <3>1, ShortAnswer
  <2>2. CASE ~FetchSettle(c)
    <3>1. Covered(c)
      BY <1>1, <1>2, <1>3 DEF Reached
    <3> QED
      BY <2>2, <3>1, CoveredKept
  <2> QED
    BY <2>1, <2>2
<1>4. CASE ~(Len(cache'[c].list) >= FirstPage)
  <2> DEFINE now == {j \in Range(cache'[c].list) : 0 < j}
  <2>1. Covered(c)' \/ Cardinality(now) >= FirstPage
    BY DEF Pages, Messages, Shown
  <2>2. cache'[c].list \in Seq(Int)
    <3>1. TypeOK'
      BY DEF Entries
    <3> QED
      BY <3>1 DEF TypeOK, Feed
  <2>3. PICK s \in Seq(Int) : s = cache'[c].list
    BY <2>2
  <2>4. IsFiniteSet(Range(s)) /\ Cardinality(Range(s)) \in Nat /\ Cardinality(Range(s)) <= Len(s) /\ Len(s) \in Nat
    BY RangeSize
  <2>5. now \in SUBSET Range(s)
    BY <2>3
  <2>6. IsFiniteSet(now) /\ Cardinality(now) <= Cardinality(Range(s))
    BY <2>4, <2>5, FS_Subset
  <2>7. Cardinality(now) \in Nat
    BY <2>6, FS_CardinalityType
  <2>8. ~(Cardinality(now) >= FirstPage)
    BY <1>4, <2>3, <2>4, <2>6, <2>7
  <2> QED
    BY <2>1, <2>8
<1>5. ASSUME NEW r \in older, OlderSettle(r), r.live, LastPage(Newest(Earlier(r), OlderPage))
      PROVE  Covered(c)'
  <2>1. r.ch = c
    BY <1>1, <1>5 DEF OlderSettle
  <2>2. posted' = posted /\ cache[c].list # <<>> /\ Last(cache[c].list) = r.before
    BY <1>5, <2>1 DEF OlderSettle, server
  <2>3. r.before \in Int /\ r.before > 0
    BY <1>5, OlderSettleIs
  <2>4. r.before \in Shown(c)
    BY <2>2, FeedListIs, LastIn DEF Shown
  <2>5. Range(cache'[c].list) = Shown(c) \cup Range(Newest(Earlier(r), OlderPage))
    BY <1>5, <2>1, OlderSettleIs DEF Shown
  <2>6. Earlier(r) \subseteq Range(Newest(Earlier(r), OlderPage))
    <3>1. Earlier(r) \subseteq TopLevel(c)
      BY <2>1 DEF Earlier
    <3>2. Earlier(r) \in SUBSET Int /\ IsFiniteSet(Earlier(r))
      BY <3>1, TopLevelIs, FS_Subset
    <3>3. Len(Newest(Earlier(r), OlderPage)) < OlderPage
      BY <1>5 DEF LastPage
    <3> QED
      BY <3>2, <3>3, NewestIs
  <2>7. TopLevel(c)' = TopLevel(c)
    BY <2>2 DEF TopLevel
  <2>8. ASSUME NEW i \in TopLevel(c) PROVE \E j \in Range(cache'[c].list) : 0 < j /\ j <= i
    <3>1. i \in Int /\ 0 < i /\ i <= i
      BY PostedTyped DEF TopLevel
    <3>2. CASE i < r.before
      <4>1. i \in Earlier(r)
        BY <2>1, <3>2 DEF Earlier
      <4> QED
        BY <2>5, <2>6, <3>1, <4>1
    <3>3. CASE ~(i < r.before)
      BY <2>3, <2>4, <2>5, <3>1, <3>3
    <3> QED
      BY <3>2, <3>3
  <2> QED
    BY <2>7, <2>8 DEF Covered, Shown
<1> QED
  BY <1>1, <1>3, <1>4, <1>5, MoreFollows

\* The feed waits for an older page only while one of its own is on its way.
Awaited == loadingOlder => \E r \in older : r.live /\ r.ch = cur
LEMMA AwaitedKept ==
  ASSUME TypeOK, Awaited, [Next]_vars
  PROVE  Awaited'
<1>1. CASE UNCHANGED <<loadingOlder, older, cur>>
  BY <1>1 DEF Awaited
<1>2. ASSUME NEW c \in Channels, FetchAnswer(c) \/ FetchSettle(c) \/ FetchFail(c)
      PROVE  UNCHANGED <<loadingOlder, older, cur>>
  BY <1>2 DEF FetchAnswer, FetchSettle, FetchFail, paging, route, Shows, Rendered
<1>3. ASSUME NEW p \in Threads, RepliesAnswer(p) \/ RepliesSettle(p) \/ RepliesFail(p)
      PROVE  UNCHANGED <<loadingOlder, older, cur>>
  BY <1>3 DEF RepliesAnswer, RepliesSettle, RepliesFail, RepliesChange, paging, route
<1>4. ASSUME NEW c \in Channels, NEW cached \in BOOLEAN, Switch(c, cached) PROVE Awaited'
  BY <1>4 DEF Switch, Awaited
<1>5. ASSUME Mount \/ LinkLost \/ Others \/ UNCHANGED vars PROVE UNCHANGED <<loadingOlder, older, cur>>
  BY <1>5 DEF Mount, LinkLost, Others, vars, paging, route, Rendered
<1>6. ASSUME ScrollUp PROVE Awaited'
  <2>1. [ch |-> cur, before |-> Last(cache[cur].list), live |-> TRUE] \in older' /\ cur' = cur
    BY <1>6 DEF ScrollUp, route
  <2> QED
    BY <2>1 DEF Awaited
<1>7. ASSUME NEW r \in older, OlderSettle(r) \/ OlderFail(r) PROVE Awaited'
  <2>1. cur' = cur /\ older' = older \ {r}
    BY <1>7 DEF OlderSettle, OlderFail, route, Rendered
  <2>2. loadingOlder' => loadingOlder /\ ~r.live
    BY <1>7 DEF OlderSettle, OlderFail
  <2> QED
    BY <2>1, <2>2 DEF Awaited
<1>8. ASSUME NEW p \in {0} \cup Threads, Send(p) PROVE UNCHANGED <<loadingOlder, older, cur>>
  BY <1>8 DEF Send, paging, Grows, Shows, Rendered
<1>9. ASSUME NEW k \in DOMAIN sends, SendSettle(k) PROVE UNCHANGED <<loadingOlder, older, cur>>
  BY <1>9 DEF SendSettle, paging, Grows, Shows, Rendered
<1>10. ASSUME NEW again \in BOOLEAN, Receive(again) PROVE UNCHANGED <<loadingOlder, older, cur>>
  <2>1. UNCHANGED <<loadingOlder, older>>
    BY <1>10, ReceiveIs DEF paging
  <2>2. cur' = cur
    <3>1. ASSUME NEW c, NEW m, NEW new, NEW rep, NEW more, NEW told, Rendered(c, m, new, rep, more, told)
          PROVE  cur' = c
      BY <3>1 DEF Rendered
    <3>2. ASSUME NEW id \in DOMAIN posted, MessageCreated(id) PROVE cur' = cur
      <4>1. PICK i \in EchoOf(posted[id], cache[cur].list) :
              IF posted[id].parent = 0 THEN Grows(cur, Created(id, i)) ELSE ReplyCreated(id, posted[id].parent, i)
        BY <3>2 DEF MessageCreated
      <4>2. CASE posted[id].parent = 0
        BY <3>1, <4>1, <4>2 DEF Grows, Shows
      <4>3. CASE posted[id].parent # 0
        BY <3>1, <4>1, <4>3 DEF ReplyCreated
      <4> QED
        BY <4>2, <4>3
    <3> QED
      BY <1>10, <3>2, ReceiveIs DEF Touched
  <2> QED
    BY <2>1, <2>2
<1> QED
  BY <1>1, <1>2, <1>3, <1>4, <1>5, <1>6, <1>7, <1>8, <1>9, <1>10, ActionCases

\* OlderReachable: the feed never waits for an older page that is not on its way, and
\* it stops asking only when it shows the oldest message there was, unless it was cut
\* or an older page came back to a feed refetched meanwhile.
THEOREM OlderReached == Spec => []OlderReachable
<1>1. Init => Pages /\ Reached /\ Awaited
  <2> SUFFICES ASSUME Init PROVE Pages /\ Reached /\ Awaited
    OBVIOUS
  <2>1. TypeOK
    BY InitTyped
  <2>2. hasMore /\ ~loadingOlder /\ \A c \in Channels : cache[c].upto = 0 /\ fetch[c].at # "back"
    BY DEF Init, Out, NoFetch
  <2>3. \A c \in Channels : \A i \in TopLevel(c) : ~(i <= 0)
    BY <2>1, PostedTyped DEF TopLevel
  <2> QED
    BY <2>2, <2>3 DEF Pages, Covered, Reached, Awaited
<1>2. Entries /\ Pages /\ Reached /\ Awaited /\ [Next]_vars => Pages' /\ Reached' /\ Awaited'
  BY PagesKept, ReachedKept, AwaitedKept DEF Entries
<1>3. Reached /\ Awaited => OlderReachable
  BY DEF Reached, Awaited, OlderReachable, Covered, Shown
<1> QED
  BY <1>1, <1>2, <1>3, EntriesHold, PTL DEF Spec

=============================================================================
