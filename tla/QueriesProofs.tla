---------------------------- MODULE QueriesProofs ----------------------------
(* Lemmas about the operators of Queries, for every table.                  *)
EXTENDS Queries, WellFoundedInduction, SequenceTheorems, FiniteSetTheorems, TLAPS

LEMMA LeastElement ==
    ASSUME NEW T, T \subseteq Nat, T # {}
    PROVE  \E x \in T : \A y \in T : x <= y
<1> DEFINE R == OpToRel(<, Nat)
<1>1. IsWellFoundedOn(R, Nat)
  BY NatLessThanWellFounded
<1>2. ASSUME NEW x \in Nat, NEW y \in Nat, y < x PROVE <<y, x>> \in R
  BY <1>2 DEF OpToRel
<1> HIDE DEF R
<1>3. PICK x \in T : \A y \in T : ~ (<<y, x>> \in R)
  BY <1>1, WFMin
<1>4. ASSUME NEW y \in T PROVE x <= y
  <2>1. x \in Nat /\ y \in Nat
    OBVIOUS
  <2>2. ~ (y < x)
    BY <1>2, <1>3, <2>1, Zenon
  <2> QED
    BY <2>1, <2>2
<1> QED
  BY <1>4

-----------------------------------------------------------------------------
(* Selects.  UpTo gives the positions of a key ranks without a gap.         *)
LEMMA UpToGrows ==
    ASSUME NEW D \in SUBSET Int, IsFiniteSet(D), NEW key \in [D -> Int],
           NEW i \in D, NEW j \in D,
           key[i] < key[j] \/ (key[i] = key[j] /\ i < j)
    PROVE  Cardinality(UpTo(key, i)) < Cardinality(UpTo(key, j))
<1>0. DOMAIN key = D /\ \A k \in D : k \in Int /\ key[k] \in Int
  OBVIOUS
<1>1. ASSUME NEW k \in UpTo(key, i) PROVE k \in UpTo(key, j)
  BY <1>0, <1>1 DEF UpTo
<1>2. j \in UpTo(key, j) /\ j \notin UpTo(key, i)
  BY DEF UpTo
<1>3. IsFiniteSet(UpTo(key, j))
  BY FS_Subset DEF UpTo
<1>4. UpTo(key, i) \in SUBSET UpTo(key, j) /\ UpTo(key, i) # UpTo(key, j)
  BY <1>1, <1>2
<1>5. /\ IsFiniteSet(UpTo(key, i)) /\ Cardinality(UpTo(key, i)) # Cardinality(UpTo(key, j))
      /\ Cardinality(UpTo(key, i)) <= Cardinality(UpTo(key, j))
  BY <1>3, <1>4, FS_Subset
<1>6. Cardinality(UpTo(key, i)) \in Nat /\ Cardinality(UpTo(key, j)) \in Nat
  BY <1>3, <1>5, FS_CardinalityType
<1> QED
  BY <1>5, <1>6

LEMMA RankRange ==
    ASSUME NEW D \in SUBSET Int, IsFiniteSet(D), NEW key \in [D -> Int], NEW i \in D
    PROVE  Cardinality(UpTo(key, i)) \in 1..Cardinality(D)
<1>1. UpTo(key, i) \subseteq D /\ {i} \subseteq UpTo(key, i)
  BY DEF UpTo
<1>2. IsFiniteSet(UpTo(key, i)) /\ Cardinality(UpTo(key, i)) <= Cardinality(D)
  BY <1>1, FS_Subset
<1>3. Cardinality({i}) = 1 /\ Cardinality({i}) <= Cardinality(UpTo(key, i))
  BY <1>1, <1>2, FS_Subset, FS_Singleton
<1>4. Cardinality(UpTo(key, i)) \in Nat /\ Cardinality(D) \in Nat
  BY <1>2, FS_CardinalityType
<1> QED
  BY <1>2, <1>3, <1>4

LEMMA RanksDiffer ==
    ASSUME NEW D \in SUBSET Int, IsFiniteSet(D), NEW key \in [D -> Int],
           NEW i \in D, NEW j \in D, Cardinality(UpTo(key, i)) = Cardinality(UpTo(key, j))
    PROVE  i = j
<1>1. Cardinality(UpTo(key, i)) \in Nat
  BY RankRange
<1>2. CASE key[i] < key[j] \/ (key[i] = key[j] /\ i < j)
  BY <1>1, <1>2, UpToGrows
<1>3. CASE key[j] < key[i] \/ (key[i] = key[j] /\ j < i)
  BY <1>1, <1>3, UpToGrows
<1> QED
  BY <1>2, <1>3

(* Each place is taken by one position, in the order of keys and ids.       *)
LEMMA Places ==
    ASSUME NEW D \in SUBSET Int, IsFiniteSet(D), NEW key \in [D -> Int]
    PROVE  /\ Cardinality(D) \in Nat
           /\ \A k \in 1..Cardinality(D) : /\ Placed(key, k) \in D
                                           /\ Cardinality(UpTo(key, Placed(key, k))) = k
           /\ \A i \in D : Placed(key, Cardinality(UpTo(key, i))) = i
           /\ \A k, m \in 1..Cardinality(D) : k < m =>
                LET i == Placed(key, k)
                    j == Placed(key, m)
                IN  key[i] < key[j] \/ (key[i] = key[j] /\ i < j)
<1> DEFINE n == Cardinality(D)
           rank == [i \in D |-> Cardinality(UpTo(key, i))]
<1>1. n \in Nat /\ IsFiniteSet(1..n) /\ Cardinality(1..n) = n
  <2>1. n \in Nat
    BY FS_CardinalityType
  <2> QED
    BY <2>1, FS_Interval
<1>2. rank \in [D -> 1..n]
  BY RankRange
<1>3. rank \in Injection(D, 1..n)
  BY <1>2, RanksDiffer DEF Injection, IsInjective
<1>4. rank \in Surjection(D, 1..n)
  BY <1>1, <1>3, FS_Injection
<1>5. ASSUME NEW k \in 1..n PROVE Placed(key, k) \in D /\ rank[Placed(key, k)] = k
  <2>1. PICK i \in D : rank[i] = k
    BY <1>4 DEF Surjection
  <2>2. DOMAIN key = D /\ Cardinality(UpTo(key, i)) = k
    BY <2>1
  <2> QED
    BY <2>2 DEF Placed
<1>6. ASSUME NEW i \in D PROVE Placed(key, rank[i]) = i
  <2>1. rank[i] \in 1..n
    BY <1>2
  <2>2. Placed(key, rank[i]) \in D /\ rank[Placed(key, rank[i])] = rank[i]
    BY <1>5, <2>1
  <2> QED
    BY <2>2, RanksDiffer
<1>7. ASSUME NEW k \in 1..n, NEW m \in 1..n, k < m
      PROVE  LET i == Placed(key, k)
                 j == Placed(key, m)
             IN  key[i] < key[j] \/ (key[i] = key[j] /\ i < j)
  <2> DEFINE i == Placed(key, k)
             j == Placed(key, m)
  <2>1. i \in D /\ j \in D /\ rank[i] = k /\ rank[j] = m
    BY <1>5
  <2> HIDE DEF i, j
  <2>2. ~ (key[j] < key[i] \/ (key[j] = key[i] /\ j < i))
    <3> SUFFICES ASSUME key[j] < key[i] \/ (key[j] = key[i] /\ j < i) PROVE FALSE
      OBVIOUS
    <3>1. Cardinality(UpTo(key, j)) < Cardinality(UpTo(key, i))
      BY <2>1, UpToGrows
    <3>2. Cardinality(UpTo(key, i)) = k /\ Cardinality(UpTo(key, j)) = m
      BY <2>1
    <3> QED
      BY <1>7, <3>1, <3>2
  <2>3. i # j
    BY <1>7, <2>1
  <2>4. key[i] < key[j] \/ (key[i] = key[j] /\ i < j)
    BY <2>1, <2>2, <2>3
  <2> QED
    BY <2>4 DEF i, j
<1>8. \A i \in D : rank[i] = Cardinality(UpTo(key, i))
  OBVIOUS
<1> HIDE DEF rank
<1> QED
  BY <1>1, <1>5, <1>6, <1>7, <1>8

(* A table: rows whose times and values are numbers.                        *)
IsTable(t) ==
    /\ t \in Seq(Range(t))
    /\ \A i \in DOMAIN t : t[i] # None /\ t[i].at \in Int /\ t[i].value \in Int

LEMMA PositionsFinite ==
    ASSUME NEW S, NEW t \in Seq(S), NEW D \in SUBSET DOMAIN t
    PROVE  /\ D \in SUBSET Int /\ IsFiniteSet(D) /\ Cardinality(D) \in Nat
           /\ Cardinality(D) <= Len(t) /\ Cardinality(DOMAIN t) = Len(t)
           /\ DOMAIN t = 1..Len(t) /\ Len(t) \in Nat
<1>1. DOMAIN t = 1..Len(t) /\ Len(t) \in Nat
  OBVIOUS
<1>2. IsFiniteSet(1..Len(t)) /\ Cardinality(1..Len(t)) = Len(t)
  <2> DEFINE n == Len(t)
  <2>1. 1 \in Int /\ n \in Int
    BY <1>1
  <2> HIDE DEF n
  <2>2. /\ IsFiniteSet(1..n)
        /\ Cardinality(1..n) = IF 1 > n THEN 0 ELSE n - 1 + 1
    BY <2>1, FS_Interval
  <2> QED
    BY <1>1, <2>2 DEF n
<1>3. D \in SUBSET (1..Len(t))
  BY <1>1
<1> QED
  BY <1>1, <1>2, <1>3, FS_Subset, FS_CardinalityType

(* Sorting part of a table gives a table of these rows.                     *)
LEMMA ArrangedTable ==
    ASSUME NEW t, IsTable(t), NEW D \in SUBSET DOMAIN t, NEW key \in [D -> Int]
    PROVE  /\ IsTable(Arranged(t, key))
           /\ Len(Arranged(t, key)) = Cardinality(D)
           /\ DOMAIN Arranged(t, key) = 1..Cardinality(D)
           /\ \A k \in 1..Cardinality(D) : /\ Placed(key, k) \in D
                                           /\ Arranged(t, key)[k] = t[Placed(key, k)]
<1> DEFINE a == Arranged(t, key)
<1>1. D \in SUBSET Int /\ IsFiniteSet(D) /\ Cardinality(D) \in Nat
  BY PositionsFinite DEF IsTable
<1>2. \A k \in 1..Cardinality(D) : Placed(key, k) \in D
  BY <1>1, Places
<1>3. \A i \in D : t[i] \in Range(t)
  BY DEF Range
<1>4. /\ a \in Seq(Range(t)) /\ Len(a) = Cardinality(D)
      /\ \A k \in 1..Cardinality(D) : a[k] = t[Placed(key, k)]
  <2>1. a = [k \in 1..Cardinality(D) |-> t[Placed(key, k)]]
    BY DEF Arranged
  <2>2. \A k \in 1..Cardinality(D) : t[Placed(key, k)] \in Range(t)
    BY <1>2, <1>3
  <2> QED
    BY <1>1, <2>1, <2>2
<1> HIDE DEF a
<1>5. DOMAIN a = 1..Cardinality(D)
  BY <1>4
<1>6. a \in Seq(Range(a))
  <2>1. \A k \in DOMAIN a : a[k] \in Range(a)
    BY DEF Range
  <2> QED
    BY <1>4, <1>5, <2>1
<1>7. IsTable(a)
  BY <1>2, <1>4, <1>5, <1>6 DEF IsTable
<1> QED
  BY <1>2, <1>4, <1>5, <1>7 DEF a

LEMMA ByIdTable ==
    ASSUME NEW t, IsTable(t), NEW D \in SUBSET DOMAIN t
    PROVE  /\ IsTable(ById(t, D)) /\ Len(ById(t, D)) = Cardinality(D)
           /\ DOMAIN ById(t, D) = 1..Cardinality(D)
<1>1. D \in SUBSET Int
  BY PositionsFinite DEF IsTable
<1>2. [i \in D |-> i] \in [D -> Int]
  BY <1>1
<1> QED
  BY <1>2, ArrangedTable DEF ById

LEMMA OfTable ==
    ASSUME NEW t, IsTable(t), NEW s
    PROVE  IsTable(Of(t, s))
BY ByIdTable DEF Of

(* The newest rows, counted from the last.                                  *)
LEMMA NewestRows ==
    ASSUME NEW S, NEW rs \in Seq(S), NEW limit \in Nat \ {0}
    PROVE  LET n == IF limit < Len(rs) THEN limit ELSE Len(rs)
           IN  /\ Newest(rs, limit) \in Seq(S)
               /\ Len(Newest(rs, limit)) = n
               /\ \A i \in 1..n : Newest(rs, limit)[i] = rs[Len(rs) - i + 1]
<1> DEFINE n == IF limit < Len(rs) THEN limit ELSE Len(rs)
           r == [i \in 1..Len(rs) |-> rs[(Len(rs) - i) + 1]]
<1>1. Len(rs) \in Nat /\ n \in Nat /\ n <= Len(rs)
  OBVIOUS
<1>2. \A i \in 1..Len(rs) : (Len(rs) - i) + 1 \in 1..Len(rs)
  BY <1>1
<1>3. r \in Seq(S) /\ Len(r) = Len(rs) /\ \A i \in 1..Len(rs) : r[i] = rs[Len(rs) - i + 1]
  BY <1>1, <1>2
<1>4. Newest(rs, limit) = SubSeq(r, 1, n)
  BY <1>1, <1>3 DEF Newest, Oldest, Reverse
<1> HIDE DEF n, r
<1>5. /\ SubSeq(r, 1, n) \in Seq(S) /\ Len(SubSeq(r, 1, n)) = n
      /\ \A i \in 1..n : SubSeq(r, 1, n)[i] = r[i]
  BY <1>1, <1>3
<1>6. \A i \in 1..n : i \in 1..Len(rs)
  BY <1>1
<1>7. /\ Newest(rs, limit) \in Seq(S) /\ Len(Newest(rs, limit)) = n
      /\ \A i \in 1..n : Newest(rs, limit)[i] = rs[Len(rs) - i + 1]
  BY <1>3, <1>4, <1>5, <1>6
<1> QED
  BY <1>7 DEF n

(* Asking for more than there are is asking for all.                        *)
LEMMA NewestOfMore ==
    ASSUME NEW S, NEW rs \in Seq(S), rs # <<>>, NEW limit \in Nat \ {0}
    PROVE  LET fewer == Min({Len(rs), limit})
           IN  /\ fewer \in Nat \ {0}
               /\ fewer = IF limit < Len(rs) THEN limit ELSE Len(rs)
               /\ Newest(rs, limit) = Newest(rs, fewer)
<1> DEFINE fewer == Min({Len(rs), limit})
           n == IF limit < Len(rs) THEN limit ELSE Len(rs)
<1>1. Len(rs) \in Nat \ {0}
  OBVIOUS
<1>2. n \in {Len(rs), limit} /\ \A y \in {Len(rs), limit} : n <= y
  BY <1>1
<1>3. fewer \in {Len(rs), limit} /\ \A y \in {Len(rs), limit} : fewer <= y
  BY <1>2 DEF Min
<1>4. fewer = n /\ fewer \in Nat \ {0}
  <2> HIDE DEF fewer
  <2> QED
    BY <1>1, <1>3
<1>5. (IF limit < Len(Reverse(rs)) THEN limit ELSE Len(Reverse(rs)))
        = (IF n < Len(Reverse(rs)) THEN n ELSE Len(Reverse(rs)))
  <2>1. Len(Reverse(rs)) = Len(rs)
    BY <1>1 DEF Reverse
  <2> QED
    BY <1>1, <2>1
<1>6. Newest(rs, limit) = Newest(rs, n)
  BY <1>5 DEF Newest, Oldest
<1> QED
  BY <1>4, <1>6

-----------------------------------------------------------------------------
(* Induction over an interval, by its least counterexample.                 *)
LEMMA UpwardTo ==
    ASSUME NEW n \in Nat, NEW T, 0 \in T, \A k \in 0 .. n : k \in T /\ k < n => k + 1 \in T
    PROVE  0 .. n \subseteq T
<1> DEFINE Missed == {k \in 0 .. n : k \notin T}
<1> SUFFICES ASSUME Missed # {} PROVE FALSE
  OBVIOUS
<1>1. PICK k \in Missed : \A m \in Missed : k <= m
  <2>1. Missed \subseteq Nat
    OBVIOUS
  <2> HIDE DEF Missed
  <2> QED
    BY <2>1, LeastElement
<1>2. k \in 1 .. n /\ k - 1 \in 0 .. n /\ k - 1 < n
  BY <1>1
<1>3. k - 1 \in T
  BY <1>1, <1>2
<1>4. (k - 1) + 1 \in T
  BY <1>2, <1>3
<1> QED
  BY <1>1, <1>2, <1>4

(* Sums is the function its equations describe, and there is no other.      *)
Summing(f, vs) ==
    /\ f[0] = 0
    /\ \A i \in 1 .. Len(vs) : f[i] = f[i - 1] + vs[i]

LEMMA SumExists ==
    ASSUME NEW vs \in Seq(Int)
    PROVE  \E f \in [0 .. Len(vs) -> Int] : Summing(f, vs)
<1> DEFINE n == Len(vs)
           T == {k \in 0 .. n : \E f \in [0 .. k -> Int] :
                   f[0] = 0 /\ \A i \in 1 .. k : f[i] = f[i - 1] + vs[i]}
<1>1. n \in Nat /\ \A i \in 1 .. n : vs[i] \in Int
  OBVIOUS
<1>2. 0 \in T
  <2> DEFINE f == [i \in 0 .. 0 |-> 0]
  <2>1. f \in [0 .. 0 -> Int] /\ f[0] = 0
    OBVIOUS
  <2>2. 0 \in 0 .. n /\ 1 .. 0 = {}
    BY <1>1
  <2> HIDE DEF f
  <2> QED
    BY <2>1, <2>2
<1>3. ASSUME NEW k \in 0 .. n, k \in T, k < n PROVE k + 1 \in T
  <2>1. PICK f \in [0 .. k -> Int] : f[0] = 0 /\ \A i \in 1 .. k : f[i] = f[i - 1] + vs[i]
    BY <1>3
  <2> DEFINE g == [i \in 0 .. (k + 1) |-> IF i = k + 1 THEN f[k] + vs[k + 1] ELSE f[i]]
  <2>2. k \in Nat /\ k + 1 \in 1 .. n
    BY <1>1, <1>3
  <2>3. f[k] + vs[k + 1] \in Int
    BY <1>1, <2>1, <2>2
  <2>4. g \in [0 .. (k + 1) -> Int]
    BY <2>1, <2>2, <2>3
  <2>5. g[0] = 0 /\ g[k + 1] = f[k] + vs[k + 1] /\ \A i \in 0 .. k : g[i] = f[i]
    BY <2>1, <2>2
  <2> HIDE DEF g
  <2>6. ASSUME NEW i \in 1 .. (k + 1) PROVE g[i] = g[i - 1] + vs[i]
    <3>1. CASE i = k + 1
      BY <2>2, <2>5, <3>1
    <3>2. CASE i # k + 1
      <4>1. i \in 1 .. k /\ i \in 0 .. k /\ i - 1 \in 0 .. k
        BY <2>2, <3>2
      <4> QED
        BY <2>1, <2>5, <4>1
    <3> QED
      BY <3>1, <3>2
  <2>7. k + 1 \in 0 .. n
    BY <2>2
  <2>8. \E h \in [0 .. (k + 1) -> Int] : h[0] = 0 /\ \A i \in 1 .. (k + 1) : h[i] = h[i - 1] + vs[i]
    BY ONLY <2>4, <2>5, <2>6
  <2> QED
    BY <2>7, <2>8
<1>4. n \in T
  <2> HIDE DEF T
  <2>1. 0 .. n \subseteq T
    BY <1>1, <1>2, <1>3, UpwardTo
  <2> QED
    BY <1>1, <2>1
<1> QED
  BY <1>4 DEF Summing

LEMMA SumsAre ==
    ASSUME NEW vs \in Seq(Int)
    PROVE  Sums(vs) \in [0 .. Len(vs) -> Int] /\ Summing(Sums(vs), vs)
<1> DEFINE n == Len(vs)
           Equation(f) == f = [i \in 0 .. n |-> IF i = 0 THEN 0 ELSE f[i - 1] + vs[i]]
<1>1. n \in Nat /\ \A i \in 1 .. n : vs[i] \in Int
  OBVIOUS
<1>2. PICK f \in [0 .. n -> Int] : Summing(f, vs)
  BY SumExists
<1>3. Equation(f)
  <2>1. ASSUME NEW i \in 0 .. n PROVE f[i] = IF i = 0 THEN 0 ELSE f[i - 1] + vs[i]
    BY <1>1, <1>2, <2>1 DEF Summing
  <2> QED
    BY <1>2, <2>1
<1>4. Sums(vs) = CHOOSE g : Equation(g)
  BY DEF Sums
<1>5. Equation(Sums(vs))
  <2> HIDE DEF Equation
  <2> QED
    BY <1>3, <1>4
<1> DEFINE s == Sums(vs)
<1>6. DOMAIN s = 0 .. n /\ \A i \in 0 .. n : s[i] = IF i = 0 THEN 0 ELSE s[i - 1] + vs[i]
  <2> HIDE DEF s
  <2> SUFFICES ASSUME s = [i \in 0 .. n |-> IF i = 0 THEN 0 ELSE s[i - 1] + vs[i]]
               PROVE  DOMAIN s = 0 .. n /\ \A i \in 0 .. n : s[i] = IF i = 0 THEN 0 ELSE s[i - 1] + vs[i]
    BY <1>5 DEF s
  <2> DEFINE e == [i \in 0 .. n |-> IF i = 0 THEN 0 ELSE s[i - 1] + vs[i]]
  <2>1. DOMAIN e = 0 .. n /\ \A i \in 0 .. n : e[i] = IF i = 0 THEN 0 ELSE s[i - 1] + vs[i]
    OBVIOUS
  <2>2. s = e
    OBVIOUS
  <2> HIDE DEF e
  <2> QED
    BY <2>1, <2>2
<1> HIDE DEF s
<1>7. s[0] = 0 /\ \A i \in 1 .. n : s[i] = s[i - 1] + vs[i]
  BY <1>1, <1>6
<1> DEFINE T == {i \in 0 .. n : s[i] \in Int}
<1>8. 0 .. n \subseteq T
  <2>1. 0 \in T
    BY <1>1, <1>7
  <2>2. ASSUME NEW k \in 0 .. n, k \in T, k < n PROVE k + 1 \in T
    <3>1. k + 1 \in 1 .. n /\ (k + 1) - 1 = k /\ k + 1 \in 0 .. n
      BY <1>1, <2>2
    <3>2. s[k + 1] = s[k] + vs[k + 1]
      BY <1>7, <3>1
    <3> QED
      BY <1>1, <2>2, <3>1, <3>2
  <2> HIDE DEF T
  <2> QED
    BY <1>1, <2>1, <2>2, UpwardTo
<1>9. \A i \in 0 .. n : s[i] \in Int
  BY <1>8
<1>10. s = [i \in 0 .. n |-> s[i]]
  <2>1. s = [i \in DOMAIN s |-> s[i]]
    BY <1>5 DEF s
  <2> QED
    BY <1>6, <2>1
<1>11. s \in [0 .. n -> Int]
  BY <1>9, <1>10
<1> QED
  BY <1>7, <1>11 DEF s, Summing

LEMMA SumUnique ==
    ASSUME NEW vs \in Seq(Int), NEW f, Summing(f, vs)
    PROVE  /\ \A i \in 0 .. Len(vs) : f[i] = Sums(vs)[i]
           /\ f[Len(vs)] = Total(vs)
<1> DEFINE n == Len(vs)
           s == Sums(vs)
           T == {i \in 0 .. n : f[i] = s[i]}
<1>1. n \in Nat
  OBVIOUS
<1>2. Summing(s, vs)
  BY SumsAre
<1> HIDE DEF s
<1>3. 0 \in T
  BY <1>1, <1>2 DEF Summing
<1>4. ASSUME NEW k \in 0 .. n, k \in T, k < n PROVE k + 1 \in T
  <2>1. k + 1 \in 1 .. n /\ (k + 1) - 1 = k /\ k + 1 \in 0 .. n
    BY <1>1, <1>4
  <2>2. f[k + 1] = f[k] + vs[k + 1] /\ s[k + 1] = s[k] + vs[k + 1]
    BY <1>2, <2>1 DEF Summing
  <2> QED
    BY <1>4, <2>1, <2>2
<1>5. 0 .. n \subseteq T
  <2> HIDE DEF T
  <2> QED
    BY <1>1, <1>3, <1>4, UpwardTo
<1>6. n \in T /\ \A i \in 0 .. n : f[i] = s[i]
  BY <1>1, <1>5
<1> QED
  BY <1>6 DEF s, Total

LEMMA SliceSum ==
    ASSUME NEW vs \in Seq(Int), NEW lo \in 0 .. Len(vs), NEW hi \in lo .. Len(vs)
    PROVE  Total(SubSeq(vs, lo + 1, hi)) = Sums(vs)[hi] - Sums(vs)[lo]
<1> DEFINE s == Sums(vs)
           us == SubSeq(vs, lo + 1, hi)
           n == hi - lo
           f == [i \in 0 .. n |-> s[lo + i] - s[lo]]
<1>1. Len(vs) \in Nat /\ lo \in Nat /\ hi \in Nat /\ n \in Nat /\ lo <= hi /\ hi <= Len(vs)
  OBVIOUS
<1>2. /\ us \in Seq(Int) /\ Len(us) = n
      /\ \A i \in 1 .. n : us[i] = vs[lo + i] /\ us[i] \in Int
  <2>1. us \in Seq(Int) /\ Len(us) = n /\ \A i \in 1 .. n : us[i] = vs[lo + i]
    <3>1. lo + 1 \in 1 .. Len(vs) + 1 /\ hi \in (lo + 1) - 1 .. Len(vs)
      BY <1>1
    <3>2. /\ us \in Seq(Int) /\ Len(us) = hi - (lo + 1) + 1
          /\ \A i \in 1 .. (hi - (lo + 1) + 1) : us[i] = vs[(lo + 1) + i - 1]
      BY <3>1, SubSeqProperties
    <3> HIDE DEF us
    <3>3. hi - (lo + 1) + 1 = n /\ \A i \in 1 .. n : (lo + 1) + i - 1 = lo + i
      BY <1>1
    <3> QED
      BY <3>2, <3>3
  <2> HIDE DEF us, n
  <2>2. \A i \in 1 .. n : us[i] \in Int
    BY <2>1
  <2> QED
    BY <2>1, <2>2
<1>3. /\ \A i \in 0 .. Len(vs) : s[i] \in Int
      /\ s[0] = 0 /\ \A i \in 1 .. Len(vs) : s[i] = s[i - 1] + vs[i]
  BY SumsAre DEF Summing
<1> HIDE DEF s, us
<1>4. s[lo] \in Int /\ \A i \in 0 .. n : lo + i \in 0 .. Len(vs) /\ s[lo + i] \in Int
  BY <1>1, <1>3
<1>5. f[0] = 0
  BY <1>1, <1>4
<1>6. ASSUME NEW i \in 1 .. n PROVE f[i] = f[i - 1] + us[i]
  <2>1. /\ i \in 0 .. n /\ i - 1 \in 0 .. n /\ lo + i \in 1 .. Len(vs)
        /\ lo + (i - 1) = (lo + i) - 1
    BY <1>1
  <2>2. f[i] = s[lo + i] - s[lo] /\ f[i - 1] = s[(lo + i) - 1] - s[lo]
    BY <2>1
  <2>3. s[lo + i] = s[(lo + i) - 1] + us[i]
    BY <1>2, <1>3, <2>1
  <2>4. s[(lo + i) - 1] \in Int /\ us[i] \in Int /\ s[lo + i] \in Int
    BY <1>2, <1>4, <2>1
  <2>5. s[lo + i] - s[lo] = (s[(lo + i) - 1] - s[lo]) + us[i]
    BY <1>4, <2>3, <2>4
  <2> HIDE DEF f
  <2> QED
    BY <2>2, <2>5
<1>7. f[n] = s[hi] - s[lo]
  BY <1>1
<1>8. Summing(f, us)
  BY <1>2, <1>5, <1>6 DEF Summing
<1> HIDE DEF f
<1>9. f[Len(us)] = Total(us)
  BY <1>2, <1>8, SumUnique
<1> QED
  BY <1>2, <1>7, <1>9 DEF s, us

LEMMA ReversedSum ==
    ASSUME NEW vs \in Seq(Int), NEW us \in Seq(Int), Len(us) = Len(vs),
           \A i \in 1 .. Len(vs) : us[i] = vs[Len(vs) - i + 1]
    PROVE  Total(us) = Total(vs)
<1> DEFINE s == Sums(vs)
           n == Len(vs)
           f == [i \in 0 .. n |-> s[n] - s[n - i]]
<1>1. n \in Nat /\ \A i \in 1 .. n : us[i] \in Int
  <2>1. Len(us) \in Nat /\ \A i \in 1 .. Len(us) : us[i] \in Int
    OBVIOUS
  <2> QED
    BY <2>1
<1>2. /\ \A i \in 0 .. n : s[i] \in Int
      /\ s[0] = 0 /\ \A i \in 1 .. n : s[i] = s[i - 1] + vs[i]
  BY SumsAre DEF Summing
<1>3. Total(vs) = s[n]
  BY DEF Total
<1> HIDE DEF s
<1>4. \A i \in 0 .. n : n - i \in 0 .. n /\ s[n - i] \in Int
  BY <1>1, <1>2
<1>5. s[n] \in Int
  BY <1>1, <1>2
<1>6. f[0] = 0 /\ f[n] = s[n]
  BY <1>1, <1>2, <1>5
<1>7. ASSUME NEW i \in 1 .. n PROVE f[i] = f[i - 1] + us[i]
  <2> DEFINE k == (n - i) + 1
  <2>1. /\ i \in 0 .. n /\ i - 1 \in 0 .. n /\ k \in 1 .. n
        /\ n - (i - 1) = k /\ n - i = k - 1 /\ k - 1 \in 0 .. n /\ k \in 0 .. n
    BY <1>1
  <2>2. f[i] = s[n] - s[k - 1] /\ f[i - 1] = s[n] - s[k]
    BY <2>1
  <2>3. s[k] = s[k - 1] + us[i]
    BY <1>2, <2>1
  <2>4. s[k] \in Int /\ s[k - 1] \in Int /\ us[i] \in Int
    BY <1>1, <1>2, <2>1
  <2> HIDE DEF f, k
  <2>5. s[n] - s[k - 1] = (s[n] - s[k]) + us[i]
    BY ONLY <1>5, <2>3, <2>4
  <2> QED
    BY <2>2, <2>5
<1>8. Summing(f, us)
  BY <1>6, <1>7 DEF Summing
<1> HIDE DEF f
<1>9. f[Len(us)] = Total(us)
  BY <1>8, SumUnique
<1> QED
  BY <1>3, <1>6, <1>9

-----------------------------------------------------------------------------
(* The least and the largest of finitely many numbers.                      *)
LEMMA Extremes ==
    ASSUME NEW S \in SUBSET Int, IsFiniteSet(S), S # {}
    PROVE  /\ Min(S) \in S /\ \A x \in S : Min(S) <= x
           /\ Max(S) \in S /\ \A x \in S : x <= Max(S)
<1> DEFINE key == [x \in S |-> x]
           n == Cardinality(S)
<1>1. key \in [S -> Int] /\ \A x \in S : key[x] = x
  OBVIOUS
<1> HIDE DEF key
<1>2. /\ n \in Nat
      /\ \A k \in 1 .. n : Placed(key, k) \in S
      /\ \A x \in S : Cardinality(UpTo(key, x)) \in 1 .. n /\ Placed(key, Cardinality(UpTo(key, x))) = x
      /\ \A k, m \in 1 .. n : k < m => Placed(key, k) <= Placed(key, m)
  <2>1. /\ n \in Nat
        /\ \A k \in 1 .. n : Placed(key, k) \in S
        /\ \A x \in S : Placed(key, Cardinality(UpTo(key, x))) = x
        /\ \A k, m \in 1 .. n : k < m =>
             \/ key[Placed(key, k)] < key[Placed(key, m)]
             \/ key[Placed(key, k)] = key[Placed(key, m)] /\ Placed(key, k) < Placed(key, m)
    BY <1>1, Places
  <2>2. \A x \in S : Cardinality(UpTo(key, x)) \in 1 .. n
    BY <1>1, RankRange
  <2>3. ASSUME NEW k \in 1 .. n, NEW m \in 1 .. n, k < m PROVE Placed(key, k) <= Placed(key, m)
    <3>1. Placed(key, k) \in S /\ Placed(key, m) \in S
      BY <2>1
    <3>2. \/ Placed(key, k) < Placed(key, m)
          \/ Placed(key, k) = Placed(key, m) /\ Placed(key, k) < Placed(key, m)
      BY <1>1, <2>1, <2>3, <3>1
    <3>3. Placed(key, k) \in Int /\ Placed(key, m) \in Int
      BY <3>1
    <3> QED
      BY <3>2, <3>3
  <2> QED
    BY <2>1, <2>2, <2>3
<1>3. n \in Nat \ {0}
  <2>1. PICK x \in S : TRUE
    OBVIOUS
  <2>2. Cardinality(UpTo(key, x)) \in 1 .. n
    BY <1>2, <2>1
  <2> HIDE DEF n
  <2> QED
    BY <1>2, <2>2
<1>4. ASSUME NEW x \in S PROVE Placed(key, 1) <= x /\ x <= Placed(key, n)
  <2>1. PICK k \in 1 .. n : Placed(key, k) = x
    BY <1>2
  <2>2. x \in Int /\ 1 \in 1 .. n /\ n \in 1 .. n
    BY <1>3
  <2>3. k = 1 \/ 1 < k
    OBVIOUS
  <2>4. k = n \/ k < n
    BY <1>3
  <2> QED
    BY <1>2, <2>1, <2>2, <2>3, <2>4
<1>5. Placed(key, 1) \in S /\ Placed(key, n) \in S
  BY <1>2, <1>3
<1>6. \E m \in S : \A x \in S : m <= x
  BY <1>4, <1>5
<1>7. \E m \in S : \A x \in S : m >= x
  BY <1>4, <1>5
<1>8. Min(S) \in S /\ \A x \in S : Min(S) <= x
  BY <1>6 DEF Min
<1>9. Max(S) \in S /\ \A x \in S : Max(S) >= x
  BY <1>7 DEF Max
<1>10. \A x \in S : x <= Max(S)
  BY <1>9
<1> QED
  BY <1>8, <1>9, <1>10

LEMMA ValueRange ==
    ASSUME NEW vs \in Seq(Int)
    PROVE  /\ Range(vs) \in SUBSET Int /\ IsFiniteSet(Range(vs))
           /\ Range(vs) = {vs[i] : i \in 1 .. Len(vs)}
           /\ Range(vs) = {} <=> Len(vs) = 0
<1>1. DOMAIN vs = 1 .. Len(vs) /\ Len(vs) \in Nat
  OBVIOUS
<1>2. vs \in Surjection(1 .. Len(vs), Range(vs))
  BY <1>1 DEF Surjection, Range
<1>3. IsFiniteSet(1 .. Len(vs))
  BY PositionsFinite, <1>1
<1>4. IsFiniteSet(Range(vs))
  BY <1>2, <1>3, FS_Surjection
<1>5. Range(vs) = {vs[i] : i \in 1 .. Len(vs)}
  BY <1>1 DEF Range
<1>6. \A i \in 1 .. Len(vs) : vs[i] \in Int
  OBVIOUS
<1>7. Range(vs) \in SUBSET Int
  BY <1>5, <1>6
<1>8. Range(vs) = {} <=> 1 .. Len(vs) = {}
  BY <1>5
<1>9. 1 .. Len(vs) = {} <=> Len(vs) = 0
  <2>1. Len(vs) # 0 => 1 \in 1 .. Len(vs)
    BY <1>1
  <2>2. Len(vs) = 0 => 1 .. Len(vs) = {}
    BY <1>1
  <2> QED
    BY <2>1, <2>2
<1> QED
  BY <1>4, <1>5, <1>7, <1>8, <1>9

(* Division.                                                                *)
LEMMA Monotone ==
    ASSUME NEW a \in Int, NEW b \in Int, NEW c \in Nat, a <= b
    PROVE  a * c <= b * c
<1>1. (b - a) * c >= 0
  OBVIOUS
<1> QED
  BY <1>1

LEMMA DivAtLeast ==
    ASSUME NEW a \in Nat, NEW b \in Nat \ {0}, NEW c \in Int
    PROVE  a \div b \in Nat /\ (a \div b >= c <=> c * b <= a)
<1> DEFINE q == a \div b
<1>1. q \in Nat /\ q * b <= a /\ a < (q + 1) * b
  OBVIOUS
<1> HIDE DEF q
<1>2. ASSUME q >= c PROVE c * b <= a
  <2>1. c * b <= q * b
    BY <1>1, <1>2, Monotone
  <2> QED
    BY <1>1, <2>1
<1>3. ASSUME q < c PROVE ~ (c * b <= a)
  <2>1. q + 1 <= c
    BY <1>1, <1>3
  <2>2. (q + 1) * b <= c * b
    BY <1>1, <2>1, Monotone
  <2> QED
    BY <1>1, <2>2
<1> QED
  BY <1>1, <1>2, <1>3 DEF q
-----------------------------------------------------------------------------
(* The rows of a window, and its values.                                    *)
LEMMA WindowRows ==
    ASSUME NEW S, NEW rs \in Seq(S), NEW limit \in Nat \ {0}
    PROVE  LET w == Window(rs, limit)
               newest == Newest(rs, limit)
               n == Len(w)
           IN  /\ w \in Seq(S) /\ Len(newest) = n /\ n \in Nat /\ n <= Len(rs) /\ n <= limit
               /\ \A i \in 1 .. n : /\ w[i] = rs[(Len(rs) - n) + i]
                                    /\ w[i] = newest[n - i + 1] /\ newest[i] = w[n - i + 1]
<1> DEFINE newest == Newest(rs, limit)
           n == Len(newest)
           w == Window(rs, limit)
<1>1. /\ newest \in Seq(S) /\ n = (IF limit < Len(rs) THEN limit ELSE Len(rs))
      /\ \A i \in 1 .. n : newest[i] = rs[Len(rs) - i + 1]
  BY NewestRows
<1>2. w = [i \in 1 .. n |-> newest[(n - i) + 1]]
  BY DEF Window, Reverse
<1> HIDE DEF newest, w
<1>3. Len(rs) \in Nat /\ n \in Nat /\ n <= Len(rs) /\ n <= limit
  BY <1>1
<1> HIDE DEF n
<1>4. \A i \in 1 .. n : (n - i) + 1 \in 1 .. n /\ (n - ((n - i) + 1)) + 1 = i
                        /\ (Len(rs) - ((n - i) + 1)) + 1 = (Len(rs) - n) + i
  BY <1>3
<1>5. \A i \in 1 .. n : newest[i] \in S
  BY <1>1 DEF n
<1>6. w \in Seq(S) /\ Len(w) = n
  BY <1>2, <1>3, <1>4, <1>5
<1>7. ASSUME NEW i \in 1 .. n
      PROVE  /\ w[i] = rs[(Len(rs) - n) + i]
             /\ w[i] = newest[n - i + 1] /\ newest[i] = w[n - i + 1]
  <2>1. w[i] = newest[(n - i) + 1] /\ w[(n - i) + 1] = newest[(n - ((n - i) + 1)) + 1]
    BY <1>2, <1>4
  <2>2. newest[(n - i) + 1] = rs[(Len(rs) - ((n - i) + 1)) + 1]
    BY <1>1, <1>4
  <2> QED
    BY <1>4, <2>1, <2>2
<1> QED
  BY <1>3, <1>6, <1>7 DEF newest, n, w

LEMMA TableOf ==
    ASSUME NEW t, IsTable(t), NEW u \in Seq(Range(t))
    PROVE  IsTable(u)
<1>1. \A i \in DOMAIN u : u[i] \in Range(t) /\ u[i] \in Range(u)
  BY DEF Range
<1>2. u \in Seq(Range(u))
  <2>1. DOMAIN u = 1 .. Len(u) /\ Len(u) \in Nat
    OBVIOUS
  <2> QED
    BY <1>1, <2>1
<1>3. \A row \in Range(t) : row # None /\ row.at \in Int /\ row.value \in Int
  BY DEF IsTable, Range
<1> QED
  BY <1>1, <1>2, <1>3 DEF IsTable

LEMMA WindowTable ==
    ASSUME NEW t, IsTable(t), NEW limit \in Nat \ {0}
    PROVE  IsTable(Window(t, limit)) /\ IsTable(Newest(t, limit))
<1>1. t \in Seq(Range(t))
  BY DEF IsTable
<1>2. Window(t, limit) \in Seq(Range(t)) /\ Newest(t, limit) \in Seq(Range(t))
  BY <1>1, WindowRows, NewestRows
<1> QED
  BY <1>2, TableOf

LEMMA Values ==
    ASSUME NEW t, IsTable(t)
    PROVE  /\ ValuesOf(t) \in Seq(Int) /\ Len(ValuesOf(t)) = Len(t) /\ Len(t) \in Nat
           /\ \A i \in 1 .. Len(t) : ValuesOf(t)[i] = t[i].value /\ t[i].value \in Int
<1>1. t \in Seq(Range(t)) /\ DOMAIN t = 1 .. Len(t) /\ Len(t) \in Nat
  BY DEF IsTable
<1>2. \A i \in 1 .. Len(t) : t[i].value \in Int
  BY <1>1 DEF IsTable
<1>3. ValuesOf(t) = [i \in 1 .. Len(t) |-> t[i].value]
  BY <1>1 DEF ValuesOf
<1> QED
  BY <1>1, <1>2, <1>3

(* Chunks of a bucket's size, up to the end.                                *)
ChunkEnds(n, bucket) ==
    [k \in 0 .. ((n + bucket - 1) \div bucket) |-> IF k * bucket < n THEN k * bucket ELSE n]

LEMMA Chunks ==
    ASSUME NEW n \in Nat, NEW bucket \in Nat \ {0}
    PROVE  LET m == (n + bucket - 1) \div bucket
               end == ChunkEnds(n, bucket)
           IN  /\ m \in Nat /\ end \in [0 .. m -> 0 .. n] /\ end[0] = 0 /\ end[m] = n
               /\ m = 0 <=> n = 0
               /\ \A k \in 1 .. m :
                    /\ end[k - 1] = (k - 1) * bucket /\ end[k - 1] < end[k]
                    /\ end[k] = IF k * bucket < n THEN k * bucket ELSE n
                    /\ k < m => end[k] - end[k - 1] = bucket
<1> DEFINE a == n + bucket - 1
           m == a \div bucket
           end == ChunkEnds(n, bucket)
<1>1. a \in Nat
  OBVIOUS
<1>2. m \in Nat /\ \A c \in Int : m >= c <=> c * bucket <= a
  BY <1>1, DivAtLeast
<1>3. \A k \in 0 .. m : end[k] = IF k * bucket < n THEN k * bucket ELSE n
  BY DEF ChunkEnds
<1>4. DOMAIN end = 0 .. m /\ end = [k \in 0 .. m |-> end[k]]
  BY DEF ChunkEnds
<1> HIDE DEF m, end
<1>5. \A k \in Nat : k * bucket \in Nat /\ (k + 1) * bucket = k * bucket + bucket
  OBVIOUS
<1>6. ASSUME NEW k \in 1 .. m PROVE k - 1 \in Nat /\ (k - 1) * bucket < n /\ k * bucket = (k - 1) * bucket + bucket
  <2>1. k \in Int /\ m >= k /\ k - 1 \in Nat /\ (k - 1) + 1 = k
    BY <1>2
  <2>2. k * bucket <= a
    BY <1>2, <2>1
  <2>3. k * bucket = (k - 1) * bucket + bucket /\ (k - 1) * bucket \in Nat
    BY <1>5, <2>1
  <2> QED
    BY <2>1, <2>2, <2>3
<1>7. m * bucket >= n
  <2>1. ~ ((m + 1) * bucket <= a)
    BY <1>2
  <2>2. (m + 1) * bucket = m * bucket + bucket /\ m * bucket \in Nat
    BY <1>2, <1>5
  <2> QED
    BY <2>1, <2>2
<1>8. end \in [0 .. m -> 0 .. n]
  <2>1. ASSUME NEW k \in 0 .. m PROVE end[k] \in 0 .. n
    <3>1. k \in Nat /\ k * bucket \in Nat
      BY <1>2, <1>5
    <3> QED
      BY <1>3, <3>1
  <2> QED
    BY <1>4, <2>1
<1>9. end[m] = n
  <2>1. m \in 0 .. m /\ m * bucket \in Nat
    BY <1>2, <1>5
  <2> QED
    BY <1>3, <1>7, <2>1
<1>10. end[0] = 0
  BY <1>2, <1>3
<1>11. m = 0 <=> n = 0
  <2>1. m = 0 => n = 0
    BY <1>9, <1>10
  <2>2. m # 0 => n # 0
    <3>1. m # 0 => m \in 1 .. m
      BY <1>2
    <3>2. m # 0 => (m - 1) * bucket < n /\ m - 1 \in Nat
      BY <1>6, <3>1
    <3>3. m # 0 => (m - 1) * bucket \in Nat
      BY <1>5, <3>2
    <3> QED
      BY <3>2, <3>3
  <2> QED
    BY <2>1, <2>2
<1>12. ASSUME NEW k \in 1 .. m
       PROVE  /\ end[k - 1] = (k - 1) * bucket /\ end[k - 1] < end[k]
              /\ end[k] = IF k * bucket < n THEN k * bucket ELSE n
              /\ k < m => end[k] - end[k - 1] = bucket
  <2>1. k - 1 \in Nat /\ (k - 1) * bucket < n /\ k * bucket = (k - 1) * bucket + bucket
    BY <1>6
  <2>2. k - 1 \in 0 .. m /\ k \in 0 .. m /\ (k - 1) * bucket \in Nat
    BY <1>2, <1>5, <2>1
  <2>3. end[k - 1] = (k - 1) * bucket /\ end[k] = IF k * bucket < n THEN k * bucket ELSE n
    BY <1>3, <2>1, <2>2
  <2>4. k < m => k * bucket < n
    <3>1. k < m => k + 1 \in 1 .. m /\ (k + 1) - 1 = k
      BY <1>2
    <3> QED
      BY <1>6, <3>1
  <2> QED
    BY <2>1, <2>2, <2>3, <2>4
<1> QED
  BY <1>2, <1>8, <1>9, <1>10, <1>11, <1>12 DEF m, end

LEMMA ChunkOf ==
    ASSUME NEW n \in Nat, NEW bucket \in Nat \ {0}, NEW i \in 1 .. n
    PROVE  \E k \in 1 .. ((n + bucket - 1) \div bucket) :
             ChunkEnds(n, bucket)[k - 1] < i /\ i <= ChunkEnds(n, bucket)[k]
<1> DEFINE m == (n + bucket - 1) \div bucket
           end == ChunkEnds(n, bucket)
           Reached == {k \in 0 .. m : i <= end[k]}
<1>1. m \in Nat /\ end \in [0 .. m -> 0 .. n] /\ end[0] = 0 /\ end[m] = n
  BY Chunks
<1> HIDE DEF m, end
<1>2. m \in Reached /\ Reached \subseteq Nat
  BY <1>1
<1>3. PICK k \in Reached : \A j \in Reached : k <= j
  <2> HIDE DEF Reached
  <2> QED
    BY <1>2, LeastElement
<1>4. k \in 1 .. m /\ k - 1 \in 0 .. m /\ ~ (k <= k - 1)
  BY <1>1, <1>3
<1>5. ~ (i <= end[k - 1])
  BY <1>3, <1>4
<1>6. end[k - 1] \in Int
  BY <1>1, <1>4
<1>7. end[k - 1] < i /\ i <= end[k]
  BY <1>3, <1>5, <1>6
<1> QED
  BY <1>4, <1>7 DEF m, end

(* The statistics of a slice of a table.                                    *)
LEMMA SliceStats ==
    ASSUME NEW t, IsTable(t), NEW lo \in Nat, NEW hi \in Nat, lo < hi, hi <= Len(t)
    PROVE  LET chunk == SubSeq(t, lo + 1, hi)
               vs == ValuesOf(t)
               part == {vs[i] : i \in lo + 1 .. hi}
           IN  /\ Stats(ValuesOf(chunk)) = [count |-> hi - lo, min |-> Min(part), max |-> Max(part),
                                            sum |-> Sums(vs)[hi] - Sums(vs)[lo]]
               /\ Head(chunk).at = t[lo + 1].at /\ Last(chunk).at = t[hi].at
<1> DEFINE chunk == SubSeq(t, lo + 1, hi)
           vs == ValuesOf(t)
           us == SubSeq(vs, lo + 1, hi)
           part == {vs[i] : i \in lo + 1 .. hi}
           n == hi - lo
<1>1. t \in Seq(Range(t)) /\ Len(t) \in Nat /\ n \in Nat \ {0}
  BY DEF IsTable
<1>2. vs \in Seq(Int) /\ Len(vs) = Len(t) /\ \A i \in 1 .. Len(t) : vs[i] = t[i].value
  BY Values
<1>3. \A i \in 1 .. n : (lo + 1) + i - 1 = lo + i /\ lo + i \in 1 .. Len(t)
  BY <1>1
<1>4. chunk \in Seq(Range(t)) /\ Len(chunk) = n /\ \A i \in 1 .. n : chunk[i] = t[lo + i]
  BY <1>1, <1>3
<1> HIDE DEF chunk, vs
<1>5. us \in Seq(Int) /\ Len(us) = n /\ \A i \in 1 .. n : us[i] = vs[lo + i]
  BY <1>1, <1>2, <1>3
<1> HIDE DEF us
<1>6. ValuesOf(chunk) = us
  <2>1. DOMAIN chunk = 1 .. n /\ DOMAIN us = 1 .. n
    BY <1>4, <1>5
  <2>2. \A i \in 1 .. n : chunk[i].value = us[i]
    BY <1>2, <1>3, <1>4, <1>5
  <2>3. us = [i \in 1 .. n |-> us[i]]
    BY <1>5, <2>1
  <2> QED
    BY <2>1, <2>2, <2>3 DEF ValuesOf
<1>7. Range(us) = part
  <2>1. Range(us) = {us[i] : i \in 1 .. n}
    BY <1>5, ValueRange
  <2>2. ASSUME NEW i \in 1 .. n PROVE us[i] \in part
    <3>1. lo + i \in lo + 1 .. hi
      BY <1>1
    <3> QED
      BY <1>5, <3>1
  <2>3. ASSUME NEW i \in lo + 1 .. hi PROVE vs[i] \in Range(us)
    <3>1. i - lo \in 1 .. n /\ lo + (i - lo) = i
      BY <1>1
    <3> QED
      BY <1>5, <2>1, <3>1
  <2> QED
    BY <2>1, <2>2, <2>3
<1>8. Total(us) = Sums(vs)[hi] - Sums(vs)[lo]
  <2>1. lo \in 0 .. Len(vs) /\ hi \in lo .. Len(vs)
    BY <1>1, <1>2
  <2> QED
    BY <1>2, <2>1, SliceSum DEF us
<1>9. us # <<>>
  BY <1>1, <1>5
<1>10. Stats(us) = [count |-> n, min |-> Min(part), max |-> Max(part),
                    sum |-> Sums(vs)[hi] - Sums(vs)[lo]]
  BY <1>5, <1>7, <1>8, <1>9 DEF Stats
<1>11. Head(chunk) = t[lo + 1] /\ Last(chunk) = t[hi]
  <2>1. 1 \in 1 .. n /\ n \in 1 .. n /\ lo + n = hi /\ chunk # <<>>
    BY <1>1, <1>4
  <2>2. Head(chunk) = chunk[1] /\ Last(chunk) = chunk[n]
    BY <1>4, <2>1 DEF Last
  <2> QED
    BY <1>4, <2>1, <2>2
<1> QED
  BY <1>6, <1>10, <1>11 DEF chunk, vs

(* The chunks of an aggregate, by their ends.                               *)
Part(vs, end, k) == {vs[i] : i \in end[k - 1] + 1 .. end[k]}

LEMMA AggregateChunks ==
    ASSUME NEW t, IsTable(t), NEW s, NEW window \in Nat \ {0}, NEW bucket \in Nat \ {0}
    PROVE  LET w == Window(Of(t, s), window)
               vs == ValuesOf(w)
               end == ChunkEnds(Len(w), bucket)
               chunks == Aggregate(t, s, window, bucket)
               m == (Len(w) + bucket - 1) \div bucket
           IN  /\ DOMAIN chunks = 1 .. m
               /\ \A k \in 1 .. m :
                    chunks[k] = [stats |-> [count |-> end[k] - end[k - 1],
                                            min |-> Min(Part(vs, end, k)),
                                            max |-> Max(Part(vs, end, k)),
                                            sum |-> Sums(vs)[end[k]] - Sums(vs)[end[k - 1]]],
                                 first |-> w[end[k - 1] + 1].at, last |-> w[end[k]].at]
<1> DEFINE w == Window(Of(t, s), window)
           vs == ValuesOf(w)
           n == Len(w)
           end == ChunkEnds(n, bucket)
           chunks == Aggregate(t, s, window, bucket)
           m == (n + bucket - 1) \div bucket
           chunk(k) == SubSeq(w, (k - 1) * bucket + 1, IF k * bucket < n THEN k * bucket ELSE n)
<1>1. IsTable(w)
  BY OfTable, WindowTable
<1>2. chunks = [k \in 1 .. m |-> [stats |-> Stats(ValuesOf(chunk(k))),
                                  first |-> Head(chunk(k)).at, last |-> Last(chunk(k)).at]]
  BY DEF Aggregate
<1> HIDE DEF w, chunks
<1>3. n \in Nat
  BY <1>1 DEF IsTable
<1> HIDE DEF n
<1>4. /\ m \in Nat /\ end \in [0 .. m -> 0 .. n] /\ end[0] = 0 /\ end[m] = n
      /\ \A k \in 1 .. m :
           /\ end[k - 1] = (k - 1) * bucket /\ end[k - 1] < end[k]
           /\ end[k] = IF k * bucket < n THEN k * bucket ELSE n
  <2>1. /\ m \in Nat /\ end \in [0 .. m -> 0 .. n] /\ end[0] = 0 /\ end[m] = n
        /\ m = 0 <=> n = 0
        /\ \A k \in 1 .. m :
             /\ end[k - 1] = (k - 1) * bucket /\ end[k - 1] < end[k]
             /\ end[k] = IF k * bucket < n THEN k * bucket ELSE n
             /\ k < m => end[k] - end[k - 1] = bucket
    BY ONLY <1>3, bucket \in Nat \ {0}, Chunks
  <2> HIDE DEF m, end
  <2> QED
    BY <2>1
<1> HIDE DEF m, end
<1>5. ASSUME NEW k \in 1 .. m
      PROVE  chunks[k] = [stats |-> [count |-> end[k] - end[k - 1],
                                     min |-> Min(Part(vs, end, k)),
                                     max |-> Max(Part(vs, end, k)),
                                     sum |-> Sums(vs)[end[k]] - Sums(vs)[end[k - 1]]],
                          first |-> w[end[k - 1] + 1].at, last |-> w[end[k]].at]
  <2> DEFINE lo == end[k - 1]
             hi == end[k]
             part == {vs[i] : i \in lo + 1 .. hi}
  <2>1. k - 1 \in 0 .. m /\ k \in 0 .. m
    BY <1>4
  <2>2. lo \in Nat /\ hi \in Nat /\ lo < hi /\ hi <= Len(w)
    BY <1>3, <1>4, <2>1 DEF n
  <2>3. chunk(k) = SubSeq(w, lo + 1, hi)
    BY <1>4
  <2> HIDE DEF lo, hi, chunk
  <2> DEFINE c == SubSeq(w, lo + 1, hi)
  <2>0. /\ Stats(ValuesOf(c)) = [count |-> hi - lo, min |-> Min(part), max |-> Max(part),
                                  sum |-> Sums(vs)[hi] - Sums(vs)[lo]]
        /\ Head(c).at = w[lo + 1].at /\ Last(c).at = w[hi].at
    BY ONLY <1>1, <2>2, SliceStats
  <2> HIDE DEF vs, part, c
  <2>4. /\ Stats(ValuesOf(chunk(k))) = [count |-> hi - lo, min |-> Min(part), max |-> Max(part),
                                        sum |-> Sums(vs)[hi] - Sums(vs)[lo]]
        /\ Head(chunk(k)).at = w[lo + 1].at /\ Last(chunk(k)).at = w[hi].at
    BY <2>0, <2>3 DEF c
  <2>5. chunks[k] = [stats |-> Stats(ValuesOf(chunk(k))),
                     first |-> Head(chunk(k)).at, last |-> Last(chunk(k)).at]
    BY <1>2
  <2>6. chunks[k] = [stats |-> [count |-> hi - lo, min |-> Min(part), max |-> Max(part),
                                sum |-> Sums(vs)[hi] - Sums(vs)[lo]],
                     first |-> w[lo + 1].at, last |-> w[hi].at]
    BY <2>4, <2>5
  <2> QED
    BY <2>6 DEF lo, hi, part, Part
<1>6. DOMAIN chunks = 1 .. m
  BY <1>2
<1> HIDE DEF vs
<1> QED
  BY <1>5, <1>6 DEF w, vs, n, end, chunks, m

(* The statistics of a window, by its values in the order of time.          *)
LEMMA WholeStats ==
    ASSUME NEW t, IsTable(t), NEW s, NEW window \in Nat \ {0}
    PROVE  LET w == Window(Of(t, s), window)
               vs == ValuesOf(w)
           IN  /\ IsTable(w) /\ vs \in Seq(Int) /\ Len(vs) = Len(w) /\ Len(w) \in Nat
               /\ Len(w) = 0 => SensorStats(t, s, window) = [count |-> 0, min |-> None, max |-> None, sum |-> 0]
               /\ Len(w) # 0 => SensorStats(t, s, window) =
                                  [count |-> Len(w), min |-> Min(Range(vs)), max |-> Max(Range(vs)),
                                   sum |-> Total(vs)]
<1> DEFINE rs == Of(t, s)
           w == Window(rs, window)
           newest == Newest(rs, window)
           vs == ValuesOf(w)
           us == ValuesOf(newest)
           n == Len(w)
<1>1. SensorStats(t, s, window) = Stats(us)
  BY DEF SensorStats
<1>2. IsTable(w) /\ IsTable(newest)
  BY OfTable, WindowTable
<1>3. rs \in Seq(Range(rs))
  BY OfTable DEF IsTable
<1> HIDE DEF rs
<1>4. n = Len(newest) /\ n \in Nat /\ \A i \in 1 .. n : newest[i] = w[n - i + 1]
  BY ONLY <1>3, window \in Nat \ {0}, WindowRows
<1> HIDE DEF w, newest
<1>5. /\ vs \in Seq(Int) /\ Len(vs) = n /\ us \in Seq(Int) /\ Len(us) = n
      /\ \A i \in 1 .. n : vs[i] = w[i].value /\ us[i] = newest[i].value
  BY <1>2, <1>4, Values
<1> HIDE DEF vs, us
<1>6. \A i \in 1 .. n : us[i] = vs[n - i + 1] /\ n - i + 1 \in 1 .. n /\ n - (n - i + 1) + 1 = i
  <2>1. \A i \in 1 .. n : n - i + 1 \in 1 .. n /\ n - (n - i + 1) + 1 = i
    BY <1>4
  <2> QED
    BY <1>4, <1>5, <2>1
<1>7. Total(us) = Total(vs)
  BY <1>5, <1>6, ReversedSum
<1>8. Range(us) = Range(vs)
  <2>1. Range(us) = {us[i] : i \in 1 .. n} /\ Range(vs) = {vs[i] : i \in 1 .. n}
    BY <1>5, ValueRange
  <2> HIDE DEF n
  <2>2. ASSUME NEW i \in 1 .. n PROVE us[i] \in Range(vs)
    BY <1>6, <2>1
  <2>3. ASSUME NEW i \in 1 .. n PROVE vs[i] \in Range(us)
    <3>1. us[n - i + 1] = vs[i] /\ n - i + 1 \in 1 .. n
      BY <1>6
    <3> QED
      BY <2>1, <3>1
  <2> QED
    BY <2>1, <2>2, <2>3
<1>9. us = <<>> <=> n = 0
  BY <1>5
<1> QED
  BY <1>1, <1>2, <1>4, <1>5, <1>7, <1>8, <1>9 DEF Stats, rs, w, vs

(* The least of the parts' least values is the least of all.                *)
LeastOf(vs, end, m) == {Min(Part(vs, end, k)) : k \in 1 .. m}

LargestOf(vs, end, m) == {Max(Part(vs, end, k)) : k \in 1 .. m}

LEMMA EndsInOrder ==
    ASSUME NEW m \in Nat, NEW n \in Nat, NEW end \in [0 .. m -> 0 .. n],
           end[0] = 0, end[m] = n, \A k \in 1 .. m : end[k - 1] < end[k],
           NEW vs \in Seq(Int), Len(vs) = n, m > 0,
           \A i \in 1 .. n : \E k \in 1 .. m : end[k - 1] < i /\ i <= end[k]
    PROVE  /\ Min(LeastOf(vs, end, m)) = Min(Range(vs))
           /\ Max(LargestOf(vs, end, m)) = Max(Range(vs))
<1> DEFINE part(k) == {vs[i] : i \in end[k - 1] + 1 .. end[k]}
           least == {Min(part(k)) : k \in 1 .. m}
           largest == {Max(part(k)) : k \in 1 .. m}
           R == Range(vs)
<1>1. /\ R \in SUBSET Int /\ IsFiniteSet(R) /\ R = {vs[i] : i \in 1 .. n}
  BY ValueRange
<1> HIDE DEF R
<1>2. ASSUME NEW k \in 1 .. m
      PROVE  /\ part(k) \subseteq R /\ part(k) # {}
             /\ Min(part(k)) \in part(k) /\ \A x \in part(k) : Min(part(k)) <= x
             /\ Max(part(k)) \in part(k) /\ \A x \in part(k) : x <= Max(part(k))
  <2>1. k - 1 \in 0 .. m /\ k \in 0 .. m
    OBVIOUS
  <2>2. end[k - 1] \in 0 .. n /\ end[k] \in 0 .. n /\ end[k - 1] < end[k]
    BY <2>1
  <2>3. end[k] \in end[k - 1] + 1 .. end[k] /\ end[k - 1] + 1 .. end[k] \subseteq 1 .. n
    <3> DEFINE lo == end[k - 1]
               hi == end[k]
    <3>1. lo \in 0 .. n /\ hi \in 0 .. n /\ lo < hi
      BY <2>2
    <3> HIDE DEF lo, hi
    <3>2. hi \in lo + 1 .. hi /\ lo + 1 .. hi \subseteq 1 .. n
      BY <3>1
    <3> QED
      BY <3>2 DEF lo, hi
  <2>4. part(k) \subseteq R /\ vs[end[k]] \in part(k)
    BY <1>1, <2>3
  <2>5. part(k) \in SUBSET Int /\ IsFiniteSet(part(k)) /\ part(k) # {}
    BY <1>1, <2>4, FS_Subset
  <2> HIDE DEF part
  <2> QED
    BY <2>4, <2>5, Extremes
<1>3. ASSUME NEW x \in R PROVE \E k \in 1 .. m : x \in part(k)
  <2>1. PICK i \in 1 .. n : x = vs[i]
    BY <1>1
  <2>2. PICK k \in 1 .. m : end[k - 1] < i /\ i <= end[k]
    OBVIOUS
  <2>3. k - 1 \in 0 .. m /\ k \in 0 .. m
    OBVIOUS
  <2>4. end[k - 1] \in 0 .. n /\ end[k] \in 0 .. n
    BY <2>3
  <2>5. i \in end[k - 1] + 1 .. end[k]
    BY <2>2, <2>4
  <2> QED
    BY <2>1, <2>5
<1> HIDE DEF part
<1>4. least \subseteq R /\ largest \subseteq R
  BY <1>2
<1>5. 1 \in 1 .. m
  OBVIOUS
<1>6. least # {} /\ largest # {} /\ R # {}
  <2>1. Min(part(1)) \in least /\ Max(part(1)) \in largest /\ part(1) # {} /\ part(1) \subseteq R
    BY <1>2, <1>5
  <2> QED
    BY <2>1
<1>7. /\ least \in SUBSET Int /\ IsFiniteSet(least)
      /\ largest \in SUBSET Int /\ IsFiniteSet(largest)
  BY <1>1, <1>4, FS_Subset
<1>8. /\ Min(R) \in R /\ \A x \in R : Min(R) <= x
      /\ Max(R) \in R /\ \A x \in R : x <= Max(R)
  BY <1>1, <1>6, Extremes
<1>9. Min(least) \in least /\ \A x \in least : Min(least) <= x
  BY <1>6, <1>7, Extremes
<1>10. Max(largest) \in largest /\ \A x \in largest : x <= Max(largest)
  BY <1>6, <1>7, Extremes
<1>11. Min(least) = Min(R)
  <2>1. Min(R) <= Min(least)
    BY <1>4, <1>8, <1>9
  <2>2. PICK k \in 1 .. m : Min(R) \in part(k)
    BY <1>3, <1>8
  <2>3. Min(part(k)) <= Min(R) /\ Min(part(k)) \in least
    BY <1>2, <2>2
  <2>4. Min(least) <= Min(part(k))
    BY <1>9, <2>3
  <2>5. Min(least) \in Int /\ Min(R) \in Int /\ Min(part(k)) \in Int
    BY <1>1, <1>4, <1>8, <1>9, <2>3
  <2> HIDE DEF least
  <2> QED
    BY ONLY <2>1, <2>3, <2>4, <2>5
<1>12. Max(largest) = Max(R)
  <2>1. Max(largest) <= Max(R)
    BY <1>4, <1>8, <1>10
  <2>2. PICK k \in 1 .. m : Max(R) \in part(k)
    BY <1>3, <1>8
  <2>3. Max(R) <= Max(part(k)) /\ Max(part(k)) \in largest
    BY <1>2, <2>2
  <2>4. Max(part(k)) <= Max(largest)
    BY <1>10, <2>3
  <2>5. Max(largest) \in Int /\ Max(R) \in Int /\ Max(part(k)) \in Int
    BY <1>1, <1>4, <1>8, <1>10, <2>3
  <2> HIDE DEF largest
  <2> QED
    BY ONLY <2>1, <2>3, <2>4, <2>5
<1> QED
  BY <1>11, <1>12 DEF R, part, Part, LeastOf, LargestOf

LEMMA AggregateAddsUp ==
    ASSUME NEW t, IsTable(t), NEW s, NEW window \in Nat \ {0}, NEW bucket \in Nat \ {0}
    PROVE  LET whole == SensorStats(t, s, window)
               rs == Of(t, s)
               chunks == Aggregate(t, s, window, bucket)
               of == [k \in DOMAIN chunks |-> chunks[k].stats]
           IN
           /\ Total([k \in DOMAIN of |-> of[k].count]) = whole.count
           /\ Total([k \in DOMAIN of |-> of[k].sum]) = whole.sum
           /\ of # <<>> => /\ Min({of[k].min : k \in DOMAIN of}) = whole.min
                           /\ Max({of[k].max : k \in DOMAIN of}) = whole.max
           /\ \A k \in 1 .. (Len(of) - 1) :
                /\ of[k].count = bucket
                /\ (\A i, j \in DOMAIN rs : i < j => rs[i].at <= rs[j].at) =>
                     chunks[k].last <= chunks[k + 1].first
<1> DEFINE whole == SensorStats(t, s, window)
           rs == Of(t, s)
           w == Window(rs, window)
           vs == ValuesOf(w)
           n == Len(w)
           sums == Sums(vs)
           end == ChunkEnds(n, bucket)
           chunks == Aggregate(t, s, window, bucket)
           m == (n + bucket - 1) \div bucket
           of == [k \in DOMAIN chunks |-> chunks[k].stats]
           counts == [k \in DOMAIN of |-> of[k].count]
           totals == [k \in DOMAIN of |-> of[k].sum]
<1>1. /\ IsTable(w) /\ vs \in Seq(Int) /\ Len(vs) = n /\ n \in Nat
      /\ n = 0 => whole = [count |-> 0, min |-> None, max |-> None, sum |-> 0]
      /\ n # 0 => whole = [count |-> n, min |-> Min(Range(vs)), max |-> Max(Range(vs)),
                           sum |-> Total(vs)]
  BY WholeStats
<1>2. /\ DOMAIN chunks = 1 .. m
      /\ \A k \in 1 .. m :
           chunks[k] = [stats |-> [count |-> end[k] - end[k - 1],
                                   min |-> Min(Part(vs, end, k)),
                                   max |-> Max(Part(vs, end, k)),
                                   sum |-> sums[end[k]] - sums[end[k - 1]]],
                        first |-> w[end[k - 1] + 1].at, last |-> w[end[k]].at]
  BY ONLY IsTable(t), window \in Nat \ {0}, bucket \in Nat \ {0}, AggregateChunks
<1>3. /\ m \in Nat /\ end \in [0 .. m -> 0 .. n] /\ end[0] = 0 /\ end[m] = n
      /\ m = 0 <=> n = 0
      /\ \A k \in 1 .. m : end[k - 1] < end[k] /\ (k < m => end[k] - end[k - 1] = bucket)
  <2> HIDE DEF n
  <2>1. n \in Nat
    BY <1>1
  <2>2. /\ m \in Nat /\ end \in [0 .. m -> 0 .. n] /\ end[0] = 0 /\ end[m] = n
        /\ m = 0 <=> n = 0
        /\ \A k \in 1 .. m :
             /\ end[k - 1] = (k - 1) * bucket /\ end[k - 1] < end[k]
             /\ end[k] = IF k * bucket < n THEN k * bucket ELSE n
             /\ k < m => end[k] - end[k - 1] = bucket
    BY ONLY <2>1, bucket \in Nat \ {0}, Chunks
  <2> HIDE DEF m, end
  <2> QED
    BY <2>2
<1>4. \A i \in 1 .. n : \E k \in 1 .. m : end[k - 1] < i /\ i <= end[k]
  BY <1>1, ChunkOf
<1>5. /\ \A i \in 0 .. n : sums[i] \in Int
      /\ sums[0] = 0 /\ Total(vs) = sums[n]
  BY <1>1, SumsAre DEF Summing, Total
<1> HIDE DEF whole, chunks, m, end, vs, sums
<1>6. DOMAIN of = 1 .. m /\ \A k \in 1 .. m : of[k] = chunks[k].stats
  BY <1>2
<1>7. \A k \in 1 .. m : /\ of[k].count = end[k] - end[k - 1] /\ of[k].sum = sums[end[k]] - sums[end[k - 1]]
                        /\ of[k].min = Min(Part(vs, end, k)) /\ of[k].max = Max(Part(vs, end, k))
                        /\ chunks[k].first = w[end[k - 1] + 1].at /\ chunks[k].last = w[end[k]].at
  BY <1>2, <1>6
<1> HIDE DEF of, w, n
<1>8. \A k \in 1 .. m : /\ k - 1 \in 0 .. m /\ k \in 0 .. m
                        /\ end[k - 1] \in 0 .. n /\ end[k] \in 0 .. n
                        /\ sums[end[k - 1]] \in Int /\ sums[end[k]] \in Int
  BY <1>3, <1>5
<1>9. counts \in Seq(Int) /\ Len(counts) = m /\ totals \in Seq(Int) /\ Len(totals) = m
      /\ \A k \in 1 .. m : counts[k] = end[k] - end[k - 1] /\ totals[k] = sums[end[k]] - sums[end[k - 1]]
  <2>1. counts = [k \in 1 .. m |-> end[k] - end[k - 1]]
    BY <1>6, <1>7
  <2>2. totals = [k \in 1 .. m |-> sums[end[k]] - sums[end[k - 1]]]
    BY <1>6, <1>7
  <2> HIDE DEF counts, totals
  <2>3. \A k \in 1 .. m : end[k] - end[k - 1] \in Int /\ sums[end[k]] - sums[end[k - 1]] \in Int
    BY <1>1, <1>8
  <2> QED
    BY <1>3, <2>1, <2>2, <2>3
<1> HIDE DEF counts, totals
<1>10. Total(counts) = n
  <2>1. ASSUME NEW k \in 1 .. m PROVE end[k] = end[k - 1] + counts[k]
    <3>1. end[k - 1] \in Int /\ end[k] \in Int /\ counts[k] = end[k] - end[k - 1]
      BY <1>8, <1>9
    <3> QED
      BY ONLY <3>1
  <2>2. Summing(end, counts)
    BY <1>3, <1>9, <2>1 DEF Summing
  <2> QED
    BY <1>3, <1>9, <2>2, SumUnique
<1>11. Total(totals) = Total(vs)
  <2> DEFINE f == [k \in 0 .. m |-> sums[end[k]]]
  <2>1. f[0] = 0 /\ f[m] = Total(vs)
    BY <1>3, <1>5
  <2>2. ASSUME NEW k \in 1 .. m PROVE f[k] = f[k - 1] + totals[k]
    <3>1. f[k] = sums[end[k]] /\ f[k - 1] = sums[end[k - 1]]
      BY <1>8
    <3>2. /\ sums[end[k - 1]] \in Int /\ sums[end[k]] \in Int
          /\ totals[k] = sums[end[k]] - sums[end[k - 1]]
      BY <1>8, <1>9
    <3> HIDE DEF f
    <3> QED
      BY ONLY <3>1, <3>2
  <2> HIDE DEF f
  <2>3. Summing(f, totals)
    BY <1>9, <2>1, <2>2 DEF Summing
  <2> QED
    BY <1>9, <2>1, <2>3, SumUnique
<1>12. ASSUME n # 0
       PROVE  /\ Min({of[k].min : k \in DOMAIN of}) = Min(Range(vs))
              /\ Max({of[k].max : k \in DOMAIN of}) = Max(Range(vs))
  <2>1. /\ {of[k].min : k \in DOMAIN of} = LeastOf(vs, end, m)
        /\ {of[k].max : k \in DOMAIN of} = LargestOf(vs, end, m)
    BY <1>6, <1>7 DEF LeastOf, LargestOf
  <2>2. m > 0
    BY <1>3, <1>12
  <2>3. /\ Min(LeastOf(vs, end, m)) = Min(Range(vs))
        /\ Max(LargestOf(vs, end, m)) = Max(Range(vs))
    <3>1. \A k \in 1 .. m : end[k - 1] < end[k]
      BY <1>3
    <3>2. /\ m \in Nat /\ n \in Nat /\ end \in [0 .. m -> 0 .. n] /\ end[0] = 0 /\ end[m] = n
          /\ vs \in Seq(Int) /\ Len(vs) = n
      BY <1>1, <1>3
    <3> QED
      BY ONLY <1>4, <2>2, <3>1, <3>2, EndsInOrder
  <2> QED
    BY <2>1, <2>3
<1>13. Len(of) = m /\ (of # <<>> => n # 0)
  <2>1. of = [k \in 1 .. m |-> of[k]]
    BY <1>6 DEF of
  <2> QED
    BY <1>3, <2>1
<1>14. ASSUME NEW k \in 1 .. (m - 1),
              \A i, j \in DOMAIN rs : i < j => rs[i].at <= rs[j].at
       PROVE  chunks[k].last <= chunks[k + 1].first
  <2>1. k \in 1 .. m /\ k + 1 \in 1 .. m /\ (k + 1) - 1 = k
    BY <1>3
  <2> DEFINE e == end[k]
             off == Len(rs) - n
  <2>2. chunks[k].last = w[e].at /\ chunks[k + 1].first = w[e + 1].at
    BY <1>7, <2>1
  <2>3. e \in 1 .. n /\ e + 1 \in 1 .. n
    <3>1. end[k - 1] < end[k] /\ end[k] < end[k + 1]
      BY <1>3, <2>1
    <3>2. end[k - 1] \in 0 .. n /\ end[k] \in 0 .. n /\ end[k + 1] \in 0 .. n
      BY <1>8, <2>1
    <3>3. n \in Nat
      BY <1>1
    <3> QED
      BY ONLY <3>1, <3>2, <3>3
  <2>4. rs \in Seq(Range(rs)) /\ DOMAIN rs = 1 .. Len(rs) /\ Len(rs) \in Nat
    <3>1. IsTable(rs)
      BY OfTable
    <3> HIDE DEF rs
    <3> QED
      BY <3>1 DEF IsTable
  <2> HIDE DEF rs
  <2>5. n <= Len(rs) /\ \A i \in 1 .. n : w[i] = rs[off + i]
    BY ONLY <2>4, window \in Nat \ {0}, WindowRows DEF w, n
  <2> HIDE DEF e
  <2>6. off + e \in DOMAIN rs /\ off + (e + 1) \in DOMAIN rs /\ off + e < off + (e + 1)
    BY <1>1, <2>3, <2>4, <2>5
  <2>7. rs[off + e].at <= rs[off + (e + 1)].at
    BY <1>14, <2>6
  <2> QED
    BY <2>2, <2>3, <2>5, <2>7
<1>15. \A k \in 1 .. (Len(of) - 1) : of[k].count = bucket
  <2>1. ASSUME NEW k \in 1 .. (m - 1) PROVE of[k].count = bucket
    <3>1. k \in 1 .. m /\ k < m
      BY <1>3
    <3>2. of[k].count = end[k] - end[k - 1] /\ end[k] - end[k - 1] = bucket
      BY <1>3, <1>7, <3>1
    <3> QED
      BY <3>2
  <2> QED
    BY <1>13, <2>1
<1>16. whole.count = n /\ whole.sum = Total(vs)
       /\ (n # 0 => whole.min = Min(Range(vs)) /\ whole.max = Max(Range(vs)))
  BY <1>1, <1>5
<1>17. /\ Total([k \in DOMAIN of |-> of[k].count]) = whole.count
       /\ Total([k \in DOMAIN of |-> of[k].sum]) = whole.sum
  BY <1>10, <1>11, <1>16 DEF counts, totals
<1> HIDE DEF rs
<1> QED
  BY <1>12, <1>13, <1>14, <1>15, <1>16, <1>17 DEF rs, chunks, of, whole
-----------------------------------------------------------------------------
(* Histograms.  The numbers of the positions of each bin add up.            *)
BinCounts(bin, n, m) == [b \in 1 .. m |-> Cardinality({i \in 1 .. n : bin[i] = b})]

LEMMA CountsAddUp ==
    ASSUME NEW n \in Nat, NEW m \in Nat, NEW bin \in [1 .. n -> 1 .. m]
    PROVE  Total(BinCounts(bin, n, m)) = n /\ Len(BinCounts(bin, n, m)) = m
<1> DEFINE counts == BinCounts(bin, n, m)
           In(b) == {i \in 1 .. n : bin[i] = b}
           Below(b) == {i \in 1 .. n : bin[i] <= b}
           f == [b \in 0 .. m |-> Cardinality(Below(b))]
<1>1. IsFiniteSet(1 .. n) /\ Cardinality(1 .. n) = n
  BY FS_Interval
<1>2. ASSUME NEW b \in 0 .. m
      PROVE  /\ IsFiniteSet(In(b)) /\ Cardinality(In(b)) \in Nat
             /\ IsFiniteSet(Below(b)) /\ Cardinality(Below(b)) \in Nat
  <2>1. In(b) \subseteq 1 .. n /\ Below(b) \subseteq 1 .. n
    OBVIOUS
  <2> HIDE DEF In, Below
  <2> QED
    BY <1>1, <2>1, FS_Subset, FS_CardinalityType
<1>3. \A i \in 1 .. n : bin[i] \in 1 .. m
  OBVIOUS
<1>4. f[0] = 0
  <2>1. Below(0) = {}
    BY <1>3
  <2>2. f[0] = Cardinality(Below(0))
    OBVIOUS
  <2> HIDE DEF Below, f
  <2> QED
    BY <2>1, <2>2, FS_EmptySet
<1>5. f[m] = n
  <2>1. Below(m) = 1 .. n
    BY <1>3
  <2>2. f[m] = Cardinality(Below(m))
    OBVIOUS
  <2> HIDE DEF Below, f
  <2> QED
    BY <1>1, <2>1, <2>2
<1>6. counts \in Seq(Int) /\ Len(counts) = m /\ \A b \in 1 .. m : counts[b] = Cardinality(In(b))
  <2>2. counts = [b \in 1 .. m |-> Cardinality(In(b))]
    BY DEF BinCounts
  <2> HIDE DEF In, Below, f, counts
  <2>1. ASSUME NEW b \in 1 .. m PROVE Cardinality(In(b)) \in Int
    <3>1. b \in 0 .. m
      OBVIOUS
    <3> QED
      BY <1>2, <3>1
  <2> QED
    BY <2>1, <2>2
<1>7. ASSUME NEW b \in 1 .. m PROVE f[b] = f[b - 1] + counts[b]
  <2>1. b - 1 \in 0 .. m /\ b \in 0 .. m
    OBVIOUS
  <2>2. Below(b) = Below(b - 1) \cup In(b) /\ Below(b - 1) \cap In(b) = {}
    BY <1>3
  <2>3. f[b] = Cardinality(Below(b)) /\ f[b - 1] = Cardinality(Below(b - 1))
    BY <2>1
  <2>4. /\ IsFiniteSet(In(b)) /\ IsFiniteSet(Below(b - 1))
        /\ Cardinality(In(b)) \in Nat /\ Cardinality(Below(b - 1)) \in Nat
    BY <1>2, <2>1
  <2> HIDE DEF In, Below, f
  <2>5. Cardinality({}) = 0
    BY FS_EmptySet
  <2>6. Cardinality(Below(b - 1) \cup In(b))
          = Cardinality(Below(b - 1)) + Cardinality(In(b)) - Cardinality(Below(b - 1) \cap In(b))
    BY <2>4, FS_Union
  <2>7. Cardinality(Below(b)) = Cardinality(Below(b - 1)) + Cardinality(In(b))
    <3> DEFINE x == Cardinality(Below(b - 1))
               y == Cardinality(In(b))
    <3>1. Cardinality(Below(b - 1) \cup In(b)) = x + y - Cardinality({})
      BY <2>2, <2>6
    <3>2. x \in Nat /\ y \in Nat
      BY <2>4
    <3> HIDE DEF x, y
    <3>3. Cardinality(Below(b - 1) \cup In(b)) = x + y
      BY ONLY <2>5, <3>1, <3>2
    <3> QED
      BY <2>2, <3>3 DEF x, y
  <2> QED
    BY <1>6, <2>3, <2>7
<1> HIDE DEF f, counts
<1>8. Summing(f, counts)
  BY <1>4, <1>6, <1>7 DEF Summing
<1>9. f[Len(counts)] = Total(counts)
  BY <1>6, <1>8, SumUnique
<1> QED
  BY <1>5, <1>6, <1>9 DEF counts

(* The bin of a value is the one whose bounds it lies between.              *)
LEMMA BinOf ==
    ASSUME NEW d \in Nat, NEW width \in Nat \ {0}, NEW bins \in Nat \ {0}
    PROVE  LET bin == Min({bins - 1, d \div width}) + 1
           IN  /\ bin \in 1 .. bins
               /\ \A b \in 1 .. bins :
                    bin = b <=> (b - 1) * width <= d /\ (d < b * width \/ b = bins)
<1> DEFINE q == d \div width
           least == Min({bins - 1, q})
<1>1. q \in Nat
  BY DivAtLeast
<1>2. \A c \in Int : q >= c <=> c * width <= d
  BY DivAtLeast
<1> HIDE DEF q
<1>3. least \in {bins - 1, q} /\ \A x \in {bins - 1, q} : least <= x
  <2> DEFINE S == {bins - 1, q}
  <2>1. S \in SUBSET Int /\ S # {}
    BY <1>1
  <2>2. IsFiniteSet(S)
    <3>1. IsFiniteSet({q}) /\ S = {q} \cup {bins - 1}
      BY FS_Singleton
    <3> HIDE DEF S
    <3> QED
      BY <3>1, FS_AddElement
  <2> HIDE DEF S
  <2>3. Min(S) \in S /\ \A x \in S : Min(S) <= x
    BY <2>1, <2>2, Extremes
  <2> QED
    BY <2>3 DEF S
<1> HIDE DEF least
<1>4. /\ least \in Nat /\ least <= bins - 1 /\ least <= q
      /\ least = bins - 1 \/ least = q
  BY <1>1, <1>3
<1>5. ASSUME NEW b \in 1 .. bins
      PROVE  least + 1 = b <=> (b - 1) * width <= d /\ (d < b * width \/ b = bins)
  <2>1. q >= b - 1 <=> (b - 1) * width <= d
    BY <1>2
  <2>2. q >= b <=> b * width <= d
    BY <1>2
  <2>3. b * width \in Nat
    OBVIOUS
  <2>4. d < b * width <=> ~ (q >= b)
    BY <2>2, <2>3
  <2>5. least + 1 = b <=> q >= b - 1 /\ (~ (q >= b) \/ b = bins)
    BY <1>1, <1>4
  <2> QED
    BY ONLY <2>1, <2>4, <2>5
<1>6. least + 1 \in 1 .. bins
  BY <1>4
<1> QED
  BY <1>5, <1>6 DEF least, q

NearBin(y, width, b, n, slack) ==
    /\ 2 * (b - 1) * width - slack <= y \/ b = 1
    /\ y < 2 * b * width + slack \/ b = n

LEMMA BinNear ==
    ASSUME NEW y \in Nat, NEW width \in Nat \ {0}, NEW bins \in Nat \ {0}, NEW b \in 1 .. bins,
           NEW e \in -Error .. Error, NEW d \in Nat, d = IF y + e > 0 THEN y + e ELSE 0
    PROVE  LET In == (b - 1) * (2 * width) <= d /\ (d < b * (2 * width) \/ b = bins)
           IN  /\ NearBin(y, width, b, bins, -Error) => In
               /\ In => NearBin(y, width, b, bins, Error)
<1> DEFINE p == (b - 1) * (2 * width)
           q == b * (2 * width)
<1>1. /\ 2 * (b - 1) * width = p /\ 2 * b * width = q /\ p \in Nat /\ q \in Nat
      /\ b = 1 => p = 0
      /\ b # 1 => p > 0
      /\ q > 0
  <2>1. b \in Nat \ {0} /\ b - 1 \in Nat /\ 2 * width \in Nat \ {0}
    OBVIOUS
  <2>2. \A m \in Nat, w \in Nat \ {0} : m * w \in Nat /\ (m # 0 => m * w > 0) /\ (m = 0 => m * w = 0)
    OBVIOUS
  <2>3. 2 * (b - 1) * width = p /\ 2 * b * width = q
    OBVIOUS
  <2>4. (b - 1 # 0 <=> b # 1) /\ b # 0
    OBVIOUS
  <2> QED
    BY <2>1, <2>2, <2>3, <2>4
<1> HIDE DEF p, q
<1>2. Error \in Nat /\ e \in Int /\ -Error <= e /\ e <= Error
  BY ErrorAssumption
<1>3. /\ (p - (-Error) <= y \/ b = 1) /\ (y < q + (-Error) \/ b = bins)
        => p <= d /\ (d < q \/ b = bins)
  BY <1>1, <1>2
<1>4. p <= d /\ (d < q \/ b = bins)
        => (p - Error <= y \/ b = 1) /\ (y < q + Error \/ b = bins)
  BY <1>1, <1>2
<1> QED
  BY <1>1, <1>3, <1>4 DEF p, q, NearBin

LEMMA GreaterOf ==
    ASSUME NEW x \in Int
    PROVE  Max({0, x}) = IF x > 0 THEN x ELSE 0
<1> DEFINE S == {0, x}
           greatest == Max(S)
<1>1. S \in SUBSET Int /\ S # {}
  OBVIOUS
<1>2. IsFiniteSet(S)
  <2>1. IsFiniteSet({x}) /\ S = {x} \cup {0}
    BY FS_Singleton
  <2> HIDE DEF S
  <2> QED
    BY <2>1, FS_AddElement
<1> HIDE DEF S
<1>3. Max(S) \in S /\ \A z \in S : z <= Max(S)
  BY <1>1, <1>2, Extremes
<1>4. greatest \in {0, x} /\ 0 <= greatest /\ x <= greatest
  BY <1>3 DEF S
<1> HIDE DEF greatest
<1>5. greatest = IF x > 0 THEN x ELSE 0
  BY <1>4
<1> QED
  BY <1>5 DEF greatest, S

\* The positions whose values lie in a bin, its bounds moved outwards by slack.
Reached(vs, b, n, slack) ==
    LET lo == Min(Range(vs))
        width == Max(Range(vs)) - lo
    IN  {i \in DOMAIN vs : /\ 2 * (b - 1) * width - slack <= 2 * (vs[i] - lo) * n \/ b = 1
                           /\ 2 * (vs[i] - lo) * n < 2 * b * width + slack \/ b = n}

LEMMA DistributionAddsUp ==
    ASSUME NEW t, IsTable(t), NEW s, NEW window \in Nat \ {0}, NEW bins \in Nat \ {0, 1},
           NEW off \in Offs(ValuesOf(Newest(Of(t, s), window)))
    PROVE  LET counts == Distribution(t, s, bins, window, off)
               vs == ValuesOf(Newest(Of(t, s), window))
           IN  /\ Total(counts) = Len(vs)
               /\ Len(counts) = bins => \A b \in 1 .. bins :
                    /\ counts[b] >= Cardinality(Reached(vs, b, bins, -Error))
                    /\ counts[b] <= Cardinality(Reached(vs, b, bins, Error))
<1> DEFINE counts == Distribution(t, s, bins, window, off)
           newest == Newest(Of(t, s), window)
           vs == ValuesOf(newest)
           n == Len(vs)
           lo == Min(Range(vs))
           hi == Max(Range(vs))
           width == hi - lo
           y(i) == 2 * (vs[i] - lo) * bins
           d(i) == Max({0, y(i) + off[vs[i]]})
           bin == [i \in 1 .. n |-> Min({bins - 1, d(i) \div (2 * width)}) + 1]
           Within(i, b) == (b - 1) * (2 * width) <= d(i) /\ (d(i) < b * (2 * width) \/ b = bins)
<1>1. IsTable(newest)
  BY OfTable, WindowTable
<1>2. off \in [Range(vs) -> -Error .. Error]
  BY DEF Offs
<1>3. counts = IF vs = <<>> THEN <<>>
               ELSE IF lo = hi THEN <<Len(vs)>>
               ELSE [b \in 1 .. bins |->
                       Cardinality({i \in DOMAIN vs : Min({bins - 1, d(i) \div (2 * width)}) + 1 = b})]
  BY DEF Distribution
<1> HIDE DEF counts, newest
<1>4. vs \in Seq(Int) /\ n \in Nat /\ DOMAIN vs = 1 .. n
  <2>1. vs \in Seq(Int)
    BY <1>1, Values
  <2> HIDE DEF vs
  <2> QED
    BY <2>1
<1> HIDE DEF vs
<1>6. CASE vs = <<>>
  <2>1. counts = <<>> /\ n = 0
    BY <1>3, <1>6
  <2>2. 0 \in Nat /\ 1 .. 0 = {}
    OBVIOUS
  <2>3. Total(<<>>) = 0 /\ Len(<<>>) = 0
    <3> DEFINE none == <<>>
    <3>1. none \in Seq(Int) /\ Len(none) = 0
      OBVIOUS
    <3> HIDE DEF none
    <3>2. Summing(Sums(none), none)
      BY <3>1, SumsAre
    <3>3. Total(none) = 0
      BY <3>1, <3>2 DEF Total, Summing
    <3> QED
      BY <3>1, <3>3 DEF none
  <2> QED
    BY <2>1, <2>3 DEF counts, newest, vs
<1>7. CASE vs # <<>> /\ lo = hi
  <2>1. counts = <<n>>
    BY <1>3, <1>7
  <2>2. Total(<<n>>) = n /\ Len(<<n>>) = 1
    <3> DEFINE one == <<n>>
    <3>1. one \in Seq(Int) /\ Len(one) = 1 /\ one[1] = n
      BY <1>4
    <3> HIDE DEF one
    <3>2. Summing(Sums(one), one)
      BY <3>1, SumsAre
    <3>3. Sums(one)[0] = 0 /\ Sums(one)[1] = Sums(one)[1 - 1] + one[1]
      BY <3>1, <3>2 DEF Summing
    <3>4. Total(one) = n
      BY <1>4, <3>1, <3>3 DEF Total
    <3> QED
      BY <3>1, <3>4 DEF one
  <2>3. Len(counts) # bins
    BY <2>1, <2>2
  <2> QED
    BY <2>1, <2>2, <2>3 DEF counts, newest, vs
<1>8. CASE vs # <<>> /\ lo # hi
  <2>1. /\ Range(vs) \in SUBSET Int /\ IsFiniteSet(Range(vs)) /\ Range(vs) # {}
        /\ Range(vs) = {vs[i] : i \in 1 .. n}
    <3>1. n # 0
      BY <1>4, <1>8
    <3> QED
      BY <1>4, <3>1, ValueRange
  <2>2. /\ lo \in Int /\ hi \in Int
        /\ \A i \in 1 .. n : vs[i] \in Int /\ lo <= vs[i] /\ vs[i] <= hi
    <3>1. /\ lo \in Range(vs) /\ \A x \in Range(vs) : lo <= x
          /\ hi \in Range(vs) /\ \A x \in Range(vs) : x <= hi
      BY <2>1, Extremes
    <3>2. \A i \in 1 .. n : vs[i] \in Range(vs)
      BY <2>1
    <3> HIDE DEF lo, hi, n
    <3> QED
      BY <2>1, <3>1, <3>2
  <2>3. width \in Nat \ {0}
    <3>1. 1 \in 1 .. n
      BY <1>4, <1>8
    <3>2. lo <= vs[1] /\ vs[1] <= hi /\ vs[1] \in Int
      BY <2>2, <3>1
    <3> HIDE DEF lo, hi
    <3> QED
      BY <1>8, <2>2, <3>2
  <2>4. ASSUME NEW i \in 1 .. n
        PROVE  /\ y(i) \in Nat /\ d(i) \in Nat /\ off[vs[i]] \in -Error .. Error
               /\ d(i) = IF y(i) + off[vs[i]] > 0 THEN y(i) + off[vs[i]] ELSE 0
    <3>1. vs[i] \in Int /\ lo <= vs[i]
      BY <2>2
    <3>2. off[vs[i]] \in -Error .. Error /\ off[vs[i]] \in Int
      <4>1. vs[i] \in Range(vs)
        BY <2>1
      <4>2. off[vs[i]] \in -Error .. Error
        BY <1>2, <4>1
      <4> QED
        BY <4>2, ErrorAssumption
    <3> HIDE DEF lo
    <3>3. vs[i] - lo \in Nat
      BY <2>2, <3>1
    <3>4. y(i) \in Nat
      BY <3>3
    <3> HIDE DEF y
    <3> DEFINE x == y(i) + off[vs[i]]
    <3>5. x \in Int
      BY <3>2, <3>4
    <3> HIDE DEF x
    <3>6. Max({0, x}) = IF x > 0 THEN x ELSE 0
      BY <3>5, GreaterOf
    <3>7. d(i) = Max({0, x})
      BY DEF x
    <3>8. d(i) \in Nat /\ d(i) = IF x > 0 THEN x ELSE 0
      BY <3>5, <3>6, <3>7
    <3> QED
      BY <3>2, <3>4, <3>8 DEF x
  <2> HIDE DEF lo, hi, width, d, y
  <2>5. ASSUME NEW i \in 1 .. n
        PROVE  /\ bin[i] \in 1 .. bins
               /\ \A b \in 1 .. bins : bin[i] = b <=> Within(i, b)
    <3>1. bin[i] = Min({bins - 1, d(i) \div (2 * width)}) + 1
      OBVIOUS
    <3>2. LET q == Min({bins - 1, d(i) \div (2 * width)}) + 1
          IN  /\ q \in 1 .. bins
              /\ \A b \in 1 .. bins :
                   q = b <=> (b - 1) * (2 * width) <= d(i) /\ (d(i) < b * (2 * width) \/ b = bins)
      <4> DEFINE w == 2 * width
                 x == d(i)
      <4>1. w \in Nat \ {0} /\ bins \in Nat \ {0}
        BY <2>3
      <4>2. x \in Nat
        BY <2>4
      <4> HIDE DEF w, x
      <4>3. LET q == Min({bins - 1, x \div w}) + 1
            IN  /\ q \in 1 .. bins
                /\ \A b \in 1 .. bins : q = b <=> (b - 1) * w <= x /\ (x < b * w \/ b = bins)
        BY ONLY <4>1, <4>2, BinOf
      <4> QED
        BY ONLY <4>3 DEF w, x
    <3> HIDE DEF bin
    <3> QED
      BY <3>1, <3>2
  <2>6. \A i \in 1 .. n : Min({bins - 1, d(i) \div (2 * width)}) + 1 = bin[i]
    OBVIOUS
  <2>7. bin \in [1 .. n -> 1 .. bins]
    <3>1. bin = [i \in 1 .. n |-> bin[i]]
      OBVIOUS
    <3> HIDE DEF bin
    <3> QED
      BY <2>5, <3>1
  <2> HIDE DEF bin
  <2>8. counts = BinCounts(bin, n, bins)
    <3>1. counts = [b \in 1 .. bins |->
                      Cardinality({i \in DOMAIN vs : Min({bins - 1, d(i) \div (2 * width)}) + 1 = b})]
      BY <1>3, <1>8
    <3>2. \A b \in 1 .. bins :
            {i \in DOMAIN vs : Min({bins - 1, d(i) \div (2 * width)}) + 1 = b} = {i \in 1 .. n : bin[i] = b}
      BY <1>4, <2>6
    <3> QED
      BY <3>1, <3>2 DEF BinCounts
  <2>9. Total(counts) = n
    <3> HIDE DEF n, Within
    <3> QED
      BY <1>4, <2>7, <2>8, CountsAddUp
  <2>10. ASSUME NEW b \in 1 .. bins
         PROVE  counts[b] = Cardinality({i \in DOMAIN vs : Within(i, b)})
    <3>1. {i \in 1 .. n : bin[i] = b} = {i \in DOMAIN vs : Within(i, b)}
      <4> HIDE DEF Within
      <4> QED
        BY <1>4, <2>5
    <3> QED
      BY <2>8, <3>1 DEF BinCounts
  <2>11. ASSUME NEW b \in 1 .. bins
         PROVE  /\ counts[b] >= Cardinality(Reached(vs, b, bins, -Error))
                /\ counts[b] <= Cardinality(Reached(vs, b, bins, Error))
    <3> DEFINE In == {i \in DOMAIN vs : Within(i, b)}
               Sure == Reached(vs, b, bins, -Error)
               Possible == Reached(vs, b, bins, Error)
               Near(i, slack) == NearBin(y(i), width, b, bins, slack)
    <3>1. /\ Sure = {i \in 1 .. n : Near(i, -Error)}
          /\ Possible = {i \in 1 .. n : Near(i, Error)}
      BY <1>4 DEF Reached, NearBin, lo, hi, width, y
    <3>2. ASSUME NEW i \in 1 .. n
          PROVE  (Near(i, -Error) => Within(i, b)) /\ (Within(i, b) => Near(i, Error))
      <4> DEFINE e == off[vs[i]]
                 dd == d(i)
                 yy == y(i)
      <4>1. /\ yy \in Nat /\ width \in Nat \ {0} /\ bins \in Nat \ {0} /\ b \in 1 .. bins
            /\ e \in -Error .. Error /\ dd \in Nat /\ dd = IF yy + e > 0 THEN yy + e ELSE 0
        BY <2>3, <2>4
      <4> HIDE DEF e, dd, yy
      <4>2. LET I == (b - 1) * (2 * width) <= dd /\ (dd < b * (2 * width) \/ b = bins)
            IN  /\ NearBin(yy, width, b, bins, -Error) => I
                /\ I => NearBin(yy, width, b, bins, Error)
        BY ONLY <4>1, BinNear
      <4> QED
        BY <4>2 DEF dd, yy
    <3> HIDE DEF Sure, Possible, Near, Within
    <3>3. Sure \subseteq In /\ In \subseteq Possible /\ Possible \subseteq 1 .. n
      BY <1>4, <3>1, <3>2
    <3> HIDE DEF In
    <3>4. IsFiniteSet(Possible) /\ IsFiniteSet(In)
      <4>1. IsFiniteSet(1 .. n)
        BY <1>4, FS_Interval
      <4> QED
        BY <3>3, <4>1, FS_Subset
    <3>5. Cardinality(Sure) <= Cardinality(In) /\ Cardinality(In) <= Cardinality(Possible)
      BY <3>3, <3>4, FS_Subset
    <3>6. counts[b] = Cardinality(In)
      BY <2>10 DEF In
    <3>7. counts[b] >= Cardinality(Sure)
      <4>1. Cardinality(Sure) \in Nat /\ Cardinality(In) \in Nat
        BY <3>3, <3>4, FS_Subset, FS_CardinalityType
      <4> QED
        BY <3>5, <3>6, <4>1
    <3> QED
      BY <3>5, <3>6, <3>7 DEF Sure, Possible
  <2> QED
    BY <2>9, <2>11 DEF counts, newest, vs
<1> QED
  BY <1>6, <1>7, <1>8
-----------------------------------------------------------------------------
(* Numbers of positions.                                                    *)
LEMMA LesserOf ==
    ASSUME NEW a \in Int, NEW b \in Int
    PROVE  Min({a, b}) = IF a < b THEN a ELSE b
<1> DEFINE S == {a, b}
<1>1. S \in SUBSET Int /\ S # {}
  OBVIOUS
<1>2. IsFiniteSet(S)
  <2>1. IsFiniteSet({a}) /\ S = {a} \cup {b}
    BY FS_Singleton
  <2> HIDE DEF S
  <2> QED
    BY <2>1, FS_AddElement
<1> HIDE DEF S
<1>3. Min(S) \in S /\ \A x \in S : Min(S) <= x
  BY <1>1, <1>2, Extremes
<1> DEFINE least == Min(S)
<1>4. least \in {a, b} /\ least <= a /\ least <= b
  BY <1>3 DEF S
<1> HIDE DEF least
<1>5. least = IF a < b THEN a ELSE b
  BY <1>4
<1> QED
  BY <1>5 DEF least, S

LEMMA SameNumber ==
    ASSUME NEW S, IsFiniteSet(S), NEW T, NEW f \in [S -> T],
           \A x, y \in S : f[x] = f[y] => x = y,
           \A z \in T : \E x \in S : f[x] = z
    PROVE  IsFiniteSet(T) /\ Cardinality(T) = Cardinality(S)
<1>1. f \in Bijection(S, T)
  BY DEF Bijection, Injection, Surjection, IsInjective
<1>2. ExistsBijection(S, T)
  BY <1>1 DEF ExistsBijection
<1> QED
  BY <1>2, FS_Bijection

(* The first k members of a set of numbers.                                 *)
First(S, k) == {i \in S : Cardinality({j \in S : j < i}) < k}

LEMMA FirstOf ==
    ASSUME NEW S \in SUBSET Int, IsFiniteSet(S), NEW k \in Nat
    PROVE  Cardinality(First(S, k)) = Min({Cardinality(S), k})
<1> DEFINE key == [x \in S |-> x]
           n == Cardinality(S)
           m == IF n < k THEN n ELSE k
           place == [r \in 1 .. m |-> Placed(key, r)]
           rank(i) == Cardinality(UpTo(key, i))
<1>1. key \in [S -> Int] /\ DOMAIN key = S /\ \A x \in S : key[x] = x
  OBVIOUS
<1> HIDE DEF key
<1>2. /\ n \in Nat
      /\ \A r \in 1 .. n : Placed(key, r) \in S /\ rank(Placed(key, r)) = r
      /\ \A i \in S : Placed(key, rank(i)) = i /\ rank(i) \in 1 .. n
  <2>1. /\ n \in Nat
        /\ \A r \in 1 .. n : Placed(key, r) \in S /\ rank(Placed(key, r)) = r
        /\ \A i \in S : Placed(key, rank(i)) = i
    BY <1>1, Places
  <2>2. \A i \in S : rank(i) \in 1 .. n
    BY <1>1, RankRange
  <2> QED
    BY <2>1, <2>2
<1>3. ASSUME NEW i \in S
      PROVE  rank(i) = Cardinality({j \in S : j < i}) + 1 /\ Cardinality({j \in S : j < i}) \in Nat
  <2> DEFINE L == {j \in S : j < i}
  <2>1. UpTo(key, i) = L \cup {i} /\ i \notin L /\ L \subseteq S
    <3>1. ASSUME NEW j \in S PROVE j \in UpTo(key, i) <=> j < i \/ j = i
      <4>1. j \in Int /\ i \in Int /\ key[j] = j /\ key[i] = i
        BY <1>1
      <4>2. j \in UpTo(key, i) <=> j < i \/ (j = i /\ j <= i)
        BY <1>1, <4>1 DEF UpTo
      <4> QED
        BY <4>1, <4>2
    <3>2. UpTo(key, i) \subseteq S
      BY <1>1 DEF UpTo
    <3>3. i \notin L /\ \A j : j \in L <=> j \in S /\ j < i
      OBVIOUS
    <3> HIDE DEF L
    <3>4. UpTo(key, i) = L \cup {i} /\ L \subseteq S
      BY <3>1, <3>2, <3>3, Zenon
    <3> QED
      BY <3>3, <3>4
  <2> HIDE DEF L
  <2>2. IsFiniteSet(L)
    BY <2>1, FS_Subset
  <2> QED
    BY <2>1, <2>2, FS_AddElement, FS_CardinalityType DEF L
<1> HIDE DEF n, rank
<1>4. m \in Nat /\ \A r \in Nat : r <= n /\ r <= k <=> r <= m
  BY <1>2
<1>5. ASSUME NEW i \in S PROVE i \in First(S, k) <=> rank(i) \in 1 .. m
  <2> DEFINE c == Cardinality({j \in S : j < i})
  <2>1. i \in First(S, k) <=> c < k
    BY DEF First
  <2>2. rank(i) = c + 1 /\ c \in Nat /\ rank(i) \in 1 .. n
    BY <1>2, <1>3
  <2> HIDE DEF c, m
  <2> QED
    BY <1>2, <1>4, <2>1, <2>2
<1> HIDE DEF m
<1>6. \A r \in 1 .. m : r \in 1 .. n
  BY <1>2, <1>4
<1>7. place \in [1 .. m -> First(S, k)]
  BY <1>2, <1>5, <1>6
<1>8. \A r, q \in 1 .. m : place[r] = place[q] => r = q
  BY <1>2, <1>6
<1>9. ASSUME NEW i \in First(S, k) PROVE \E r \in 1 .. m : place[r] = i
  <2>1. i \in S /\ rank(i) \in 1 .. m
    BY <1>5 DEF First
  <2> QED
    BY <1>2, <2>1
<1>10. IsFiniteSet(1 .. m) /\ Cardinality(1 .. m) = m
  BY <1>4, FS_Interval
<1> HIDE DEF place
<1>11. Cardinality(First(S, k)) = m
  BY <1>7, <1>8, <1>9, <1>10, SameNumber
<1>12. m = Min({n, k})
  BY <1>2, LesserOf DEF m
<1> QED
  BY <1>11, <1>12 DEF n

(* Violations and the readings that are listed share the window.            *)
ViolationsOnce(t, s, window, minValue, maxValue) ==
    LET found == ThresholdViolations(t, s, minValue, maxValue, window)
        listed == ListReadings(t, s, minValue, maxValue, window)
    IN  /\ found.violations = Cardinality(found.below) + Cardinality(found.above)
        /\ found.items \subseteq found.below \cup found.above
        /\ Cardinality(found.items) = Min({found.violations, MaxItems})
        /\ window >= Len(Of(t, s)) => found.violations + Len(listed) = Len(Of(t, s))

LEMMA ViolationsExact ==
    ASSUME NEW t, IsTable(t), NEW s, NEW window \in Nat \ {0},
           NEW minValue \in Int \cup {None}, NEW maxValue \in Int \cup {None}
    PROVE  ViolationsOnce(t, s, window, minValue, maxValue)
<1> DEFINE found == ThresholdViolations(t, s, minValue, maxValue, window)
           rs == Of(t, s)
           n == Len(rs)
           newest == Newest(rs, window)
           vs == ValuesOf(newest)
           below == {i \in DOMAIN vs : minValue # None /\ vs[i] < minValue}
           above == {i \in DOMAIN vs \ below : maxValue # None /\ vs[i] > maxValue}
           both == below \cup above
           within == {i \in DOMAIN rs : /\ minValue = None \/ rs[i].value >= minValue
                                        /\ maxValue = None \/ rs[i].value <= maxValue}
           key == [i \in within |-> -rs[i].at]
           listed == Arranged(rs, key)
<1>1. IsTable(rs) /\ IsTable(newest)
  BY OfTable, WindowTable
<1>2. /\ found.violations = Cardinality(both) /\ found.below = below /\ found.above = above
      /\ found.items = First(both, MaxItems)
  BY DEF ThresholdViolations, First
<1>3. ListReadings(t, s, minValue, maxValue, window) = Oldest(listed, window)
  BY DEF ListReadings
<1> HIDE DEF found, rs
<1>4. /\ rs \in Seq(Range(rs)) /\ n \in Nat /\ DOMAIN rs = 1 .. n
      /\ \A i \in 1 .. n : rs[i].at \in Int /\ rs[i].value \in Int
  BY <1>1 DEF IsTable
<1> DEFINE m == IF window < n THEN window ELSE n
<1>5. Len(newest) = m /\ \A i \in 1 .. m : newest[i] = rs[n - i + 1]
  BY <1>4, NewestRows
<1> HIDE DEF newest
<1>6. m \in Nat /\ m <= n /\ \A i \in 1 .. m : n - i + 1 \in 1 .. n
  BY <1>4
<1>7. /\ vs \in Seq(Int) /\ DOMAIN vs = 1 .. m
      /\ \A i \in 1 .. m : vs[i] = rs[n - i + 1].value
  <2>1. vs \in Seq(Int) /\ Len(vs) = Len(newest) /\ \A i \in 1 .. Len(newest) : vs[i] = newest[i].value
    BY <1>1, Values
  <2> HIDE DEF vs, m
  <2>2. DOMAIN vs = 1 .. m
    BY <1>5, <1>6, <2>1
  <2> QED
    BY <1>5, <2>1, <2>2
<1> HIDE DEF vs, m, n
<1>8. below \subseteq 1 .. m /\ above \subseteq 1 .. m /\ below \cap above = {}
  BY <1>7
<1>9. IsFiniteSet(1 .. m)
  BY <1>6, FS_Interval
<1>10. /\ IsFiniteSet(below) /\ IsFiniteSet(above) /\ IsFiniteSet(both) /\ both \subseteq 1 .. m
       /\ Cardinality(both) = Cardinality(below) + Cardinality(above)
       /\ Cardinality(both) \in Nat
  <2> HIDE DEF below, above
  <2>1. IsFiniteSet(below) /\ IsFiniteSet(above) /\ both \subseteq 1 .. m
    BY <1>8, <1>9, FS_Subset
  <2>2. Cardinality(below) \in Nat /\ Cardinality(above) \in Nat
    BY <2>1, FS_CardinalityType
  <2>3. /\ IsFiniteSet(both)
        /\ Cardinality(both) = Cardinality(below) + Cardinality(above) - Cardinality(below \cap above)
    BY <2>1, FS_Union
  <2>4. Cardinality(below \cap above) = 0
    BY <1>8, FS_EmptySet
  <2> HIDE DEF both
  <2>5. Cardinality(both) \in Nat
    BY <2>3, FS_CardinalityType
  <2> QED
    BY <2>1, <2>2, <2>3, <2>4, <2>5
<1>11. Cardinality(First(both, MaxItems)) = Min({Cardinality(both), MaxItems})
  <2>1. both \in SUBSET Int /\ MaxItems \in Nat
    BY <1>10, RowsAssumption
  <2> HIDE DEF both
  <2> QED
    BY <1>10, <2>1, FirstOf
<1>12. First(both, MaxItems) \subseteq both
  <2> HIDE DEF both
  <2> QED
    BY DEF First
<1>13. ASSUME window >= n
       PROVE  Cardinality(both) + Len(Oldest(listed, window)) = n
  <2>1. m = n
    BY <1>4, <1>13 DEF m
  <2>2. within \in SUBSET DOMAIN rs
    OBVIOUS
  <2>3. key \in [within -> Int]
    <3>1. \A i \in within : -rs[i].at \in Int
      BY <1>4
    <3> HIDE DEF within
    <3> QED
      BY <3>1
  <2>4. ASSUME NEW i \in 1 .. n PROVE i \in both <=> n - i + 1 \notin within
    <3>1. vs[i] = rs[n - i + 1].value /\ n - i + 1 \in 1 .. n /\ vs[i] \in Int /\ i \in DOMAIN vs
      BY <1>4, <1>6, <1>7, <2>1
    <3> DEFINE v == vs[i]
               Under == minValue # None /\ v < minValue
               Over == maxValue # None /\ v > maxValue
    <3>2. i \in both <=> Under \/ Over
      BY <3>1
    <3>3. n - i + 1 \in within <=> /\ minValue = None \/ v >= minValue
                                   /\ maxValue = None \/ v <= maxValue
      BY <1>4, <3>1
    <3>4. v \in Int /\ (minValue # None => minValue \in Int) /\ (maxValue # None => maxValue \in Int)
      BY <3>1
    <3> HIDE DEF both, within, v
    <3>5. Under <=> ~ (minValue = None \/ v >= minValue)
      BY ONLY <3>4
    <3>6. Over <=> ~ (maxValue = None \/ v <= maxValue)
      BY ONLY <3>4
    <3> HIDE DEF Under, Over
    <3> QED
      BY <3>2, <3>3, <3>5, <3>6
  <2> HIDE DEF both, within
  <2> DEFINE others == (1 .. n) \ within
             mirror == [i \in both |-> n - i + 1]
  <2>5. \A i \in both : i \in 1 .. n /\ n - i + 1 \in 1 .. n
    BY <1>6, <1>10, <2>1
  <2>6. mirror \in [both -> others]
    BY <2>4, <2>5
  <2>7. \A i, j \in both : mirror[i] = mirror[j] => i = j
    <3>1. \A i, j \in both : i \in Int /\ j \in Int /\ (n - i + 1 = n - j + 1 => i = j)
      BY <1>4, <2>5
    <3> QED
      BY <3>1
  <2>8. ASSUME NEW k \in others PROVE \E i \in both : mirror[i] = k
    <3>1. n - k + 1 \in 1 .. n /\ n - (n - k + 1) + 1 = k
      BY <1>4
    <3>2. n - k + 1 \in both
      BY <2>4, <3>1
    <3> QED
      BY <3>1, <3>2
  <2> HIDE DEF mirror
  <2>9. Cardinality(others) = Cardinality(both)
    <3> HIDE DEF others
    <3> QED
      BY <1>10, <2>6, <2>7, <2>8, SameNumber
  <2>10. /\ IsFiniteSet(1 .. n) /\ Cardinality(1 .. n) = n /\ (1 .. n) \cap within = within
         /\ IsFiniteSet(within) /\ Cardinality(within) \in Nat
    <3>1. IsFiniteSet(1 .. n) /\ Cardinality(1 .. n) = n
      BY <1>4, FS_Interval
    <3> QED
      BY <1>4, <2>2, <3>1, FS_Subset, FS_CardinalityType
  <2>11. Cardinality(others) = n - Cardinality(within)
    <3>1. Cardinality((1 .. n) \ within) = Cardinality(1 .. n) - Cardinality((1 .. n) \cap within)
      BY <2>10, FS_Difference
    <3> QED
      BY <2>10, <3>1
  <2>12. IsTable(listed) /\ Len(listed) = Cardinality(within)
    <3> HIDE DEF key
    <3> QED
      BY <1>1, <2>2, <2>3, ArrangedTable
  <2> HIDE DEF listed, others
  <2>13. Cardinality(within) + Cardinality(both) = n /\ Len(listed) <= window
    BY <1>4, <1>10, <1>13, <2>9, <2>10, <2>11, <2>12
  <2>14. Len(Oldest(listed, window)) = Len(listed)
    <3>1. listed \in Seq(Range(listed)) /\ Len(listed) \in Nat
      BY <2>12 DEF IsTable
    <3>2. ~ (window < Len(listed))
      BY <2>13, <3>1
    <3>3. Oldest(listed, window) = SubSeq(listed, 1, Len(listed))
      BY <3>2 DEF Oldest
    <3> QED
      BY <3>1, <3>3
  <2> QED
    BY <1>10, <2>10, <2>12, <2>13, <2>14
<1> HIDE DEF below, above, both, listed
<1> QED
  BY <1>2, <1>3, <1>10, <1>11, <1>12, <1>13 DEF found, rs, n, both, ViolationsOnce
(* The readings of two sensors are those of the one and those of the other. *)
LEMMA StatsCount ==
    ASSUME NEW t, IsTable(t)
    PROVE  Stats(ValuesOf(t)).count = Len(t)
<1> DEFINE vs == ValuesOf(t)
<1>1. vs \in Seq(Int) /\ Len(vs) = Len(t)
  BY Values
<1> HIDE DEF vs
<1>2. vs = <<>> => Len(vs) = 0
  OBVIOUS
<1>3. Stats(vs).count = Len(vs)
  BY <1>2 DEF Stats
<1> QED
  BY <1>1, <1>3 DEF vs

LEMMA GroupAddsUp ==
    ASSUME NEW t, IsTable(t), NEW s, NEW q, s # q
    PROVE  GroupStats(t, {s, q}).count = SummaryStats(t, s).count + SummaryStats(t, q).count
<1> DEFINE Rows(group) == {i \in DOMAIN t : t[i].sensor \in group}
           S == {i \in DOMAIN t : t[i].sensor = s}
           Q == {i \in DOMAIN t : t[i].sensor = q}
<1>1. Rows({s, q}) = S \cup Q /\ S \cap Q = {}
  OBVIOUS
<1>2. S \in SUBSET DOMAIN t /\ Q \in SUBSET DOMAIN t /\ Rows({s, q}) \in SUBSET DOMAIN t
  OBVIOUS
<1>3. /\ GroupStats(t, {s, q}) = Stats(ValuesOf(ById(t, Rows({s, q}))))
      /\ SummaryStats(t, s) = Stats(ValuesOf(ById(t, S)))
      /\ SummaryStats(t, q) = Stats(ValuesOf(ById(t, Q)))
  BY DEF GroupStats, SummaryStats, Of
<1> HIDE DEF Rows, S, Q
<1>4. \A D \in SUBSET DOMAIN t : Stats(ValuesOf(ById(t, D))).count = Cardinality(D)
  BY ByIdTable, StatsCount
<1>5. /\ IsFiniteSet(S) /\ IsFiniteSet(Q)
      /\ Cardinality(S) \in Nat /\ Cardinality(Q) \in Nat
  BY <1>2, PositionsFinite DEF IsTable
<1>6. Cardinality(S \cup Q) = Cardinality(S) + Cardinality(Q) - Cardinality(S \cap Q)
  BY <1>5, FS_Union
<1>7. Cardinality(S \cap Q) = 0
  BY <1>1, FS_EmptySet
<1>8. Cardinality(Rows({s, q})) = Cardinality(S) + Cardinality(Q)
  <2> DEFINE x == Cardinality(S)
             y == Cardinality(Q)
  <2>1. x \in Nat /\ y \in Nat /\ Cardinality(S \cup Q) = x + y - 0
    BY <1>5, <1>6, <1>7
  <2> HIDE DEF x, y
  <2>2. Cardinality(S \cup Q) = x + y
    BY <2>1
  <2> QED
    BY <1>1, <2>2 DEF x, y
<1> QED
  BY <1>2, <1>3, <1>4, <1>8

(* The newest readings of all, turned round, are those after the others.    *)
LEMMA ByIdOfAll ==
    ASSUME NEW t, IsTable(t)
    PROVE  ById(t, DOMAIN t) = t
<1> DEFINE D == DOMAIN t
           key == [i \in D |-> i]
           n == Len(t)
<1>1. /\ D \in SUBSET Int /\ IsFiniteSet(D) /\ Cardinality(D) = n
      /\ D = 1 .. n /\ n \in Nat
  BY PositionsFinite DEF IsTable
<1>2. key \in [D -> Int] /\ DOMAIN key = D /\ \A i \in D : key[i] = i
  BY <1>1
<1>3. ById(t, D) = Arranged(t, key)
  BY DEF ById
<1> HIDE DEF key, D
<1>4. ASSUME NEW i \in 1 .. n PROVE Placed(key, i) = i
  <2>1. UpTo(key, i) = 1 .. i
    <3>1. ASSUME NEW j \in D PROVE j \in UpTo(key, i) <=> j \in 1 .. i
      <4>1. j \in 1 .. n /\ key[j] = j /\ key[i] = i /\ i \in Int /\ j \in Int
        BY <1>1, <1>2
      <4>2. j \in UpTo(key, i) <=> j < i \/ (j = i /\ j <= i)
        BY <1>2, <4>1 DEF UpTo
      <4> QED
        BY <4>1, <4>2
    <3>2. UpTo(key, i) \subseteq D
      BY <1>2 DEF UpTo
    <3>3. 1 .. i \subseteq D
      BY <1>1
    <3> QED
      BY <3>1, <3>2, <3>3, Zenon
  <2>2. Cardinality(1 .. i) = i
    BY FS_Interval
  <2>3. i \in D
    BY <1>1
  <2>4. Placed(key, Cardinality(UpTo(key, i))) = i
    BY <1>1, <1>2, <2>3, Places
  <2> QED
    BY <2>1, <2>2, <2>4
<1>5. t \in Seq(Range(t))
  BY DEF IsTable
<1>6. Arranged(t, key) = [i \in 1 .. n |-> t[i]]
  BY <1>1, <1>2, <1>4 DEF Arranged
<1>7. t = [i \in 1 .. n |-> t[i]]
  BY <1>5
<1> QED
  BY <1>3, <1>6, <1>7 DEF D

LEMMA RecentFollows ==
    ASSUME NEW t, IsTable(t), NEW sensors, \A i \in DOMAIN t : t[i].sensor \in sensors,
           NEW n \in Nat \ {0}, n <= Len(t)
    PROVE  RecentReadings(t, sensors, n) = Reverse(ReadingsSince(t, Len(t) - n, n))
<1> DEFINE len == Len(t)
           newest == Newest(t, n)
           u == SubSeq(t, len - n + 1, len)
           since == ReadingsSince(t, len - n, n)
<1>1. {i \in DOMAIN t : t[i].sensor \in sensors} = DOMAIN t
  OBVIOUS
<1>2. RecentReadings(t, sensors, n) = newest
  BY <1>1, ByIdOfAll DEF RecentReadings
<1>3. t \in Seq(Range(t)) /\ len \in Nat
  BY DEF IsTable
<1>4. /\ newest \in Seq(Range(t)) /\ Len(newest) = n
      /\ \A i \in 1 .. n : newest[i] = t[len - i + 1]
  <2> DEFINE m == IF n < len THEN n ELSE len
  <2>1. m = n
    BY <1>3
  <2>2. /\ newest \in Seq(Range(t)) /\ Len(newest) = m
        /\ \A i \in 1 .. m : newest[i] = t[len - i + 1]
    BY <1>3, NewestRows
  <2> HIDE DEF m, newest
  <2> QED
    BY <2>1, <2>2
<1>5. /\ u \in Seq(Range(t)) /\ Len(u) = n
      /\ \A i \in 1 .. n : u[i] = t[len - n + i]
  <2> DEFINE lo == len - n + 1
  <2>1. lo \in 1 .. len + 1 /\ len \in lo - 1 .. len /\ len - lo + 1 = n
    BY <1>3
  <2>2. \A i \in 1 .. n : lo + i - 1 = len - n + i
    BY <1>3
  <2>3. /\ u \in Seq(Range(t)) /\ Len(u) = len - lo + 1
        /\ \A i \in 1 .. (len - lo + 1) : u[i] = t[lo + i - 1]
    BY <1>3, <2>1, SubSeqProperties
  <2> HIDE DEF lo, u
  <2> QED
    BY <2>1, <2>2, <2>3
<1>6. since = u
  <2>1. since = Oldest(u, n)
    BY DEF ReadingsSince
  <2> HIDE DEF u
  <2>2. Oldest(u, n) = SubSeq(u, 1, n)
    BY <1>5 DEF Oldest
  <2>3. SubSeq(u, 1, n) = u
    BY <1>5
  <2> QED
    BY <2>1, <2>2, <2>3
<1> HIDE DEF newest, since, u
<1>7. Reverse(u) = [i \in 1 .. n |-> u[(n - i) + 1]]
  BY <1>5 DEF Reverse
<1>8. ASSUME NEW i \in 1 .. n PROVE u[(n - i) + 1] = newest[i]
  <2>1. (n - i) + 1 \in 1 .. n /\ len - n + ((n - i) + 1) = len - i + 1
    BY <1>3
  <2> QED
    BY <1>4, <1>5, <2>1
<1>9. newest = [i \in 1 .. n |-> newest[i]]
  BY <1>4
<1> QED
  BY <1>2, <1>6, <1>7, <1>8, <1>9 DEF since

-----------------------------------------------------------------------------
(* Sums over pairs.  A function that satisfies the equations of a sum is it.*)
LEMMA SumBy ==
    ASSUME NEW n \in Nat, NEW term \in [1 .. n -> Int], NEW f,
           f[0] = 0, \A k \in 1 .. n : f[k] = f[k - 1] + term[k]
    PROVE  Total(term) = f[n]
<1>1. term \in Seq(Int) /\ Len(term) = n
  OBVIOUS
<1>2. Summing(f, term)
  BY <1>1 DEF Summing
<1> QED
  BY <1>1, <1>2, SumUnique

(* Partial sums.                                                            *)
LEMMA PartialSums ==
    ASSUME NEW n \in Nat, NEW term \in [1 .. n -> Int]
    PROVE  /\ \A k \in 0 .. n : Sums(term)[k] \in Int
           /\ Sums(term)[0] = 0 /\ Sums(term)[n] = Total(term)
           /\ \A k \in 1 .. n : k \in 0 .. n /\ k - 1 \in 0 .. n
                                /\ Sums(term)[k] = Sums(term)[k - 1] + term[k]
<1>1. term \in Seq(Int) /\ Len(term) = n
  OBVIOUS
<1>2. Sums(term) \in [0 .. n -> Int] /\ Summing(Sums(term), term)
  BY <1>1, SumsAre
<1> QED
  BY <1>1, <1>2 DEF Summing, Total

Product(a, b, n) == [i \in 1 .. n |-> a[i] * b[i]]

LEMMA ProductType ==
    ASSUME NEW n \in Nat, NEW a \in [1 .. n -> Int], NEW b \in [1 .. n -> Int]
    PROVE  /\ Product(a, b, n) \in [1 .. n -> Int]
           /\ \A i \in 1 .. n : Product(a, b, n)[i] = a[i] * b[i]
BY DEF Product

RowOfPairs(a, b, j) == [i \in 1 .. (j - 1) |-> (a[j] - a[i]) * (b[j] - b[i])]

Pairwise(a, b, n) == [j \in 1 .. n |-> Total(RowOfPairs(a, b, j))]

LEMMA RowSum ==
    ASSUME NEW n \in Nat, NEW a \in [1 .. n -> Int], NEW b \in [1 .. n -> Int], NEW j \in 1 .. n
    PROVE  Total(RowOfPairs(a, b, j))
             = (j - 1) * (a[j] * b[j]) - a[j] * Sums(b)[j - 1] - b[j] * Sums(a)[j - 1]
                 + Sums(Product(a, b, n))[j - 1]
<1> DEFINE A == Sums(a)
           B == Sums(b)
           ab == Product(a, b, n)
           P == Sums(ab)
           m == j - 1
           row == RowOfPairs(a, b, j)
           p == a[j]
           q == b[j]
           f == [k \in 0 .. m |-> k * (p * q) - p * B[k] - q * A[k] + P[k]]
<1>1. ab \in [1 .. n -> Int] /\ \A i \in 1 .. n : ab[i] = a[i] * b[i]
  BY ProductType
<1>2. m \in Nat /\ p \in Int /\ q \in Int /\ \A i \in 1 .. m : i \in 1 .. n
  OBVIOUS
<1> HIDE DEF ab
<1>3. /\ \A k \in 0 .. n : A[k] \in Int
      /\ A[0] = 0 /\ A[n] = Total(a)
      /\ \A k \in 1 .. n : k \in 0 .. n /\ k - 1 \in 0 .. n /\ A[k] = A[k - 1] + a[k]
  BY PartialSums
<1>4. /\ \A k \in 0 .. n : B[k] \in Int
      /\ B[0] = 0 /\ B[n] = Total(b)
      /\ \A k \in 1 .. n : k \in 0 .. n /\ k - 1 \in 0 .. n /\ B[k] = B[k - 1] + b[k]
  BY PartialSums
<1>5. /\ \A k \in 0 .. n : P[k] \in Int
      /\ P[0] = 0 /\ P[n] = Total(ab)
      /\ \A k \in 1 .. n : k \in 0 .. n /\ k - 1 \in 0 .. n /\ P[k] = P[k - 1] + ab[k]
  BY <1>1, PartialSums
<1> HIDE DEF A, B, P, m, p, q
<1>6. /\ row \in [1 .. m -> Int]
      /\ \A i \in 1 .. m : row[i] = (p - a[i]) * (q - b[i])
  <2>1. row = [i \in 1 .. m |-> (p - a[i]) * (q - b[i])]
    BY DEF RowOfPairs, m, p, q
  <2> HIDE DEF row
  <2>2. ASSUME NEW i \in 1 .. m PROVE (p - a[i]) * (q - b[i]) \in Int
    <3>1. a[i] \in Int /\ b[i] \in Int
      BY <1>2
    <3> QED
      BY ONLY <1>2, <3>1
  <2> QED
    BY <2>1, <2>2
<1>7. f[0] = 0
  BY <1>2, <1>3, <1>4, <1>5
<1>8. ASSUME NEW k \in 1 .. m PROVE f[k] = f[k - 1] + row[k]
  <2>1. k \in 1 .. n /\ k \in 0 .. m /\ k - 1 \in 0 .. m /\ k \in Int
    BY <1>2
  <2>2. /\ A[k] = A[k - 1] + a[k] /\ B[k] = B[k - 1] + b[k] /\ P[k] = P[k - 1] + a[k] * b[k]
        /\ A[k - 1] \in Int /\ B[k - 1] \in Int /\ P[k - 1] \in Int /\ a[k] \in Int /\ b[k] \in Int
    BY <1>1, <1>3, <1>4, <1>5, <2>1
  <2>3. /\ f[k] = k * (p * q) - p * B[k] - q * A[k] + P[k]
        /\ f[k - 1] = (k - 1) * (p * q) - p * B[k - 1] - q * A[k - 1] + P[k - 1]
    BY <2>1
  <2>4. row[k] = (p - a[k]) * (q - b[k])
    BY <1>6
  <2> DEFINE x == a[k]
             y == b[k]
             A0 == A[k - 1]
             B0 == B[k - 1]
             P0 == P[k - 1]
  <2>5. /\ f[k] = k * (p * q) - p * (B0 + y) - q * (A0 + x) + (P0 + x * y)
        /\ f[k - 1] = (k - 1) * (p * q) - p * B0 - q * A0 + P0
        /\ row[k] = (p - x) * (q - y)
    BY ONLY <2>2, <2>3, <2>4
  <2>6. /\ x \in Int /\ y \in Int /\ A0 \in Int /\ B0 \in Int /\ P0 \in Int
        /\ p \in Int /\ q \in Int /\ k \in Int
    BY <1>2, <2>1, <2>2
  <2> HIDE DEF f, row, x, y, A0, B0, P0
  <2>7. k * (p * q) - p * (B0 + y) - q * (A0 + x) + (P0 + x * y)
          = ((k - 1) * (p * q) - p * B0 - q * A0 + P0) + (p - x) * (q - y)
    BY ONLY <2>6
  <2> QED
    BY ONLY <2>5, <2>7
<1> HIDE DEF f, row
<1>9. Total(row) = f[m]
  BY <1>2, <1>6, <1>7, <1>8, SumBy
<1>10. f[m] = m * (p * q) - p * B[m] - q * A[m] + P[m]
  BY <1>2 DEF f
<1> QED
  BY <1>9, <1>10 DEF row, m, p, q, A, B, P, ab

(* The identity of Lagrange and Chebyshev.                                  *)
LEMMA PairsSum ==
    ASSUME NEW n \in Nat, NEW a \in [1 .. n -> Int], NEW b \in [1 .. n -> Int]
    PROVE  Total(Pairwise(a, b, n)) = n * Total(Product(a, b, n)) - Total(a) * Total(b)
<1> DEFINE A == Sums(a)
           B == Sums(b)
           ab == Product(a, b, n)
           P == Sums(ab)
           pairs == Pairwise(a, b, n)
           f == [k \in 0 .. n |-> k * P[k] - A[k] * B[k]]
<1>1. ab \in [1 .. n -> Int] /\ \A i \in 1 .. n : ab[i] = a[i] * b[i]
  BY ProductType
<1>2. \A k \in 1 .. n : Total(RowOfPairs(a, b, k))
                          = (k - 1) * (a[k] * b[k]) - a[k] * B[k - 1] - b[k] * A[k - 1] + P[k - 1]
  BY RowSum
<1> HIDE DEF ab
<1>3. /\ \A k \in 0 .. n : A[k] \in Int
      /\ A[0] = 0 /\ A[n] = Total(a)
      /\ \A k \in 1 .. n : k \in 0 .. n /\ k - 1 \in 0 .. n /\ A[k] = A[k - 1] + a[k]
  BY PartialSums
<1>4. /\ \A k \in 0 .. n : B[k] \in Int
      /\ B[0] = 0 /\ B[n] = Total(b)
      /\ \A k \in 1 .. n : k \in 0 .. n /\ k - 1 \in 0 .. n /\ B[k] = B[k - 1] + b[k]
  BY PartialSums
<1>5. /\ \A k \in 0 .. n : P[k] \in Int
      /\ P[0] = 0 /\ P[n] = Total(ab)
      /\ \A k \in 1 .. n : k \in 0 .. n /\ k - 1 \in 0 .. n /\ P[k] = P[k - 1] + ab[k]
  BY <1>1, PartialSums
<1> HIDE DEF A, B, P
<1>6. ASSUME NEW k \in 1 .. n
      PROVE  /\ A[k] = A[k - 1] + a[k] /\ B[k] = B[k - 1] + b[k] /\ P[k] = P[k - 1] + a[k] * b[k]
             /\ A[k - 1] \in Int /\ B[k - 1] \in Int /\ P[k - 1] \in Int
             /\ a[k] \in Int /\ b[k] \in Int /\ k \in Int
  BY <1>1, <1>3, <1>4, <1>5
<1>7. /\ pairs \in [1 .. n -> Int]
      /\ \A k \in 1 .. n :
           pairs[k] = (k - 1) * (a[k] * b[k]) - a[k] * B[k - 1] - b[k] * A[k - 1] + P[k - 1]
  <2>1. pairs = [k \in 1 .. n |-> Total(RowOfPairs(a, b, k))]
    BY DEF Pairwise
  <2> HIDE DEF pairs
  <2>2. ASSUME NEW k \in 1 .. n PROVE Total(RowOfPairs(a, b, k)) \in Int
    <3> DEFINE x == a[k]
               y == b[k]
               A0 == A[k - 1]
               B0 == B[k - 1]
               P0 == P[k - 1]
    <3>0. /\ x \in Int /\ y \in Int /\ A0 \in Int /\ B0 \in Int /\ P0 \in Int /\ k \in Int
      BY <1>6
    <3> HIDE DEF x, y, A0, B0, P0
    <3>1. (k - 1) * (x * y) - x * B0 - y * A0 + P0 \in Int
      BY ONLY <3>0
    <3> QED
      BY <1>2, <3>1 DEF x, y, A0, B0, P0
  <2> QED
    BY <1>2, <2>1, <2>2
<1>8. f[0] = 0
  <2>0. 0 \in 0 .. n
    OBVIOUS
  <2>1. f[0] = 0 * P[0] - A[0] * B[0]
    BY <2>0
  <2> HIDE DEF f
  <2> QED
    BY <1>3, <1>4, <1>5, <2>1
<1>9. ASSUME NEW k \in 1 .. n PROVE f[k] = f[k - 1] + pairs[k]
  <2>1. f[k] = k * P[k] - A[k] * B[k] /\ f[k - 1] = (k - 1) * P[k - 1] - A[k - 1] * B[k - 1]
    OBVIOUS
  <2>2. pairs[k] = (k - 1) * (a[k] * b[k]) - a[k] * B[k - 1] - b[k] * A[k - 1] + P[k - 1]
    BY <1>7
  <2> DEFINE x == a[k]
             y == b[k]
             A0 == A[k - 1]
             B0 == B[k - 1]
             P0 == P[k - 1]
  <2> HIDE DEF f, pairs
  <2>3. /\ f[k] = k * (P0 + x * y) - (A0 + x) * (B0 + y)
        /\ f[k - 1] = (k - 1) * P0 - A0 * B0
        /\ pairs[k] = (k - 1) * (x * y) - x * B0 - y * A0 + P0
    BY ONLY <1>6, <2>1, <2>2
  <2>4. /\ x \in Int /\ y \in Int /\ A0 \in Int /\ B0 \in Int /\ P0 \in Int /\ k \in Int
    BY ONLY <1>6
  <2> HIDE DEF x, y, A0, B0, P0
  <2>5. k * (P0 + x * y) - (A0 + x) * (B0 + y)
          = ((k - 1) * P0 - A0 * B0) + ((k - 1) * (x * y) - x * B0 - y * A0 + P0)
    BY ONLY <2>4
  <2> QED
    BY ONLY <2>3, <2>5
<1>10. f[n] = n * P[n] - A[n] * B[n]
  OBVIOUS
<1> HIDE DEF f, pairs
<1>11. Total(pairs) = f[n]
  BY <1>7, <1>8, <1>9, SumBy
<1> QED
  BY <1>3, <1>4, <1>5, <1>10, <1>11 DEF pairs, ab

(* The regression, by pairs.                                                *)
Positions(n) == [i \in 1 .. n |-> i]

LEMMA PositionsType ==
    ASSUME NEW n \in Nat
    PROVE  Positions(n) \in [1 .. n -> Int] /\ \A i \in 1 .. n : Positions(n)[i] = i
BY DEF Positions

LEMMA SumOfPositions ==
    ASSUME NEW n \in Nat
    PROVE  Total(Positions(n)) \in Int /\ n * (n + 1) = 2 * Total(Positions(n))
<1> DEFINE id == Positions(n)
           A == Sums(id)
           f == [k \in 0 .. n |-> k * (k + 1) - A[k]]
<1>1. id \in [1 .. n -> Int] /\ \A i \in 1 .. n : id[i] = i
  BY PositionsType
<1> HIDE DEF id
<1>2. /\ \A k \in 0 .. n : A[k] \in Int
      /\ A[0] = 0 /\ A[n] = Total(id)
      /\ \A k \in 1 .. n : k \in 0 .. n /\ k - 1 \in 0 .. n /\ A[k] = A[k - 1] + id[k]
  BY <1>1, PartialSums
<1> HIDE DEF A
<1>3. f[0] = 0
  <2>1. 0 \in 0 .. n
    OBVIOUS
  <2> QED
    BY <1>2, <2>1
<1>4. ASSUME NEW k \in 1 .. n PROVE f[k] = f[k - 1] + id[k]
  <2> DEFINE A0 == A[k - 1]
  <2>1. A[k] = A0 + k /\ A0 \in Int /\ k \in Int /\ id[k] = k /\ (k - 1) + 1 = k
    BY <1>1, <1>2
  <2>2. f[k] = k * (k + 1) - A[k] /\ f[k - 1] = (k - 1) * ((k - 1) + 1) - A0
    BY <1>2
  <2> HIDE DEF f, A0
  <2>3. k * (k + 1) - (A0 + k) = ((k - 1) * ((k - 1) + 1) - A0) + k
    BY ONLY <2>1
  <2> QED
    BY ONLY <2>1, <2>2, <2>3
<1>5. f[n] = n * (n + 1) - A[n] /\ A[n] \in Int
  BY <1>2
<1> HIDE DEF f
<1>6. Total(id) = f[n]
  BY <1>1, <1>3, <1>4, SumBy
<1>7. Total(id) \in Int /\ n * (n + 1) = 2 * Total(id)
  <2> DEFINE N == n * (n + 1)
             T == Total(id)
  <2>1. N \in Int /\ T \in Int /\ T = N - T
    BY <1>2, <1>5, <1>6
  <2> HIDE DEF N, T
  <2>2. T \in Int /\ N = 2 * T
    BY ONLY <2>1
  <2> QED
    BY <2>2 DEF N, T
<1> QED
  BY <1>7 DEF id

LEMMA SumNotNegative ==
    ASSUME NEW n \in Nat, NEW term \in [1 .. n -> Int], \A k \in 1 .. n : term[k] >= 0
    PROVE  Total(term) \in Nat
<1> DEFINE S == Sums(term)
           T == {k \in 0 .. n : S[k] \in Nat}
<1>1. /\ \A k \in 0 .. n : S[k] \in Int
      /\ S[0] = 0 /\ S[n] = Total(term)
      /\ \A k \in 1 .. n : k \in 0 .. n /\ k - 1 \in 0 .. n /\ S[k] = S[k - 1] + term[k]
  BY PartialSums
<1> HIDE DEF S
<1>2. 0 \in T
  BY <1>1
<1>3. ASSUME NEW k \in 0 .. n, k \in T, k < n PROVE k + 1 \in T
  <2>1. k + 1 \in 1 .. n /\ (k + 1) - 1 = k
    BY <1>3
  <2>2. S[k + 1] = S[k] + term[k + 1] /\ term[k + 1] \in Int /\ term[k + 1] >= 0 /\ S[k] \in Nat
    BY <1>1, <1>3, <2>1
  <2>3. S[k + 1] \in Nat
    BY ONLY <2>2
  <2> QED
    BY <2>1, <2>3
<1>4. 0 .. n \subseteq T
  <2> HIDE DEF T
  <2> QED
    BY <1>2, <1>3, UpwardTo
<1>5. n \in 0 .. n
  OBVIOUS
<1> QED
  BY <1>1, <1>4, <1>5

LEMMA SlopeByPairs ==
    ASSUME NEW vs \in Seq(Int), NEW n, n = Len(vs), NEW off \in Int
    PROVE  LET id == Positions(n)
           IN  /\ Slope(vs, off).num = 8 * Total(Pairwise(id, vs, n)) + off
               /\ Slope(vs, off).den = 8 * Total(Pairwise(id, id, n))
               /\ Total(Pairwise(id, vs, n)) \in Int
               /\ Total(Pairwise(id, id, n)) \in Int
               /\ Slope(vs, off).den \in Nat
<1> DEFINE id == Positions(n)
           A == Sums(id)
           S == Sums(vs)
           iv == Product(id, vs, n)
           ii == Product(id, id, n)
           P == Sums(iv)
           Q == Sums(ii)
           T == Total(vs)
           num == [k \in 1 .. n |-> 2 * (2 * (k - 1) - (n - 1)) * (n * vs[k] - T)]
           den == [k \in 1 .. n |-> (2 * (k - 1) - (n - 1)) * (2 * (k - 1) - (n - 1))]
<1>1. n \in Nat /\ vs \in [1 .. n -> Int] /\ \A k \in 1 .. n : vs[k] \in Int
  OBVIOUS
<1>2. Slope(vs, off).num = 2 * Total(num) + off /\ Slope(vs, off).den = 2 * n * Total(den)
  BY DEF Slope
<1>3. id \in [1 .. n -> Int] /\ \A i \in 1 .. n : id[i] = i
  BY <1>1, PositionsType
<1>4. Total(id) \in Int /\ n * (n + 1) = 2 * Total(id)
  BY <1>1, SumOfPositions
<1> HIDE DEF id
<1>5. /\ iv \in [1 .. n -> Int] /\ \A i \in 1 .. n : iv[i] = id[i] * vs[i]
      /\ ii \in [1 .. n -> Int] /\ \A i \in 1 .. n : ii[i] = id[i] * id[i]
  <2>1. iv \in [1 .. n -> Int] /\ \A i \in 1 .. n : iv[i] = id[i] * vs[i]
    BY ONLY <1>1, <1>3, ProductType
  <2>2. ii \in [1 .. n -> Int] /\ \A i \in 1 .. n : ii[i] = id[i] * id[i]
    BY ONLY <1>1, <1>3, ProductType
  <2> QED
    BY <2>1, <2>2
<1> HIDE DEF iv, ii
<1>6. /\ \A k \in 0 .. n : A[k] \in Int
      /\ A[0] = 0 /\ A[n] = Total(id)
      /\ \A k \in 1 .. n : k \in 0 .. n /\ k - 1 \in 0 .. n /\ A[k] = A[k - 1] + id[k]
  BY <1>1, <1>3, PartialSums
<1>7. /\ \A k \in 0 .. n : S[k] \in Int
      /\ S[0] = 0 /\ S[n] = T
      /\ \A k \in 1 .. n : k \in 0 .. n /\ k - 1 \in 0 .. n /\ S[k] = S[k - 1] + vs[k]
  BY <1>1, PartialSums
<1>8. /\ \A k \in 0 .. n : P[k] \in Int
      /\ P[0] = 0 /\ P[n] = Total(iv)
      /\ \A k \in 1 .. n : k \in 0 .. n /\ k - 1 \in 0 .. n /\ P[k] = P[k - 1] + iv[k]
  BY <1>1, <1>5, PartialSums
<1>9. /\ \A k \in 0 .. n : Q[k] \in Int
      /\ Q[0] = 0 /\ Q[n] = Total(ii)
      /\ \A k \in 1 .. n : k \in 0 .. n /\ k - 1 \in 0 .. n /\ Q[k] = Q[k - 1] + ii[k]
  BY <1>1, <1>5, PartialSums
<1> HIDE DEF A, S, P, Q, T
<1>10. T \in Int /\ Total(iv) \in Int /\ Total(ii) \in Int /\ n \in 0 .. n /\ 0 \in 0 .. n
  <2>1. n \in 0 .. n /\ 0 \in 0 .. n
    BY <1>1
  <2> QED
    BY <1>7, <1>8, <1>9, <2>1
<1>11. ASSUME NEW k \in 1 .. n
       PROVE  /\ A[k] = A[k - 1] + k /\ S[k] = S[k - 1] + vs[k]
              /\ P[k] = P[k - 1] + k * vs[k] /\ Q[k] = Q[k - 1] + k * k
              /\ A[k - 1] \in Int /\ S[k - 1] \in Int /\ P[k - 1] \in Int /\ Q[k - 1] \in Int
              /\ vs[k] \in Int /\ k \in Int
  <2>1. id[k] = k /\ iv[k] = k * vs[k] /\ ii[k] = k * k /\ k \in Int /\ vs[k] \in Int
    BY ONLY <1>1, <1>3, <1>5, k \in 1 .. n
  <2>2. /\ A[k] = A[k - 1] + id[k] /\ S[k] = S[k - 1] + vs[k]
        /\ P[k] = P[k - 1] + iv[k] /\ Q[k] = Q[k - 1] + ii[k] /\ k - 1 \in 0 .. n
    BY ONLY <1>6, <1>7, <1>8, <1>9, k \in 1 .. n
  <2>3. A[k - 1] \in Int /\ S[k - 1] \in Int /\ P[k - 1] \in Int /\ Q[k - 1] \in Int
    BY ONLY <1>6, <1>7, <1>8, <1>9, <2>2
  <2> QED
    BY ONLY <2>1, <2>2, <2>3
<1>12. num \in [1 .. n -> Int] /\ \A k \in 1 .. n : num[k] = 2 * (2 * (k - 1) - (n - 1)) * (n * vs[k] - T)
  <2>1. \A k \in 1 .. n : num[k] = 2 * (2 * (k - 1) - (n - 1)) * (n * vs[k] - T)
    OBVIOUS
  <2>2. ASSUME NEW k \in 1 .. n PROVE num[k] \in Int
    <3>1. n * vs[k] - T \in Int /\ 2 * (2 * (k - 1) - (n - 1)) \in Int
      BY <1>1, <1>10
    <3> HIDE DEF num
    <3> QED
      BY <2>1, <3>1
  <2>3. num = [k \in 1 .. n |-> num[k]]
    OBVIOUS
  <2> HIDE DEF num
  <2> QED
    BY <2>1, <2>2, <2>3
<1>13. /\ den \in [1 .. n -> Int] /\ \A k \in 1 .. n : den[k] >= 0
       /\ \A k \in 1 .. n : den[k] = (2 * (k - 1) - (n - 1)) * (2 * (k - 1) - (n - 1))
  <2>1. \A k \in 1 .. n : den[k] = (2 * (k - 1) - (n - 1)) * (2 * (k - 1) - (n - 1))
    OBVIOUS
  <2>2. ASSUME NEW k \in 1 .. n PROVE den[k] \in Nat
    <3> DEFINE x == 2 * (k - 1) - (n - 1)
    <3>1. x \in Int /\ den[k] = x * x
      BY <1>1, <2>1
    <3> HIDE DEF x, den
    <3>2. x * x \in Nat
      BY <3>1
    <3> QED
      BY <3>1, <3>2
  <2>3. den = [k \in 1 .. n |-> den[k]]
    OBVIOUS
  <2> HIDE DEF den
  <2> QED
    BY <2>1, <2>2, <2>3
<1> HIDE DEF num, den
<1>14. Total(num) = 4 * (n * Total(iv) - Total(id) * T)
  <2> DEFINE f == [k \in 0 .. n |-> 4 * n * P[k] - 4 * T * A[k] - 2 * (n + 1) * n * S[k]
                                      + 2 * (n + 1) * T * k]
  <2>1. f[0] = 0
    <3>1. f[0] = 4 * n * P[0] - 4 * T * A[0] - 2 * (n + 1) * n * S[0] + 2 * (n + 1) * T * 0
      BY <1>10
    <3> HIDE DEF f
    <3> QED
      BY <1>1, <1>6, <1>7, <1>8, <1>10, <3>1
  <2>2. ASSUME NEW k \in 1 .. n PROVE f[k] = f[k - 1] + num[k]
    <3> DEFINE v == vs[k]
               A0 == A[k - 1]
               S0 == S[k - 1]
               P0 == P[k - 1]
    <3>1. k \in 0 .. n /\ k - 1 \in 0 .. n
      BY <1>6
    <3>2. /\ f[k] = 4 * n * P[k] - 4 * T * A[k] - 2 * (n + 1) * n * S[k] + 2 * (n + 1) * T * k
          /\ f[k - 1] = 4 * n * P0 - 4 * T * A0 - 2 * (n + 1) * n * S0 + 2 * (n + 1) * T * (k - 1)
      BY <3>1
    <3>3. num[k] = 2 * (2 * (k - 1) - (n - 1)) * (n * v - T)
      BY <1>12
    <3>4. A[k] = A0 + k /\ S[k] = S0 + v /\ P[k] = P0 + k * v
      BY <1>11
    <3>5. /\ A0 \in Int /\ S0 \in Int /\ P0 \in Int /\ v \in Int /\ k \in Int
          /\ n \in Int /\ T \in Int
      BY <1>1, <1>10, <1>11
    <3> HIDE DEF f, v, A0, S0, P0
    <3>6. 4 * n * (P0 + k * v) - 4 * T * (A0 + k) - 2 * (n + 1) * n * (S0 + v) + 2 * (n + 1) * T * k
            = (4 * n * P0 - 4 * T * A0 - 2 * (n + 1) * n * S0 + 2 * (n + 1) * T * (k - 1))
                + 2 * (2 * (k - 1) - (n - 1)) * (n * v - T)
      BY ONLY <3>5
    <3> QED
      BY ONLY <3>2, <3>3, <3>4, <3>6
  <2>3. f[n] = 4 * n * P[n] - 4 * T * A[n] - 2 * (n + 1) * n * S[n] + 2 * (n + 1) * T * n
    BY <1>10
  <2> HIDE DEF f
  <2>4. Total(num) = f[n]
    BY <1>1, <1>12, <2>1, <2>2, SumBy
  <2> DEFINE X == Total(iv)
             Y == Total(id)
  <2>5. /\ f[n] = 4 * n * X - 4 * T * Y - 2 * (n + 1) * n * T + 2 * (n + 1) * T * n
        /\ X \in Int /\ Y \in Int /\ T \in Int /\ n \in Int
    BY <1>1, <1>4, <1>6, <1>7, <1>8, <1>10, <2>3
  <2> HIDE DEF X, Y
  <2>6. 4 * n * X - 4 * T * Y - 2 * (n + 1) * n * T + 2 * (n + 1) * T * n = 4 * (n * X - Y * T)
    BY ONLY <2>5
  <2> QED
    BY <2>4, <2>5, <2>6 DEF X, Y
<1>15. Total(den) = 4 * Total(ii) - 4 * (n + 1) * Total(id) + (n + 1) * (n + 1) * n
  <2> DEFINE f == [k \in 0 .. n |-> 4 * Q[k] - 4 * (n + 1) * A[k] + (n + 1) * (n + 1) * k]
  <2>1. f[0] = 0
    <3>1. f[0] = 4 * Q[0] - 4 * (n + 1) * A[0] + (n + 1) * (n + 1) * 0
      BY <1>10
    <3> HIDE DEF f
    <3> QED
      BY <1>1, <1>6, <1>9, <3>1
  <2>2. ASSUME NEW k \in 1 .. n PROVE f[k] = f[k - 1] + den[k]
    <3> DEFINE A0 == A[k - 1]
               Q0 == Q[k - 1]
    <3>1. k \in 0 .. n /\ k - 1 \in 0 .. n
      BY <1>6
    <3>2. /\ f[k] = 4 * Q[k] - 4 * (n + 1) * A[k] + (n + 1) * (n + 1) * k
          /\ f[k - 1] = 4 * Q0 - 4 * (n + 1) * A0 + (n + 1) * (n + 1) * (k - 1)
      BY <3>1
    <3>3. den[k] = (2 * (k - 1) - (n - 1)) * (2 * (k - 1) - (n - 1))
      BY <1>13
    <3>4. A[k] = A0 + k /\ Q[k] = Q0 + k * k
      BY <1>11
    <3>5. A0 \in Int /\ Q0 \in Int /\ k \in Int /\ n \in Int
      BY <1>1, <1>11
    <3> HIDE DEF f, A0, Q0
    <3>6. 4 * (Q0 + k * k) - 4 * (n + 1) * (A0 + k) + (n + 1) * (n + 1) * k
            = (4 * Q0 - 4 * (n + 1) * A0 + (n + 1) * (n + 1) * (k - 1))
                + (2 * (k - 1) - (n - 1)) * (2 * (k - 1) - (n - 1))
      BY ONLY <3>5
    <3> QED
      BY ONLY <3>2, <3>3, <3>4, <3>6
  <2>3. f[n] = 4 * Q[n] - 4 * (n + 1) * A[n] + (n + 1) * (n + 1) * n
    BY <1>10
  <2> HIDE DEF f
  <2>4. Total(den) = f[n]
    BY <1>1, <1>13, <2>1, <2>2, SumBy
  <2> QED
    BY <1>6, <1>9, <2>3, <2>4
<1>16. n * Total(den) = 4 * (n * Total(ii) - Total(id) * Total(id))
  <2> DEFINE X == Total(ii)
             Y == Total(id)
             D == Total(den)
  <2>1. /\ D = 4 * X - 4 * (n + 1) * Y + (n + 1) * (n + 1) * n
        /\ n * (n + 1) = 2 * Y /\ X \in Int /\ Y \in Int /\ n \in Int
    BY <1>1, <1>4, <1>10, <1>15
  <2> HIDE DEF X, Y, D
  <2>2. n * D = 4 * n * X - 4 * (n * (n + 1)) * Y + (n * (n + 1)) * (n * (n + 1))
    <3>1. n * (4 * X - 4 * (n + 1) * Y + (n + 1) * (n + 1) * n)
            = 4 * n * X - 4 * (n * (n + 1)) * Y + (n * (n + 1)) * (n * (n + 1))
      BY ONLY <2>1
    <3> QED
      BY ONLY <2>1, <3>1
  <2>3. 4 * n * X - 4 * (2 * Y) * Y + (2 * Y) * (2 * Y) = 4 * (n * X - Y * Y)
    BY ONLY <2>1
  <2>4. n * D = 4 * n * X - 4 * (2 * Y) * Y + (2 * Y) * (2 * Y)
    BY ONLY <2>1, <2>2
  <2> QED
    BY <2>3, <2>4 DEF X, Y, D
<1>17. /\ Total(Pairwise(id, vs, n)) = n * Total(iv) - Total(id) * T
       /\ Total(Pairwise(id, id, n)) = n * Total(ii) - Total(id) * Total(id)
  BY <1>1, <1>3, PairsSum DEF iv, ii, T
<1>18. Total(Pairwise(id, vs, n)) \in Int /\ Total(Pairwise(id, id, n)) \in Int
  BY <1>1, <1>4, <1>10, <1>17
<1>19. n * Total(den) \in Nat
  <2>1. Total(den) \in Nat
    BY <1>1, <1>13, SumNotNegative
  <2> QED
    BY <1>1, <2>1
<1> DEFINE N == Total(num)
           D == Total(den)
           X == Total(Pairwise(id, vs, n))
           Y == Total(Pairwise(id, id, n))
<1>20. /\ N = 4 * X /\ n * D = 4 * Y /\ X \in Int /\ Y \in Int /\ n * D \in Nat /\ D \in Nat
  <2>1. D \in Nat
    BY <1>1, <1>13, SumNotNegative
  <2> QED
    BY <1>14, <1>16, <1>17, <1>18, <1>19, <2>1
<1> HIDE DEF N, D, X, Y
<1>21. 2 * N + off = 8 * X + off /\ 2 * n * D = 8 * Y /\ 8 * Y \in Nat
  <2>1. 2 * n * D = 2 * (n * D)
    BY <1>1, <1>20
  <2> QED
    BY <1>20, <2>1
<1>22. Slope(vs, off).num = 2 * N + off /\ Slope(vs, off).den = 2 * n * D
  BY <1>2 DEF N, D
<1>23. /\ Slope(vs, off).num = 8 * X + off /\ Slope(vs, off).den = 8 * Y
       /\ Slope(vs, off).den \in Nat
  BY ONLY <1>21, <1>22
<1> QED
  BY <1>20, <1>23 DEF id, X, Y

(* The sums over pairs that the statistics are compared with.               *)
RiseOver(vs) ==
    Total([j \in 1 .. Len(vs) |-> Total([i \in 1 .. (j - 1) |-> (j - i) * (vs[j] - vs[i])])])

StepsOver(vs) ==
    Total([j \in 1 .. Len(vs) |-> Total([i \in 1 .. (j - 1) |-> (j - i) * (j - i)])])

SpreadOver(vs) ==
    Total([j \in 1 .. Len(vs) |->
             Total([i \in 1 .. (j - 1) |-> (vs[i] - vs[j]) * (vs[i] - vs[j])])])

LEMMA OverPairs ==
    ASSUME NEW vs \in Seq(Int)
    PROVE  LET n == Len(vs)
               id == Positions(n)
           IN  /\ RiseOver(vs) = Total(Pairwise(id, vs, n))
               /\ StepsOver(vs) = Total(Pairwise(id, id, n))
               /\ SpreadOver(vs) = Total(Pairwise(vs, vs, n))
<1> DEFINE n == Len(vs)
           id == Positions(n)
<1>1. n \in Nat /\ \A k \in 1 .. n : vs[k] \in Int
  OBVIOUS
<1>2. \A i \in 1 .. n : id[i] = i
  BY <1>1, PositionsType
<1>3. RiseOver(vs) = Total([j \in 1 .. n |-> Total([i \in 1 .. (j - 1) |-> (j - i) * (vs[j] - vs[i])])])
  BY DEF RiseOver
<1>4. StepsOver(vs) = Total([j \in 1 .. n |-> Total([i \in 1 .. (j - 1) |-> (j - i) * (j - i)])])
  BY DEF StepsOver
<1>5. SpreadOver(vs) = Total([j \in 1 .. n |->
                         Total([i \in 1 .. (j - 1) |-> (vs[i] - vs[j]) * (vs[i] - vs[j])])])
  BY DEF SpreadOver
<1> HIDE DEF id, n
<1>6. ASSUME NEW j \in 1 .. n
      PROVE  /\ RowOfPairs(id, vs, j) = [i \in 1 .. (j - 1) |-> (j - i) * (vs[j] - vs[i])]
             /\ RowOfPairs(id, id, j) = [i \in 1 .. (j - 1) |-> (j - i) * (j - i)]
             /\ RowOfPairs(vs, vs, j) = [i \in 1 .. (j - 1) |-> (vs[i] - vs[j]) * (vs[i] - vs[j])]
  <2>1. \A i \in 1 .. (j - 1) : i \in 1 .. n /\ id[i] = i
    BY <1>1, <1>2
  <2>2. id[j] = j
    BY <1>2
  <2>3. ASSUME NEW i \in 1 .. (j - 1)
        PROVE  (vs[j] - vs[i]) * (vs[j] - vs[i]) = (vs[i] - vs[j]) * (vs[i] - vs[j])
    <3> DEFINE x == vs[i]
               y == vs[j]
    <3>1. x \in Int /\ y \in Int
      BY <1>1, <2>1
    <3> HIDE DEF x, y
    <3>2. (y - x) * (y - x) = (x - y) * (x - y)
      BY <3>1
    <3> QED
      BY <3>2 DEF x, y
  <2>4. RowOfPairs(id, vs, j) = [i \in 1 .. (j - 1) |-> (id[j] - id[i]) * (vs[j] - vs[i])]
    BY DEF RowOfPairs
  <2>5. RowOfPairs(id, id, j) = [i \in 1 .. (j - 1) |-> (id[j] - id[i]) * (id[j] - id[i])]
    BY DEF RowOfPairs
  <2>6. RowOfPairs(vs, vs, j) = [i \in 1 .. (j - 1) |-> (vs[j] - vs[i]) * (vs[j] - vs[i])]
    BY DEF RowOfPairs
  <2>7. RowOfPairs(id, vs, j) = [i \in 1 .. (j - 1) |-> (j - i) * (vs[j] - vs[i])]
    BY <2>1, <2>2, <2>4
  <2>8. RowOfPairs(id, id, j) = [i \in 1 .. (j - 1) |-> (j - i) * (j - i)]
    BY <2>1, <2>2, <2>5
  <2>9. RowOfPairs(vs, vs, j) = [i \in 1 .. (j - 1) |-> (vs[i] - vs[j]) * (vs[i] - vs[j])]
    BY <2>3, <2>6
  <2> QED
    BY <2>7, <2>8, <2>9
<1>7. RiseOver(vs) = Total([j \in 1 .. n |-> Total(RowOfPairs(id, vs, j))])
  BY <1>3, <1>6
<1>8. StepsOver(vs) = Total([j \in 1 .. n |-> Total(RowOfPairs(id, id, j))])
  BY <1>4, <1>6
<1>9. SpreadOver(vs) = Total([j \in 1 .. n |-> Total(RowOfPairs(vs, vs, j))])
  BY <1>5, <1>6
<1> QED
  BY <1>7, <1>8, <1>9 DEF Pairwise, id, n

LEMMA TrendByPairs ==
    ASSUME NEW t, IsTable(t), NEW s, NEW window \in Nat \ {0}, NEW off \in -Error .. Error,
           Len(ValuesOf(Window(Of(t, s), window))) >= 3
    PROVE  LET vs == ValuesOf(Window(Of(t, s), window))
               trend == Trend(t, s, window, off)
           IN  /\ 8 * (RiseOver(vs) - StepsOver(vs)) > Error => trend = "rising"
               /\ trend = "rising" => 8 * (RiseOver(vs) - StepsOver(vs)) > -Error
               /\ 8 * (RiseOver(vs) + StepsOver(vs)) < -Error => trend = "falling"
               /\ trend = "falling" => 8 * (RiseOver(vs) + StepsOver(vs)) < Error
<1> DEFINE vs == ValuesOf(Window(Of(t, s), window))
           n == Len(vs)
           slope == Slope(vs, off)
           rise == RiseOver(vs)
           steps == StepsOver(vs)
           trend == Trend(t, s, window, off)
<1>1. vs \in Seq(Int)
  BY OfTable, WindowTable, Values
<1>2. trend = IF Len(vs) < 3 THEN "unknown"
              ELSE IF slope.num > slope.den THEN "rising"
              ELSE IF slope.num < -slope.den THEN "falling"
              ELSE "flat"
  BY DEF Trend
<1>3. n >= 3
  OBVIOUS
<1> HIDE DEF vs, trend
<1>4. n \in Nat
  BY <1>1
<1>5. off \in Int /\ -Error <= off /\ off <= Error /\ Error \in Nat
  BY ErrorAssumption
<1>6. /\ slope.num = 8 * rise + off /\ slope.den = 8 * steps
      /\ rise \in Int /\ steps \in Int /\ slope.den \in Nat
  <2> DEFINE id == Positions(n)
  <2>1. rise = Total(Pairwise(id, vs, n)) /\ steps = Total(Pairwise(id, id, n))
    BY <1>1, OverPairs
  <2>2. n = Len(vs) /\ off \in Int
    BY <1>5
  <2> HIDE DEF n
  <2>3. /\ slope.num = 8 * Total(Pairwise(id, vs, n)) + off
        /\ slope.den = 8 * Total(Pairwise(id, id, n))
        /\ Total(Pairwise(id, vs, n)) \in Int /\ Total(Pairwise(id, id, n)) \in Int
        /\ slope.den \in Nat
    BY ONLY <1>1, <2>2, SlopeByPairs
  <2> HIDE DEF slope, rise, steps, id
  <2> QED
    BY <2>1, <2>3
<1> HIDE DEF slope, rise, steps
<1>7. /\ trend = "rising" <=> 8 * rise + off > 8 * steps
      /\ trend = "falling" <=> ~ (8 * rise + off > 8 * steps) /\ 8 * rise + off < -(8 * steps)
  BY <1>2, <1>3, <1>4, <1>6
<1>8. /\ 8 * (rise - steps) > Error => 8 * rise + off > 8 * steps
      /\ 8 * rise + off > 8 * steps => 8 * (rise - steps) > -Error
      /\ 8 * (rise + steps) < -Error => ~ (8 * rise + off > 8 * steps) /\ 8 * rise + off < -(8 * steps)
      /\ 8 * rise + off < -(8 * steps) => 8 * (rise + steps) < Error
  <2>1. 8 * steps >= 0
    BY <1>6
  <2> QED
    BY ONLY <1>5, <1>6, <2>1
<1> QED
  BY <1>7, <1>8 DEF vs, rise, steps, trend

(* The deviations, by pairs.                                                *)
LEMMA AwayFrom ==
    ASSUME NEW vs \in Seq(Int), NEW c \in Int
    PROVE  /\ Total([i \in 1 .. Len(vs) |-> c - vs[i]]) = Len(vs) * c - Total(vs)
           /\ Total(vs) \in Int
<1> DEFINE n == Len(vs)
           S == Sums(vs)
           term == [i \in 1 .. n |-> c - vs[i]]
           f == [k \in 0 .. n |-> k * c - S[k]]
<1>1. n \in Nat /\ vs \in [1 .. n -> Int] /\ \A k \in 1 .. n : vs[k] \in Int
  OBVIOUS
<1>2. /\ \A k \in 0 .. n : S[k] \in Int
      /\ S[0] = 0 /\ S[n] = Total(vs)
      /\ \A k \in 1 .. n : k \in 0 .. n /\ k - 1 \in 0 .. n /\ S[k] = S[k - 1] + vs[k]
  BY <1>1, PartialSums
<1> HIDE DEF S
<1>3. term \in [1 .. n -> Int] /\ \A k \in 1 .. n : term[k] = c - vs[k]
  BY <1>1
<1> HIDE DEF n, term
<1>4. n \in 0 .. n /\ 0 \in 0 .. n
  BY <1>1
<1>5. f[0] = 0 /\ f[n] = n * c - S[n]
  <2>1. f[0] = 0 * c - S[0] /\ f[n] = n * c - S[n]
    BY <1>4
  <2> HIDE DEF f
  <2> QED
    BY <1>2, <2>1
<1>6. ASSUME NEW k \in 1 .. n PROVE f[k] = f[k - 1] + term[k]
  <2> DEFINE S0 == S[k - 1]
             v == vs[k]
  <2>1. f[k] = k * c - S[k] /\ f[k - 1] = (k - 1) * c - S0
    BY <1>2
  <2>2. S[k] = S0 + v /\ S0 \in Int /\ v \in Int /\ k \in Int /\ term[k] = c - v
    BY <1>1, <1>2, <1>3
  <2> HIDE DEF f, S0, v
  <2>3. k * c - (S0 + v) = ((k - 1) * c - S0) + (c - v)
    BY ONLY <2>2, c \in Int
  <2> QED
    BY ONLY <2>1, <2>2, <2>3
<1> HIDE DEF f
<1>7. Total(term) = f[n]
  BY <1>1, <1>3, <1>5, <1>6, SumBy
<1>8. Total(vs) \in Int
  BY <1>2, <1>4
<1> QED
  BY <1>2, <1>5, <1>7, <1>8 DEF term, n

SquaresOf(vs) ==
    [i \in 1 .. Len(vs) |-> (Len(vs) * vs[i] - Total(vs)) * (Len(vs) * vs[i] - Total(vs))]

LEMMA VarianceByPairs ==
    ASSUME NEW vs \in Seq(Int)
    PROVE  /\ Total(SquaresOf(vs)) = Len(vs) * SpreadOver(vs)
           /\ SpreadOver(vs) \in Int
           /\ SquaresOf(vs) \in Seq(Int) /\ Len(SquaresOf(vs)) = Len(vs)
           /\ \A i \in 1 .. Len(vs) :
                SquaresOf(vs)[i] = (Len(vs) * vs[i] - Total(vs)) * (Len(vs) * vs[i] - Total(vs))
<1> DEFINE n == Len(vs)
           T == Total(vs)
           S == Sums(vs)
           vv == Product(vs, vs, n)
           P == Sums(vv)
           term == SquaresOf(vs)
           f == [k \in 0 .. n |-> n * n * P[k] - 2 * n * T * S[k] + T * T * k]
<1>1. n \in Nat /\ vs \in [1 .. n -> Int] /\ \A k \in 1 .. n : vs[k] \in Int
  OBVIOUS
<1>2. term = [i \in 1 .. n |-> (n * vs[i] - T) * (n * vs[i] - T)]
  BY DEF SquaresOf
<1>3. SpreadOver(vs) = Total(Pairwise(vs, vs, n))
  BY OverPairs
<1> HIDE DEF n
<1>4. vv \in [1 .. n -> Int] /\ \A i \in 1 .. n : vv[i] = vs[i] * vs[i]
  BY ONLY <1>1, ProductType
<1>5. Total(Pairwise(vs, vs, n)) = n * Total(vv) - T * T
  BY ONLY <1>1, PairsSum
<1> HIDE DEF vv
<1>6. /\ \A k \in 0 .. n : S[k] \in Int
      /\ S[0] = 0 /\ S[n] = T
      /\ \A k \in 1 .. n : k \in 0 .. n /\ k - 1 \in 0 .. n /\ S[k] = S[k - 1] + vs[k]
  BY ONLY <1>1, PartialSums
<1>7. /\ \A k \in 0 .. n : P[k] \in Int
      /\ P[0] = 0 /\ P[n] = Total(vv)
      /\ \A k \in 1 .. n : k \in 0 .. n /\ k - 1 \in 0 .. n /\ P[k] = P[k - 1] + vv[k]
  BY ONLY <1>1, <1>4, PartialSums
<1> HIDE DEF S, P, T, term
<1>8. T \in Int /\ Total(vv) \in Int /\ n \in 0 .. n /\ 0 \in 0 .. n
  <2>1. n \in 0 .. n /\ 0 \in 0 .. n
    BY <1>1
  <2> QED
    BY <1>6, <1>7, <2>1
<1>9. term \in [1 .. n -> Int] /\ \A k \in 1 .. n : term[k] = (n * vs[k] - T) * (n * vs[k] - T)
  <2>1. ASSUME NEW k \in 1 .. n PROVE (n * vs[k] - T) * (n * vs[k] - T) \in Int
    <3>1. n * vs[k] - T \in Int
      BY <1>1, <1>8
    <3> QED
      BY <3>1
  <2> QED
    BY <1>2, <2>1
<1>10. f[0] = 0
  <2>1. f[0] = n * n * P[0] - 2 * n * T * S[0] + T * T * 0
    BY <1>8
  <2> HIDE DEF f
  <2> QED
    BY <1>1, <1>6, <1>7, <1>8, <2>1
<1>11. ASSUME NEW k \in 1 .. n PROVE f[k] = f[k - 1] + term[k]
  <2> DEFINE v == vs[k]
             S0 == S[k - 1]
             P0 == P[k - 1]
  <2>1. k \in 0 .. n /\ k - 1 \in 0 .. n
    BY <1>6
  <2>2. /\ f[k] = n * n * P[k] - 2 * n * T * S[k] + T * T * k
        /\ f[k - 1] = n * n * P0 - 2 * n * T * S0 + T * T * (k - 1)
    BY <2>1
  <2>3. term[k] = (n * v - T) * (n * v - T)
    BY <1>9
  <2>4. S[k] = S0 + v /\ P[k] = P0 + v * v
    BY <1>4, <1>6, <1>7
  <2>5. /\ S0 \in Int /\ P0 \in Int /\ v \in Int /\ k \in Int /\ n \in Int /\ T \in Int
    BY <1>1, <1>6, <1>7, <1>8, <2>1
  <2> HIDE DEF f, v, S0, P0
  <2>6. n * n * (P0 + v * v) - 2 * n * T * (S0 + v) + T * T * k
          = (n * n * P0 - 2 * n * T * S0 + T * T * (k - 1)) + (n * v - T) * (n * v - T)
    BY ONLY <2>5
  <2> QED
    BY ONLY <2>2, <2>3, <2>4, <2>6
<1>12. f[n] = n * n * P[n] - 2 * n * T * S[n] + T * T * n
  BY <1>8
<1> HIDE DEF f
<1>13. Total(term) = f[n]
  BY <1>1, <1>9, <1>10, <1>11, SumBy
<1>14. f[n] = n * (n * Total(vv) - T * T)
  <2> DEFINE X == Total(vv)
  <2>1. f[n] = n * n * X - 2 * n * T * T + T * T * n /\ X \in Int /\ T \in Int /\ n \in Int
    BY <1>1, <1>6, <1>7, <1>8, <1>12
  <2> HIDE DEF X
  <2>2. n * n * X - 2 * n * T * T + T * T * n = n * (n * X - T * T)
    BY ONLY <2>1
  <2> QED
    BY <2>1, <2>2 DEF X
<1>15. n * Total(vv) - T * T \in Int
  BY <1>1, <1>8
<1>16. term \in Seq(Int) /\ Len(term) = n
  BY <1>1, <1>9
<1> QED
  BY <1>3, <1>5, <1>9, <1>13, <1>14, <1>15, <1>16 DEF term, T, n

(* The values of a window, from the oldest and from the newest.             *)
LEMMA NewestValues ==
    ASSUME NEW t, IsTable(t), NEW s, NEW window \in Nat \ {0}
    PROVE  LET vs == ValuesOf(Window(Of(t, s), window))
               us == ValuesOf(Newest(Of(t, s), window))
               n == Len(vs)
           IN  /\ vs \in Seq(Int) /\ us \in Seq(Int) /\ Len(us) = n /\ n \in Nat
               /\ \A i \in 1 .. n : /\ n - i + 1 \in 1 .. n /\ us[i] \in Int
                                    /\ us[i] = vs[n - i + 1] /\ vs[i] = us[n - i + 1]
               /\ Total(us) = Total(vs) /\ Total(vs) \in Int
<1> DEFINE rs == Of(t, s)
           w == Window(rs, window)
           newest == Newest(rs, window)
           vs == ValuesOf(w)
           us == ValuesOf(newest)
           n == Len(vs)
<1>1. IsTable(rs) /\ IsTable(w) /\ IsTable(newest)
  BY OfTable, WindowTable
<1>2. rs \in Seq(Range(rs))
  BY <1>1 DEF IsTable
<1> HIDE DEF rs
<1>3. Len(w) = Len(newest) /\ \A i \in 1 .. Len(w) : newest[i] = w[Len(w) - i + 1]
  BY ONLY <1>2, window \in Nat \ {0}, WindowRows
<1> HIDE DEF w, newest
<1>4. vs \in Seq(Int) /\ Len(vs) = Len(w) /\ \A i \in 1 .. Len(w) : vs[i] = w[i].value
  BY <1>1, Values
<1>5. us \in Seq(Int) /\ Len(us) = Len(newest) /\ \A i \in 1 .. Len(newest) : us[i] = newest[i].value
  BY <1>1, Values
<1> HIDE DEF vs, us
<1>6. n \in Nat /\ Len(us) = n /\ Len(w) = n
  BY <1>3, <1>4, <1>5
<1> HIDE DEF n
<1>7. \A i \in 1 .. n : n - i + 1 \in 1 .. n /\ n - (n - i + 1) + 1 = i
  BY <1>6
<1>8. \A i \in 1 .. n : us[i] = vs[n - i + 1] /\ us[i] \in Int
  <2>1. ASSUME NEW i \in 1 .. n PROVE us[i] = vs[n - i + 1] /\ us[i] \in Int
    <3>1. us[i] = newest[i].value /\ us[i] \in Int
      BY <1>3, <1>5, <1>6
    <3>2. newest[i] = w[n - i + 1] /\ vs[n - i + 1] = w[n - i + 1].value
      BY <1>3, <1>4, <1>6, <1>7
    <3> QED
      BY <3>1, <3>2
  <2> QED
    BY <2>1
<1>9. \A i \in 1 .. n : vs[i] = us[n - i + 1]
  BY <1>7, <1>8
<1>10. Total(us) = Total(vs)
  BY <1>4, <1>5, <1>6, <1>8, ReversedSum DEF n
<1>11. Total(vs) \in Int
  <2>1. Sums(vs) \in [0 .. Len(vs) -> Int] /\ Len(vs) \in 0 .. Len(vs)
    BY <1>4, SumsAre
  <2> QED
    BY <2>1 DEF Total
<1> QED
  BY <1>4, <1>5, <1>6, <1>7, <1>8, <1>9, <1>10, <1>11 DEF rs, w, newest, vs, us, n

AwayOver(vs, k) == Total([i \in 1 .. Len(vs) |-> vs[Len(vs) + 1 - k] - vs[i]])

\* The positions, from the newest value, that are more than sigma deviations away.
Beyond(vs, sigma, slack) ==
    {k \in 1 .. Len(vs) :
       2 * Len(vs) * (AwayOver(vs, k) * AwayOver(vs, k) - sigma * sigma * SpreadOver(vs)) > slack}

LEMMA AnomaliesByPairs ==
    ASSUME NEW t, IsTable(t), NEW s, NEW window \in Nat \ {0}, NEW sigma \in Nat,
           NEW off \in Offs(ValuesOf(Window(Of(t, s), window))),
           Len(ValuesOf(Window(Of(t, s), window))) >= EnoughRows
    PROVE  LET vs == ValuesOf(Window(Of(t, s), window))
               found == Anomalies(t, s, window, sigma, off)
           IN  Beyond(vs, sigma, Error) \subseteq found /\ found \subseteq Beyond(vs, sigma, -Error)
<1> DEFINE vs == ValuesOf(Window(Of(t, s), window))
           us == ValuesOf(Newest(Of(t, s), window))
           n == Len(vs)
           T == Total(vs)
           D == SpreadOver(vs)
           Q == sigma * sigma
           A(k) == AwayOver(vs, k)
           sq(i) == (n * us[i] - T) * (n * us[i] - T)
           V == Total([i \in 1 .. n |-> sq(i)])
           found == Anomalies(t, s, window, sigma, off)
<1>1. /\ vs \in Seq(Int) /\ us \in Seq(Int) /\ Len(us) = n /\ n \in Nat
      /\ \A i \in 1 .. n : /\ n - i + 1 \in 1 .. n /\ us[i] \in Int
                           /\ us[i] = vs[n - i + 1] /\ vs[i] = us[n - i + 1]
      /\ Total(us) = T /\ T \in Int
  BY NewestValues
<1>2. found =
        IF Len(us) < EnoughRows THEN {}
        ELSE {i \in 1 .. Len(us) :
                2 * Len(us) * ((Len(us) * us[i] - Total(us)) * (Len(us) * us[i] - Total(us)))
                    + off[us[i]]
                  > 2 * sigma * sigma * Total([j \in 1 .. Len(us) |->
                      (Len(us) * us[j] - Total(us)) * (Len(us) * us[j] - Total(us))])}
  BY DEF Anomalies
<1>3. n >= EnoughRows /\ off \in [Range(vs) -> -Error .. Error]
  BY DEF Offs
<1> HIDE DEF vs, us, found
<1>4. n \in Nat \ {0} /\ ~ (n < EnoughRows)
  BY <1>1, <1>3, RowsAssumption
<1> HIDE DEF n
<1>5. found = {i \in 1 .. n : 2 * n * sq(i) + off[us[i]] > 2 * sigma * sigma * V}
  BY <1>1, <1>2, <1>4
<1>6. V = n * D /\ D \in Int
  <2>1. /\ Total(SquaresOf(vs)) = n * D /\ D \in Int
        /\ SquaresOf(vs) \in Seq(Int) /\ Len(SquaresOf(vs)) = n
        /\ \A i \in 1 .. n : SquaresOf(vs)[i] = (n * vs[i] - T) * (n * vs[i] - T)
    BY <1>1, VarianceByPairs DEF n
  <2> DEFINE term == [i \in 1 .. n |-> sq(i)]
  <2>2. ASSUME NEW i \in 1 .. n PROVE sq(i) \in Int
    <3>1. n * us[i] - T \in Int
      BY <1>1
    <3> QED
      BY <3>1
  <2>3. \A i \in 1 .. n : sq(i) = SquaresOf(vs)[n - i + 1]
    BY <1>1, <2>1
  <2> HIDE DEF sq
  <2>4. term \in Seq(Int) /\ Len(term) = n /\ \A i \in 1 .. n : term[i] = sq(i)
    BY <1>4, <2>2
  <2> HIDE DEF term
  <2>5. \A i \in 1 .. Len(SquaresOf(vs)) : term[i] = SquaresOf(vs)[Len(SquaresOf(vs)) - i + 1]
    BY <2>1, <2>3, <2>4
  <2>6. Total(term) = Total(SquaresOf(vs))
    BY <2>1, <2>4, <2>5, ReversedSum
  <2> QED
    BY <2>1, <2>6 DEF term
<1> HIDE DEF V, D
<1>7. ASSUME NEW k \in 1 .. n
      PROVE  /\ 2 * n * (A(k) * A(k) - Q * D) > Error => k \in found
             /\ k \in found => 2 * n * (A(k) * A(k) - Q * D) > -Error
  <2> DEFINE c == vs[n + 1 - k]
  <2>1. n + 1 - k = n - k + 1 /\ c \in Int /\ us[k] = c
    BY <1>1
  <2>2. A(k) = n * c - T
    <3>1. A(k) = Total([i \in 1 .. n |-> c - vs[i]])
      BY DEF AwayOver, n
    <3> HIDE DEF c
    <3>2. Total([i \in 1 .. Len(vs) |-> c - vs[i]]) = Len(vs) * c - Total(vs)
      BY <1>1, <2>1, AwayFrom
    <3> QED
      BY <3>1, <3>2 DEF n
  <2>3. sq(k) = A(k) * A(k)
    BY <2>1, <2>2
  <2>4. A(k) \in Int
    BY <1>1, <1>4, <2>1, <2>2
  <2> DEFINE a == A(k)
  <2>5. a \in Int /\ a * a \in Int /\ sq(k) = a * a
    BY <2>3, <2>4
  <2> HIDE DEF sq, a, A
  <2>6. Q \in Int /\ Q * D \in Int
    BY <1>6
  <2> HIDE DEF Q
  <2>7. Q * V = n * (Q * D)
    <3>1. Q * (n * D) = n * (Q * D)
      BY <1>4, <1>6, <2>6
    <3> QED
      BY <1>6, <3>1
  <2> DEFINE e == off[us[k]]
  <2>8. e \in Int /\ -Error <= e /\ e <= Error /\ Error \in Nat
    <3>1. vs[n - k + 1] \in Range(vs)
      <4>1. n - k + 1 \in 1 .. n
        BY <1>1
      <4>2. DOMAIN vs = 1 .. n
        BY <1>1 DEF n
      <4> QED
        BY <4>1, <4>2 DEF Range
    <3>2. e \in -Error .. Error
      BY <1>1, <1>3, <3>1
    <3> QED
      BY <3>2, ErrorAssumption
  <2>9. k \in found <=> 2 * n * (a * a) + e > 2 * sigma * sigma * V
    BY <1>5, <2>5
  <2> HIDE DEF e
  <2>10. 2 * sigma * sigma * V = 2 * (n * (Q * D))
    <3>1. V \in Int
      BY <1>4, <1>6
    <3>2. 2 * sigma * sigma * V = 2 * ((sigma * sigma) * V)
      BY <3>1
    <3> QED
      BY <2>7, <3>2 DEF Q
  <2> DEFINE x == n * (a * a)
             z == n * (Q * D)
  <2>11. /\ 2 * n * (a * a) = 2 * x /\ 2 * n * (a * a - Q * D) = 2 * x - 2 * z
         /\ x \in Int /\ z \in Int
    BY <1>4, <2>5, <2>6
  <2> HIDE DEF x, z
  <2>12. k \in found <=> 2 * x + e > 2 * z
    BY <2>9, <2>10, <2>11 DEF z
  <2>13. /\ 2 * x - 2 * z > Error => k \in found
         /\ k \in found => 2 * x - 2 * z > -Error
    BY ONLY <2>8, <2>11, <2>12
  <2> QED
    BY <2>11, <2>13 DEF a
<1>8. found \subseteq 1 .. n
  BY <1>5
<1> HIDE DEF sq, A, Q
<1>9. /\ {k \in 1 .. n : 2 * n * (A(k) * A(k) - Q * D) > Error} \subseteq found
      /\ found \subseteq {k \in 1 .. n : 2 * n * (A(k) * A(k) - Q * D) > -Error}
  BY <1>7, <1>8
<1>10. \A slack : Beyond(vs, sigma, slack) = {k \in 1 .. n : 2 * n * (A(k) * A(k) - Q * D) > slack}
  BY DEF Beyond, n, A, Q, D
<1> QED
  BY <1>9, <1>10 DEF vs, found

LEMMA StuckStatistics ==
    ASSUME NEW t, IsTable(t), NEW s, NEW window \in Nat \ {0}, NEW off, DetectStuck(t, s, window)
    PROVE  Distribution(t, s, 2, window, off) = <<window>>
<1> DEFINE us == ValuesOf(Newest(Of(t, s), window))
           n == Len(us)
<1>1. us \in Seq(Int)
  BY NewestValues
<1>2. n = window /\ Cardinality(Range(us)) = 1
  BY DEF DetectStuck
<1>3. us # <<>> /\ Min(Range(us)) = Max(Range(us)) => Distribution(t, s, 2, window, off) = <<n>>
  BY DEF Distribution
<1> HIDE DEF us
<1>4. PICK c : Range(us) = {c}
  <2>1. IsFiniteSet(Range(us))
    BY <1>1, ValueRange
  <2> QED
    BY <1>2, <2>1, FS_Singleton
<1>5. us # <<>>
  BY <1>2
<1>6. Min(Range(us)) = c /\ Max(Range(us)) = c
  <2> DEFINE R == Range(us)
  <2>1. R \in SUBSET Int /\ IsFiniteSet(R) /\ R = {c}
    BY <1>1, <1>4, ValueRange
  <2> HIDE DEF R
  <2>2. Min(R) \in R /\ Max(R) \in R
    BY <2>1, Extremes
  <2> QED
    BY <2>1, <2>2 DEF R
<1> QED
  BY <1>2, <1>3, <1>5, <1>6

MovedBy(vs, ma, period) ==
    \A i \in period .. (Len(vs) - 1) : ma[i + 1] - ma[i] = vs[i + 1] - vs[i + 1 - period]

LEMMA MovingAverageMoves ==
    ASSUME NEW t, IsTable(t), NEW s, NEW window \in Nat \ {0}, NEW period \in Nat \ {0}
    PROVE  LET vs == ValuesOf(Window(Of(t, s), window))
               n == Len(vs)
               ma == MovingAverage(t, s, period, window)
           IN  /\ n >= period => ma[n] = SensorStats(t, s, period).sum
               /\ MovedBy(vs, ma, period)
<1> DEFINE rs == Of(t, s)
           w == Window(rs, window)
           v == Window(rs, period)
           vs == ValuesOf(w)
           ws == ValuesOf(v)
           n == Len(vs)
           ma == MovingAverage(t, s, period, window)
           S == Sums(vs)
<1>1. ma = [i \in period .. n |-> Total(SubSeq(vs, i - period + 1, i))]
  BY DEF MovingAverage
<1>2. IsTable(rs) /\ IsTable(w) /\ IsTable(v)
  BY OfTable, WindowTable
<1>3. Len(ws) # 0 => SensorStats(t, s, period).sum = Total(ws)
  <2>1. /\ Len(ws) = Len(v)
        /\ Len(v) # 0 => SensorStats(t, s, period) =
                          [count |-> Len(v), min |-> Min(Range(ws)), max |-> Max(Range(ws)),
                           sum |-> Total(ws)]
    BY WholeStats
  <2> HIDE DEF ws, v
  <2> QED
    BY <2>1
<1> HIDE DEF rs, ma
<1>4. rs \in Seq(Range(rs)) /\ Len(rs) \in Nat
  BY <1>2 DEF IsTable
<1>5. /\ Len(w) <= Len(rs)
      /\ \A i \in 1 .. Len(w) : w[i] = rs[(Len(rs) - Len(w)) + i]
  BY ONLY <1>4, window \in Nat \ {0}, WindowRows
<1>6. \A i \in 1 .. Len(v) : v[i] = rs[(Len(rs) - Len(v)) + i]
  BY ONLY <1>4, period \in Nat \ {0}, WindowRows
<1>7. Len(v) = IF period < Len(rs) THEN period ELSE Len(rs)
  <2>1. Len(v) = Len(Newest(rs, period))
    BY ONLY <1>4, period \in Nat \ {0}, WindowRows
  <2>2. Len(Newest(rs, period)) = IF period < Len(rs) THEN period ELSE Len(rs)
    BY ONLY <1>4, period \in Nat \ {0}, NewestRows
  <2> QED
    BY <2>1, <2>2
<1> HIDE DEF w, v
<1>8. vs \in Seq(Int) /\ Len(vs) = Len(w) /\ \A i \in 1 .. Len(w) : vs[i] = w[i].value
  BY <1>2, Values
<1>9. ws \in Seq(Int) /\ Len(ws) = Len(v) /\ \A i \in 1 .. Len(v) : ws[i] = v[i].value
  BY <1>2, Values
<1> HIDE DEF vs, ws
<1>10. n \in Nat /\ n = Len(w) /\ \A i \in 1 .. n : vs[i] \in Int
  BY <1>8
<1>11. ASSUME n >= period PROVE ma[n] = SensorStats(t, s, period).sum
  <2> DEFINE u == SubSeq(vs, n - period + 1, n)
             m == n - period
  <2>1. Len(v) = period /\ m \in Nat /\ period \in Nat
    BY <1>4, <1>5, <1>7, <1>10, <1>11
  <2>2. ma[n] = Total(u)
    BY <1>1, <1>10, <1>11
  <2>3. u \in Seq(Int) /\ Len(u) = period /\ \A i \in 1 .. period : u[i] = vs[m + i]
    <3>1. /\ m + 1 \in 1 .. Len(vs) + 1 /\ n \in (m + 1) - 1 .. Len(vs)
          /\ n - (m + 1) + 1 = period /\ n = Len(vs)
      BY <1>10, <2>1
    <3>2. \A i \in 1 .. period : (m + 1) + i - 1 = m + i
      BY <2>1
    <3> DEFINE x == SubSeq(vs, m + 1, n)
    <3>3. /\ x \in Seq(Int) /\ Len(x) = n - (m + 1) + 1
          /\ \A i \in 1 .. (n - (m + 1) + 1) : x[i] = vs[(m + 1) + i - 1]
      BY <1>8, <3>1, SubSeqProperties
    <3>4. u = x
      OBVIOUS
    <3> HIDE DEF x, u, m
    <3> QED
      BY <3>1, <3>2, <3>3, <3>4
  <2> HIDE DEF u
  <2>4. ASSUME NEW i \in 1 .. period PROVE u[i] = ws[i]
    <3>1. /\ m + i \in 1 .. n
          /\ (Len(rs) - Len(w)) + (m + i) = (Len(rs) - Len(v)) + i
      BY <1>4, <1>10, <2>1
    <3>2. vs[m + i] = rs[(Len(rs) - Len(w)) + (m + i)].value
      BY <1>5, <1>8, <1>10, <3>1
    <3>3. ws[i] = rs[(Len(rs) - Len(v)) + i].value
      BY <1>6, <1>9, <2>1
    <3> QED
      BY <2>3, <3>1, <3>2, <3>3
  <2>5. u = ws
    BY <1>9, <2>1, <2>3, <2>4
  <2> QED
    BY <1>3, <1>9, <2>1, <2>2, <2>5
<1>12. MovedBy(vs, ma, period)
  <2>1. ASSUME NEW i \in period .. (n - 1)
        PROVE  ma[i + 1] - ma[i] = vs[i + 1] - vs[i + 1 - period]
    <3> DEFINE lo == i - period
               next == (i + 1) - period
    <3>1. /\ i \in period .. n /\ i + 1 \in period .. n /\ next = lo + 1
          /\ lo \in 0 .. Len(vs) /\ i \in lo .. Len(vs)
          /\ next \in 0 .. Len(vs) /\ i + 1 \in next .. Len(vs)
      BY <1>10
    <3>2. ma[i] = Total(SubSeq(vs, lo + 1, i)) /\ ma[i + 1] = Total(SubSeq(vs, next + 1, i + 1))
      BY <1>1, <3>1
    <3> HIDE DEF lo, next
    <3>3. Total(SubSeq(vs, lo + 1, i)) = S[i] - S[lo]
      BY <1>8, <3>1, SliceSum
    <3>4. Total(SubSeq(vs, next + 1, i + 1)) = S[i + 1] - S[next]
      BY <1>8, <3>1, SliceSum
    <3>5. /\ \A k \in 0 .. n : S[k] \in Int
          /\ \A k \in 1 .. n : S[k] = S[k - 1] + vs[k]
      BY <1>8, SumsAre DEF Summing
    <3> HIDE DEF S
    <3>6. i + 1 \in 1 .. n /\ next \in 1 .. n /\ (i + 1) - 1 = i /\ next - 1 = lo
          /\ i \in 0 .. n /\ lo \in 0 .. n
      BY <1>10, <3>1 DEF lo, next
    <3>7. S[i + 1] = S[i] + vs[i + 1] /\ S[next] = S[lo] + vs[next]
      BY <3>5, <3>6
    <3>8. S[i] \in Int /\ S[lo] \in Int /\ vs[i + 1] \in Int /\ vs[next] \in Int
      BY <1>10, <3>5, <3>6
    <3>9. (S[i + 1] - S[next]) - (S[i] - S[lo]) = vs[i + 1] - vs[next]
      BY ONLY <3>7, <3>8
    <3> QED
      BY <3>2, <3>3, <3>4, <3>9 DEF next
  <2> QED
    BY <2>1 DEF MovedBy
<1> QED
  BY <1>11, <1>12 DEF vs, w, rs, n, ma

(* Percentiles.  Rounding to hundreds is nearest and keeps the order.       *)
Rounded(x, q, r, y) ==
    /\ q \in Nat /\ r \in 0 .. 99 /\ x = 100 * q + r
    /\ y = IF 2 * r > 100 \/ (2 * r = 100 /\ q % 2 = 1) THEN q + 1 ELSE q

LEMMA RoundOne ==
    ASSUME NEW x \in Nat
    PROVE  Rounded(x, x \div 100, x % 100, RoundDiv(x, 100))
<1> DEFINE q == x \div 100
           r == x % 100
<1>1. q \in Nat /\ r \in 0 .. 99 /\ x = 100 * q + r
  OBVIOUS
<1>2. RoundDiv(x, 100) = IF 2 * r > 100 \/ (2 * r = 100 /\ q % 2 = 1) THEN q + 1 ELSE q
  BY DEF RoundDiv
<1> HIDE DEF q, r
<1>3. Rounded(x, q, r, RoundDiv(x, 100))
  BY <1>1, <1>2 DEF Rounded
<1> QED
  BY <1>3 DEF q, r

LEMMA RoundHundred ==
    ASSUME NEW a \in Nat, NEW c \in Nat, a <= c
    PROVE  /\ RoundDiv(a, 100) \in Nat /\ RoundDiv(c, 100) \in Nat
           /\ -50 <= 100 * RoundDiv(a, 100) - a /\ 100 * RoundDiv(a, 100) - a <= 50
           /\ RoundDiv(a, 100) <= RoundDiv(c, 100)
<1> DEFINE q == a \div 100
           r == a % 100
           p == c \div 100
           o == c % 100
           x == RoundDiv(a, 100)
           y == RoundDiv(c, 100)
<1>1. Rounded(a, q, r, x) /\ Rounded(c, p, o, y)
  BY RoundOne
<1> HIDE DEF q, r, p, o, x, y
<1>2. /\ q \in Nat /\ r \in 0 .. 99 /\ a = 100 * q + r /\ x \in Nat /\ (x = q \/ x = q + 1)
      /\ x = q + 1 => 2 * r >= 100
      /\ x = q => 2 * r <= 100
      /\ x = q + 1 <=> 2 * r > 100 \/ (2 * r = 100 /\ q % 2 = 1)
  BY <1>1 DEF Rounded
<1>3. /\ p \in Nat /\ o \in 0 .. 99 /\ c = 100 * p + o /\ y \in Nat /\ (y = p \/ y = p + 1)
      /\ y = p + 1 <=> 2 * o > 100 \/ (2 * o = 100 /\ p % 2 = 1)
  BY <1>1 DEF Rounded
<1>4. q <= p /\ (q = p => r <= o)
  BY <1>2, <1>3
<1>5. x <= y
  <2>1. CASE q < p
    BY <1>2, <1>3, <2>1
  <2>2. CASE q = p
    <3>1. x = q + 1 => y = p + 1
      BY <1>2, <1>3, <1>4, <2>2
    <3> QED
      BY <1>2, <1>3, <2>2, <3>1
  <2> QED
    BY <1>2, <1>3, <1>4, <2>1, <2>2
<1>6. -50 <= 100 * x - a /\ 100 * x - a <= 50
  BY <1>2
<1> QED
  BY <1>2, <1>3, <1>5, <1>6 DEF x, y

RankOf(n, p) == Min({n - 1, RoundDiv(p * (n - 1), 100)})

NearTo(rank, n, p) ==
    /\ rank \in 0 .. (n - 1)
    /\ -50 <= 100 * rank - p * (n - 1) /\ 100 * rank - p * (n - 1) <= 50

LEMMA RankNearest ==
    ASSUME NEW n \in Nat \ {0}, NEW p \in 0 .. 100, NEW q \in p .. 100
    PROVE  /\ RankOf(n, p) \in 0 .. (n - 1) /\ RankOf(n, q) \in 0 .. (n - 1)
           /\ NearTo(RankOf(n, p), n, p)
           /\ RankOf(n, p) <= RankOf(n, q)
<1> DEFINE m == n - 1
           a == p * m
           c == q * m
           x == RoundDiv(a, 100)
           y == RoundDiv(c, 100)
<1>1. m \in Nat /\ p \in Nat /\ q \in Nat /\ p <= q /\ q <= 100
  OBVIOUS
<1>2. a \in Nat /\ c \in Nat /\ a <= c /\ a <= 100 * m
  <2> HIDE DEF m
  <2>1. a <= c /\ a <= 100 * m
    BY <1>1, Monotone
  <2> QED
    BY <1>1, <2>1
<1> HIDE DEF m, a, c
<1>3. x \in Nat /\ y \in Nat /\ -50 <= 100 * x - a /\ 100 * x - a <= 50 /\ x <= y
  <2>1. a \in Nat /\ c \in Nat /\ a <= c
    BY <1>2
  <2> HIDE DEF x, y
  <2>2. /\ RoundDiv(a, 100) \in Nat /\ RoundDiv(c, 100) \in Nat
        /\ -50 <= 100 * RoundDiv(a, 100) - a /\ 100 * RoundDiv(a, 100) - a <= 50
        /\ RoundDiv(a, 100) <= RoundDiv(c, 100)
    BY ONLY <2>1, RoundHundred
  <2> QED
    BY <2>2 DEF x, y
<1> HIDE DEF x, y
<1>4. /\ Min({m, x}) = IF m < x THEN m ELSE x
      /\ Min({m, y}) = IF m < y THEN m ELSE y
  BY <1>1, <1>3, LesserOf
<1>5. RankOf(n, p) = Min({m, x}) /\ RankOf(n, q) = Min({m, y})
  BY DEF RankOf, m, x, y, a, c
<1>6. /\ RankOf(n, p) \in 0 .. m /\ RankOf(n, q) \in 0 .. m
      /\ -50 <= 100 * RankOf(n, p) - a
      /\ 100 * RankOf(n, p) - a <= 50
      /\ RankOf(n, p) <= RankOf(n, q)
  BY <1>1, <1>2, <1>3, <1>4, <1>5
<1> QED
  BY <1>6 DEF NearTo, m, a

(* How many values are less than the one at a place, or not more.           *)
LEMMA PlaceCounts ==
    ASSUME NEW us \in Seq(Int), NEW k \in 1 .. Len(us)
    PROVE  LET v == us[Placed(us, k)]
           IN  /\ v \in Int
               /\ Cardinality({i \in 1 .. Len(us) : us[i] < v}) <= k - 1
               /\ Cardinality({i \in 1 .. Len(us) : us[i] <= v}) > k - 1
               /\ Cardinality({i \in 1 .. Len(us) : us[i] < v}) \in Nat
               /\ Cardinality({i \in 1 .. Len(us) : us[i] <= v}) \in Nat
<1> DEFINE n == Len(us)
           D == 1 .. n
           z == Placed(us, k)
           v == us[z]
           U == UpTo(us, z)
           Less == {i \in D : us[i] < v}
           NotMore == {i \in D : us[i] <= v}
<1>1. /\ n \in Nat /\ DOMAIN us = D /\ us \in [D -> Int] /\ \A i \in D : us[i] \in Int
  OBVIOUS
<1>2. D \in SUBSET Int /\ IsFiniteSet(D) /\ Cardinality(D) = n
  <2>1. DOMAIN us \in SUBSET DOMAIN us
    OBVIOUS
  <2>2. DOMAIN us \in SUBSET Int /\ IsFiniteSet(DOMAIN us) /\ Cardinality(DOMAIN us) = Len(us)
    BY <2>1, PositionsFinite
  <2> QED
    BY ONLY <1>1, <2>2
<1> HIDE DEF n
<1>3. k \in 1 .. n
  BY DEF n
<1> HIDE DEF D
<1>4. z \in D /\ Cardinality(U) = k
  BY <1>1, <1>2, <1>3, Places
<1> HIDE DEF z
<1>5. v \in Int
  BY <1>1, <1>4
<1>6. z \in U /\ U \subseteq D /\ \A i \in D : i \in U <=> us[i] < v \/ (us[i] = v /\ i <= z)
  <2>1. z \in Int
    BY <1>2, <1>4
  <2> QED
    BY <1>1, <1>4, <2>1 DEF UpTo
<1> HIDE DEF U, v
<1>7. Less \subseteq U \ {z} /\ U \subseteq NotMore
  <2>1. v = us[z]
    BY DEF v
  <2>2. ~ (us[z] < v)
    BY <1>5, <2>1
  <2>3. ASSUME NEW i \in U PROVE i \in D /\ us[i] <= v
    <3>1. i \in D /\ us[i] \in Int /\ (us[i] < v \/ us[i] = v)
      BY <1>1, <1>6
    <3> QED
      BY <1>5, <3>1
  <2> QED
    BY <1>6, <2>2, <2>3
<1>8. Less \subseteq D /\ NotMore \subseteq D
  OBVIOUS
<1> HIDE DEF Less, NotMore
<1>9. IsFiniteSet(U) /\ IsFiniteSet(NotMore) /\ IsFiniteSet(Less)
  BY <1>2, <1>6, <1>8, FS_Subset
<1>10. IsFiniteSet(U \ {z}) /\ Cardinality(U \ {z}) = k - 1
  BY <1>4, <1>6, <1>9, FS_RemoveElement
<1>11. Cardinality(Less) <= k - 1
  BY <1>7, <1>10, FS_Subset
<1>12. k <= Cardinality(NotMore)
  BY <1>4, <1>7, <1>9, FS_Subset
<1>13. Cardinality(Less) \in Nat /\ Cardinality(NotMore) \in Nat
  BY <1>9, FS_CardinalityType
<1>14. Cardinality(NotMore) > k - 1
  BY <1>3, <1>12, <1>13
<1> QED
  BY <1>5, <1>11, <1>13, <1>14 DEF Less, NotMore, v, z, D, n

LEMMA MirroredCount ==
    ASSUME NEW n \in Nat, NEW S \in SUBSET (1 .. n), NEW T \in SUBSET (1 .. n),
           \A i \in 1 .. n : i \in T <=> n - i + 1 \in S
    PROVE  Cardinality(T) = Cardinality(S)
<1> DEFINE f == [i \in S |-> n - i + 1]
<1>1. \A i \in 1 .. n : n - i + 1 \in 1 .. n /\ n - (n - i + 1) + 1 = i
  OBVIOUS
<1>2. IsFiniteSet(S)
  <2>1. IsFiniteSet(1 .. n)
    BY FS_Interval
  <2> QED
    BY <2>1, FS_Subset
<1>3. \A i \in S : i \in 1 .. n /\ f[i] = n - i + 1 /\ f[i] \in T /\ n - f[i] + 1 = i
  BY <1>1
<1>4. f \in [S -> T]
  BY <1>3
<1>5. ASSUME NEW i \in T PROVE \E j \in S : f[j] = i
  <2>1. n - i + 1 \in S /\ n - (n - i + 1) + 1 = i
    BY <1>1
  <2> QED
    BY <1>3, <2>1
<1> HIDE DEF f
<1>6. \A i, j \in S : f[i] = f[j] => i = j
  BY <1>3
<1> QED
  BY <1>2, <1>4, <1>5, <1>6, SameNumber

PercentileAt(t, s, window, p, rank) ==
    LET vs == ValuesOf(Window(Of(t, s), window))
        v == Percentile(t, s, window, p)
    IN  /\ v \in Int
        /\ Cardinality({i \in 1 .. Len(vs) : vs[i] < v}) <= rank
        /\ Cardinality({i \in 1 .. Len(vs) : vs[i] <= v}) > rank

LEMMA PercentileRank ==
    ASSUME NEW t, IsTable(t), NEW s, NEW window \in Nat \ {0}, NEW p \in 0 .. 100, NEW q \in p .. 100,
           NEW n \in Nat \ {0}, n = Len(ValuesOf(Window(Of(t, s), window)))
    PROVE  /\ PercentileAt(t, s, window, p, RankOf(n, p))
           /\ Percentile(t, s, window, p) <= Percentile(t, s, window, q)
<1> DEFINE vs == ValuesOf(Window(Of(t, s), window))
           us == ValuesOf(Newest(Of(t, s), window))
           sorted == Arranged(us, us)
           P(x) == Percentile(t, s, window, x)
<1>1. /\ vs \in Seq(Int) /\ us \in Seq(Int) /\ Len(us) = n /\ Len(vs) = n
      /\ \A i \in 1 .. n : /\ n - i + 1 \in 1 .. n /\ us[i] \in Int
                           /\ us[i] = vs[n - i + 1] /\ vs[i] = us[n - i + 1]
  <2> DEFINE m == Len(vs)
  <2>1. /\ vs \in Seq(Int) /\ us \in Seq(Int) /\ Len(us) = m
        /\ \A i \in 1 .. m : /\ m - i + 1 \in 1 .. m /\ us[i] \in Int
                             /\ us[i] = vs[m - i + 1] /\ vs[i] = us[m - i + 1]
    <3>1. IsTable(t) /\ window \in Nat \ {0}
      OBVIOUS
    <3> QED
      BY ONLY <3>1, NewestValues
  <2>2. m = n
    OBVIOUS
  <2> HIDE DEF vs, us, m
  <2>3. Len(vs) = m
    BY DEF m
  <2> QED
    BY ONLY <2>1, <2>2, <2>3
<1>2. \A x : P(x) = IF Len(sorted) = 0 THEN None ELSE sorted[RankOf(Len(sorted), x) + 1]
  BY DEF Percentile, RankOf
<1>3. sorted = [k \in 1 .. Cardinality(DOMAIN us) |-> us[Placed(us, k)]]
  BY DEF Arranged
<1> HIDE DEF vs, us, P
<1>4. DOMAIN us = 1 .. n /\ us \in [1 .. n -> Int] /\ Cardinality(1 .. n) = n
      /\ 1 .. n \in SUBSET Int /\ IsFiniteSet(1 .. n)
  <2>1. us \in Seq(Int) /\ DOMAIN us \in SUBSET DOMAIN us
    BY <1>1
  <2>2. /\ DOMAIN us \in SUBSET Int /\ IsFiniteSet(DOMAIN us)
        /\ Cardinality(DOMAIN us) = Len(us) /\ DOMAIN us = 1 .. Len(us)
    BY ONLY <2>1, PositionsFinite
  <2>3. us \in [1 .. n -> Int]
    BY <1>1
  <2> QED
    BY ONLY <1>1, <2>2, <2>3
<1>5. sorted = [k \in 1 .. n |-> us[Placed(us, k)]]
  BY <1>3, <1>4
<1> HIDE DEF sorted
<1>6. Len(sorted) = n
  BY <1>5
<1>7. /\ RankOf(n, p) \in 0 .. (n - 1) /\ RankOf(n, q) \in 0 .. (n - 1)
      /\ RankOf(n, p) <= RankOf(n, q)
  BY RankNearest
<1> DEFINE k == RankOf(n, p) + 1
           m == RankOf(n, q) + 1
<1>8. k \in 1 .. n /\ m \in 1 .. n /\ k <= m /\ k - 1 = RankOf(n, p)
  BY <1>7
<1>9. P(p) = us[Placed(us, k)] /\ P(q) = us[Placed(us, m)]
  BY <1>2, <1>5, <1>6, <1>8
<1> HIDE DEF k, m
<1> DEFINE v == us[Placed(us, k)]
<1>10. /\ v \in Int
       /\ Cardinality({i \in 1 .. n : us[i] < v}) <= k - 1
       /\ Cardinality({i \in 1 .. n : us[i] <= v}) > k - 1
  BY <1>1, <1>8, PlaceCounts
<1>11. us[Placed(us, k)] <= us[Placed(us, m)]
  <2>1. CASE k = m
    BY <1>10, <2>1
  <2>2. CASE k < m
    <3>1. Placed(us, k) \in 1 .. n /\ Placed(us, m) \in 1 .. n
      BY <1>4, <1>8, Places
    <3>2. us[Placed(us, k)] \in Int /\ us[Placed(us, m)] \in Int
      BY <1>1, <3>1
    <3>3. us[Placed(us, k)] < us[Placed(us, m)] \/ us[Placed(us, k)] = us[Placed(us, m)]
      <4> DEFINE D == 1 .. n
      <4>1. D \in SUBSET Int /\ IsFiniteSet(D) /\ us \in [D -> Int] /\ Cardinality(D) = n
        BY <1>4
      <4>2. k \in 1 .. Cardinality(D) /\ m \in 1 .. Cardinality(D)
        BY <1>4, <1>8
      <4> HIDE DEF D
      <4>3. \A a, b \in 1 .. Cardinality(D) : a < b =>
              us[Placed(us, a)] < us[Placed(us, b)] \/ us[Placed(us, a)] = us[Placed(us, b)]
        BY ONLY <4>1, Places
      <4> QED
        BY ONLY <2>2, <4>2, <4>3
    <3> QED
      BY <3>2, <3>3
  <2> QED
    BY <1>8, <2>1, <2>2
<1> HIDE DEF v
<1>12. /\ Cardinality({i \in 1 .. n : vs[i] < v}) = Cardinality({i \in 1 .. n : us[i] < v})
       /\ Cardinality({i \in 1 .. n : vs[i] <= v}) = Cardinality({i \in 1 .. n : us[i] <= v})
  <2> DEFINE S1 == {i \in 1 .. n : us[i] < v}
             T1 == {i \in 1 .. n : vs[i] < v}
             S2 == {i \in 1 .. n : us[i] <= v}
             T2 == {i \in 1 .. n : vs[i] <= v}
  <2>1. /\ S1 \in SUBSET (1 .. n) /\ T1 \in SUBSET (1 .. n)
        /\ S2 \in SUBSET (1 .. n) /\ T2 \in SUBSET (1 .. n)
    OBVIOUS
  <2>2. /\ \A i \in 1 .. n : i \in T1 <=> n - i + 1 \in S1
        /\ \A i \in 1 .. n : i \in T2 <=> n - i + 1 \in S2
    BY <1>1
  <2> HIDE DEF S1, T1, S2, T2
  <2>3. n \in Nat
    OBVIOUS
  <2>4. Cardinality(T1) = Cardinality(S1)
    BY ONLY <2>1, <2>2, <2>3, MirroredCount
  <2>5. Cardinality(T2) = Cardinality(S2)
    BY ONLY <2>1, <2>2, <2>3, MirroredCount
  <2> QED
    BY <2>4, <2>5 DEF S1, T1, S2, T2
<1>13. P(p) = v
  BY <1>9 DEF v
<1>14. PercentileAt(t, s, window, p, k - 1)
  BY <1>1, <1>10, <1>12, <1>13 DEF PercentileAt, P, vs
<1> QED
  BY <1>8, <1>9, <1>11, <1>14 DEF P

LEMMA CompareWithItself ==
    ASSUME NEW t, IsTable(t), NEW s, NEW window \in Nat \ {0},
           Len(ValuesOf(Window(Of(t, s), window))) > 0
    PROVE  Compare(t, s, s, window)[1] = 0
<1> DEFINE w == Window(Of(t, s), window)
           vs == ValuesOf(w)
           a == SensorStats(t, s, window)
<1>1. /\ Len(vs) = Len(w) /\ Len(w) \in Nat /\ vs \in Seq(Int)
      /\ Len(w) # 0 => a = [count |-> Len(w), min |-> Min(Range(vs)), max |-> Max(Range(vs)),
                            sum |-> Total(vs)]
  BY WholeStats
<1>2. Len(vs) > 0
  OBVIOUS
<1> HIDE DEF w, vs
<1>3. Compare(t, s, s, window) = IF a.count = 0 \/ a.count = 0 THEN None
                                 ELSE <<a.sum * a.count - a.sum * a.count, a.count * a.count>>
  BY DEF Compare
<1> HIDE DEF a
<1>4. a.count = Len(w) /\ a.sum = Total(vs) /\ Len(w) # 0
  BY <1>1, <1>2
<1>5. Total(vs) \in Int
  <2>1. Sums(vs) \in [0 .. Len(vs) -> Int] /\ Len(vs) \in 0 .. Len(vs)
    BY <1>1, SumsAre
  <2> QED
    BY <2>1 DEF Total
<1> DEFINE x == a.sum * a.count
<1>6. x \in Int /\ a.count # 0
  BY <1>1, <1>4, <1>5
<1> HIDE DEF x
<1>7. x - x = 0
  BY <1>6
<1> QED
  BY <1>3, <1>6, <1>7 DEF x
=============================================================================
