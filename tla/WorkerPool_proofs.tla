------------------------- MODULE WorkerPool_proofs -------------------------
(***************************************************************************)
(* Proofs about WorkerPool.tla, for every set of process ids and of jobs   *)
(* and every configuration.                                                *)
(***************************************************************************)
EXTENDS WorkerPool, FiniteSetTheorems, SequenceTheorems, TLAPS

-----------------------------------------------------------------------------
(***************************************************************************)
(* Folds.  A fold is a recursive function on the subsets of a finite set:  *)
(* it exists (FoldExists), and what each of its steps preserves holds of   *)
(* its value (FoldStays).  Both are by a least counterexample on the size  *)
(* of the subset.                                                          *)
(***************************************************************************)
LEMMA Least ==
  ASSUME NEW S \in SUBSET Nat, S # {}
  PROVE  \E x \in S : \A y \in S : x <= y
<1> DEFINE R == OpToRel(<, Nat)
<1>1. IsWellFoundedOn(R, Nat)
  BY NatLessThanWellFounded
<1>2. \A x, y \in Nat : <<y, x>> \in R <=> y < x
  BY DEF OpToRel
<1> HIDE DEF R
<1>3. \E x \in S : \A y \in S : ~(<<y, x>> \in R)
  BY <1>1, WFMin
<1>4. PICK x \in S : \A y \in S : ~(<<y, x>> \in R)
  BY <1>3
<1>5. \A y \in S : x <= y
  <2> SUFFICES ASSUME NEW y \in S PROVE x <= y
    OBVIOUS
  <2>1. x \in Nat /\ y \in Nat /\ ~(y < x)
    BY <1>2, <1>4
  <2> QED  BY <2>1
<1> QED  BY <1>5

\* A chooser c picks an element of every subset of S but the empty one.
Picks(c, S) == \A s \in SUBSET S : s # {} => c[s] \in s

\* Sizes of the subsets of a finite set.
LEMMA SizeFacts ==
  ASSUME NEW S, IsFiniteSet(S), NEW s \in SUBSET S
  PROVE  /\ IsFiniteSet(s) /\ Cardinality(s) \in Nat /\ Cardinality(s) <= Cardinality(S)
         /\ (Cardinality(s) = 0 <=> s = {})
         /\ \A x \in s : Cardinality(s \ {x}) = Cardinality(s) - 1
  BY FS_Subset, FS_CardinalityType, FS_EmptySet, FS_RemoveElement

\* The fold of the function G, from b, over S.
IsFold(it, S, c, V, b, G) ==
  /\ it \in [SUBSET S -> V]
  /\ it[{}] = b
  /\ \A s \in SUBSET S : s # {} => it[s] = G[it[s \ {c[s]}]][c[s]]

\* The fold exists.
LEMMA FoldExists ==
  ASSUME NEW S, IsFiniteSet(S), NEW c, Picks(c, S),
         NEW V, NEW b \in V, NEW G \in [V -> [S -> V]]
  PROVE  \E it : IsFold(it, S, c, V, b, G)
<1> DEFINE Upto(n) == {s \in SUBSET S : Cardinality(s) <= n}
           Rule(it, s) == it[s] = IF s = {} THEN b ELSE G[it[s \ {c[s]}]][c[s]]
           Exists(n) == \E it \in [Upto(n) -> V] : \A s \in Upto(n) : Rule(it, s)
           Bad == {n \in Nat : ~Exists(n)}
<1>0. /\ Cardinality(S) \in Nat
      /\ \A s \in SUBSET S : /\ Cardinality(s) \in Nat /\ Cardinality(s) <= Cardinality(S)
                             /\ (Cardinality(s) = 0 <=> s = {})
                             /\ \A x \in s : Cardinality(s \ {x}) = Cardinality(s) - 1
  BY SizeFacts, FS_CardinalityType
<1>1. Exists(0)
  <2> DEFINE it == [s \in Upto(0) |-> b]
  <2>1. ASSUME NEW s \in Upto(0) PROVE s = {}
    <3>1. s \in SUBSET S /\ Cardinality(s) <= 0
      OBVIOUS
    <3>2. Cardinality(s) \in Nat /\ (Cardinality(s) = 0 <=> s = {})
      BY <1>0, <3>1
    <3> QED  BY <3>1, <3>2
  <2>2. it \in [Upto(0) -> V] /\ \A s \in Upto(0) : it[s] = b
    OBVIOUS
  <2> QED  BY <2>1, <2>2
<1>2. ASSUME NEW n \in Nat, Exists(n) PROVE Exists(n + 1)
  <2>1. PICK old \in [Upto(n) -> V] : \A s \in Upto(n) : Rule(old, s)
    BY <1>2
  <2> DEFINE it == [s \in Upto(n + 1) |->
                      IF s \in Upto(n) THEN old[s] ELSE G[old[s \ {c[s]}]][c[s]]]
  <2>2. ASSUME NEW s \in Upto(n + 1)
        PROVE  /\ s # {} => c[s] \in S /\ s \ {c[s]} \in Upto(n) /\ c[s] \in s
               /\ s \notin Upto(n) => s # {}
    <3>1. s \in SUBSET S /\ Cardinality(s) <= n + 1
      OBVIOUS
    <3>2. /\ Cardinality(s) \in Nat /\ (Cardinality(s) = 0 <=> s = {})
          /\ s # {} => c[s] \in s /\ Cardinality(s \ {c[s]}) = Cardinality(s) - 1
      BY <1>0, <3>1 DEF Picks
    <3>3. s # {} => s \ {c[s]} \in SUBSET S /\ Cardinality(s \ {c[s]}) <= n
      BY <3>1, <3>2
    <3>4. s \notin Upto(n) => s # {}
      BY <3>1, <3>2
    <3> QED  BY <3>1, <3>2, <3>3, <3>4
  <2>3. ASSUME NEW s \in Upto(n + 1) PROVE it[s] \in V
    <3>1. CASE s \in Upto(n)
      BY <3>1
    <3>2. CASE s \notin Upto(n)
      <4>1. old[s \ {c[s]}] \in V /\ c[s] \in S
        BY <2>2, <3>2
      <4>2. \A v \in V, x \in S : G[v][x] \in V
        OBVIOUS
      <4>3. G[old[s \ {c[s]}]][c[s]] \in V
        BY <4>1, <4>2
      <4>4. it[s] = IF s \in Upto(n) THEN old[s] ELSE G[old[s \ {c[s]}]][c[s]]
        OBVIOUS
      <4> HIDE DEF it, Upto
      <4> QED  BY <3>2, <4>3, <4>4
    <3> QED  BY <3>1, <3>2
  <2>4. ASSUME NEW s \in Upto(n + 1) PROVE Rule(it, s)
    <3>1. s # {} => it[s \ {c[s]}] = old[s \ {c[s]}]
      <4> SUFFICES ASSUME s # {} PROVE it[s \ {c[s]}] = old[s \ {c[s]}]
        OBVIOUS
      <4>1. s \ {c[s]} \in Upto(n)
        BY <2>2
      <4>2. PICK d : d = s \ {c[s]}
        OBVIOUS
      <4>3. d \in SUBSET S /\ Cardinality(d) \in Nat /\ Cardinality(d) <= n
        BY <4>1, <4>2, <1>0
      <4>4. d \in Upto(n) /\ d \in Upto(n + 1)
        BY <4>3
      <4> QED  BY <4>2, <4>4
    <3>2. CASE s \in Upto(n)
      <4>1. it[s] = old[s] /\ Rule(old, s)
        BY <2>1, <3>2
      <4> HIDE DEF it
      <4> QED  BY <3>1, <4>1
    <3>3. CASE s \notin Upto(n)
      <4>1. it[s] = G[old[s \ {c[s]}]][c[s]] /\ s # {}
        BY <2>2, <3>3
      <4> HIDE DEF it
      <4> QED  BY <3>1, <4>1
    <3> QED  BY <3>2, <3>3
  <2>5. it \in [Upto(n + 1) -> V]
    BY <2>3
  <2> HIDE DEF it
  <2> QED  BY <2>4, <2>5
<1>3. Bad = {}
  <2> SUFFICES ASSUME Bad # {} PROVE FALSE
    OBVIOUS
  <2> HIDE DEF Exists
  <2>1. PICK n \in Bad : \A k \in Bad : n <= k
    BY Least
  <2>2. n \in Nat /\ n # 0 /\ n - 1 \in Nat /\ n - 1 \notin Bad
    BY <1>1, <2>1
  <2>3. Exists(n - 1)
    BY <2>2
  <2>4. Exists((n - 1) + 1)
    BY <1>2, <2>2, <2>3
  <2>5. (n - 1) + 1 = n
    BY <2>2
  <2> QED  BY <2>1, <2>4, <2>5
<1>4. Exists(Cardinality(S))
  BY <1>0, <1>3
<1>5. Upto(Cardinality(S)) = SUBSET S
  BY <1>0
<1>6. PICK it \in [SUBSET S -> V] : \A s \in SUBSET S : Rule(it, s)
  BY <1>4, <1>5
<1>7. it[{}] = b /\ \A s \in SUBSET S : s # {} => it[s] = G[it[s \ {c[s]}]][c[s]]
  BY <1>6
<1>8. IsFold(it, S, c, V, b, G)
  BY <1>6, <1>7 DEF IsFold
<1> QED  BY <1>8

\* What every step of the fold preserves holds of its value.
LEMMA FoldStays ==
  ASSUME NEW S, IsFiniteSet(S), NEW c, Picks(c, S), NEW it, NEW J,
         it[{}] \in J[{}],
         \A s \in SUBSET S : s # {} /\ it[s \ {c[s]}] \in J[s \ {c[s]}] => it[s] \in J[s]
  PROVE  it[S] \in J[S]
<1> DEFINE Bad == {n \in Nat : \E s \in SUBSET S : Cardinality(s) = n /\ it[s] \notin J[s]}
<1>0. /\ Cardinality(S) \in Nat
      /\ \A s \in SUBSET S : /\ Cardinality(s) \in Nat
                             /\ (Cardinality(s) = 0 <=> s = {})
                             /\ \A x \in s : Cardinality(s \ {x}) = Cardinality(s) - 1
  BY SizeFacts, FS_CardinalityType
<1>1. Bad = {}
  <2> SUFFICES ASSUME Bad # {} PROVE FALSE
    OBVIOUS
  <2>1. PICK n \in Bad : \A k \in Bad : n <= k
    BY Least
  <2>2. PICK s \in SUBSET S : Cardinality(s) = n /\ it[s] \notin J[s]
    BY <2>1
  <2>3. s # {} /\ c[s] \in s
    BY <2>2 DEF Picks
  <2>4. s \ {c[s]} \in SUBSET S /\ Cardinality(s \ {c[s]}) = n - 1 /\ n - 1 \in Nat
    BY <1>0, <2>2, <2>3
  <2>5. it[s \ {c[s]}] \notin J[s \ {c[s]}]
    BY <2>2, <2>3
  <2>6. n - 1 \in Bad
    BY <2>4, <2>5
  <2> QED  BY <2>1, <2>4, <2>6
<1>2. S \in SUBSET S /\ Cardinality(S) \in Nat /\ Cardinality(S) \notin Bad
  BY <1>0, <1>1
<1> QED  BY <1>2

-----------------------------------------------------------------------------
(***************************************************************************)
(* Sequences.                                                              *)
(***************************************************************************)
LEMMA MaxPicks ==
  ASSUME NEW n \in Nat
  PROVE  /\ Picks([s \in SUBSET (1 .. n) |-> Max(s)], 1 .. n) /\ IsFiniteSet(1 .. n)
         /\ \A s \in SUBSET (1 .. n) : s # {} => Max(s) \in s
<1>1. ASSUME NEW s \in SUBSET (1 .. n), s # {} PROVE Max(s) \in s
  <2> DEFINE T == {n - x : x \in s}
  <2>1. T \in SUBSET Nat /\ T # {}
    <3>1. \A x \in s : x \in 1 .. n
      OBVIOUS
    <3>2. \A x \in s : n - x \in Nat
      BY <3>1
    <3> QED  BY <1>1, <3>2
  <2>2. PICK y \in T : \A z \in T : y <= z
    BY <2>1, Least
  <2>3. PICK x \in s : y = n - x
    BY <2>2
  <2>4. \A z \in s : n - x <= n - z
    BY <2>2, <2>3
  <2>5. \A z \in s : x >= z
    BY <2>4
  <2> QED  BY <2>5 DEF Max
<1>2. IsFiniteSet(1 .. n)
  BY FS_Interval
<1> QED  BY <1>1, <1>2 DEF Picks

\* Append adds an element.
LEMMA AppendSet ==
  ASSUME NEW S, NEW s \in Seq(S), NEW x \in S
  PROVE  /\ Append(s, x) \in Seq(S) /\ ToSet(Append(s, x)) = ToSet(s) \cup {x}
         /\ IsInjective(s) /\ x \notin ToSet(s) => IsInjective(Append(s, x))
<1> DEFINE t == Append(s, x)
<1>1. /\ t \in Seq(S) /\ DOMAIN t = 1 .. Len(s) + 1 /\ DOMAIN s = 1 .. Len(s) /\ Len(s) \in Nat
      /\ \A i \in 1 .. Len(s) : t[i] = s[i]
      /\ t[Len(s) + 1] = x
  BY AppendProperties, LenProperties
<1> HIDE DEF t
<1>2. ToSet(t) = ToSet(s) \cup {x}
  BY <1>1 DEF ToSet
<1>3. ASSUME IsInjective(s), x \notin ToSet(s) PROVE IsInjective(t)
  <2> SUFFICES ASSUME NEW i \in DOMAIN t, NEW j \in DOMAIN t, t[i] = t[j] PROVE i = j
    BY DEF IsInjective
  <2>1. \A k \in 1 .. Len(s) : t[k] # x
    BY <1>1, <1>3 DEF ToSet
  <2> QED  BY <1>1, <1>3, <2>1 DEF IsInjective
<1> QED  BY <1>1, <1>2, <1>3 DEF t

\* RemoveAt takes one element out of an injective sequence.
LEMMA RemoveAtSet ==
  ASSUME NEW S, NEW s \in Seq(S), NEW k \in DOMAIN s, IsInjective(s)
  PROVE  /\ RemoveAt(s, k) \in Seq(S) /\ IsInjective(RemoveAt(s, k))
         /\ ToSet(RemoveAt(s, k)) = ToSet(s) \ {s[k]}
<1> DEFINE a == SubSeq(s, 1, k - 1)
           b == SubSeq(s, k + 1, Len(s))
           t == RemoveAt(s, k)
<1>1. /\ Len(s) \in Nat /\ DOMAIN s = 1 .. Len(s) /\ k \in 1 .. Len(s)
      /\ \A i \in 1 .. Len(s) : s[i] \in S
  BY LenProperties
<1>2. /\ a \in Seq(S) /\ Len(a) = k - 1 /\ \A i \in 1 .. k - 1 : a[i] = s[i]
  BY <1>1
<1>3. /\ b \in Seq(S) /\ Len(b) = Len(s) - k /\ \A i \in 1 .. Len(s) - k : b[i] = s[k + i]
  <2>1. \A i \in k + 1 .. Len(s) : s[i] \in S
    BY <1>1
  <2>2. /\ b \in Seq(S) /\ Len(b) = IF k + 1 <= Len(s) THEN Len(s) - (k + 1) + 1 ELSE 0
        /\ \A i \in 1 .. Len(s) - (k + 1) + 1 : b[i] = s[k + 1 + i - 1]
    BY <1>1, <2>1, SubSeqProperties
  <2> HIDE DEF b
  <2>3. Len(b) = Len(s) - k /\ Len(s) - (k + 1) + 1 = Len(s) - k
    BY <1>1, <2>2
  <2>4. \A i \in 1 .. Len(s) - k : k + 1 + i - 1 = k + i
    BY <1>1
  <2> QED  BY <2>2, <2>3, <2>4
<1> HIDE DEF a, b
<1>4. /\ a \o b \in Seq(S) /\ Len(a \o b) = Len(s) - 1
      /\ \A i \in 1 .. Len(s) - 1 : (a \o b)[i] = IF i <= k - 1 THEN a[i] ELSE b[i - (k - 1)]
  <2>1. /\ a \o b \in Seq(S) /\ Len(a \o b) = Len(a) + Len(b)
        /\ \A i \in 1 .. Len(a) + Len(b) :
             (a \o b)[i] = IF i <= Len(a) THEN a[i] ELSE b[i - Len(a)]
    BY <1>2, <1>3, ConcatProperties
  <2>2. Len(a) + Len(b) = Len(s) - 1
    BY <1>1, <1>2, <1>3
  <2> QED  BY <1>2, <2>1, <2>2
<1>5. t = a \o b
  BY DEF RemoveAt, a, b
<1>6. \A i \in 1 .. Len(s) - 1 : t[i] = IF i < k THEN s[i] ELSE s[i + 1]
  <2> SUFFICES ASSUME NEW i \in 1 .. Len(s) - 1 PROVE t[i] = IF i < k THEN s[i] ELSE s[i + 1]
    OBVIOUS
  <2>1. CASE i < k
    BY <1>1, <1>2, <1>4, <1>5, <2>1
  <2>2. CASE ~(i < k)
    <3>1. i - (k - 1) \in 1 .. Len(s) - k /\ k + (i - (k - 1)) = i + 1 /\ ~(i <= k - 1)
      BY <1>1, <2>2
    <3>2. t[i] = b[i - (k - 1)]
      BY <1>4, <1>5, <3>1
    <3>3. b[i - (k - 1)] = s[k + (i - (k - 1))]
      BY <1>3, <3>1
    <3> QED  BY <2>2, <3>1, <3>2, <3>3
  <2> QED  BY <2>1, <2>2
<1>7. t \in Seq(S) /\ DOMAIN t = 1 .. Len(s) - 1
  BY <1>4, <1>5, LenProperties
<1> HIDE DEF t
<1>8. IsInjective(t)
  <2> SUFFICES ASSUME NEW i \in DOMAIN t, NEW j \in DOMAIN t, t[i] = t[j] PROVE i = j
    BY DEF IsInjective
  <2>1. i \in 1 .. Len(s) /\ i + 1 \in 1 .. Len(s) /\ j \in 1 .. Len(s) /\ j + 1 \in 1 .. Len(s)
    BY <1>1, <1>7
  <2> QED  BY <1>1, <1>6, <1>7, <2>1 DEF IsInjective
<1>9. ASSUME NEW x \in ToSet(t) PROVE x \in ToSet(s) \ {s[k]}
  <2>1. PICK i \in 1 .. Len(s) - 1 : x = t[i]
    BY <1>7 DEF ToSet
  <2>2. \E j \in 1 .. Len(s) : x = s[j] /\ j # k
    BY <1>1, <1>6, <2>1
  <2> QED  BY <1>1, <2>2 DEF ToSet, IsInjective
<1>10. ASSUME NEW x \in ToSet(s) \ {s[k]} PROVE x \in ToSet(t)
  <2>1. PICK j \in 1 .. Len(s) : x = s[j] /\ j # k
    BY <1>1 DEF ToSet
  <2>2. CASE j < k
    <3>1. j \in 1 .. Len(s) - 1 /\ t[j] = s[j]
      BY <1>1, <1>6, <2>2
    <3> QED  BY <1>7, <2>1, <3>1 DEF ToSet
  <2>3. CASE j > k
    <3>1. j - 1 \in 1 .. Len(s) - 1 /\ ~(j - 1 < k) /\ j - 1 + 1 = j
      BY <1>1, <2>3
    <3>2. t[j - 1] = s[j]
      BY <1>6, <3>1
    <3> QED  BY <1>7, <2>1, <3>1, <3>2 DEF ToSet
  <2> QED  BY <1>1, <2>1, <2>2, <2>3
<1> QED  BY <1>7, <1>8, <1>9, <1>10 DEF t

\* Without takes every occurrence of p out.
LEMMA WithoutSet ==
  ASSUME NEW S, NEW s \in Seq(S), NEW p
  PROVE  /\ Without(s, p) \in Seq(S) /\ ToSet(Without(s, p)) = ToSet(s) \ {p}
         /\ IsInjective(s) => IsInjective(Without(s, p))
<1> DEFINE D == DOMAIN s
           c == [x \in SUBSET D |-> Max(x)]
           Rule(it) == it = [x \in SUBSET D |->
                               IF x = {} THEN <<>>
                               ELSE IF s[Max(x)] = p THEN it[x \ {Max(x)}]
                                    ELSE Append(it[x \ {Max(x)}], s[Max(x)])]
           F == CHOOSE it : Rule(it)
           J == [x \in SUBSET D |->
                   {t \in Seq(S) : /\ ToSet(t) = {s[i] : i \in x} \ {p}
                                   /\ IsInjective(s) => IsInjective(t)}]
<1>0. Len(s) \in Nat /\ D = 1 .. Len(s) /\ \A i \in D : s[i] \in S
  BY ElementOfSeq
<1>1. Without(s, p) = F[D]
  BY DEF Without, FoldLeft, MapThenFoldSet
<1>2. /\ Picks(c, D) /\ IsFiniteSet(D)
      /\ \A x \in SUBSET D : x # {} => Max(x) \in x /\ c[x] = Max(x)
  BY <1>0, MaxPicks
<1>3. \E it : Rule(it)
  <2> DEFINE G == [t \in Seq(S) |-> [i \in D |-> IF s[i] = p THEN t ELSE Append(t, s[i])]]
  <2>1. G \in [Seq(S) -> [D -> Seq(S)]] /\ <<>> \in Seq(S)
    BY <1>0, AppendSet
  <2> HIDE DEF c
  <2>2. \A t \in Seq(S), i \in D : G[t][i] = IF s[i] = p THEN t ELSE Append(t, s[i])
    OBVIOUS
  <2> HIDE DEF G, D
  <2>3. PICK it : IsFold(it, D, c, Seq(S), <<>>, G)
    <3>1. Picks(c, D) /\ IsFiniteSet(D)
      BY <1>2
    <3> QED  BY <2>1, <3>1, FoldExists
  <2>4. /\ it \in [SUBSET D -> Seq(S)] /\ it[{}] = <<>>
        /\ \A x \in SUBSET D : x # {} => it[x] = G[it[x \ {c[x]}]][c[x]]
    BY <2>3 DEF IsFold
  <2>5. ASSUME NEW x \in SUBSET D, x # {}
        PROVE  it[x] = IF s[Max(x)] = p THEN it[x \ {Max(x)}]
                       ELSE Append(it[x \ {Max(x)}], s[Max(x)])
    <3>1. c[x] = Max(x) /\ Max(x) \in D /\ x \ {Max(x)} \in SUBSET D
      BY <1>2, <2>5
    <3>2. it[x] = G[it[x \ {c[x]}]][c[x]]
      BY <2>4, <2>5
    <3>3. it[x] = G[it[x \ {Max(x)}]][Max(x)] /\ it[x \ {Max(x)}] \in Seq(S)
      BY <2>4, <3>1, <3>2
    <3> QED  BY <2>2, <3>1, <3>3
  <2>6. Rule(it)
    BY <2>4, <2>5
  <2> QED  BY <2>6
<1>4. Rule(F)
  BY <1>3
<1> HIDE DEF F
<1>5. F[{}] \in J[{}]
  <2>1. F[{}] = <<>> /\ ToSet(<<>>) = {} /\ IsInjective(<<>>) /\ <<>> \in Seq(S)
    BY <1>4 DEF ToSet, IsInjective
  <2> QED  BY <2>1
<1>6. ASSUME NEW x \in SUBSET D, x # {}, F[x \ {c[x]}] \in J[x \ {c[x]}] PROVE F[x] \in J[x]
  <2> DEFINE k == Max(x)
             t == F[x \ {k}]
  <2>1. k \in x /\ k \in D /\ c[x] = k /\ s[k] \in S
    BY <1>0, <1>2, <1>6
  <2>2. F[x] = IF s[k] = p THEN t ELSE Append(t, s[k])
    BY <1>4, <1>6
  <2>3. /\ t \in Seq(S) /\ ToSet(t) = {s[i] : i \in x \ {k}} \ {p}
        /\ IsInjective(s) => IsInjective(t)
    BY <1>6, <2>1
  <2> HIDE DEF k, t
  <2>4. {s[i] : i \in x} = {s[i] : i \in x \ {k}} \cup {s[k]}
    BY <2>1
  <2>5. CASE s[k] = p
    <3>1. F[x] = t /\ {s[i] : i \in x} \ {p} = {s[i] : i \in x \ {k}} \ {p}
      BY <2>2, <2>4, <2>5
    <3> QED  BY <2>3, <3>1
  <2>6. CASE s[k] # p
    <3>1. F[x] = Append(t, s[k])
      BY <2>2, <2>6
    <3>2. F[x] \in Seq(S) /\ ToSet(F[x]) = ToSet(t) \cup {s[k]}
      BY <2>1, <2>3, <3>1, AppendSet
    <3>3. ToSet(F[x]) = {s[i] : i \in x} \ {p}
      BY <2>3, <2>4, <2>6, <3>2
    <3>4. IsInjective(s) => s[k] \notin ToSet(t)
      BY <2>1, <2>3 DEF IsInjective
    <3>5. IsInjective(s) => IsInjective(F[x])
      BY <2>1, <2>3, <3>1, <3>4, AppendSet
    <3> QED  BY <3>2, <3>3, <3>5
  <2> QED  BY <2>5, <2>6
<1>7. F[D] \in J[D]
  <2> HIDE DEF D, c, J
  <2> QED  BY <1>2, <1>5, <1>6, FoldStays
<1>8. {s[i] : i \in D} = ToSet(s)
  BY DEF ToSet
<1> QED  BY <1>1, <1>7, <1>8

-----------------------------------------------------------------------------
(***************************************************************************)
(* What the operations on sequences do to the jobs they carry.             *)
(***************************************************************************)
LEMMA SplitSet ==
  ASSUME NEW S, NEW s \in Seq(S), NEW n \in 1 .. Len(s), IsInjective(s)
  PROVE  /\ SubSeq(s, 1, n) \in Seq(S) /\ SubSeq(s, n + 1, Len(s)) \in Seq(S)
         /\ ToSet(SubSeq(s, 1, n)) # {}
         /\ ToSet(SubSeq(s, 1, n)) \cup ToSet(SubSeq(s, n + 1, Len(s))) = ToSet(s)
         /\ ToSet(SubSeq(s, 1, n)) \cap ToSet(SubSeq(s, n + 1, Len(s))) = {}
         /\ IsInjective(SubSeq(s, n + 1, Len(s)))
<1> DEFINE a == SubSeq(s, 1, n)
           b == SubSeq(s, n + 1, Len(s))
<1>1. Len(s) \in Nat /\ DOMAIN s = 1 .. Len(s) /\ \A i \in 1 .. Len(s) : s[i] \in S
  BY ElementOfSeq, LenProperties
<1>2. a \in Seq(S) /\ Len(a) = n /\ \A i \in 1 .. n : a[i] = s[i]
  <2>1. 1 \in Int /\ n \in Int /\ 1 <= n /\ \A i \in 1 .. n : s[i] \in S
    BY <1>1
  <2>2. /\ a \in Seq(S) /\ Len(a) = n - 1 + 1
        /\ \A i \in 1 .. n - 1 + 1 : a[i] = s[1 + i - 1]
    BY <2>1, SubSeqProperties
  <2> HIDE DEF a
  <2> QED  BY <2>1, <2>2
<1>3. b \in Seq(S) /\ Len(b) = Len(s) - n /\ \A i \in 1 .. Len(s) - n : b[i] = s[n + i]
  <2>1. n + 1 \in Int /\ Len(s) \in Int /\ \A i \in n + 1 .. Len(s) : s[i] \in S
    BY <1>1
  <2>2. /\ b \in Seq(S) /\ Len(b) = IF n + 1 <= Len(s) THEN Len(s) - (n + 1) + 1 ELSE 0
        /\ \A i \in 1 .. Len(s) - (n + 1) + 1 : b[i] = s[n + 1 + i - 1]
    BY <2>1, SubSeqProperties
  <2> HIDE DEF b
  <2>3. Len(s) - (n + 1) + 1 = Len(s) - n /\ n \in Nat /\ n <= Len(s)
    BY <1>1
  <2>4. Len(b) = Len(s) - n
    <3>1. CASE n + 1 <= Len(s)
      BY <2>2, <2>3, <3>1
    <3>2. CASE ~(n + 1 <= Len(s))
      <4>1. Len(b) = 0
        BY <2>2, <3>2
      <4>2. n = Len(s)
        <5>1. Len(s) \in Nat /\ n \in Nat /\ n <= Len(s) /\ ~(n + 1 <= Len(s))
          BY <1>1, <2>3, <3>2
        <5> QED  BY <5>1
      <4>3. Len(s) - n = 0
        BY <1>1, <4>2
      <4> QED  BY <4>1, <4>3
    <3> QED  BY <3>1, <3>2
  <2>5. ASSUME NEW i \in 1 .. Len(s) - n PROVE b[i] = s[n + i]
    <3>1. n + 1 + i - 1 = n + i /\ i \in 1 .. Len(s) - (n + 1) + 1
      BY <1>1, <2>3
    <3> QED  BY <2>2, <3>1
  <2> QED  BY <2>2, <2>4, <2>5
<1> HIDE DEF a, b
<1>4. DOMAIN a = 1 .. n /\ DOMAIN b = 1 .. Len(s) - n
  BY <1>2, <1>3, LenProperties
<1>5. ToSet(a) # {}
  <2>1. 1 \in DOMAIN a
    BY <1>1, <1>4
  <2> QED  BY <2>1 DEF ToSet
<1>6. ToSet(a) \subseteq ToSet(s)
  BY <1>1, <1>2, <1>4 DEF ToSet
<1>7. ASSUME NEW k \in DOMAIN b PROVE n + k \in DOMAIN s /\ b[k] = s[n + k] /\ n + k > n
  BY <1>1, <1>3, <1>4, <1>7
<1>8. ToSet(b) \subseteq ToSet(s)
  BY <1>7 DEF ToSet
<1>9. ASSUME NEW x \in ToSet(s) PROVE x \in ToSet(a) \cup ToSet(b)
  <2>1. PICK i \in 1 .. Len(s) : x = s[i]
    BY <1>1 DEF ToSet
  <2>2. CASE i <= n
    <3>1. i \in DOMAIN a /\ a[i] = x
      BY <1>1, <1>2, <1>4, <2>1, <2>2
    <3> QED  BY <3>1 DEF ToSet
  <2>3. CASE ~(i <= n)
    <3>1. i - n \in 1 .. Len(s) - n /\ n + (i - n) = i
      BY <1>1, <2>3
    <3>2. i - n \in DOMAIN b /\ b[i - n] = x
      BY <1>3, <1>4, <2>1, <3>1
    <3> QED  BY <3>2 DEF ToSet
  <2> QED  BY <2>2, <2>3
<1>10. ToSet(a) \cap ToSet(b) = {}
  <2> SUFFICES ASSUME NEW i \in DOMAIN a, NEW k \in DOMAIN b, a[i] = b[k] PROVE FALSE
    BY DEF ToSet
  <2>1. s[i] = s[n + k] /\ i \in DOMAIN s /\ n + k \in DOMAIN s /\ i # n + k
    BY <1>1, <1>2, <1>4, <1>7
  <2> QED  BY <2>1 DEF IsInjective
<1>11. IsInjective(b)
  <2> SUFFICES ASSUME NEW i \in DOMAIN b, NEW k \in DOMAIN b, b[i] = b[k] PROVE i = k
    BY DEF IsInjective
  <2>1. s[n + i] = s[n + k] /\ n + i \in DOMAIN s /\ n + k \in DOMAIN s
    BY <1>7
  <2>2. n + i = n + k
    BY <2>1 DEF IsInjective
  <2> QED  BY <1>1, <1>4, <2>2
<1> QED  BY <1>2, <1>3, <1>5, <1>6, <1>8, <1>10, <1>11, <1>9 DEF a, b

\* Where the elements of a concatenation come from.
LEMMA ConcatAt ==
  ASSUME NEW S, NEW s \in Seq(S), NEW t \in Seq(S)
  PROVE  /\ s \o t \in Seq(S)
         /\ \A i \in DOMAIN (s \o t) : \/ i \in DOMAIN s /\ (s \o t)[i] = s[i]
                                       \/ /\ i - Len(s) \in DOMAIN t /\ (s \o t)[i] = t[i - Len(s)]
                                          /\ i \notin DOMAIN s
         /\ \A i \in DOMAIN s : i \in DOMAIN (s \o t) /\ (s \o t)[i] = s[i]
         /\ \A i \in DOMAIN t : i + Len(s) \in DOMAIN (s \o t) /\ (s \o t)[i + Len(s)] = t[i]
         /\ DOMAIN (s \o t) \subseteq Int /\ Len(s) \in Nat
<1> DEFINE u == s \o t
<1>1. /\ u \in Seq(S) /\ Len(u) = Len(s) + Len(t)
      /\ \A i \in 1 .. Len(s) + Len(t) : u[i] = IF i <= Len(s) THEN s[i] ELSE t[i - Len(s)]
  BY ConcatProperties
<1> HIDE DEF u
<1>2. /\ Len(s) \in Nat /\ Len(t) \in Nat /\ DOMAIN s = 1 .. Len(s) /\ DOMAIN t = 1 .. Len(t)
      /\ DOMAIN u = 1 .. Len(s) + Len(t)
  BY <1>1, LenProperties
<1>3. ASSUME NEW i \in DOMAIN u
      PROVE  \/ i \in DOMAIN s /\ u[i] = s[i]
             \/ i - Len(s) \in DOMAIN t /\ u[i] = t[i - Len(s)] /\ i \notin DOMAIN s
  <2>1. CASE i <= Len(s)
    BY <1>1, <1>2, <2>1
  <2>2. CASE ~(i <= Len(s))
    BY <1>1, <1>2, <2>2
  <2> QED  BY <2>1, <2>2
<1>4. \A i \in DOMAIN s : i \in DOMAIN u /\ u[i] = s[i]
  BY <1>1, <1>2
<1>5. ASSUME NEW i \in DOMAIN t PROVE i + Len(s) \in DOMAIN u /\ u[i + Len(s)] = t[i]
  <2>1. i + Len(s) \in 1 .. Len(s) + Len(t) /\ ~(i + Len(s) <= Len(s)) /\ (i + Len(s)) - Len(s) = i
    BY <1>2
  <2> QED  BY <1>1, <1>2, <2>1
<1> QED  BY <1>1, <1>2, <1>3, <1>4, <1>5 DEF u

\* Concatenation is union on the sets of elements.
LEMMA ConcatSet ==
  ASSUME NEW S, NEW s \in Seq(S), NEW t \in Seq(S)
  PROVE  /\ ToSet(s \o t) = ToSet(s) \cup ToSet(t)
         /\ IsInjective(s) /\ IsInjective(t) /\ ToSet(s) \cap ToSet(t) = {} => IsInjective(s \o t)
<1> DEFINE u == s \o t
<1>1. /\ \A i \in DOMAIN u : \/ i \in DOMAIN s /\ u[i] = s[i]
                             \/ /\ i - Len(s) \in DOMAIN t /\ u[i] = t[i - Len(s)]
                                /\ i \notin DOMAIN s
      /\ \A i \in DOMAIN s : i \in DOMAIN u /\ u[i] = s[i]
      /\ \A i \in DOMAIN t : i + Len(s) \in DOMAIN u /\ u[i + Len(s)] = t[i]
      /\ DOMAIN u \subseteq Int /\ Len(s) \in Nat
  BY ConcatAt
<1> HIDE DEF u
<1>2. ToSet(u) = ToSet(s) \cup ToSet(t)
  BY <1>1 DEF ToSet
<1>3. ASSUME IsInjective(s), IsInjective(t), ToSet(s) \cap ToSet(t) = {} PROVE IsInjective(u)
  <2> SUFFICES ASSUME NEW i \in DOMAIN u, NEW k \in DOMAIN u, u[i] = u[k] PROVE i = k
    BY DEF IsInjective
  <2>1. CASE i \in DOMAIN s /\ k \in DOMAIN s
    BY <1>1, <1>3, <2>1 DEF IsInjective
  <2>2. CASE i \notin DOMAIN s /\ k \notin DOMAIN s
    <3>1. i - Len(s) = k - Len(s)
      BY <1>1, <1>3, <2>2 DEF IsInjective
    <3>2. i \in Int /\ k \in Int /\ Len(s) \in Int
      BY <1>1
    <3> QED  BY <3>1, <3>2
  <2>3. CASE i \in DOMAIN s /\ k \notin DOMAIN s
    <3>1. u[i] \in ToSet(s) /\ u[k] \in ToSet(t)
      BY <1>1, <2>3 DEF ToSet
    <3> QED  BY <1>3, <3>1
  <2>4. CASE i \notin DOMAIN s /\ k \in DOMAIN s
    <3>1. u[i] \in ToSet(t) /\ u[k] \in ToSet(s)
      BY <1>1, <2>4 DEF ToSet
    <3> QED  BY <1>3, <3>1
  <2> QED  BY <2>1, <2>2, <2>3, <2>4
<1> QED  BY <1>2, <1>3 DEF u

\* Head and Tail share out the elements.
LEMMA TailAt ==
  ASSUME NEW S, NEW s \in Seq(S), s # <<>>
  PROVE  /\ Tail(s) \in Seq(S) /\ Head(s) \in S /\ Head(s) \in ToSet(s)
         /\ 1 \in DOMAIN s /\ Head(s) = s[1]
         /\ \A i \in DOMAIN Tail(s) : /\ i \in Nat /\ i + 1 \in DOMAIN s /\ i + 1 # 1
                                      /\ Tail(s)[i] = s[i + 1]
         /\ \A x \in ToSet(s) : x = Head(s) \/ x \in ToSet(Tail(s))
         /\ ToSet(Tail(s)) \subseteq ToSet(s)
<1>1. Len(s) \in Nat \ {0} /\ DOMAIN s = 1 .. Len(s) /\ Head(s) = s[1]
  BY EmptySeq, LenProperties
<1>2. /\ Tail(s) \in Seq(S) /\ Len(Tail(s)) = Len(s) - 1
      /\ \A i \in 1 .. Len(s) - 1 : Tail(s)[i] = s[i + 1]
  BY HeadTailProperties
<1>3. DOMAIN Tail(s) = 1 .. Len(s) - 1
  BY <1>2, LenProperties
<1>4. 1 \in DOMAIN s /\ Head(s) \in S /\ Head(s) \in ToSet(s)
  BY <1>1, HeadTailProperties DEF ToSet
<1>5. ASSUME NEW i \in DOMAIN Tail(s)
      PROVE  i \in Nat /\ i + 1 \in DOMAIN s /\ i + 1 # 1 /\ Tail(s)[i] = s[i + 1]
  BY <1>1, <1>2, <1>3
<1>6. ASSUME NEW x \in ToSet(s), x # Head(s) PROVE x \in ToSet(Tail(s))
  <2>1. PICK i \in 1 .. Len(s) : x = s[i] /\ i # 1
    BY <1>1, <1>6 DEF ToSet
  <2>2. i - 1 \in 1 .. Len(s) - 1 /\ i - 1 + 1 = i
    BY <1>1, <2>1
  <2> QED  BY <1>2, <1>3, <2>1, <2>2 DEF ToSet
<1>7. ToSet(Tail(s)) \subseteq ToSet(s)
  BY <1>5 DEF ToSet
<1> QED  BY <1>1, <1>2, <1>4, <1>5, <1>6, <1>7

-----------------------------------------------------------------------------
(***************************************************************************)
(* The inductive invariant.  Types first: what travels on the channels, and *)
(* the master's record, alone and while a handler runs.                    *)
(***************************************************************************)
MasterMsg == [request : {"queue-add"}, payload : (SUBSET Job) \ {{}}]
               \cup [request : {"evaporate"}]

WorkerMsg == ControlMsg \cup [msgtype : {"recheck"}, server : Job]

Lists == [arrWorkers : SUBSET Pid, freeWorkers : Seq(Pid), haltedWorkers : SUBSET Pid,
          arrObjects : Seq(Job), localRetries : SUBSET Job,
          gettingSites : BOOLEAN, inRound : BOOLEAN]

Running == [arrWorkers : SUBSET Pid, freeWorkers : Seq(Pid), haltedWorkers : SUBSET Pid,
            arrObjects : Seq(Job), localRetries : SUBSET Job,
            gettingSites : BOOLEAN, inRound : BOOLEAN,
            sends : [Pid -> Seq(MasterMsg)]]

Process == [owed : SUBSET Job, asked : BOOLEAN, askTimer : BOOLEAN,
            available : BOOLEAN, suicide : BOOLEAN, exit : ExitCode \cup {Crashed, ShutDown}]

Types ==
  /\ master \in Lists /\ numWorkers \in NumWorkers /\ fetched \in 0 .. Cardinality(Job)
  /\ workers \in [Pid -> Process]
  /\ toWorker \in [Pid -> Seq(MasterMsg)]
  /\ toMaster \in [Pid -> Seq(WorkerMsg)]
  /\ rechecked \subseteq Job /\ done \subseteq Job
  /\ incidents \in Nat

(***************************************************************************)
(* A process that has exited holds nothing, and one that runs is known.    *)
(***************************************************************************)
GoneHoldsNothing ==
  \A p \in Pid : IF IsAlive(p) THEN p \in master.arrWorkers
                               ELSE workers[p].owed = {} /\ toWorker[p] = <<>>

(***************************************************************************)
(* Why a worker in the pool is never forgotten: it owes a result, its      *)
(* start-up request is pending, or something is under way between it and   *)
(* the free list; a request it remembers was not answered yet; and one     *)
(* that told, or is about to tell, that it stops has results to send first.*)
(***************************************************************************)
Pending(p) == \/ toWorker[p] # <<>>
              \/ SendWork \in ToSet(toMaster[p])
              \/ p \in ToSet(master.freeWorkers)

Stopping(p) == p \in master.haltedWorkers \/ StopWork \in ToSet(toMaster[p])

NoneForgotten(p) ==
  /\ workers[p].owed # {} \/ workers[p].askTimer \/ Pending(p)
  /\ workers[p].available /\ workers[p].asked /\ ~workers[p].suicide => Pending(p)
  /\ Stopping(p) => ~workers[p].available
  /\ ~workers[p].available => workers[p].owed # {}

Remembered == \A p \in Pid : IsAlive(p) => NoneForgotten(p)

(***************************************************************************)
(* Where jobs are: with the master, or out with a process, in one of three *)
(* ways, or done; and only those that were fetched.                        *)
(***************************************************************************)
JobsOf(msg) == IF msg.request = "queue-add" THEN msg.payload ELSE {}

JobsIn(seq) == UNION {JobsOf(seq[i]) : i \in DOMAIN seq}

\* No two messages carry the same job.
Apart(seq) == \A i, k \in DOMAIN seq : JobsOf(seq[i]) \cap JobsOf(seq[k]) # {} => i = k

Rechecks(seq) == {j \in Job : recheck(j) \in ToSet(seq)}

RechecksOnce(seq) ==
  \A i, k \in DOMAIN seq : seq[i] = seq[k] /\ seq[i].msgtype = "recheck" => i = k

AtMaster == ToSet(master.arrObjects) \cup master.localRetries

Out(p) == JobsIn(toWorker[p]) \cup workers[p].owed \cup Rechecks(toMaster[p])

JobsOnce ==
  /\ IsInjective(master.arrObjects)
  /\ ToSet(master.arrObjects) \cap master.localRetries = {}
  /\ AtMaster \cap done = {}
  /\ AtMaster \cup done \subseteq 1 .. fetched
  /\ \A p \in Pid :
       /\ Out(p) \subseteq 1 .. fetched
       /\ Out(p) \cap (AtMaster \cup done) = {}
       /\ \A q \in Pid \ {p} : Out(p) \cap Out(q) = {}
       /\ Apart(toWorker[p]) /\ RechecksOnce(toMaster[p])
       /\ JobsIn(toWorker[p]) \cap workers[p].owed = {}
       /\ JobsIn(toWorker[p]) \cap Rechecks(toMaster[p]) = {}
       /\ workers[p].owed \cap Rechecks(toMaster[p]) = {}

IInv ==
  /\ Types /\ FreeListIsSound /\ NoWorkWhileFree /\ GoneHoldsNothing /\ Remembered /\ JobsOnce

\* The ways to lose a job, and a step that loses none in another way.
Anywhere == AtMaster \cup done \cup UNION {Out(p) : p \in Pid}

Unread(p, j)   == IsAlive(p) /\ ~IsAlive(p)' /\ j \in JobsIn(toWorker[p])
Killed(p, j)   == /\ IsAlive(p) /\ workers'[p].exit \in {Crashed, ShutDown}
                  /\ j \in workers[p].owed
SentGone(p, j) == p \in master.arrWorkers /\ ~IsAlive(p) /\ j \in AtMaster
Duplicate(p, j) == /\ j \in Rechecks(toMaster[p])
                   /\ \E k \in master.localRetries : site[k] = site[j]

NoneLost ==
  \A j \in Anywhere : \/ j \in Anywhere'
                      \/ \E p \in Pid : \/ Unread(p, j) \/ Killed(p, j)
                                        \/ SentGone(p, j) \/ Duplicate(p, j)

(***************************************************************************)
(* The messages are told apart by their msgtype.                           *)
(***************************************************************************)
LEMMA RecheckMsg ==
  /\ \A msg \in WorkerMsg : msg.msgtype = "recheck" => msg.server \in Job /\ msg = recheck(msg.server)
  /\ \A j \in Job : recheck(j) \in WorkerMsg /\ recheck(j).msgtype = "recheck" /\ recheck(j).server = j
  /\ {SendWork, StopWork} \subseteq WorkerMsg
  /\ \A msg \in WorkerMsg : /\ msg.msgtype = "send_work" => msg = SendWork
                            /\ msg.msgtype = "stop_work" => msg = StopWork
                            /\ msg.msgtype \in {"send_work", "stop_work", "stats", "recheck"}
                            /\ msg.msgtype = "stats" => msg.left \in Nat
  BY DEF WorkerMsg, ControlMsg, SendWork, StopWork, recheck

\* Only a queue-add carries jobs.
LEMMA JobsOfMsg ==
  /\ \A jobs \in SUBSET Job : /\ JobsOf(queueAdd(jobs)) = jobs
                              /\ jobs # {} => queueAdd(jobs) \in MasterMsg
  /\ JobsOf(evaporatePls) = {} /\ evaporatePls \in MasterMsg
  /\ \A msg \in MasterMsg : JobsOf(msg) \subseteq Job
<1>1. ASSUME NEW jobs \in SUBSET Job
      PROVE  /\ JobsOf(queueAdd(jobs)) = jobs
             /\ jobs # {} => queueAdd(jobs) \in MasterMsg
  <2>1. JobsOf(queueAdd(jobs)) = jobs
    BY DEF JobsOf, queueAdd
  <2>2. jobs # {} => jobs \in (SUBSET Job) \ {{}}
    OBVIOUS
  <2> QED  BY <2>1, <2>2 DEF queueAdd, MasterMsg
<1>2. JobsOf(evaporatePls) = {} /\ evaporatePls \in MasterMsg
  BY DEF JobsOf, evaporatePls, MasterMsg
<1>3. \A msg \in MasterMsg : JobsOf(msg) \subseteq Job
  BY DEF JobsOf, MasterMsg
<1> QED  BY <1>1, <1>2, <1>3

-----------------------------------------------------------------------------
(***************************************************************************)
(* The jobs carried by a channel that grows or that is read.               *)
(***************************************************************************)
LEMMA JobsConcat ==
  ASSUME NEW s \in Seq(MasterMsg), NEW t \in Seq(MasterMsg)
  PROVE  /\ JobsIn(s \o t) = JobsIn(s) \cup JobsIn(t)
         /\ Apart(s) /\ Apart(t) /\ JobsIn(s) \cap JobsIn(t) = {} => Apart(s \o t)
<1> DEFINE u == s \o t
<1>1. /\ \A i \in DOMAIN u : \/ i \in DOMAIN s /\ u[i] = s[i]
                             \/ /\ i - Len(s) \in DOMAIN t /\ u[i] = t[i - Len(s)]
                                /\ i \notin DOMAIN s
      /\ \A i \in DOMAIN s : i \in DOMAIN u /\ u[i] = s[i]
      /\ \A i \in DOMAIN t : i + Len(s) \in DOMAIN u /\ u[i + Len(s)] = t[i]
      /\ DOMAIN u \subseteq Int /\ Len(s) \in Nat
  BY ConcatAt
<1> HIDE DEF u
<1>2. ASSUME NEW j \in JobsIn(u) PROVE j \in JobsIn(s) \cup JobsIn(t)
  BY <1>1 DEF JobsIn
<1>3. ASSUME NEW j \in JobsIn(s) \cup JobsIn(t) PROVE j \in JobsIn(u)
  BY <1>1 DEF JobsIn
<1>4. ASSUME Apart(s), Apart(t), JobsIn(s) \cap JobsIn(t) = {} PROVE Apart(u)
  <2> SUFFICES ASSUME NEW i \in DOMAIN u, NEW k \in DOMAIN u,
                      JobsOf(u[i]) \cap JobsOf(u[k]) # {}
               PROVE  i = k
    BY DEF Apart
  <2>1. CASE i \in DOMAIN s /\ k \in DOMAIN s
    BY <1>1, <1>4, <2>1 DEF Apart
  <2>2. CASE i \notin DOMAIN s /\ k \notin DOMAIN s
    <3>1. i - Len(s) = k - Len(s)
      BY <1>1, <1>4, <2>2 DEF Apart
    <3>2. i \in Int /\ k \in Int /\ Len(s) \in Int
      BY <1>1
    <3> QED  BY <3>1, <3>2
  <2>3. CASE i \in DOMAIN s /\ k \notin DOMAIN s
    <3>1. JobsOf(u[i]) \subseteq JobsIn(s) /\ JobsOf(u[k]) \subseteq JobsIn(t)
      BY <1>1, <2>3 DEF JobsIn
    <3> QED  BY <1>4, <3>1
  <2>4. CASE i \notin DOMAIN s /\ k \in DOMAIN s
    <3>1. JobsOf(u[i]) \subseteq JobsIn(t) /\ JobsOf(u[k]) \subseteq JobsIn(s)
      BY <1>1, <2>4 DEF JobsIn
    <3> QED  BY <1>4, <3>1
  <2> QED  BY <2>1, <2>2, <2>3, <2>4
<1> QED  BY <1>2, <1>3, <1>4 DEF u

\* A message sent adds its jobs to the channel.
LEMMA JobsAppend ==
  ASSUME NEW s \in Seq(MasterMsg), NEW msg \in MasterMsg
  PROVE  /\ Append(s, msg) \in Seq(MasterMsg) /\ Append(s, msg) # <<>>
         /\ JobsIn(Append(s, msg)) = JobsIn(s) \cup JobsOf(msg)
         /\ Apart(s) /\ JobsIn(s) \cap JobsOf(msg) = {} => Apart(Append(s, msg))
<1> DEFINE t == <<msg>>
<1>1. /\ t \in Seq(MasterMsg) /\ DOMAIN t = {1} /\ t[1] = msg
      /\ Append(s, msg) = s \o t /\ Append(s, msg) \in Seq(MasterMsg) /\ Append(s, msg) # <<>>
  <2>1. t \in Seq(MasterMsg) /\ Len(t) = 1 /\ t[1] = msg
    OBVIOUS
  <2>2. DOMAIN t = 1 .. 1
    BY <2>1, LenProperties
  <2>3. Append(s, msg) = s \o t /\ Append(s, msg) \in Seq(MasterMsg)
    BY AppendIsConcat, AppendProperties
  <2>4. Append(s, msg) # <<>>
    BY AppendProperties
  <2> QED  BY <2>1, <2>2, <2>3, <2>4
<1> HIDE DEF t
<1>2. JobsIn(t) = JobsOf(msg) /\ Apart(t)
  BY <1>1 DEF JobsIn, Apart
<1> QED  BY <1>1, <1>2, JobsConcat

\* A message read takes its jobs from the channel.
LEMMA JobsTail ==
  ASSUME NEW s \in Seq(MasterMsg), s # <<>>
  PROVE  /\ JobsIn(s) = JobsOf(Head(s)) \cup JobsIn(Tail(s))
         /\ Apart(s) => Apart(Tail(s)) /\ JobsOf(Head(s)) \cap JobsIn(Tail(s)) = {}
<1> DEFINE t == Tail(s)
<1>1. /\ 1 \in DOMAIN s /\ Head(s) = s[1]
      /\ \A i \in DOMAIN t : i \in Nat /\ i + 1 \in DOMAIN s /\ i + 1 # 1 /\ t[i] = s[i + 1]
      /\ \A x \in ToSet(s) : x = Head(s) \/ x \in ToSet(t)
  BY TailAt
<1> HIDE DEF t
<1>2. ASSUME NEW j \in JobsIn(s) PROVE j \in JobsOf(Head(s)) \cup JobsIn(t)
  BY <1>1 DEF JobsIn, ToSet
<1>3. JobsOf(Head(s)) \subseteq JobsIn(s) /\ JobsIn(t) \subseteq JobsIn(s)
  BY <1>1 DEF JobsIn
<1>4. ASSUME Apart(s) PROVE Apart(t) /\ JobsOf(Head(s)) \cap JobsIn(t) = {}
  <2>1. ASSUME NEW i \in DOMAIN t, NEW k \in DOMAIN t, JobsOf(t[i]) \cap JobsOf(t[k]) # {}
        PROVE  i = k
    <3>1. i + 1 = k + 1
      BY <1>1, <1>4, <2>1 DEF Apart
    <3>2. i \in Nat /\ k \in Nat
      BY <1>1
    <3> QED  BY <3>1, <3>2
  <2>2. ASSUME NEW i \in DOMAIN t PROVE JobsOf(Head(s)) \cap JobsOf(t[i]) = {}
    BY <1>1, <1>4 DEF Apart
  <2> QED  BY <2>1, <2>2 DEF Apart, JobsIn
<1> QED  BY <1>2, <1>3, <1>4 DEF t

\* Recheck requests of a channel that grows.
LEMMA RechecksConcat ==
  ASSUME NEW s \in Seq(WorkerMsg), NEW t \in Seq(WorkerMsg)
  PROVE  /\ Rechecks(s \o t) = Rechecks(s) \cup Rechecks(t)
         /\ RechecksOnce(s) /\ RechecksOnce(t) /\ Rechecks(s) \cap Rechecks(t) = {}
              => RechecksOnce(s \o t)
<1> DEFINE u == s \o t
<1>1. /\ \A i \in DOMAIN u : \/ i \in DOMAIN s /\ u[i] = s[i]
                             \/ /\ i - Len(s) \in DOMAIN t /\ u[i] = t[i - Len(s)]
                                /\ i \notin DOMAIN s
      /\ DOMAIN u \subseteq Int /\ Len(s) \in Nat
  BY ConcatAt
<1>2. Rechecks(u) = Rechecks(s) \cup Rechecks(t)
  BY ConcatSet DEF Rechecks
<1> HIDE DEF u
<1>3. ASSUME NEW v \in Seq(WorkerMsg), NEW i \in DOMAIN v, v[i].msgtype = "recheck"
      PROVE  v[i].server \in Rechecks(v)
  <2>1. v[i] \in WorkerMsg /\ v[i] \in ToSet(v)
    BY ElementOfSeq, LenProperties DEF ToSet
  <2>2. v[i].server \in Job /\ v[i] = recheck(v[i].server)
    BY <1>3, <2>1, RecheckMsg
  <2> QED  BY <2>1, <2>2 DEF Rechecks
<1>4. ASSUME RechecksOnce(s), RechecksOnce(t), Rechecks(s) \cap Rechecks(t) = {}
      PROVE  RechecksOnce(u)
  <2> SUFFICES ASSUME NEW i \in DOMAIN u, NEW k \in DOMAIN u,
                      u[i] = u[k], u[i].msgtype = "recheck"
               PROVE  i = k
    BY DEF RechecksOnce
  <2>1. CASE i \in DOMAIN s /\ k \in DOMAIN s
    BY <1>1, <1>4, <2>1 DEF RechecksOnce
  <2>2. CASE i \notin DOMAIN s /\ k \notin DOMAIN s
    <3>1. i - Len(s) = k - Len(s)
      BY <1>1, <1>4, <2>2 DEF RechecksOnce
    <3>2. i \in Int /\ k \in Int /\ Len(s) \in Int
      BY <1>1
    <3> QED  BY <3>1, <3>2
  <2>3. CASE i \in DOMAIN s /\ k \notin DOMAIN s
    <3>1. u[i].server \in Rechecks(s) /\ u[k].server \in Rechecks(t)
      BY <1>1, <1>3, <2>3
    <3> QED  BY <1>4, <3>1
  <2>4. CASE i \notin DOMAIN s /\ k \in DOMAIN s
    <3>1. u[i].server \in Rechecks(t) /\ u[k].server \in Rechecks(s)
      BY <1>1, <1>3, <2>4
    <3> QED  BY <1>4, <3>1
  <2> QED  BY <2>1, <2>2, <2>3, <2>4
<1> QED  BY <1>2, <1>4 DEF u

\* Recheck requests of a channel that is read.
LEMMA RechecksTail ==
  ASSUME NEW s \in Seq(WorkerMsg), s # <<>>
  PROVE  /\ Rechecks(Tail(s)) \subseteq Rechecks(s)
         /\ RechecksOnce(s) => RechecksOnce(Tail(s))
         /\ RechecksOnce(s) /\ Head(s).msgtype = "recheck" =>
              Head(s).server \in Rechecks(s) \ Rechecks(Tail(s))
         /\ \A j \in Rechecks(s) : j \in Rechecks(Tail(s)) \/ Head(s) = recheck(j)
<1> DEFINE t == Tail(s)
<1>1. /\ 1 \in DOMAIN s /\ Head(s) = s[1] /\ Head(s) \in WorkerMsg /\ Head(s) \in ToSet(s)
      /\ \A i \in DOMAIN t : i \in Nat /\ i + 1 \in DOMAIN s /\ i + 1 # 1 /\ t[i] = s[i + 1]
      /\ ToSet(t) \subseteq ToSet(s) /\ \A x \in ToSet(s) : x = Head(s) \/ x \in ToSet(t)
  BY TailAt
<1> HIDE DEF t
<1>2. Rechecks(t) \subseteq Rechecks(s)
  BY <1>1 DEF Rechecks
<1>3. ASSUME RechecksOnce(s) PROVE RechecksOnce(t)
  <2> SUFFICES ASSUME NEW i \in DOMAIN t, NEW k \in DOMAIN t,
                      t[i] = t[k], t[i].msgtype = "recheck"
               PROVE  i = k
    BY DEF RechecksOnce
  <2>1. i + 1 = k + 1
    BY <1>1, <1>3 DEF RechecksOnce
  <2> QED  BY <1>1, <2>1
<1>4. ASSUME RechecksOnce(s), Head(s).msgtype = "recheck"
      PROVE  Head(s).server \in Rechecks(s) \ Rechecks(t)
  <2> DEFINE j == Head(s).server
  <2>1. j \in Job /\ Head(s) = recheck(j)
    BY <1>1, <1>4, RecheckMsg
  <2>2. j \in Rechecks(s)
    BY <1>1, <2>1 DEF Rechecks
  <2>3. ASSUME NEW i \in DOMAIN t, t[i] = recheck(j) PROVE FALSE
    <3>1. s[i + 1] = s[1]
      BY <1>1, <2>1, <2>3
    <3> QED  BY <1>1, <1>4, <3>1 DEF RechecksOnce
  <2> HIDE DEF j
  <2>4. j \notin Rechecks(t)
    BY <2>3 DEF Rechecks, ToSet
  <2> QED  BY <2>2, <2>4 DEF j
<1>5. \A j \in Rechecks(s) : j \in Rechecks(t) \/ Head(s) = recheck(j)
  BY <1>1 DEF Rechecks
<1> QED  BY <1>2, <1>3, <1>4, <1>5 DEF t

-----------------------------------------------------------------------------
(***************************************************************************)
(* The master's functions.  Good(m) is what every one of them keeps of the *)
(* record m; Kept(m, r) relates the record before and after: no job comes  *)
(* or goes, the pool is the same, a message sent stays sent, messages go   *)
(* to the pool only, and a worker leaves the free list only with one.      *)
(***************************************************************************)
FreeSound(m) ==
  /\ IsInjective(m.freeWorkers)
  /\ ToSet(m.freeWorkers) \cap m.haltedWorkers = {}
  /\ m.haltedWorkers \subseteq m.arrWorkers

Drained(m) == m.arrObjects # <<>> => m.freeWorkers = <<>>

Local(m) == ToSet(m.arrObjects) \cup m.localRetries

Held(m) == Local(m) \cup UNION {JobsIn(m.sends[p]) : p \in Pid}

JobsApart(m) ==
  /\ IsInjective(m.arrObjects) /\ ToSet(m.arrObjects) \cap m.localRetries = {}
  /\ \A p \in Pid : /\ JobsIn(m.sends[p]) \cap Local(m) = {} /\ Apart(m.sends[p])
                    /\ \A q \in Pid \ {p} : JobsIn(m.sends[p]) \cap JobsIn(m.sends[q]) = {}

Good(m) == m \in Running /\ FreeSound(m) /\ JobsApart(m)

Kept(m, r) ==
  /\ r.arrWorkers = m.arrWorkers /\ r.haltedWorkers = m.haltedWorkers
  /\ Held(r) = Held(m)
  /\ \A q \in Pid : m.sends[q] # <<>> => r.sends[q] # <<>>
  /\ \A q \in Pid \ m.arrWorkers : r.sends[q] = m.sends[q]
  /\ \A q \in ToSet(m.freeWorkers) \cap m.arrWorkers :
       q \in ToSet(r.freeWorkers) \/ r.sends[q] # <<>>

\* Kept is transitive.
LEMMA KeptTwice ==
  ASSUME NEW m \in Running, NEW r, NEW t, Kept(m, r), Kept(r, t)
  PROVE  Kept(m, t)
  BY DEF Kept, Running

\* One more message is sent, to p.
Adds(m, r, p, msg) == r.sends = [m.sends EXCEPT ![p] = Append(m.sends[p], msg)]

\* Send changes the messages only.
LEMMA SendFields ==
  ASSUME NEW m \in Running, NEW p \in Pid, NEW msg \in MasterMsg
  PROVE  /\ Send(m, p, msg) \in Running
         /\ Adds(m, Send(m, p, msg), p, msg)
         /\ Send(m, p, msg).arrWorkers = m.arrWorkers
         /\ Send(m, p, msg).freeWorkers = m.freeWorkers
         /\ Send(m, p, msg).haltedWorkers = m.haltedWorkers
         /\ Send(m, p, msg).arrObjects = m.arrObjects
         /\ Send(m, p, msg).localRetries = m.localRetries
<1> DEFINE sent == [m.sends EXCEPT ![p] = Append(m.sends[p], msg)]
<1>1. sent \in [Pid -> Seq(MasterMsg)]
  <2>1. m.sends \in [Pid -> Seq(MasterMsg)]
    BY DEF Running
  <2>2. Append(m.sends[p], msg) \in Seq(MasterMsg)
    BY <2>1, AppendProperties
  <2> QED  BY <2>1, <2>2
<1>2. Send(m, p, msg) = [m EXCEPT !.sends = sent]
  BY DEF Send, Running
<1> HIDE DEF sent
<1>3. /\ [m EXCEPT !.sends = sent] \in Running
      /\ [m EXCEPT !.sends = sent].sends = sent
      /\ [m EXCEPT !.sends = sent].arrWorkers = m.arrWorkers
      /\ [m EXCEPT !.sends = sent].freeWorkers = m.freeWorkers
      /\ [m EXCEPT !.sends = sent].haltedWorkers = m.haltedWorkers
      /\ [m EXCEPT !.sends = sent].arrObjects = m.arrObjects
      /\ [m EXCEPT !.sends = sent].localRetries = m.localRetries
  BY <1>1 DEF Running
<1> QED  BY <1>2, <1>3 DEF sent, Adds

\* A message takes the jobs it carries from what the master holds.
LEMMA SendsJobs ==
  ASSUME NEW m \in Running, JobsApart(m), NEW p \in Pid, NEW msg \in MasterMsg,
         NEW r \in Running, Adds(m, r, p, msg),
         IsInjective(r.arrObjects), ToSet(r.arrObjects) \cap r.localRetries = {},
         JobsOf(msg) \subseteq Local(m), Local(r) = Local(m) \ JobsOf(msg)
  PROVE  /\ JobsApart(r) /\ Held(r) = Held(m)
         /\ \A q \in Pid \ {p} : r.sends[q] = m.sends[q]
         /\ \A q \in Pid : m.sends[q] # <<>> => r.sends[q] # <<>>
         /\ r.sends[p] # <<>>
<1>1. m.sends \in [Pid -> Seq(MasterMsg)]
  BY DEF Running
<1>2. /\ r.sends[p] # <<>> /\ JobsIn(r.sends[p]) = JobsIn(m.sends[p]) \cup JobsOf(msg)
      /\ JobsIn(m.sends[p]) \cap JobsOf(msg) = {} => Apart(r.sends[p])
      /\ \A q \in Pid \ {p} : r.sends[q] = m.sends[q]
  <2>1. r.sends[p] = Append(m.sends[p], msg) /\ \A q \in Pid \ {p} : r.sends[q] = m.sends[q]
    BY <1>1 DEF Adds
  <2>2. m.sends[p] \in Seq(MasterMsg) /\ Apart(m.sends[p])
    BY <1>1 DEF JobsApart
  <2> QED  BY <2>1, <2>2, JobsAppend
<1>3. /\ \A q \in Pid : JobsIn(m.sends[q]) \cap JobsOf(msg) = {}
      /\ \A q \in Pid : JobsIn(m.sends[q]) \cap Local(m) = {} /\ Apart(m.sends[q])
      /\ \A q \in Pid : \A x \in Pid \ {q} : JobsIn(m.sends[q]) \cap JobsIn(m.sends[x]) = {}
  BY DEF JobsApart
<1>4. \A q \in Pid : JobsIn(r.sends[q]) \cap Local(r) = {} /\ Apart(r.sends[q])
  BY <1>2, <1>3
<1>5. \A q \in Pid : \A x \in Pid \ {q} : JobsIn(r.sends[q]) \cap JobsIn(r.sends[x]) = {}
  BY <1>2, <1>3
<1>6. JobsApart(r)
  BY <1>4, <1>5 DEF JobsApart
<1>7. Held(r) = Held(m)
  <2>1. \A q \in Pid : JobsIn(r.sends[q]) = IF q = p THEN JobsIn(m.sends[p]) \cup JobsOf(msg)
                                                    ELSE JobsIn(m.sends[q])
    BY <1>2
  <2>2. Held(r) \subseteq Held(m)
    BY <2>1 DEF Held
  <2>3. Held(m) \subseteq Held(r)
    BY <2>1 DEF Held
  <2> QED  BY <2>2, <2>3
<1> QED  BY <1>2, <1>6, <1>7

\* r differs from m in the flags of the round at most.
SameLists(m, r) ==
  /\ r \in Running /\ r.arrWorkers = m.arrWorkers /\ r.freeWorkers = m.freeWorkers
  /\ r.haltedWorkers = m.haltedWorkers /\ r.arrObjects = m.arrObjects
  /\ r.localRetries = m.localRetries /\ r.sends = m.sends

\* getMoreSites and maybeEndRound set the flags of the round only.
LEMMA RoundFlags ==
  ASSUME NEW m \in Running
  PROVE  /\ SameLists(m, getMoreSites(m)) /\ SameLists(m, fetchUnlessGetting(m))
         /\ SameLists(m, maybeEndRound(m))
<1>1. SameLists(m, m) /\ SameLists(m, [m EXCEPT !.inRound = FALSE])
  BY DEF SameLists, Running
<1>2. SameLists(m, [m EXCEPT !.gettingSites = TRUE, !.inRound = TRUE])
  BY DEF SameLists, Running
<1> QED  BY <1>1, <1>2 DEF getMoreSites, fetchUnlessGetting, maybeEndRound

\* Such a change is none to what the invariant speaks of.
LEMMA SameIsGood ==
  ASSUME NEW m \in Running, NEW r, SameLists(m, r)
  PROVE  /\ Good(m) => Good(r)
         /\ \A k : Kept(k, m) => Kept(k, r)
         /\ Drained(m) => Drained(r)
<1>1. Local(r) = Local(m) /\ Held(r) = Held(m)
  BY DEF SameLists, Local, Held
<1>2. (FreeSound(m) => FreeSound(r)) /\ (JobsApart(m) => JobsApart(r)) /\ r \in Running
  BY <1>1 DEF SameLists, FreeSound, JobsApart
<1>3. \A k : Kept(k, m) => Kept(k, r)
  BY <1>1 DEF SameLists, Kept
<1>4. Drained(m) => Drained(r)
  BY DEF SameLists, Drained
<1> QED  BY <1>2, <1>3, <1>4 DEF Good

\* A handler that changes nothing keeps everything.
LEMMA KeptSelf ==
  ASSUME NEW m PROVE Kept(m, m)
  BY DEF Kept

\* The part of the queue handed out is empty only if the queue is.
LEMMA Dataset ==
  ASSUME NEW m \in Running, NEW size \in Int
  PROVE  /\ get_work_dataset(m, size) \in 0 .. Len(m.arrObjects)
         /\ get_work_dataset(m, size) = 0 <=> m.arrObjects = <<>>
<1> DEFINE most == IF size \in 1 .. DATASET_SIZE THEN size ELSE DATASET_SIZE
<1>1. most \in Nat \ {0}
  <2>1. DATASET_SIZE \in Nat \ {0}
    BY PoolAssumption
  <2> QED  BY <2>1
<1>2. Len(m.arrObjects) \in Nat /\ (Len(m.arrObjects) = 0 <=> m.arrObjects = <<>>)
  <2>1. m.arrObjects \in Seq(Job)
    BY DEF Running
  <2> QED  BY <2>1, EmptySeq, LenProperties
<1> HIDE DEF most
<1>3. get_work_dataset(m, size) = IF Len(m.arrObjects) < most THEN Len(m.arrObjects) ELSE most
  BY DEF get_work_dataset, most
<1> QED  BY <1>1, <1>2, <1>3

\* assign_work_to_worker moves jobs from the queue to a message.
LEMMA AssignStep ==
  ASSUME NEW m, Good(m), NEW p \in Pid, NEW size \in Int
  PROVE  LET r == assign_work_to_worker(m, p, size)
         IN  /\ Good(r) /\ Kept(m, r) /\ (Drained(m) => Drained(r))
             /\ p \in m.arrWorkers \ m.haltedWorkers /\ m.arrObjects # <<>> => r.sends[p] # <<>>
<1> DEFINE n == get_work_dataset(m, size)
           first == SubSeq(m.arrObjects, 1, n)
           rest == SubSeq(m.arrObjects, n + 1, Len(m.arrObjects))
           hands == p \in m.arrWorkers \ m.haltedWorkers /\ n > 0
           r == assign_work_to_worker(m, p, size)
<1>1. m \in Running /\ FreeSound(m) /\ JobsApart(m) /\ m.arrObjects \in Seq(Job)
  BY DEF Good, Running
<1>2. n \in 0 .. Len(m.arrObjects) /\ (n = 0 <=> m.arrObjects = <<>>) /\ Len(m.arrObjects) \in Nat
  BY <1>1, Dataset, LenProperties
<1>3. r = IF hands THEN [Send(m, p, queueAdd(ToSet(first))) EXCEPT !.arrObjects = SubSeq(@, n + 1, Len(@))]
          ELSE m
  BY DEF assign_work_to_worker
<1> HIDE DEF n, r
<1>4. CASE ~hands
  <2>1. r = m /\ ~(p \in m.arrWorkers \ m.haltedWorkers /\ m.arrObjects # <<>>)
    BY <1>2, <1>3, <1>4
  <2> QED  BY <2>1, KeptSelf DEF r
<1>5. CASE hands
  <2>1. /\ first \in Seq(Job) /\ rest \in Seq(Job) /\ ToSet(first) # {}
        /\ ToSet(first) \cup ToSet(rest) = ToSet(m.arrObjects)
        /\ ToSet(first) \cap ToSet(rest) = {} /\ IsInjective(rest)
    <3>1. n \in 1 .. Len(m.arrObjects) /\ IsInjective(m.arrObjects)
      BY <1>1, <1>2, <1>5 DEF JobsApart
    <3> QED  BY <1>1, <3>1, SplitSet
  <2>2. ToSet(first) \in SUBSET Job
    BY <2>1, LenProperties DEF ToSet
  <2> DEFINE msg == queueAdd(ToSet(first))
  <2>3. msg \in MasterMsg /\ JobsOf(msg) = ToSet(first)
    BY <2>1, <2>2, JobsOfMsg
  <2> HIDE DEF msg, first
  <2>4. PICK z : z = Send(m, p, msg)
    OBVIOUS
  <2>5. /\ z \in Running /\ Adds(m, z, p, msg)
        /\ z.arrWorkers = m.arrWorkers /\ z.freeWorkers = m.freeWorkers
        /\ z.haltedWorkers = m.haltedWorkers /\ z.arrObjects = m.arrObjects
        /\ z.localRetries = m.localRetries
    BY <1>1, <2>3, <2>4, SendFields
  <2>6. r = [z EXCEPT !.arrObjects = rest]
    <3>1. r = [z EXCEPT !.arrObjects = SubSeq(@, n + 1, Len(@))]
      BY <1>3, <1>5, <2>4 DEF msg
    <3>2. [z EXCEPT !.arrObjects = SubSeq(@, n + 1, Len(@))] = [z EXCEPT !.arrObjects = rest]
      BY <2>5
    <3> QED  BY <3>1, <3>2
  <2> HIDE DEF rest
  <2>7. /\ r \in Running /\ Adds(m, r, p, msg)
        /\ r.arrWorkers = m.arrWorkers /\ r.freeWorkers = m.freeWorkers
        /\ r.haltedWorkers = m.haltedWorkers /\ r.arrObjects = rest
        /\ r.localRetries = m.localRetries
    <3>1. /\ [z EXCEPT !.arrObjects = rest] \in Running
          /\ [z EXCEPT !.arrObjects = rest].arrObjects = rest
          /\ [z EXCEPT !.arrObjects = rest].sends = z.sends
          /\ [z EXCEPT !.arrObjects = rest].arrWorkers = z.arrWorkers
          /\ [z EXCEPT !.arrObjects = rest].freeWorkers = z.freeWorkers
          /\ [z EXCEPT !.arrObjects = rest].haltedWorkers = z.haltedWorkers
          /\ [z EXCEPT !.arrObjects = rest].localRetries = z.localRetries
      BY <2>1, <2>5 DEF Running
    <3> QED  BY <2>5, <2>6, <3>1 DEF Adds
  <2>8. /\ JobsApart(r) /\ Held(r) = Held(m) /\ \A q \in Pid \ {p} : r.sends[q] = m.sends[q]
        /\ \A q \in Pid : m.sends[q] # <<>> => r.sends[q] # <<>>
        /\ r.sends[p] # <<>>
    <3>1. /\ IsInjective(r.arrObjects) /\ ToSet(r.arrObjects) \cap r.localRetries = {}
          /\ JobsOf(msg) \subseteq Local(m)
      BY <1>1, <2>1, <2>3, <2>7 DEF JobsApart, Local
    <3>2. Local(r) = Local(m) \ JobsOf(msg)
      BY <1>1, <2>1, <2>3, <2>7 DEF JobsApart, Local
    <3> QED  BY <1>1, <2>3, <2>7, <3>1, <3>2, SendsJobs
  <2>9. Good(r) /\ Kept(m, r)
    BY <1>1, <1>5, <2>7, <2>8 DEF Good, Kept, FreeSound
  <2>10. Drained(m) => Drained(r)
    BY <1>2, <1>5, <2>7 DEF Drained
  <2> QED  BY <2>8, <2>9, <2>10 DEF r
<1> QED  BY <1>4, <1>5

\* flagAsFree lists the worker, once, unless it is halted.
LEMMA FlagStep ==
  ASSUME NEW m, Good(m), NEW p \in Pid
  PROVE  LET r == flagAsFree(m, p)
         IN  /\ Good(r) /\ Kept(m, r)
             /\ m.arrObjects = <<>> => Drained(r)
             /\ p \in ToSet(r.freeWorkers) \cup r.haltedWorkers
<1> DEFINE r == flagAsFree(m, p)
           free == Append(m.freeWorkers, p)
<1>1. m \in Running /\ FreeSound(m) /\ JobsApart(m) /\ m.freeWorkers \in Seq(Pid)
  BY DEF Good, Running
<1>2. CASE p \in m.haltedWorkers \cup ToSet(m.freeWorkers)
  <2>1. r = m
    BY <1>2 DEF flagAsFree
  <2> HIDE DEF r
  <2>2. m.arrObjects = <<>> => Drained(m)
    BY DEF Drained
  <2> QED  BY <1>2, <2>1, <2>2, KeptSelf DEF r
<1>3. CASE p \notin m.haltedWorkers \cup ToSet(m.freeWorkers)
  <2>1. r = [m EXCEPT !.freeWorkers = free]
    BY <1>3 DEF flagAsFree
  <2>2. /\ free \in Seq(Pid) /\ ToSet(free) = ToSet(m.freeWorkers) \cup {p} /\ IsInjective(free)
    BY <1>1, <1>3, AppendSet DEF FreeSound
  <2> HIDE DEF r, free
  <2>3. /\ r \in Running /\ r.freeWorkers = free /\ r.sends = m.sends
        /\ r.arrWorkers = m.arrWorkers /\ r.haltedWorkers = m.haltedWorkers
        /\ r.arrObjects = m.arrObjects /\ r.localRetries = m.localRetries
    BY <1>1, <2>1, <2>2 DEF Running
  <2>4. Local(r) = Local(m) /\ Held(r) = Held(m)
    BY <2>3 DEF Local, Held
  <2>5. FreeSound(r)
    BY <1>1, <1>3, <2>2, <2>3 DEF FreeSound
  <2>6. JobsApart(r)
    BY <1>1, <2>3, <2>4 DEF JobsApart
  <2>7. Kept(m, r)
    BY <2>2, <2>3, <2>4 DEF Kept
  <2>8. m.arrObjects = <<>> => Drained(r)
    BY <2>3 DEF Drained
  <2> QED  BY <2>2, <2>3, <2>5, <2>6, <2>7, <2>8 DEF Good, r
<1> QED  BY <1>2, <1>3

\* The excess worker is sent a message.
LEMMA EvaporateStep ==
  ASSUME NEW m, Good(m), NEW p \in Pid, p \in m.arrWorkers
  PROVE  LET r == Send(m, p, evaporatePls)
         IN  Good(r) /\ Kept(m, r) /\ (Drained(m) => Drained(r)) /\ r.sends[p] # <<>>
<1>1. m \in Running /\ FreeSound(m) /\ JobsApart(m)
  BY DEF Good
<1>2. PICK r : r = Send(m, p, evaporatePls)
  OBVIOUS
<1>3. /\ r \in Running /\ Adds(m, r, p, evaporatePls)
      /\ r.arrWorkers = m.arrWorkers /\ r.freeWorkers = m.freeWorkers
      /\ r.haltedWorkers = m.haltedWorkers /\ r.arrObjects = m.arrObjects
      /\ r.localRetries = m.localRetries
  BY <1>1, <1>2, SendFields, JobsOfMsg
<1>4. /\ JobsApart(r) /\ Held(r) = Held(m) /\ \A q \in Pid \ {p} : r.sends[q] = m.sends[q]
      /\ \A q \in Pid : m.sends[q] # <<>> => r.sends[q] # <<>>
      /\ r.sends[p] # <<>>
  <2>1. /\ evaporatePls \in MasterMsg /\ JobsOf(evaporatePls) \subseteq Local(m)
        /\ Local(r) = Local(m) \ JobsOf(evaporatePls)
        /\ IsInjective(r.arrObjects) /\ ToSet(r.arrObjects) \cap r.localRetries = {}
    BY <1>1, <1>3, JobsOfMsg DEF Local, JobsApart
  <2> QED  BY <1>1, <1>3, <2>1, SendsJobs
<1>5. Good(r) /\ Kept(m, r) /\ (Drained(m) => Drained(r))
  BY <1>1, <1>3, <1>4 DEF Good, Kept, FreeSound, Drained
<1> QED  BY <1>2, <1>4, <1>5

\* sendWork answers with a message or a place on the list, unless p is halted.
LEMMA SendWorkStep ==
  ASSUME NEW m, Good(m), NEW p \in Pid
  PROVE  LET r == sendWork(m, p)
         IN  /\ Good(r) /\ Kept(m, r) /\ (Drained(m) => Drained(r))
             /\ p \in m.arrWorkers =>
                  p \in ToSet(r.freeWorkers) \cup m.haltedWorkers \/ r.sends[p] # <<>>
<1> DEFINE r == sendWork(m, p)
<1>1. CASE Cardinality(m.arrWorkers) > numWorkers /\ p \in m.arrWorkers
  <2>1. r = Send(m, p, evaporatePls)
    BY <1>1 DEF sendWork
  <2> HIDE DEF r
  <2> QED  BY <1>1, <2>1, EvaporateStep DEF r
<1>2. CASE Cardinality(m.arrWorkers) > numWorkers /\ p \notin m.arrWorkers
  <2>1. r = m
    BY <1>2 DEF sendWork
  <2> HIDE DEF r
  <2> QED  BY <1>2, <2>1, KeptSelf DEF r
<1>3. CASE ~(Cardinality(m.arrWorkers) > numWorkers) /\ m.arrObjects = <<>>
  <2>1. r = maybeEndRound(fetchUnlessGetting(flagAsFree(m, p)))
    BY <1>3 DEF sendWork
  <2> HIDE DEF r
  <2>2. PICK x : x = flagAsFree(m, p)
    OBVIOUS
  <2>3. Good(x) /\ Kept(m, x) /\ Drained(x) /\ p \in ToSet(x.freeWorkers) \cup x.haltedWorkers
    BY <1>3, <2>2, FlagStep
  <2>4. PICK y : y = fetchUnlessGetting(x)
    OBVIOUS
  <2>5. SameLists(x, y) /\ y \in Running
    BY <2>3, <2>4, RoundFlags DEF Good, SameLists
  <2>6. SameLists(y, r) /\ r = maybeEndRound(y)
    BY <2>1, <2>2, <2>4, <2>5, RoundFlags
  <2>7. Good(y) /\ Kept(m, y) /\ Drained(y)
    BY <2>3, <2>5, SameIsGood DEF Good
  <2>8. Good(r) /\ Kept(m, r) /\ Drained(r)
    BY <2>5, <2>6, <2>7, SameIsGood
  <2>9. ToSet(r.freeWorkers) \cup m.haltedWorkers = ToSet(x.freeWorkers) \cup x.haltedWorkers
    BY <2>3, <2>5, <2>6 DEF SameLists, Kept
  <2> QED  BY <2>3, <2>8, <2>9 DEF r
<1>4. CASE ~(Cardinality(m.arrWorkers) > numWorkers) /\ m.arrObjects # <<>>
  <2>1. r = assign_work_to_worker(m, p, DATASET_SIZE)
    BY <1>4 DEF sendWork
  <2>2. DATASET_SIZE \in Int
    BY PoolAssumption
  <2> HIDE DEF r
  <2> QED  BY <1>4, <2>1, <2>2, AssignStep DEF r
<1> QED  BY <1>1, <1>2, <1>3, <1>4

\* A sequence without elements is empty.
LEMMA EmptyFromSet ==
  ASSUME NEW S, NEW s \in Seq(S)
  PROVE  ToSet(s) = {} <=> s = <<>>
<1>1. s # <<>> => Head(s) \in ToSet(s)
  BY TailAt
<1>2. s = <<>> => ToSet(s) = {}
  BY DEF ToSet
<1> QED  BY <1>1, <1>2

\* The list without p, and p is halted or not.
LEMMA StopStep ==
  ASSUME NEW m, Good(m), NEW p \in Pid
  PROVE  LET r == stopWork(m, p)
         IN  /\ Good(r) /\ Held(r) = Held(m) /\ (Drained(m) => Drained(r))
             /\ r.arrWorkers = m.arrWorkers /\ r.sends = m.sends
             /\ m.haltedWorkers \subseteq r.haltedWorkers
             /\ r.haltedWorkers \subseteq m.haltedWorkers \cup {p}
             /\ ToSet(m.freeWorkers) \ {p} \subseteq ToSet(r.freeWorkers)
<1> DEFINE free == Without(m.freeWorkers, p)
           halted == m.haltedWorkers \cup {p}
           x == IF p \in m.arrWorkers \ m.haltedWorkers
                  THEN [m EXCEPT !.haltedWorkers = @ \cup {p}, !.freeWorkers = Without(@, p)]
                  ELSE m
           r == stopWork(m, p)
<1>1. m \in Running /\ FreeSound(m) /\ JobsApart(m) /\ m.freeWorkers \in Seq(Pid)
  BY DEF Good, Running
<1>2. /\ free \in Seq(Pid) /\ ToSet(free) = ToSet(m.freeWorkers) \ {p} /\ IsInjective(free)
      /\ m.freeWorkers = <<>> => free = <<>>
  BY <1>1, WithoutSet, EmptyFromSet DEF FreeSound
<1>3. r = maybeEndRound(x)
  BY DEF stopWork
<1>4. CASE p \in m.arrWorkers \ m.haltedWorkers
  <2>1. x = [m EXCEPT !.haltedWorkers = halted, !.freeWorkers = free]
    BY <1>4
  <2> HIDE DEF r, x, free
  <2>2. /\ x \in Running /\ x.freeWorkers = free /\ x.sends = m.sends
        /\ x.arrWorkers = m.arrWorkers /\ x.haltedWorkers = halted
        /\ x.arrObjects = m.arrObjects /\ x.localRetries = m.localRetries
    BY <1>1, <1>2, <2>1 DEF Running
  <2>3. Local(x) = Local(m) /\ Held(x) = Held(m)
    BY <2>2 DEF Local, Held
  <2>4. Good(x)
    BY <1>1, <1>2, <1>4, <2>2, <2>3 DEF Good, FreeSound, JobsApart
  <2>5. Drained(m) => Drained(x)
    BY <1>2, <2>2 DEF Drained
  <2>6. SameLists(x, r)
    BY <1>3, <2>2, RoundFlags
  <2>7. Good(r) /\ (Drained(x) => Drained(r))
    BY <2>2, <2>4, <2>6, SameIsGood
  <2>8. Held(r) = Held(x)
    BY <2>6 DEF SameLists, Held, Local
  <2> QED  BY <1>2, <2>2, <2>3, <2>5, <2>6, <2>7, <2>8 DEF SameLists, r
<1>5. CASE p \notin m.arrWorkers \ m.haltedWorkers
  <2>1. x = m
    BY <1>5
  <2> HIDE DEF r, x
  <2>2. SameLists(m, r)
    BY <1>1, <1>3, <2>1, RoundFlags
  <2>3. Good(r) /\ (Drained(m) => Drained(r))
    BY <1>1, <2>2, SameIsGood
  <2>4. Held(r) = Held(m)
    BY <2>2 DEF SameLists, Held, Local
  <2> QED  BY <2>2, <2>3, <2>4 DEF SameLists, r
<1> QED  BY <1>4, <1>5

\* stats tops the worker up.
LEMMA StatsStep ==
  ASSUME NEW m, Good(m), NEW p \in Pid, NEW left \in Nat
  PROVE  LET r == stats(m, p, left)
         IN  Good(r) /\ Kept(m, r) /\ (Drained(m) => Drained(r))
<1>1. DATASET_SIZE - left \in Int
  BY PoolAssumption
<1>2. PICK size \in Int : size = DATASET_SIZE - left
  BY <1>1
<1>3. CASE left < NUM_TO_PROCESS
  <2>1. stats(m, p, left) = assign_work_to_worker(m, p, size)
    BY <1>2, <1>3 DEF stats
  <2> QED  BY <2>1, AssignStep
<1>4. CASE ~(left < NUM_TO_PROCESS)
  <2>1. stats(m, p, left) = m
    BY <1>4 DEF stats
  <2> QED  BY <2>1, KeptSelf
<1> QED  BY <1>3, <1>4

\* A job sent back joins the retries, unless one of its site is there already.
LEMMA RecheckStep ==
  ASSUME NEW m, Good(m), NEW j \in Job, j \notin Held(m)
  PROVE  LET r == add_server_to_local_retries(m, j)
         IN  /\ Good(r) /\ (Drained(m) => Drained(r))
             /\ Held(m) \subseteq Held(r) /\ Held(r) \subseteq Held(m) \cup {j}
             /\ j \in Local(r) \/ \E k \in m.localRetries : site[k] = site[j]
             /\ r.arrWorkers = m.arrWorkers /\ r.haltedWorkers = m.haltedWorkers
             /\ r.freeWorkers = m.freeWorkers /\ r.sends = m.sends
<1> DEFINE r == [m EXCEPT !.localRetries = @ \cup {j}]
<1>1. CASE \E k \in m.localRetries : site[k] = site[j]
  <2>1. add_server_to_local_retries(m, j) = m
    BY <1>1 DEF add_server_to_local_retries
  <2> QED  BY <1>1, <2>1
<1>2. ASSUME ~\E k \in m.localRetries : site[k] = site[j]
      PROVE  add_server_to_local_retries(m, j) = r
  BY <1>2 DEF add_server_to_local_retries
<1>3. m \in Running /\ FreeSound(m) /\ JobsApart(m)
  BY DEF Good
<1>4. /\ r \in Running /\ r.freeWorkers = m.freeWorkers /\ r.sends = m.sends
      /\ r.arrWorkers = m.arrWorkers /\ r.haltedWorkers = m.haltedWorkers
      /\ r.arrObjects = m.arrObjects /\ r.localRetries = m.localRetries \cup {j}
  BY <1>3 DEF Running
<1> HIDE DEF r
<1>5. Local(r) = Local(m) \cup {j} /\ Held(r) = Held(m) \cup {j}
  BY <1>4 DEF Local, Held
<1>6. \A p \in Pid : j \notin JobsIn(m.sends[p])
  BY DEF Held
<1>7. j \notin ToSet(m.arrObjects)
  BY DEF Held, Local
<1>8. JobsApart(r)
  BY <1>3, <1>4, <1>5, <1>6, <1>7 DEF JobsApart
<1>9. Good(r) /\ (Drained(m) => Drained(r)) /\ j \in Local(r)
  BY <1>3, <1>4, <1>5, <1>8 DEF Good, FreeSound, Drained
<1> QED  BY <1>1, <1>2, <1>4, <1>5, <1>9

\* A worker of the old free list asks again.
Ask(acc, p) == IF p \in acc.arrWorkers THEN sendWork(acc, p) ELSE acc

\* A worker of the old list asks again.
LEMMA AskStep ==
  ASSUME NEW m, Good(m), NEW p \in Pid
  PROVE  LET r == Ask(m, p)
         IN  /\ Good(r) /\ Kept(m, r) /\ (Drained(m) => Drained(r))
             /\ p \in m.arrWorkers =>
                  p \in ToSet(r.freeWorkers) \cup m.haltedWorkers \/ r.sends[p] # <<>>
  BY SendWorkStep, KeptSelf DEF Ask

\* The whole list asks, from the record b.
LEMMA AskAll ==
  ASSUME NEW b, Good(b), Drained(b), NEW seq \in Seq(Pid),
         ToSet(seq) \cap b.haltedWorkers = {}
  PROVE  LET r == FoldLeft(LAMBDA acc, p : IF p \in acc.arrWorkers THEN sendWork(acc, p)
                                                                    ELSE acc, b, seq)
         IN  /\ Good(r) /\ Kept(b, r) /\ Drained(r)
             /\ \A q \in ToSet(seq) \cap b.arrWorkers :
                  q \in ToSet(r.freeWorkers) \/ r.sends[q] # <<>>
<1> DEFINE D == DOMAIN seq
           c == [x \in SUBSET D |-> Max(x)]
           V == {v \in Running : Good(v)}
           Rule(it) == it = [x \in SUBSET D |->
                               IF x = {} THEN b
                               ELSE Ask(it[x \ {Max(x)}], seq[Max(x)])]
           F == CHOOSE it : Rule(it)
           Found(v, q) == q \in ToSet(v.freeWorkers) \/ v.sends[q] # <<>>
           J == [x \in SUBSET D |->
                   {v \in V : /\ Kept(b, v) /\ Drained(v)
                              /\ \A i \in x : seq[i] \in b.arrWorkers => Found(v, seq[i])}]
           r == FoldLeft(LAMBDA acc, p : IF p \in acc.arrWorkers THEN sendWork(acc, p)
                                                                  ELSE acc, b, seq)
<1>1. Len(seq) \in Nat /\ D = 1 .. Len(seq) /\ \A i \in D : seq[i] \in Pid
  BY ElementOfSeq, LenProperties
<1>2. r = F[D]
  BY DEF Ask, FoldLeft, MapThenFoldSet
<1>3. /\ Picks(c, D) /\ IsFiniteSet(D)
      /\ \A x \in SUBSET D : x # {} => Max(x) \in x /\ c[x] = Max(x)
  BY <1>1, MaxPicks
<1>4. b \in V /\ \A v \in V, p \in Pid : Ask(v, p) \in V
  BY AskStep DEF Good
<1> HIDE DEF r, V
<1>5. \E it : Rule(it)
  <2> DEFINE G == [v \in V |-> [i \in D |-> Ask(v, seq[i])]]
  <2>1. G \in [V -> [D -> V]]
    BY <1>1, <1>4
  <2>2. \A v \in V, i \in D : G[v][i] = Ask(v, seq[i])
    OBVIOUS
  <2> HIDE DEF G, D, c
  <2>3. PICK it : IsFold(it, D, c, V, b, G)
    BY <1>3, <1>4, <2>1, FoldExists
  <2>4. /\ it \in [SUBSET D -> V] /\ it[{}] = b
        /\ \A x \in SUBSET D : x # {} => it[x] = G[it[x \ {c[x]}]][c[x]]
    BY <2>3 DEF IsFold
  <2>5. ASSUME NEW x \in SUBSET D, x # {}
        PROVE  it[x] = Ask(it[x \ {Max(x)}], seq[Max(x)])
    <3>1. c[x] = Max(x) /\ Max(x) \in D /\ x \ {Max(x)} \in SUBSET D
      BY <1>3, <2>5
    <3>2. it[x] = G[it[x \ {c[x]}]][c[x]]
      BY <2>4, <2>5
    <3>3. it[x] = G[it[x \ {Max(x)}]][Max(x)] /\ it[x \ {Max(x)}] \in V
      BY <2>4, <3>1, <3>2
    <3> QED  BY <2>2, <3>1, <3>3
  <2>6. Rule(it)
    BY <2>4, <2>5
  <2> QED  BY <2>6
<1>6. Rule(F)
  BY <1>5
<1> HIDE DEF F
<1>7. F[{}] \in J[{}]
  <2>1. F[{}] = b
    BY <1>6
  <2> QED  BY <1>4, <2>1, KeptSelf
<1>8. ASSUME NEW x \in SUBSET D, x # {}, F[x \ {c[x]}] \in J[x \ {c[x]}] PROVE F[x] \in J[x]
  <2>1. PICK k : k = Max(x)
    OBVIOUS
  <2>2. PICK v : v = F[x \ {k}]
    OBVIOUS
  <2>3. k \in x /\ k \in D /\ c[x] = k /\ seq[k] \in Pid /\ x \ {k} \in SUBSET D
    BY <1>1, <1>3, <1>8, <2>1
  <2>4. F[x] = Ask(v, seq[k])
    BY <1>6, <1>8, <2>1, <2>2
  <2>5. /\ v \in V /\ Kept(b, v) /\ Drained(v)
        /\ \A i \in x \ {k} : seq[i] \in b.arrWorkers => Found(v, seq[i])
    BY <1>8, <2>2, <2>3
  <2>6. PICK w : w = F[x]
    OBVIOUS
  <2>7. Good(v) /\ v \in Running /\ v.arrWorkers = b.arrWorkers /\ v.haltedWorkers = b.haltedWorkers
    BY <2>5 DEF Kept, V
  <2>8. /\ Good(w) /\ Kept(v, w) /\ Drained(w) /\ w \in V
        /\ seq[k] \in v.arrWorkers =>
             seq[k] \in ToSet(w.freeWorkers) \cup v.haltedWorkers \/ w.sends[seq[k]] # <<>>
    BY <1>4, <2>3, <2>4, <2>5, <2>6, <2>7, AskStep
  <2>9. Kept(b, w)
    BY <2>5, <2>8, KeptTwice DEF Good
  <2>10. seq[k] \notin b.haltedWorkers
    BY <2>3 DEF ToSet
  <2>11. ASSUME NEW i \in x, seq[i] \in b.arrWorkers PROVE Found(w, seq[i])
    <3>1. CASE i = k
      BY <2>7, <2>8, <2>10, <2>11, <3>1
    <3>2. CASE i # k
      <4>1. Found(v, seq[i]) /\ seq[i] \in Pid /\ seq[i] \in v.arrWorkers
        BY <1>1, <2>5, <2>7, <2>11, <3>2
      <4> QED  BY <2>8, <4>1 DEF Kept
    <3> QED  BY <3>1, <3>2
  <2> HIDE DEF Found
  <2> QED  BY <2>6, <2>8, <2>9, <2>11
<1>9. F[D] \in J[D]
  <2> HIDE DEF D, c, J
  <2> QED  BY <1>3, <1>7, <1>8, FoldStays
<1>10. r \in V /\ Kept(b, r) /\ Drained(r) /\ \A i \in D : seq[i] \in b.arrWorkers => Found(r, seq[i])
  BY <1>2, <1>9
<1>11. \A q \in ToSet(seq) \cap b.arrWorkers : Found(r, q)
  BY <1>10 DEF ToSet
<1> QED  BY <1>10, <1>11 DEF r, V

\* freeWorkersToWork empties the list, and everyone on it asks again.
LEMMA FreeWorkersStep ==
  ASSUME NEW m, Good(m)
  PROVE  LET r == freeWorkersToWork(m) IN Good(r) /\ Kept(m, r) /\ Drained(r)
<1>1. m \in Running /\ FreeSound(m) /\ JobsApart(m) /\ m.freeWorkers \in Seq(Pid)
  BY DEF Good, Running
<1>2. CASE m.arrObjects = <<>>
  <2>1. freeWorkersToWork(m) = m /\ Drained(m)
    BY <1>2 DEF freeWorkersToWork, Drained
  <2> QED  BY <2>1, KeptSelf
<1>3. CASE m.arrObjects # <<>>
  <2>1. PICK b : b = [m EXCEPT !.freeWorkers = <<>>]
    OBVIOUS
  <2>2. /\ b \in Running /\ b.freeWorkers = <<>> /\ b.sends = m.sends
        /\ b.arrWorkers = m.arrWorkers /\ b.haltedWorkers = m.haltedWorkers
        /\ b.arrObjects = m.arrObjects /\ b.localRetries = m.localRetries
    <3>1. PICK none \in Seq(Pid) : none = <<>>
      BY EmptySeq
    <3>2. b = [m EXCEPT !.freeWorkers = none]
      BY <2>1, <3>1
    <3>3. /\ b \in Running /\ b.freeWorkers = none /\ b.sends = m.sends
          /\ b.arrWorkers = m.arrWorkers /\ b.haltedWorkers = m.haltedWorkers
          /\ b.arrObjects = m.arrObjects /\ b.localRetries = m.localRetries
      BY <1>1, <3>2 DEF Running
    <3> QED  BY <3>1, <3>3
  <2>3. Local(b) = Local(m) /\ Held(b) = Held(m)
    BY <2>2 DEF Local, Held
  <2>4. IsInjective(<<>>) /\ ToSet(<<>>) = {}
    BY DEF IsInjective, ToSet
  <2>5. Good(b) /\ Drained(b) /\ ToSet(m.freeWorkers) \cap b.haltedWorkers = {}
    BY <1>1, <2>2, <2>3, <2>4 DEF Good, FreeSound, JobsApart, Drained
  <2> DEFINE r == FoldLeft(LAMBDA acc, p : IF p \in acc.arrWorkers THEN sendWork(acc, p)
                                                                  ELSE acc, b, m.freeWorkers)
  <2>6. /\ Good(r) /\ Kept(b, r) /\ Drained(r)
        /\ \A q \in ToSet(m.freeWorkers) \cap b.arrWorkers :
             q \in ToSet(r.freeWorkers) \/ r.sends[q] # <<>>
    BY <1>1, <2>5, AskAll
  <2>7. freeWorkersToWork(m) = r
    BY <1>3, <2>1 DEF freeWorkersToWork
  <2> HIDE DEF r
  <2>8. Kept(m, r)
    BY <2>2, <2>3, <2>6 DEF Kept
  <2> QED  BY <2>6, <2>7, <2>8
<1> QED  BY <1>2, <1>3

\* What a handler that dispatches retries keeps: if no job was queued, the
\* queue is the same and the free list is no larger.
Dispatches(m, r) ==
  \/ Len(r.arrObjects) > Len(m.arrObjects)
  \/ r.arrObjects = m.arrObjects /\ (m.freeWorkers = <<>> => r.freeWorkers = <<>>)

\* Min picks an element.
LEMMA MinPicks ==
  ASSUME NEW T \in SUBSET Nat, T # {}
  PROVE  Min(T) \in T
  BY Least DEF Min

\* retryLocally moves one job to a worker or to the queue.
LEMMA RetryStep ==
  ASSUME NEW m, Good(m), NEW j \in m.localRetries
  PROVE  LET r == retryLocally(m, j)
         IN  /\ Good(r) /\ Kept(m, r) /\ Dispatches(m, r)
             /\ r.localRetries = m.localRetries \ {j}
<1> DEFINE usable == {i \in DOMAIN m.freeWorkers : m.freeWorkers[i] \in m.arrWorkers}
           i == Min(usable)
           msg == queueAdd({j})
           r == retryLocally(m, j)
<1>1. /\ m \in Running /\ FreeSound(m) /\ JobsApart(m)
      /\ m.freeWorkers \in Seq(Pid) /\ m.arrObjects \in Seq(Job) /\ j \in Job
  BY DEF Good, Running
<1>2. PICK t : t = [m EXCEPT !.localRetries = @ \ {j}]
  OBVIOUS
<1>3. /\ t \in Running /\ t.freeWorkers = m.freeWorkers /\ t.sends = m.sends
      /\ t.arrWorkers = m.arrWorkers /\ t.haltedWorkers = m.haltedWorkers
      /\ t.arrObjects = m.arrObjects /\ t.localRetries = m.localRetries \ {j}
  BY <1>1, <1>2 DEF Running
<1>4. /\ j \notin ToSet(m.arrObjects) /\ \A p \in Pid : j \notin JobsIn(m.sends[p])
      /\ Local(t) = Local(m) \ {j} /\ j \in Local(m)
  BY <1>1, <1>3 DEF JobsApart, Local
<1>5. r = IF usable # {}
            THEN [Send(t, m.freeWorkers[i], msg) EXCEPT !.freeWorkers = RemoveAt(@, i)]
            ELSE [t EXCEPT !.arrObjects = Append(@, j)]
  BY <1>2 DEF retryLocally
<1> HIDE DEF r
<1>6. CASE usable # {}
  <2>1. /\ i \in DOMAIN m.freeWorkers /\ m.freeWorkers[i] \in m.arrWorkers /\ m.freeWorkers[i] \in Pid
    <3>1. usable \in SUBSET Nat
      BY <1>1, LenProperties
    <3>2. i \in usable
      BY <1>6, <3>1, MinPicks
    <3> QED  BY <1>1, <3>2, ElementOfSeq, LenProperties
  <2> HIDE DEF i, msg, usable
  <2>2. PICK p \in Pid : p = m.freeWorkers[i]
    BY <2>1
  <2>3. msg \in MasterMsg /\ JobsOf(msg) = {j}
    BY <1>1, JobsOfMsg DEF msg
  <2>4. PICK z : z = Send(t, p, msg)
    OBVIOUS
  <2>5. /\ z \in Running /\ Adds(t, z, p, msg)
        /\ z.arrWorkers = m.arrWorkers /\ z.freeWorkers = m.freeWorkers
        /\ z.haltedWorkers = m.haltedWorkers /\ z.arrObjects = m.arrObjects
        /\ z.localRetries = m.localRetries \ {j}
    BY <1>3, <2>3, <2>4, SendFields
  <2>6. PICK free : free = RemoveAt(m.freeWorkers, i)
    OBVIOUS
  <2>7. /\ free \in Seq(Pid) /\ IsInjective(free) /\ ToSet(free) = ToSet(m.freeWorkers) \ {p}
    BY <1>1, <2>1, <2>2, <2>6, RemoveAtSet DEF FreeSound
  <2>8. r = [z EXCEPT !.freeWorkers = free]
    BY <1>5, <1>6, <2>2, <2>4, <2>5, <2>6
  <2>9. /\ r \in Running /\ Adds(m, r, p, msg) /\ r.freeWorkers = free
        /\ r.arrWorkers = m.arrWorkers /\ r.haltedWorkers = m.haltedWorkers
        /\ r.arrObjects = m.arrObjects /\ r.localRetries = m.localRetries \ {j}
    <3>1. /\ r \in Running /\ r.sends = z.sends /\ r.freeWorkers = free
          /\ r.arrWorkers = z.arrWorkers /\ r.haltedWorkers = z.haltedWorkers
          /\ r.arrObjects = z.arrObjects /\ r.localRetries = z.localRetries
      BY <2>5, <2>7, <2>8 DEF Running
    <3> QED  BY <1>3, <2>5, <3>1 DEF Adds
  <2>10. /\ JobsApart(r) /\ Held(r) = Held(m) /\ \A q \in Pid \ {p} : r.sends[q] = m.sends[q]
         /\ \A q \in Pid : m.sends[q] # <<>> => r.sends[q] # <<>>
         /\ r.sends[p] # <<>>
    <3>1. /\ IsInjective(r.arrObjects) /\ ToSet(r.arrObjects) \cap r.localRetries = {}
          /\ JobsOf(msg) \subseteq Local(m)
      BY <1>1, <1>4, <2>3, <2>9 DEF JobsApart
    <3>2. Local(r) = Local(m) \ JobsOf(msg)
      BY <1>4, <2>3, <2>9 DEF Local
    <3> QED  BY <1>1, <2>3, <2>9, <3>1, <3>2, SendsJobs
  <2>11. Good(r)
    BY <1>1, <2>7, <2>9, <2>10 DEF Good, FreeSound
  <2>12. Kept(m, r)
    BY <2>1, <2>2, <2>7, <2>9, <2>10 DEF Kept
  <2>13. Dispatches(m, r)
    <3>1. m.freeWorkers # <<>>
      BY <1>1, <2>1, <2>2, EmptyFromSet DEF ToSet
    <3> QED  BY <2>9, <3>1 DEF Dispatches
  <2> QED  BY <2>9, <2>11, <2>12, <2>13 DEF r
<1>7. CASE usable = {}
  <2>1. PICK objects : objects = Append(m.arrObjects, j)
    OBVIOUS
  <2>2. /\ objects \in Seq(Job) /\ ToSet(objects) = ToSet(m.arrObjects) \cup {j}
        /\ IsInjective(objects) /\ Len(objects) > Len(m.arrObjects)
    BY <1>1, <1>4, <2>1, AppendSet, AppendProperties, LenProperties DEF JobsApart
  <2>3. r = [t EXCEPT !.arrObjects = objects]
    BY <1>3, <1>5, <1>7, <2>1
  <2>4. /\ r \in Running /\ r.freeWorkers = m.freeWorkers /\ r.sends = m.sends
        /\ r.arrWorkers = m.arrWorkers /\ r.haltedWorkers = m.haltedWorkers
        /\ r.arrObjects = objects /\ r.localRetries = m.localRetries \ {j}
    BY <1>3, <2>2, <2>3 DEF Running
  <2>5. Local(r) = Local(m) /\ Held(r) = Held(m)
    BY <1>4, <2>2, <2>4 DEF Local, Held
  <2>6. JobsApart(r)
    BY <1>1, <1>4, <2>2, <2>4, <2>5 DEF JobsApart
  <2>7. Good(r) /\ Kept(m, r) /\ Dispatches(m, r)
    BY <1>1, <2>2, <2>4, <2>5, <2>6 DEF Good, FreeSound, Kept, Dispatches
  <2> QED  BY <2>4, <2>7 DEF r
<1> QED  BY <1>6, <1>7

\* The retries that are due, one after the other.
LEMMA RetryAll ==
  ASSUME NEW m, Good(m), NEW due \in SUBSET m.localRetries
  PROVE  LET r == FoldSet(LAMBDA j, acc : retryLocally(acc, j), m, due)
         IN  Good(r) /\ Kept(m, r) /\ Dispatches(m, r)
<1> DEFINE c == [x \in SUBSET due |-> CHOOSE j \in x : TRUE]
           V == {v \in Running : Good(v)}
           Rule(it) == it = [x \in SUBSET due |->
                               IF x = {} THEN m
                               ELSE retryLocally(it[x \ {CHOOSE j \in x : TRUE}],
                                                 CHOOSE j \in x : TRUE)]
           F == CHOOSE it : Rule(it)
           J == [x \in SUBSET due |->
                   {v \in V : /\ Kept(m, v) /\ Dispatches(m, v)
                              /\ v.localRetries = m.localRetries \ x}]
           r == FoldSet(LAMBDA j, acc : retryLocally(acc, j), m, due)
<1>1. IsFiniteSet(due)
  <2>1. due \subseteq Job /\ IsFiniteSet(Job)
    BY PoolAssumption DEF Good, Running
  <2> QED  BY <2>1, FS_Subset
<1>2. r = F[due]
  BY DEF FoldSet, MapThenFoldSet
<1>3. /\ Picks(c, due)
      /\ \A x \in SUBSET due : x # {} => (CHOOSE j \in x : TRUE) \in x /\ c[x] = CHOOSE j \in x : TRUE
  BY DEF Picks
<1>4. m \in V /\ m \in J[{}]
  BY KeptSelf DEF Good, Dispatches
<1>5. ASSUME NEW x \in SUBSET due, NEW j \in x, NEW v \in J[x \ {j}]
      PROVE  j \in v.localRetries /\ retryLocally(v, j) \in J[x]
  <2>1. /\ v \in V /\ Good(v) /\ v \in Running /\ Kept(m, v) /\ Dispatches(m, v)
        /\ v.localRetries = m.localRetries \ (x \ {j}) /\ j \in v.localRetries
    BY <1>5
  <2>2. PICK w : w = retryLocally(v, j)
    OBVIOUS
  <2>3. /\ Good(w) /\ w \in Running /\ Kept(v, w) /\ Dispatches(v, w)
        /\ w.localRetries = v.localRetries \ {j}
    BY <2>1, <2>2, RetryStep DEF Good
  <2>4. Kept(m, w)
    BY <2>1, <2>3, KeptTwice DEF Good
  <2>5. w.localRetries = m.localRetries \ x
    BY <2>1, <2>3
  <2>6. Dispatches(m, w)
    <3>1. /\ Len(m.arrObjects) \in Nat /\ Len(v.arrObjects) \in Nat /\ Len(w.arrObjects) \in Nat
      <4>1. m.arrObjects \in Seq(Job) /\ v.arrObjects \in Seq(Job) /\ w.arrObjects \in Seq(Job)
        BY <2>1, <2>3 DEF Good, Running
      <4> QED  BY <4>1, LenProperties
    <3> QED  BY <2>1, <2>3, <3>1 DEF Dispatches
  <2> QED  BY <2>1, <2>2, <2>3, <2>4, <2>5, <2>6
<1> HIDE DEF r, V, J
<1>6. \E it : Rule(it)
  <2> DEFINE Sane(v, j) == j \in v.localRetries
             G == [v \in V |-> [j \in due |-> IF Sane(v, j) THEN retryLocally(v, j) ELSE m]]
  <2>1. ASSUME NEW v \in V, NEW j \in due, Sane(v, j) PROVE retryLocally(v, j) \in V
    <3>1. Good(v) /\ j \in v.localRetries
      BY <2>1 DEF V
    <3>2. Good(retryLocally(v, j))
      BY <3>1, RetryStep
    <3> QED  BY <3>2 DEF V, Good
  <2>2. G \in [V -> [due -> V]]
    <3> HIDE DEF Sane
    <3> QED  BY <1>4, <2>1
  <2>3. \A v \in V, j \in due : Sane(v, j) => G[v][j] = retryLocally(v, j)
    OBVIOUS
  <2> HIDE DEF G, c
  <2>4. PICK it : IsFold(it, due, c, V, m, G)
    BY <1>1, <1>3, <1>4, <2>2, FoldExists
  <2>5. /\ it \in [SUBSET due -> V] /\ it[{}] = m
        /\ \A x \in SUBSET due : x # {} => it[x] = G[it[x \ {c[x]}]][c[x]]
    BY <2>4 DEF IsFold
  <2>6. ASSUME NEW x \in SUBSET due, x # {}, it[x \ {c[x]}] \in J[x \ {c[x]}]
        PROVE  it[x] = retryLocally(it[x \ {c[x]}], c[x]) /\ it[x] \in J[x]
    <3>1. c[x] \in x /\ c[x] \in due /\ x \ {c[x]} \in SUBSET due
      BY <1>3, <2>6
    <3>2. /\ Sane(it[x \ {c[x]}], c[x]) /\ it[x \ {c[x]}] \in V
          /\ retryLocally(it[x \ {c[x]}], c[x]) \in J[x]
      BY <1>5, <2>5, <2>6, <3>1
    <3> HIDE DEF Sane
    <3>3. it[x] = retryLocally(it[x \ {c[x]}], c[x])
      BY <2>3, <2>5, <2>6, <3>1, <3>2
    <3> QED  BY <3>2, <3>3
  <2>7. ASSUME NEW s \in SUBSET due PROVE it[s] \in J[s]
    <3>1. IsFiniteSet(s) /\ Picks(c, s)
      BY <1>1, <1>3, FS_Subset DEF Picks
    <3>2. it[{}] \in J[{}]
      BY <1>4, <2>5
    <3>3. \A x \in SUBSET s : x # {} /\ it[x \ {c[x]}] \in J[x \ {c[x]}] => it[x] \in J[x]
      BY <2>6
    <3> QED  BY <3>1, <3>2, <3>3, FoldStays
  <2>8. ASSUME NEW x \in SUBSET due, x # {}
        PROVE  it[x] = retryLocally(it[x \ {CHOOSE j \in x : TRUE}], CHOOSE j \in x : TRUE)
    <3>1. c[x] = CHOOSE j \in x : TRUE
      BY <1>3, <2>8
    <3>2. it[x] = retryLocally(it[x \ {c[x]}], c[x])
      <4>1. x \ {c[x]} \in SUBSET due
        OBVIOUS
      <4>2. it[x \ {c[x]}] \in J[x \ {c[x]}]
        BY <2>7, <4>1
      <4> QED  BY <2>6, <2>8, <4>2
    <3> QED  BY <3>1, <3>2
  <2>9. Rule(it)
    <3>1. ASSUME NEW x \in SUBSET due
          PROVE  it[x] = IF x = {} THEN m
                         ELSE retryLocally(it[x \ {CHOOSE j \in x : TRUE}], CHOOSE j \in x : TRUE)
      BY <2>5, <2>8, <3>1
    <3>2. it = [x \in SUBSET due |-> it[x]]
      BY <2>5
    <3> QED  BY <3>1, <3>2, Zenon
  <2> QED  BY <2>9
<1>7. Rule(F)
  BY <1>6
<1> HIDE DEF F
<1>8. F[{}] \in J[{}]
  BY <1>4, <1>7
<1>9. ASSUME NEW x \in SUBSET due, x # {}, F[x \ {c[x]}] \in J[x \ {c[x]}] PROVE F[x] \in J[x]
  <2>1. PICK k : k = CHOOSE j \in x : TRUE
    OBVIOUS
  <2>2. k \in x /\ c[x] = k
    BY <1>3, <1>9, <2>1
  <2>3. F[x] = retryLocally(F[x \ {k}], k)
    BY <1>7, <1>9, <2>1
  <2>4. F[x \ {k}] \in J[x \ {k}]
    BY <1>9, <2>2
  <2> QED  BY <1>5, <2>2, <2>3, <2>4
<1>10. F[due] \in J[due]
  <2> HIDE DEF c
  <2> QED  BY <1>1, <1>3, <1>8, <1>9, FoldStays
<1>11. Good(r) /\ Kept(m, r) /\ Dispatches(m, r)
  BY <1>2, <1>10 DEF J, V
<1> QED  BY <1>11 DEF r

\* processLocalRetries moves all that are due.
LEMMA ProcessStep ==
  ASSUME NEW m, Good(m), NEW due \in SUBSET m.localRetries
  PROVE  LET r == processLocalRetries(m, due)
         IN  Good(r) /\ Kept(m, r) /\ (Drained(m) => Drained(r))
<1>1. PICK d : d = FoldSet(LAMBDA j, acc : retryLocally(acc, j), m, due)
  OBVIOUS
<1>2. Good(d) /\ Kept(m, d) /\ Dispatches(m, d)
  BY <1>1, RetryAll
<1>3. processLocalRetries(m, due) =
        IF Len(d.arrObjects) > Len(m.arrObjects) THEN freeWorkersToWork(d) ELSE d
  BY <1>1 DEF processLocalRetries
<1>4. CASE Len(d.arrObjects) > Len(m.arrObjects)
  <2>1. PICK r : r = freeWorkersToWork(d)
    OBVIOUS
  <2>2. Good(r) /\ Kept(d, r) /\ Drained(r)
    BY <1>2, <2>1, FreeWorkersStep
  <2>3. Kept(m, r)
    BY <1>2, <2>2, KeptTwice DEF Good
  <2> QED  BY <1>3, <1>4, <2>1, <2>2, <2>3
<1>5. CASE ~(Len(d.arrObjects) > Len(m.arrObjects))
  <2>1. Drained(m) => Drained(d)
    BY <1>2, <1>5 DEF Dispatches, Drained
  <2> QED  BY <1>2, <1>3, <1>5, <2>1
<1> QED  BY <1>4, <1>5

\* p leaves the lists.
Deleted(m, p, r) ==
  /\ Good(r) /\ Held(r) = Held(m) /\ (Drained(m) => Drained(r))
  /\ r.arrWorkers = m.arrWorkers \ {p} /\ r.haltedWorkers = m.haltedWorkers \ {p}
  /\ ToSet(r.freeWorkers) = ToSet(m.freeWorkers) \ {p} /\ r.sends = m.sends

LEMMA DeleteStep ==
  ASSUME NEW m, Good(m), NEW p \in Pid
  PROVE  Deleted(m, p, deleteWorker(m, p))
<1> DEFINE r == deleteWorker(m, p)
<1>1. m \in Running /\ FreeSound(m) /\ JobsApart(m) /\ m.freeWorkers \in Seq(Pid)
  BY DEF Good, Running
<1>2. PICK free : free = Without(m.freeWorkers, p)
  OBVIOUS
<1>3. /\ free \in Seq(Pid) /\ ToSet(free) = ToSet(m.freeWorkers) \ {p} /\ IsInjective(free)
      /\ m.freeWorkers = <<>> => free = <<>>
  BY <1>1, <1>2, WithoutSet, EmptyFromSet DEF FreeSound
<1>4. r = [m EXCEPT !.arrWorkers = m.arrWorkers \ {p}, !.freeWorkers = free,
                    !.haltedWorkers = m.haltedWorkers \ {p}]
  BY <1>1, <1>2 DEF deleteWorker, Running
<1> HIDE DEF r
<1>5. /\ r \in Running /\ r.freeWorkers = free /\ r.sends = m.sends
      /\ r.arrWorkers = m.arrWorkers \ {p} /\ r.haltedWorkers = m.haltedWorkers \ {p}
      /\ r.arrObjects = m.arrObjects /\ r.localRetries = m.localRetries
  BY <1>1, <1>3, <1>4 DEF Running
<1>6. Local(r) = Local(m) /\ Held(r) = Held(m)
  BY <1>5 DEF Local, Held
<1>7. Good(r) /\ (Drained(m) => Drained(r))
  BY <1>1, <1>3, <1>5, <1>6 DEF Good, FreeSound, JobsApart, Drained
<1>8. Deleted(m, p, r)
  BY <1>3, <1>5, <1>6, <1>7 DEF Deleted
<1> QED  BY <1>8 DEF r

\* p joins them, a process nobody knows.
\* What the start of new processes makes of the record m.
Spawned(m, new, r) ==
  /\ Good(r) /\ Held(r) = Held(m) /\ (Drained(m) => Drained(r))
  /\ r.arrWorkers = m.arrWorkers \cup new /\ r.haltedWorkers = m.haltedWorkers \ new
  /\ ToSet(r.freeWorkers) = ToSet(m.freeWorkers) \ new /\ r.sends = m.sends

LEMMA SpawnStep ==
  ASSUME NEW m, Good(m), NEW p \in Pid
  PROVE  Spawned(m, {p}, spawnWorker(m, p))
<1>1. PICK d : d = deleteWorker(m, p)
  OBVIOUS
<1>2. /\ Good(d) /\ Held(d) = Held(m) /\ (Drained(m) => Drained(d))
      /\ d.arrWorkers = m.arrWorkers \ {p} /\ d.haltedWorkers = m.haltedWorkers \ {p}
      /\ ToSet(d.freeWorkers) = ToSet(m.freeWorkers) \ {p} /\ d.sends = m.sends
  <2>1. Deleted(m, p, d)
    BY <1>1, DeleteStep
  <2> QED  BY <2>1 DEF Deleted
<1>3. d \in Running /\ FreeSound(d) /\ JobsApart(d)
  BY <1>2 DEF Good
<1>4. PICK r : r = [d EXCEPT !.arrWorkers = @ \cup {p}]
  OBVIOUS
<1>5. /\ r \in Running /\ r.freeWorkers = d.freeWorkers /\ r.sends = d.sends
      /\ r.arrWorkers = d.arrWorkers \cup {p} /\ r.haltedWorkers = d.haltedWorkers
      /\ r.arrObjects = d.arrObjects /\ r.localRetries = d.localRetries
  BY <1>3, <1>4 DEF Running
<1>6. Local(r) = Local(d) /\ Held(r) = Held(d)
  BY <1>5 DEF Local, Held
<1>7. Good(r) /\ (Drained(d) => Drained(r))
  BY <1>3, <1>5, <1>6 DEF Good, FreeSound, JobsApart, Drained
<1>8. spawnWorker(m, p) = r
  BY <1>1, <1>4 DEF spawnWorker
<1>9. Spawned(m, {p}, r)
  BY <1>2, <1>5, <1>6, <1>7 DEF Spawned
<1> QED  BY <1>8, <1>9

\* A set of processes joins.
LEMMA SpawnAll ==
  ASSUME NEW m, Good(m), NEW new \in SUBSET Pid
  PROVE  Spawned(m, new, FoldSet(LAMBDA p, acc : spawnWorker(acc, p), m, new))
<1> DEFINE c == [x \in SUBSET new |-> CHOOSE p \in x : TRUE]
           V == {v \in Running : Good(v)}
           Rule(it) == it = [x \in SUBSET new |->
                               IF x = {} THEN m
                               ELSE spawnWorker(it[x \ {CHOOSE p \in x : TRUE}],
                                                CHOOSE p \in x : TRUE)]
           F == CHOOSE it : Rule(it)
           J == [x \in SUBSET new |->
                   {v \in V : /\ Held(v) = Held(m) /\ (Drained(m) => Drained(v))
                              /\ v.arrWorkers = m.arrWorkers \cup x
                              /\ v.haltedWorkers = m.haltedWorkers \ x
                              /\ ToSet(v.freeWorkers) = ToSet(m.freeWorkers) \ x
                              /\ v.sends = m.sends}]
           r == FoldSet(LAMBDA p, acc : spawnWorker(acc, p), m, new)
<1>1. IsFiniteSet(new)
  BY PoolAssumption, FS_Subset
<1>2. r = F[new]
  BY DEF FoldSet, MapThenFoldSet
<1>3. /\ Picks(c, new)
      /\ \A x \in SUBSET new : x # {} => (CHOOSE p \in x : TRUE) \in x /\ c[x] = CHOOSE p \in x : TRUE
  BY DEF Picks
<1>4. m \in V /\ m \in J[{}]
  BY DEF Good
<1>5. ASSUME NEW x \in SUBSET new, NEW p \in x, NEW v \in J[x \ {p}]
      PROVE  spawnWorker(v, p) \in J[x]
  <2>1. /\ v \in V /\ Good(v) /\ Held(v) = Held(m) /\ (Drained(m) => Drained(v))
        /\ v.arrWorkers = m.arrWorkers \cup (x \ {p})
        /\ v.haltedWorkers = m.haltedWorkers \ (x \ {p})
        /\ ToSet(v.freeWorkers) = ToSet(m.freeWorkers) \ (x \ {p})
        /\ v.sends = m.sends
    BY <1>5
  <2>2. PICK w : w = spawnWorker(v, p)
    OBVIOUS
  <2>3. /\ Good(w) /\ Held(w) = Held(v) /\ (Drained(v) => Drained(w))
        /\ w.arrWorkers = v.arrWorkers \cup {p} /\ w.haltedWorkers = v.haltedWorkers \ {p}
        /\ ToSet(w.freeWorkers) = ToSet(v.freeWorkers) \ {p} /\ w.sends = v.sends
    <3>1. p \in Pid /\ Good(v)
      BY <2>1
    <3>2. Spawned(v, {p}, w)
      BY <2>2, <3>1, SpawnStep
    <3> QED  BY <3>2 DEF Spawned
  <2>4. /\ w.arrWorkers = m.arrWorkers \cup x
        /\ w.haltedWorkers = m.haltedWorkers \ x
        /\ ToSet(w.freeWorkers) = ToSet(m.freeWorkers) \ x
    BY <2>1, <2>3
  <2>5. w \in V
    BY <2>3 DEF Good
  <2> QED  BY <2>1, <2>2, <2>3, <2>4, <2>5
<1>6. \A v \in V, p \in new : spawnWorker(v, p) \in V
  <2> SUFFICES ASSUME NEW v \in V, NEW p \in new PROVE spawnWorker(v, p) \in V
    OBVIOUS
  <2>1. Spawned(v, {p}, spawnWorker(v, p))
    BY SpawnStep
  <2> QED  BY <2>1 DEF Spawned, Good
<1> HIDE DEF r, V, J
<1>7. \E it : Rule(it)
  <2> DEFINE G == [v \in V |-> [p \in new |-> spawnWorker(v, p)]]
  <2>1. G \in [V -> [new -> V]]
    BY <1>6
  <2>2. \A v \in V, p \in new : G[v][p] = spawnWorker(v, p)
    OBVIOUS
  <2> HIDE DEF G, c
  <2>3. PICK it : IsFold(it, new, c, V, m, G)
    BY <1>1, <1>3, <1>4, <2>1, FoldExists
  <2>4. /\ it \in [SUBSET new -> V] /\ it[{}] = m
        /\ \A x \in SUBSET new : x # {} => it[x] = G[it[x \ {c[x]}]][c[x]]
    BY <2>3 DEF IsFold
  <2>5. ASSUME NEW x \in SUBSET new, x # {}
        PROVE  it[x] = spawnWorker(it[x \ {CHOOSE p \in x : TRUE}], CHOOSE p \in x : TRUE)
    <3>1. PICK k : k = CHOOSE p \in x : TRUE
      OBVIOUS
    <3>2. c[x] = k /\ k \in new /\ x \ {k} \in SUBSET new
      BY <1>3, <2>5, <3>1
    <3>3. it[x] = G[it[x \ {c[x]}]][c[x]]
      BY <2>4, <2>5
    <3>4. it[x] = G[it[x \ {k}]][k] /\ it[x \ {k}] \in V
      BY <2>4, <3>2, <3>3
    <3>5. it[x] = spawnWorker(it[x \ {k}], k)
      BY <2>2, <3>2, <3>4
    <3> QED  BY <3>1, <3>5
  <2>6. Rule(it)
    BY <2>4, <2>5
  <2> QED  BY <2>6
<1>8. Rule(F)
  BY <1>7
<1> HIDE DEF F
<1>9. F[{}] \in J[{}]
  BY <1>4, <1>8
<1>10. ASSUME NEW x \in SUBSET new, x # {}, F[x \ {c[x]}] \in J[x \ {c[x]}] PROVE F[x] \in J[x]
  <2>1. PICK k : k = CHOOSE p \in x : TRUE
    OBVIOUS
  <2>2. k \in x /\ c[x] = k
    BY <1>3, <1>10, <2>1
  <2>3. F[x] = spawnWorker(F[x \ {k}], k)
    BY <1>8, <1>10, <2>1
  <2>4. F[x \ {k}] \in J[x \ {k}]
    BY <1>10, <2>2
  <2> QED  BY <1>5, <2>2, <2>3, <2>4
<1>11. F[new] \in J[new]
  <2> HIDE DEF c
  <2> QED  BY <1>1, <1>3, <1>9, <1>10, FoldStays
<1>12. r \in J[new]
  BY <1>2, <1>11
<1>13. /\ Good(r) /\ Held(r) = Held(m) /\ (Drained(m) => Drained(r))
       /\ r.arrWorkers = m.arrWorkers \cup new /\ r.haltedWorkers = m.haltedWorkers \ new
       /\ ToSet(r.freeWorkers) = ToSet(m.freeWorkers) \ new /\ r.sends = m.sends
  BY <1>12 DEF J, V
<1>14. Spawned(m, new, r)
  BY <1>13 DEF Spawned
<1> QED  BY <1>14 DEF r

-----------------------------------------------------------------------------
(***************************************************************************)
(* The master's steps: a handler starts from Begin and ends with Commit.   *)
(***************************************************************************)
LEMMA BeginGood ==
  ASSUME IInv
  PROVE  /\ Begin \in Running /\ Good(Begin) /\ Drained(Begin) /\ Held(Begin) = AtMaster
         /\ Begin.arrWorkers = master.arrWorkers /\ Begin.haltedWorkers = master.haltedWorkers
         /\ Begin.freeWorkers = master.freeWorkers /\ Begin.arrObjects = master.arrObjects
         /\ Begin.localRetries = master.localRetries /\ Begin.sends = [p \in Pid |-> <<>>]
<1>1. master \in Lists /\ FreeListIsSound /\ NoWorkWhileFree /\ JobsOnce
  BY DEF IInv, Types
<1>2. PICK none : none = [p \in Pid |-> <<>>]
  OBVIOUS
<1>3. none \in [Pid -> Seq(MasterMsg)] /\ \A p \in Pid : none[p] = <<>>
  <2>1. <<>> \in Seq(MasterMsg)
    BY EmptySeq
  <2> QED  BY <1>2, <2>1
<1>4. PICK b : b = Begin
  OBVIOUS
<1>5. b = [arrWorkers |-> master.arrWorkers, freeWorkers |-> master.freeWorkers,
           haltedWorkers |-> master.haltedWorkers, arrObjects |-> master.arrObjects,
           localRetries |-> master.localRetries, gettingSites |-> master.gettingSites,
           inRound |-> master.inRound, sends |-> none]
  BY <1>2, <1>4 DEF Begin
<1>6. /\ b \in Running
      /\ b.arrWorkers = master.arrWorkers /\ b.haltedWorkers = master.haltedWorkers
      /\ b.freeWorkers = master.freeWorkers /\ b.arrObjects = master.arrObjects
      /\ b.localRetries = master.localRetries /\ b.sends = none
  BY <1>1, <1>3, <1>5 DEF Lists, Running
<1>7. JobsIn(<<>>) = {} /\ Apart(<<>>)
  BY DEF JobsIn, Apart
<1>8. Local(b) = AtMaster /\ Held(b) = AtMaster
  BY <1>3, <1>6, <1>7 DEF Local, Held, AtMaster
<1>9. FreeSound(b) /\ JobsApart(b) /\ Drained(b)
  BY <1>1, <1>3, <1>6, <1>7
  DEF FreeSound, JobsApart, Drained, FreeListIsSound, NoWorkWhileFree, JobsOnce
<1> QED  BY <1>2, <1>4, <1>6, <1>8, <1>9 DEF Good

\* What Commit writes.
LEMMA CommitFields ==
  ASSUME Types, NEW r \in Running, Commit(r)
  PROVE  /\ master' \in Lists
         /\ master'.arrWorkers = r.arrWorkers /\ master'.haltedWorkers = r.haltedWorkers
         /\ master'.freeWorkers = r.freeWorkers /\ master'.arrObjects = r.arrObjects
         /\ master'.localRetries = r.localRetries
         /\ toWorker' \in [Pid -> Seq(MasterMsg)]
         /\ \A p \in Pid : toWorker'[p] = IF IsAlive(p) THEN toWorker[p] \o r.sends[p] ELSE <<>>
<1>1. master' = [arrWorkers |-> r.arrWorkers, freeWorkers |-> r.freeWorkers,
                 haltedWorkers |-> r.haltedWorkers, arrObjects |-> r.arrObjects,
                 localRetries |-> r.localRetries, gettingSites |-> r.gettingSites,
                 inRound |-> r.inRound]
  BY DEF Commit
<1>2. PICK l : l = master'
  OBVIOUS
<1>3. /\ l \in Lists
      /\ l.arrWorkers = r.arrWorkers /\ l.haltedWorkers = r.haltedWorkers
      /\ l.freeWorkers = r.freeWorkers /\ l.arrObjects = r.arrObjects
      /\ l.localRetries = r.localRetries
  BY <1>1, <1>2 DEF Lists, Running
<1>4. \A p \in Pid : toWorker[p] \in Seq(MasterMsg) /\ r.sends[p] \in Seq(MasterMsg)
  BY DEF Types, Running
<1>5. \A p \in Pid : Delivered(r, p) \in Seq(MasterMsg)
  BY <1>4, ConcatProperties, EmptySeq DEF Delivered
<1>6. toWorker' = [p \in Pid |-> Delivered(r, p)]
  BY DEF Commit
<1> QED  BY <1>2, <1>3, <1>5, <1>6 DEF Delivered

\* Jobs stay in one place if the handler takes those it adds from a channel,
\* or from the rows that were fetched.
LEMMA CommitJobs ==
  ASSUME IInv, NEW r, Good(r), Commit(r),
         fetched \in Nat, fetched' \in Nat, fetched <= fetched', done' = done,
         Held(r) \subseteq 1 .. fetched', Held(r) \cap done = {},
         \A p \in Pid : /\ workers'[p].owed \subseteq workers[p].owed
                        /\ Rechecks(toMaster'[p]) \subseteq Rechecks(toMaster[p])
                        /\ RechecksOnce(toMaster'[p])
                        /\ Held(r) \cap JobsIn(toWorker[p]) = {}
                        /\ Held(r) \cap workers'[p].owed = {}
                        /\ Held(r) \cap Rechecks(toMaster'[p]) = {}
  PROVE  JobsOnce'
<1>1. Types /\ JobsOnce /\ r \in Running /\ JobsApart(r)
  BY DEF IInv, Good
<1>2. /\ master'.arrObjects = r.arrObjects /\ master'.localRetries = r.localRetries
      /\ \A p \in Pid : toWorker'[p] = IF IsAlive(p) THEN toWorker[p] \o r.sends[p] ELSE <<>>
  BY <1>1, CommitFields
<1>3. AtMaster' = Local(r) /\ Local(r) \subseteq Held(r)
  BY <1>2 DEF AtMaster, Local, Held
<1>4. \A p \in Pid : toWorker[p] \in Seq(MasterMsg) /\ r.sends[p] \in Seq(MasterMsg)
  BY <1>1 DEF Types, Running
<1>5. \A p \in Pid : /\ JobsIn(r.sends[p]) \subseteq Held(r) /\ JobsIn(r.sends[p]) \cap Local(r) = {}
                     /\ Apart(r.sends[p])
                     /\ \A q \in Pid \ {p} : JobsIn(r.sends[p]) \cap JobsIn(r.sends[q]) = {}
  BY <1>1 DEF JobsApart, Held
<1>6. JobsIn(<<>>) = {} /\ Apart(<<>>)
  BY DEF JobsIn, Apart
<1>7. ASSUME NEW p \in Pid
      PROVE  /\ JobsIn(toWorker'[p]) \subseteq JobsIn(toWorker[p]) \cup JobsIn(r.sends[p])
             /\ Apart(toWorker'[p])
  <2>1. JobsIn(toWorker[p]) \cap JobsIn(r.sends[p]) = {} /\ Apart(toWorker[p])
    BY <1>1, <1>5 DEF JobsOnce
  <2>2. CASE IsAlive(p)
    BY <1>2, <1>4, <1>5, <2>1, <2>2, JobsConcat
  <2>3. CASE ~IsAlive(p)
    BY <1>2, <1>6, <2>3
  <2> QED  BY <2>2, <2>3
<1>8. \A p \in Pid : Out(p)' \subseteq Out(p) \cup JobsIn(r.sends[p])
  BY <1>7 DEF Out
<1>9. \A p \in Pid : Out(p)' \cap Local(r) = {}
  BY <1>3, <1>5, <1>7 DEF Out
<1>10. \A p \in Pid : Out(p)' \cap done = {} /\ Out(p)' \subseteq 1 .. fetched'
  <2>1. \A p \in Pid : Out(p) \cap done = {} /\ Out(p) \subseteq 1 .. fetched
    BY <1>1 DEF JobsOnce
  <2>2. 1 .. fetched \subseteq 1 .. fetched'
    OBVIOUS
  <2> QED  BY <1>5, <1>8, <2>1, <2>2
<1>11. \A p \in Pid : \A q \in Pid \ {p} : Out(p)' \cap Out(q)' = {}
  <2> SUFFICES ASSUME NEW p \in Pid, NEW q \in Pid \ {p} PROVE Out(p)' \cap Out(q)' = {}
    OBVIOUS
  <2>1. Out(p) \cap Out(q) = {} /\ JobsIn(r.sends[p]) \cap JobsIn(r.sends[q]) = {}
    BY <1>1, <1>5 DEF JobsOnce
  <2>2. \A x, y \in Pid : Out(x)' \cap JobsIn(r.sends[y]) \subseteq JobsIn(r.sends[x])
    BY <1>5, <1>7 DEF Out
  <2> QED  BY <1>8, <2>1, <2>2
<1>12. \A p \in Pid : /\ JobsIn(toWorker'[p]) \cap workers'[p].owed = {}
                      /\ JobsIn(toWorker'[p]) \cap Rechecks(toMaster'[p]) = {}
                      /\ workers'[p].owed \cap Rechecks(toMaster'[p]) = {}
  <2> SUFFICES ASSUME NEW p \in Pid
               PROVE  /\ JobsIn(toWorker'[p]) \cap workers'[p].owed = {}
                      /\ JobsIn(toWorker'[p]) \cap Rechecks(toMaster'[p]) = {}
                      /\ workers'[p].owed \cap Rechecks(toMaster'[p]) = {}
    OBVIOUS
  <2>1. /\ JobsIn(toWorker[p]) \cap workers[p].owed = {}
        /\ JobsIn(toWorker[p]) \cap Rechecks(toMaster[p]) = {}
        /\ workers[p].owed \cap Rechecks(toMaster[p]) = {}
    BY <1>1 DEF JobsOnce
  <2> QED  BY <1>5, <1>7, <2>1
<1>13. AtMaster' \cap done' = {} /\ AtMaster' \cup done' \subseteq 1 .. fetched'
  <2>1. done \subseteq 1 .. fetched
    BY <1>1 DEF JobsOnce
  <2>2. 1 .. fetched \subseteq 1 .. fetched'
    OBVIOUS
  <2> QED  BY <1>3, <2>1, <2>2
<1>14. IsInjective(master'.arrObjects) /\ ToSet(master'.arrObjects) \cap master'.localRetries = {}
  BY <1>1, <1>2 DEF JobsApart
<1> QED  BY <1>3, <1>7, <1>9, <1>10, <1>11, <1>12, <1>13, <1>14 DEF JobsOnce

\* A handler loses no job, unless it sends it to a worker that has exited.
LEMMA CommitLoses ==
  ASSUME IInv, NEW r, Good(r), Commit(r), AtMaster \subseteq Held(r),
         NEW taken, \A j \in taken : j \in Local(r) \/ \E p \in Pid : Duplicate(p, j),
         done' = done,
         \A q \in Pid \ master.arrWorkers : r.sends[q] = <<>>,
         \A q \in Pid : /\ workers[q].owed \subseteq workers'[q].owed
                        /\ Rechecks(toMaster[q]) \subseteq Rechecks(toMaster'[q]) \cup taken
  PROVE  NoneLost
<1>1. Types /\ GoneHoldsNothing /\ r \in Running
  BY DEF IInv, Good
<1>2. /\ master'.arrObjects = r.arrObjects /\ master'.localRetries = r.localRetries
      /\ \A q \in Pid : toWorker'[q] = IF IsAlive(q) THEN toWorker[q] \o r.sends[q] ELSE <<>>
  BY <1>1, CommitFields
<1>3. \A q \in Pid : toWorker[q] \in Seq(MasterMsg) /\ r.sends[q] \in Seq(MasterMsg)
  BY <1>1 DEF Types, Running
<1>4. AtMaster' = Local(r)
  BY <1>2 DEF AtMaster, Local
<1>5. \A q \in Pid : IsAlive(q) =>
        JobsIn(toWorker[q]) \cup JobsIn(r.sends[q]) \subseteq JobsIn(toWorker'[q])
  BY <1>2, <1>3, JobsConcat
<1>6. JobsIn(<<>>) = {}
  BY DEF JobsIn
<1>7. ASSUME NEW j, j \in AtMaster
      PROVE  j \in Anywhere' \/ \E p \in Pid : SentGone(p, j)
  <2>1. CASE j \in Local(r)
    BY <1>4, <2>1 DEF Anywhere
  <2>2. CASE j \notin Local(r)
    <3>1. PICK q \in Pid : j \in JobsIn(r.sends[q])
      BY <1>7, <2>2 DEF Held
    <3>2. q \in master.arrWorkers
      BY <1>6, <3>1
    <3>3. CASE IsAlive(q)
      <4>1. j \in Out(q)'
        BY <1>5, <3>1, <3>3 DEF Out
      <4> QED  BY <4>1 DEF Anywhere
    <3>4. CASE ~IsAlive(q)
      <4>1. SentGone(q, j)
        BY <1>7, <3>2, <3>4 DEF SentGone
      <4> QED  BY <4>1
    <3> QED  BY <3>3, <3>4
  <2> QED  BY <2>1, <2>2
<1>8. ASSUME NEW q \in Pid PROVE Out(q) \subseteq Out(q)' \cup taken
  <2>1. JobsIn(toWorker[q]) \subseteq JobsIn(toWorker'[q])
    BY <1>1, <1>5, <1>6 DEF GoneHoldsNothing
  <2> QED  BY <2>1 DEF Out
<1>9. \A j \in Anywhere : \/ j \in Anywhere' \/ j \in AtMaster
                         \/ \E p \in Pid : Duplicate(p, j)
  <2>1. \A j \in taken : j \in Anywhere' \/ \E p \in Pid : Duplicate(p, j)
    BY <1>4 DEF Anywhere
  <2> QED  BY <1>8, <2>1 DEF Anywhere
<1> QED  BY <1>7, <1>9 DEF NoneLost

\* A worker that does not change is not forgotten by the handler.
LEMMA CommitRemembers ==
  ASSUME Types, NEW r \in Running, Commit(r), NEW p \in Pid, IsAlive(p), NoneForgotten(p),
         workers'[p] = workers[p],
         workers[p].available /\ Pending(p) =>
           \/ toWorker[p] # <<>>
           \/ SendWork \in ToSet(toMaster'[p])
           \/ p \in ToSet(r.freeWorkers)
           \/ r.sends[p] # <<>>,
         p \in r.haltedWorkers \/ StopWork \in ToSet(toMaster'[p]) => Stopping(p)
  PROVE  NoneForgotten(p)'
<1>1. /\ master'.haltedWorkers = r.haltedWorkers /\ master'.freeWorkers = r.freeWorkers
      /\ toWorker'[p] = toWorker[p] \o r.sends[p]
      /\ toWorker[p] \in Seq(MasterMsg) /\ r.sends[p] \in Seq(MasterMsg)
  BY CommitFields DEF Types, Running
<1>2. toWorker[p] # <<>> \/ r.sends[p] # <<>> => toWorker'[p] # <<>>
  BY <1>1, ConcatEqualIffEmpty
<1>3. workers[p].available /\ Pending(p) => Pending(p)'
  BY <1>1, <1>2 DEF Pending
<1>4. Stopping(p)' => Stopping(p)
  BY <1>1 DEF Stopping
<1>5. workers[p].available \in BOOLEAN
  BY DEF Types, Process
<1> QED  BY <1>3, <1>4, <1>5 DEF NoneForgotten

TakenBack(msg) == IF msg.msgtype = "recheck" THEN {msg.server} ELSE {}

\* What the handler of each message leaves.
LEMMA MessageOutcome ==
  ASSUME IInv, NEW p \in Pid, NEW msg \in WorkerMsg, TakenBack(msg) \cap AtMaster = {}
  PROVE  LET r == workerMsgCallback(Begin, p, msg)
         IN  /\ Good(r) /\ Drained(r) /\ r.arrWorkers = master.arrWorkers
             /\ AtMaster \subseteq Held(r) /\ Held(r) \subseteq AtMaster \cup TakenBack(msg)
             /\ \A j \in TakenBack(msg) :
                  j \in Local(r) \/ \E k \in master.localRetries : site[k] = site[j]
             /\ r.haltedWorkers \subseteq master.haltedWorkers \cup IF msg = StopWork THEN {p} ELSE {}
             /\ \A q \in Pid \ master.arrWorkers : r.sends[q] = <<>>
             /\ \A q \in ToSet(master.freeWorkers) \cap master.arrWorkers :
                  q \in ToSet(r.freeWorkers) \/ r.sends[q] # <<>> \/ (msg = StopWork /\ q = p)
             /\ msg = SendWork /\ p \in master.arrWorkers =>
                  p \in ToSet(r.freeWorkers) \cup master.haltedWorkers \/ r.sends[p] # <<>>
<1>1. PICK m : m = Begin
  OBVIOUS
<1>2. /\ m \in Running /\ Good(m) /\ Drained(m) /\ Held(m) = AtMaster
      /\ m.arrWorkers = master.arrWorkers /\ m.haltedWorkers = master.haltedWorkers
      /\ m.freeWorkers = master.freeWorkers /\ m.localRetries = master.localRetries
      /\ \A q \in Pid : m.sends[q] = <<>>
  BY <1>1, BeginGood
<1>3. PICK r : r = workerMsgCallback(m, p, msg)
  OBVIOUS
<1>4. CASE msg.msgtype = "send_work"
  <2>1. r = sendWork(m, p) /\ TakenBack(msg) = {} /\ msg # StopWork
    BY <1>3, <1>4 DEF workerMsgCallback, TakenBack, StopWork
  <2>2. /\ Good(r) /\ Kept(m, r) /\ Drained(r)
        /\ p \in m.arrWorkers =>
             p \in ToSet(r.freeWorkers) \cup m.haltedWorkers \/ r.sends[p] # <<>>
    BY <1>2, <2>1, SendWorkStep
  <2> QED  BY <1>1, <1>2, <1>3, <2>1, <2>2 DEF Kept
<1>5. CASE msg.msgtype = "stop_work"
  <2>1. r = stopWork(m, p) /\ TakenBack(msg) = {} /\ msg # SendWork /\ msg = StopWork
    BY <1>3, <1>5, RecheckMsg DEF workerMsgCallback, TakenBack, SendWork
  <2>2. /\ Good(r) /\ Held(r) = Held(m) /\ Drained(r)
        /\ r.arrWorkers = m.arrWorkers /\ r.sends = m.sends
        /\ r.haltedWorkers \subseteq m.haltedWorkers \cup {p}
        /\ ToSet(m.freeWorkers) \ {p} \subseteq ToSet(r.freeWorkers)
    BY <1>2, <2>1, StopStep
  <2> QED  BY <1>1, <1>2, <1>3, <2>1, <2>2
<1>6. CASE msg.msgtype = "stats"
  <2>1. /\ r = stats(m, p, msg.left) /\ msg.left \in Nat
        /\ TakenBack(msg) = {} /\ msg # StopWork /\ msg # SendWork
    BY <1>3, <1>6, RecheckMsg DEF workerMsgCallback, TakenBack, SendWork, StopWork
  <2>2. Good(r) /\ Kept(m, r) /\ Drained(r)
    BY <1>2, <2>1, StatsStep
  <2> QED  BY <1>1, <1>2, <1>3, <2>1, <2>2 DEF Kept
<1>7. CASE msg.msgtype = "recheck"
  <2>1. /\ r = add_server_to_local_retries(m, msg.server) /\ msg.server \in Job
        /\ TakenBack(msg) = {msg.server} /\ msg # StopWork /\ msg # SendWork
    BY <1>3, <1>7, RecheckMsg DEF workerMsgCallback, TakenBack, SendWork, StopWork
  <2>2. msg.server \notin Held(m)
    BY <1>2, <2>1
  <2>3. /\ Good(r) /\ Drained(r)
        /\ Held(m) \subseteq Held(r) /\ Held(r) \subseteq Held(m) \cup {msg.server}
        /\ \/ msg.server \in Local(r)
           \/ \E k \in m.localRetries : site[k] = site[msg.server]
        /\ r.arrWorkers = m.arrWorkers /\ r.haltedWorkers = m.haltedWorkers
        /\ r.freeWorkers = m.freeWorkers /\ r.sends = m.sends
    BY <1>2, <2>1, <2>2, RecheckStep
  <2> QED  BY <1>1, <1>2, <1>3, <2>1, <2>3
<1> QED  BY <1>4, <1>5, <1>6, <1>7, RecheckMsg

\* Handling a message.
LEMMA MessageStep ==
  ASSUME IInv, NEW p \in Pid, HandleMessage(p)
  PROVE  IInv' /\ NoneLost /\ master'.arrWorkers = master.arrWorkers
<1> DEFINE msg == Head(toMaster[p])
<1>1. /\ Types /\ GoneHoldsNothing /\ Remembered /\ JobsOnce
      /\ toMaster \in [Pid -> Seq(WorkerMsg)]
  BY DEF IInv, Types
<1>2. /\ toMaster[p] # <<>> /\ toMaster' = [toMaster EXCEPT ![p] = Tail(@)]
      /\ UNCHANGED <<numWorkers, fetched, workers, rechecked, done, incidents>>
      /\ Commit(workerMsgCallback(Begin, p, msg))
  BY DEF HandleMessage
<1>3. /\ msg \in WorkerMsg /\ Tail(toMaster[p]) \in Seq(WorkerMsg)
      /\ \A x \in ToSet(toMaster[p]) : x = msg \/ x \in ToSet(Tail(toMaster[p]))
      /\ ToSet(Tail(toMaster[p])) \subseteq ToSet(toMaster[p]) /\ msg \in ToSet(toMaster[p])
      /\ Rechecks(Tail(toMaster[p])) \subseteq Rechecks(toMaster[p])
      /\ Rechecks(toMaster[p]) \subseteq Rechecks(Tail(toMaster[p])) \cup TakenBack(msg)
      /\ RechecksOnce(Tail(toMaster[p]))
      /\ TakenBack(msg) \subseteq Rechecks(toMaster[p]) \ Rechecks(Tail(toMaster[p]))
  <2>1. toMaster[p] \in Seq(WorkerMsg) /\ RechecksOnce(toMaster[p])
    BY <1>1 DEF JobsOnce
  <2>2. \A j \in Rechecks(toMaster[p]) : j \in Rechecks(Tail(toMaster[p])) \/ msg = recheck(j)
    BY <1>2, <2>1, RechecksTail
  <2>3. \A j \in Rechecks(toMaster[p]) : msg = recheck(j) => j \in TakenBack(msg)
    BY RecheckMsg DEF TakenBack, Rechecks
  <2> QED  BY <1>2, <2>1, <2>2, <2>3, TailAt, RechecksTail DEF TakenBack
<1>4. toMaster'[p] = Tail(toMaster[p]) /\ \A q \in Pid \ {p} : toMaster'[q] = toMaster[q]
  BY <1>1, <1>2
<1>5. TakenBack(msg) \cap AtMaster = {}
  BY <1>1, <1>3 DEF JobsOnce, Out
<1> HIDE DEF msg
<1>6. PICK r : r = workerMsgCallback(Begin, p, msg)
  OBVIOUS
<1>7. /\ Good(r) /\ Drained(r) /\ r.arrWorkers = master.arrWorkers
      /\ AtMaster \subseteq Held(r) /\ Held(r) \subseteq AtMaster \cup TakenBack(msg)
      /\ \A j \in TakenBack(msg) :
           j \in Local(r) \/ \E k \in master.localRetries : site[k] = site[j]
      /\ r.haltedWorkers \subseteq master.haltedWorkers \cup IF msg = StopWork THEN {p} ELSE {}
      /\ \A q \in ToSet(master.freeWorkers) \cap master.arrWorkers :
           q \in ToSet(r.freeWorkers) \/ r.sends[q] # <<>> \/ (msg = StopWork /\ q = p)
      /\ msg = SendWork /\ p \in master.arrWorkers =>
           p \in ToSet(r.freeWorkers) \cup master.haltedWorkers \/ r.sends[p] # <<>>
      /\ \A q \in Pid \ master.arrWorkers : r.sends[q] = <<>>
      /\ r \in Running /\ Commit(r)
  BY <1>2, <1>3, <1>5, <1>6, MessageOutcome DEF Good
<1>8. /\ master' \in Lists
      /\ master'.arrWorkers = r.arrWorkers /\ master'.haltedWorkers = r.haltedWorkers
      /\ master'.freeWorkers = r.freeWorkers /\ master'.arrObjects = r.arrObjects
      /\ toWorker' \in [Pid -> Seq(MasterMsg)]
      /\ \A q \in Pid : ~IsAlive(q) => toWorker'[q] = <<>>
  BY <1>1, <1>7, CommitFields
<1>9. Types'
  <2>1. toMaster' \in [Pid -> Seq(WorkerMsg)]
    BY <1>1, <1>2, <1>3
  <2> QED  BY <1>1, <1>2, <1>8, <2>1 DEF Types
<1>10. FreeListIsSound' /\ NoWorkWhileFree'
  BY <1>7, <1>8 DEF Good, FreeSound, Drained, FreeListIsSound, NoWorkWhileFree
<1>11. GoneHoldsNothing'
  BY <1>1, <1>2, <1>7, <1>8 DEF GoneHoldsNothing, IsAlive
<1>12. Remembered'
  <2> SUFFICES ASSUME NEW q \in Pid, IsAlive(q)' PROVE NoneForgotten(q)'
    BY DEF Remembered
  <2>1. IsAlive(q) /\ workers'[q] = workers[q] /\ NoneForgotten(q) /\ q \in master.arrWorkers
    BY <1>1, <1>2 DEF IsAlive, Remembered, GoneHoldsNothing
  <2>2. ASSUME workers[q].available, Pending(q)
        PROVE  \/ toWorker[q] # <<>>
               \/ SendWork \in ToSet(toMaster'[q])
               \/ q \in ToSet(r.freeWorkers)
               \/ r.sends[q] # <<>>
    <3>1. q \notin master.haltedWorkers /\ StopWork \notin ToSet(toMaster[q])
      BY <2>1, <2>2 DEF NoneForgotten, Stopping
    <3>2. CASE q \in ToSet(master.freeWorkers)
      BY <1>3, <1>7, <2>1, <3>1, <3>2
    <3>3. CASE SendWork \in ToSet(toMaster[q])
      BY <1>3, <1>4, <1>7, <2>1, <3>1, <3>3
    <3> QED  BY <2>2, <3>2, <3>3 DEF Pending
  <2>3. q \in r.haltedWorkers \/ StopWork \in ToSet(toMaster'[q]) => Stopping(q)
    <3>1. q \in r.haltedWorkers => q \in master.haltedWorkers \/ (msg = StopWork /\ q = p)
      BY <1>7
    <3> QED  BY <1>3, <1>4, <3>1 DEF Stopping
  <2> QED  BY <1>1, <1>7, <2>1, <2>2, <2>3, CommitRemembers
<1>13. JobsOnce'
  <2>1. /\ fetched \in Nat /\ fetched' = fetched /\ done' = done /\ workers' = workers
    BY <1>1, <1>2 DEF Types
  <2>2. /\ AtMaster \subseteq 1 .. fetched /\ AtMaster \cap done = {}
        /\ \A q \in Pid : Out(q) \subseteq 1 .. fetched /\ Out(q) \cap done = {}
                          /\ Out(q) \cap AtMaster = {} /\ RechecksOnce(toMaster[q])
                          /\ JobsIn(toWorker[q]) \cap Rechecks(toMaster[q]) = {}
                          /\ workers[q].owed \cap Rechecks(toMaster[q]) = {}
                          /\ \A x \in Pid \ {q} : Out(q) \cap Out(x) = {}
    BY <1>1 DEF JobsOnce
  <2>3. TakenBack(msg) \subseteq Out(p) /\ \A q \in Pid \ {p} : TakenBack(msg) \cap Out(q) = {}
    BY <1>3, <2>2 DEF Out
  <2>4. Held(r) \subseteq 1 .. fetched /\ Held(r) \cap done = {}
    BY <1>7, <2>2, <2>3
  <2>5. \A q \in Pid : /\ Rechecks(toMaster'[q]) \subseteq Rechecks(toMaster[q])
                       /\ RechecksOnce(toMaster'[q])
    BY <1>3, <1>4, <2>2
  <2>6. \A q \in Pid : TakenBack(msg) \cap JobsIn(toWorker[q]) = {}
    BY <1>3, <2>2, <2>3 DEF Out
  <2>7. \A q \in Pid : TakenBack(msg) \cap workers[q].owed = {}
    BY <1>3, <2>2, <2>3 DEF Out
  <2>8. \A q \in Pid : TakenBack(msg) \cap Rechecks(toMaster'[q]) = {}
    BY <1>3, <1>4, <2>3, <2>5 DEF Out
  <2>9. \A q \in Pid : /\ Held(r) \cap JobsIn(toWorker[q]) = {}
                       /\ Held(r) \cap workers[q].owed = {}
                       /\ Held(r) \cap Rechecks(toMaster'[q]) = {}
    BY <1>7, <2>2, <2>5, <2>6, <2>7, <2>8 DEF Out
  <2> QED  BY <1>7, <2>1, <2>4, <2>5, <2>9, CommitJobs
<1>14. NoneLost
  <2>1. \A q \in Pid : Rechecks(toMaster[q]) \subseteq Rechecks(toMaster'[q]) \cup TakenBack(msg)
    BY <1>3, <1>4
  <2>2. \A j \in TakenBack(msg) : j \in Local(r) \/ \E q \in Pid : Duplicate(q, j)
    BY <1>3, <1>7 DEF Duplicate
  <2> QED  BY <1>2, <1>7, <2>1, <2>2, CommitLoses
<1> QED  BY <1>7, <1>8, <1>9, <1>10, <1>11, <1>12, <1>13, <1>14 DEF IInv

\* Dead processes leave the pool, and pids that nobody uses join it.
LEMMA ForkStep ==
  ASSUME IInv, NEW m, Good(m), Drained(m), Held(m) = AtMaster,
         m.sends = [p \in Pid |-> <<>>],
         NEW gone \in SUBSET Pid, \A p \in gone : ~IsAlive(p),
         m.arrWorkers = master.arrWorkers \ gone, m.haltedWorkers \subseteq master.haltedWorkers,
         ToSet(m.freeWorkers) = ToSet(master.freeWorkers) \ gone,
         NEW new \in SUBSET Reusable(m), Fork(m, new)
  PROVE  IInv' /\ NoneLost /\ master'.arrWorkers = m.arrWorkers \cup new
<1>1. Types /\ GoneHoldsNothing /\ Remembered /\ JobsOnce
  BY DEF IInv
<1>2. PICK r : r = FoldSet(LAMBDA p, acc : spawnWorker(acc, p), m, new)
  OBVIOUS
<1>3. /\ UNCHANGED <<numWorkers, fetched, toMaster, rechecked, done, incidents>>
      /\ workers' = [p \in Pid |-> IF p \in new THEN FreshWorker ELSE workers[p]]
      /\ Commit(r)
  BY <1>2 DEF Fork
<1>4. new \in SUBSET Pid /\ \A p \in new : ~IsAlive(p) /\ toMaster[p] = <<>>
  BY DEF Reusable
<1>5. /\ Good(r) /\ Held(r) = AtMaster /\ Drained(r) /\ r \in Running
      /\ r.arrWorkers = m.arrWorkers \cup new /\ r.haltedWorkers = m.haltedWorkers \ new
      /\ ToSet(r.freeWorkers) = ToSet(m.freeWorkers) \ new
      /\ \A p \in Pid : r.sends[p] = <<>>
  <2>1. /\ Good(r) /\ Held(r) = Held(m) /\ (Drained(m) => Drained(r))
        /\ r.arrWorkers = m.arrWorkers \cup new /\ r.haltedWorkers = m.haltedWorkers \ new
        /\ ToSet(r.freeWorkers) = ToSet(m.freeWorkers) \ new /\ r.sends = m.sends
    <3>1. Good(m) /\ new \in SUBSET Pid
      BY <1>4
    <3>2. Spawned(m, new, r)
      BY <1>2, <3>1, SpawnAll
    <3> QED  BY <3>2 DEF Spawned
  <2>2. r \in Running
    BY <2>1 DEF Good
  <2>3. \A p \in Pid : r.sends[p] = <<>>
    BY <2>1
  <2> QED  BY <2>1, <2>2, <2>3
<1>6. /\ master' \in Lists
      /\ master'.arrWorkers = r.arrWorkers /\ master'.haltedWorkers = r.haltedWorkers
      /\ master'.freeWorkers = r.freeWorkers /\ master'.arrObjects = r.arrObjects
      /\ toWorker' \in [Pid -> Seq(MasterMsg)]
      /\ \A q \in Pid : ~IsAlive(q) => toWorker'[q] = <<>>
  BY <1>1, <1>3, <1>5, CommitFields
<1>7. /\ FreshWorker \in Process /\ FreshWorker.owed = {} /\ FreshWorker.exit = Alive
      /\ FreshWorker.askTimer /\ FreshWorker.available /\ ~FreshWorker.asked
  BY DEF FreshWorker, Process, ExitCode, Alive
<1>8. /\ \A p \in new : workers'[p] = FreshWorker
      /\ \A p \in Pid \ new : workers'[p] = workers[p]
  BY <1>3, <1>4
<1>9. Types'
  <2>1. workers' \in [Pid -> Process]
    BY <1>1, <1>3, <1>7 DEF Types
  <2> QED  BY <1>1, <1>3, <1>6, <2>1 DEF Types
<1>10. FreeListIsSound' /\ NoWorkWhileFree'
  BY <1>5, <1>6 DEF Good, FreeSound, Drained, FreeListIsSound, NoWorkWhileFree
<1>11. GoneHoldsNothing'
  <2> SUFFICES ASSUME NEW p \in Pid
               PROVE  IF IsAlive(p)' THEN p \in master'.arrWorkers
                      ELSE workers'[p].owed = {} /\ toWorker'[p] = <<>>
    BY DEF GoneHoldsNothing
  <2>1. CASE p \in new
    BY <1>5, <1>6, <1>7, <1>8, <2>1 DEF IsAlive
  <2>2. CASE p \notin new
    <3>1. IsAlive(p)' <=> IsAlive(p)
      BY <1>8, <2>2 DEF IsAlive
    <3>2. IsAlive(p) => p \in r.arrWorkers
      BY <1>1, <1>5 DEF GoneHoldsNothing
    <3> QED  BY <1>1, <1>6, <1>8, <2>2, <3>1, <3>2 DEF GoneHoldsNothing
  <2> QED  BY <2>1, <2>2
<1>12. Remembered'
  <2> SUFFICES ASSUME NEW p \in Pid, IsAlive(p)' PROVE NoneForgotten(p)'
    BY DEF Remembered
  <2>1. CASE p \in new
    <3>1. workers'[p] = FreshWorker /\ toMaster'[p] = <<>> /\ p \notin master'.haltedWorkers
      BY <1>3, <1>4, <1>5, <1>6, <1>8, <2>1
    <3>2. ToSet(toMaster'[p]) = {}
      BY <3>1 DEF ToSet
    <3> QED  BY <1>7, <3>1, <3>2 DEF NoneForgotten, Stopping
  <2>2. CASE p \notin new
    <3>1. IsAlive(p) /\ NoneForgotten(p) /\ workers'[p] = workers[p] /\ toMaster'[p] = toMaster[p]
      BY <1>1, <1>3, <1>8, <2>2 DEF IsAlive, Remembered
    <3>2. p \in ToSet(master.freeWorkers) => p \in ToSet(r.freeWorkers)
      BY <1>5, <2>2, <3>1
    <3>3. p \in r.haltedWorkers \/ StopWork \in ToSet(toMaster'[p]) => Stopping(p)
      BY <1>5, <3>1 DEF Stopping
    <3>4. workers[p].available /\ Pending(p) =>
            \/ toWorker[p] # <<>>
            \/ SendWork \in ToSet(toMaster'[p])
            \/ p \in ToSet(r.freeWorkers)
            \/ r.sends[p] # <<>>
      BY <3>1, <3>2 DEF Pending
    <3> QED  BY <1>1, <1>3, <1>5, <3>1, <3>3, <3>4, CommitRemembers
  <2> QED  BY <2>1, <2>2
<1>13. JobsOnce'
  <2>1. /\ fetched \in Nat /\ fetched' = fetched /\ done' = done /\ toMaster' = toMaster
    BY <1>1, <1>3 DEF Types
  <2>2. \A p \in Pid : workers'[p].owed \subseteq workers[p].owed
    BY <1>4, <1>7, <1>8
  <2>3. /\ AtMaster \subseteq 1 .. fetched /\ AtMaster \cap done = {}
        /\ \A q \in Pid : Out(q) \cap AtMaster = {} /\ RechecksOnce(toMaster[q])
    BY <1>1 DEF JobsOnce
  <2>4. \A q \in Pid : /\ Held(r) \cap JobsIn(toWorker[q]) = {}
                       /\ Held(r) \cap workers'[q].owed = {}
                       /\ Held(r) \cap Rechecks(toMaster'[q]) = {}
    BY <1>5, <2>1, <2>2, <2>3 DEF Out
  <2>5. \A q \in Pid : /\ workers'[q].owed \subseteq workers[q].owed
                       /\ Rechecks(toMaster'[q]) \subseteq Rechecks(toMaster[q])
                       /\ RechecksOnce(toMaster'[q])
                       /\ Held(r) \cap JobsIn(toWorker[q]) = {}
                       /\ Held(r) \cap workers'[q].owed = {}
                       /\ Held(r) \cap Rechecks(toMaster'[q]) = {}
    BY <2>1, <2>2, <2>3, <2>4
  <2>6. Held(r) \subseteq 1 .. fetched' /\ Held(r) \cap done = {} /\ fetched <= fetched'
    BY <1>5, <2>1, <2>3
  <2> QED  BY <1>3, <1>5, <2>1, <2>5, <2>6, CommitJobs
<1>14. NoneLost
  <2>1. done' = done /\ toMaster' = toMaster
    BY <1>3
  <2>2. \A p \in Pid : workers[p].owed \subseteq workers'[p].owed
    BY <1>1, <1>4, <1>8 DEF GoneHoldsNothing
  <2> QED  BY <1>3, <1>5, <2>1, <2>2, CommitLoses
<1> QED  BY <1>5, <1>6, <1>9, <1>10, <1>11, <1>12, <1>13, <1>14 DEF IInv

\* A handler that changes only the master's lists and sends.
LEMMA KeptCommit ==
  ASSUME IInv, NEW r, Good(r), Drained(r), Commit(r),
         r.arrWorkers = master.arrWorkers, r.haltedWorkers = master.haltedWorkers,
         \A q \in ToSet(master.freeWorkers) \cap master.arrWorkers :
           q \in ToSet(r.freeWorkers) \/ r.sends[q] # <<>>,
         \A q \in Pid \ master.arrWorkers : r.sends[q] = <<>>,
         UNCHANGED <<workers, toMaster, rechecked, done>>,
         numWorkers' \in NumWorkers, incidents' \in Nat,
         fetched' \in 0 .. Cardinality(Job), fetched <= fetched',
         AtMaster \subseteq Held(r),
         Held(r) \subseteq AtMaster \cup (fetched + 1 .. fetched')
  PROVE  IInv' /\ NoneLost /\ master'.arrWorkers = master.arrWorkers
<1>1. Types /\ GoneHoldsNothing /\ Remembered /\ JobsOnce
  BY DEF IInv
<1>2. r \in Running /\ workers' = workers /\ toMaster' = toMaster /\ done' = done
  BY DEF Good
<1>3. /\ master' \in Lists
      /\ master'.arrWorkers = r.arrWorkers /\ master'.haltedWorkers = r.haltedWorkers
      /\ master'.freeWorkers = r.freeWorkers /\ master'.arrObjects = r.arrObjects
      /\ toWorker' \in [Pid -> Seq(MasterMsg)]
      /\ \A q \in Pid : ~IsAlive(q) => toWorker'[q] = <<>>
  BY <1>1, <1>2, CommitFields
<1>4. Types'
  BY <1>1, <1>3 DEF Types
<1>5. FreeListIsSound' /\ NoWorkWhileFree'
  BY <1>3 DEF Good, FreeSound, Drained, FreeListIsSound, NoWorkWhileFree
<1>6. GoneHoldsNothing'
  BY <1>1, <1>2, <1>3 DEF GoneHoldsNothing, IsAlive
<1>7. Remembered'
  <2> SUFFICES ASSUME NEW p \in Pid, IsAlive(p)' PROVE NoneForgotten(p)'
    BY DEF Remembered
  <2>1. IsAlive(p) /\ NoneForgotten(p) /\ p \in master.arrWorkers
    BY <1>1, <1>2 DEF IsAlive, Remembered, GoneHoldsNothing
  <2>2. p \in r.haltedWorkers \/ StopWork \in ToSet(toMaster'[p]) => Stopping(p)
    BY <1>2 DEF Stopping
  <2>3. workers[p].available /\ Pending(p) =>
          \/ toWorker[p] # <<>>
          \/ SendWork \in ToSet(toMaster'[p])
          \/ p \in ToSet(r.freeWorkers)
          \/ r.sends[p] # <<>>
    BY <1>2, <2>1 DEF Pending
  <2> QED  BY <1>1, <1>2, <2>1, <2>2, <2>3, CommitRemembers
<1>8. JobsOnce'
  <2>1. fetched \in Nat /\ fetched' \in Nat
    BY <1>1, PoolAssumption, FS_CardinalityType DEF Types
  <2>2. /\ AtMaster \subseteq 1 .. fetched /\ AtMaster \cap done = {} /\ done \subseteq 1 .. fetched
        /\ \A q \in Pid : /\ Out(q) \cap AtMaster = {} /\ RechecksOnce(toMaster[q])
                          /\ Out(q) \subseteq 1 .. fetched
    BY <1>1 DEF JobsOnce
  <2>3. PICK rows : rows = fetched + 1 .. fetched'
    OBVIOUS
  <2>4. rows \cap (1 .. fetched) = {} /\ rows \subseteq 1 .. fetched' /\ 1 .. fetched \subseteq 1 .. fetched'
    BY <2>1, <2>3
  <2>5. Held(r) \subseteq AtMaster \cup rows
    BY <2>3
  <2>6. Held(r) \subseteq 1 .. fetched' /\ Held(r) \cap done = {}
    BY <2>2, <2>4, <2>5
  <2>7. \A q \in Pid : Held(r) \cap Out(q) = {}
    BY <2>2, <2>4, <2>5
  <2>8. \A q \in Pid : /\ Held(r) \cap JobsIn(toWorker[q]) = {}
                       /\ Held(r) \cap workers[q].owed = {}
                       /\ Held(r) \cap Rechecks(toMaster[q]) = {}
    BY <2>7 DEF Out
  <2>9. \A q \in Pid : /\ workers'[q].owed \subseteq workers[q].owed
                       /\ Rechecks(toMaster'[q]) \subseteq Rechecks(toMaster[q])
                       /\ RechecksOnce(toMaster'[q])
                       /\ Held(r) \cap JobsIn(toWorker[q]) = {}
                       /\ Held(r) \cap workers'[q].owed = {}
                       /\ Held(r) \cap Rechecks(toMaster'[q]) = {}
    BY <1>2, <2>2, <2>8
  <2>10. fetched <= fetched'
    OBVIOUS
  <2> QED  BY <1>2, <2>1, <2>6, <2>9, <2>10, CommitJobs
<1>9. NoneLost
  BY <1>2, CommitLoses
<1> QED  BY <1>3, <1>4, <1>5, <1>6, <1>7, <1>8, <1>9 DEF IInv

\* The exit handler replaces the process at most.
LEMMA ExitStep ==
  ASSUME IInv, NEW p \in Pid, HandleExit(p)
  PROVE  IInv' /\ NoneLost
<1>1. PICK m : m = deleteWorker(Begin, p)
  OBVIOUS
<1>2. /\ p \in master.arrWorkers /\ ~IsAlive(p)
      /\ Fork(m, {}) \/ \E q \in Reusable(m) : Fork(m, {q})
  BY <1>1 DEF HandleExit
<1>3. PICK b : b = Begin
  OBVIOUS
<1>4. /\ Good(b) /\ Drained(b) /\ Held(b) = AtMaster
      /\ b.arrWorkers = master.arrWorkers /\ b.haltedWorkers = master.haltedWorkers
      /\ b.freeWorkers = master.freeWorkers /\ b.sends = [q \in Pid |-> <<>>]
  BY <1>3, BeginGood
<1>5. /\ Good(m) /\ Held(m) = AtMaster /\ Drained(m)
      /\ m.arrWorkers = master.arrWorkers \ {p} /\ m.haltedWorkers \subseteq master.haltedWorkers
      /\ ToSet(m.freeWorkers) = ToSet(master.freeWorkers) \ {p}
      /\ m.sends = [q \in Pid |-> <<>>]
  <2>1. m = deleteWorker(b, p) /\ p \in Pid
    BY <1>1, <1>3
  <2>2. /\ Good(m) /\ Held(m) = Held(b) /\ (Drained(b) => Drained(m))
        /\ m.arrWorkers = b.arrWorkers \ {p} /\ m.haltedWorkers = b.haltedWorkers \ {p}
        /\ ToSet(m.freeWorkers) = ToSet(b.freeWorkers) \ {p} /\ m.sends = b.sends
    <3>1. Deleted(b, p, m)
      BY <1>4, <2>1, DeleteStep
    <3> QED  BY <3>1 DEF Deleted
  <2> QED  BY <1>4, <2>2
<1>6. PICK new \in SUBSET Reusable(m) : Fork(m, new)
  BY <1>2
<1>7. {p} \in SUBSET Pid /\ \A x \in {p} : ~IsAlive(x)
  BY <1>2
<1> QED  BY <1>5, <1>6, <1>7, ForkStep

\* The periodic count fills the pool up to NUM_WORKERS.
LEMMA EnsureStep ==
  ASSUME IInv, ensure_worker_count
  PROVE  IInv' /\ NoneLost
<1>1. PICK b : b = Begin
  OBVIOUS
<1>2. /\ Good(b) /\ Drained(b) /\ Held(b) = AtMaster
      /\ b.arrWorkers = master.arrWorkers /\ b.haltedWorkers = master.haltedWorkers
      /\ b.freeWorkers = master.freeWorkers /\ b.sends = [q \in Pid |-> <<>>]
  BY <1>1, BeginGood
<1>3. Reusable(master) = Reusable(b)
  BY <1>2 DEF Reusable
<1>4. PICK new \in SUBSET Reusable(master) : Fork(b, new)
  BY <1>1 DEF ensure_worker_count
<1>5. PICK gone \in SUBSET Pid : gone = {}
  OBVIOUS
<1>6. /\ \A p \in gone : ~IsAlive(p)
      /\ b.arrWorkers = master.arrWorkers \ gone
      /\ ToSet(b.freeWorkers) = ToSet(master.freeWorkers) \ gone
      /\ b.haltedWorkers \subseteq master.haltedWorkers
  BY <1>2, <1>5
<1> QED  BY <1>2, <1>3, <1>4, <1>6, ForkStep

\* The next rows are new jobs, each of them once.
LEMMA RowsFresh ==
  ASSUME fetched \in Nat, NEW n \in Nat, fetched + n \in Job
  PROVE  /\ nextRows(n) \in Seq(Job) /\ IsInjective(nextRows(n))
         /\ ToSet(nextRows(n)) = fetched + 1 .. fetched + n
<1>1. PICK top \in Nat : Job = 1 .. top
  BY PoolAssumption, FS_CardinalityType
<1>2. PICK rows : rows = nextRows(n)
  OBVIOUS
<1>3. DOMAIN rows = 1 .. n /\ \A i \in 1 .. n : rows[i] = fetched + i
  BY <1>2 DEF nextRows
<1>4. \A i \in 1 .. n : fetched + i \in Job
  BY <1>1
<1>5. rows \in [1 .. n -> Job]
  BY <1>2, <1>4 DEF nextRows
<1>6. rows \in Seq(Job)
  BY <1>5, SeqDef
<1>7. IsInjective(rows)
  BY <1>3 DEF IsInjective
<1>8. ToSet(rows) = fetched + 1 .. fetched + n
  <2>1. ToSet(rows) \subseteq fetched + 1 .. fetched + n
    BY <1>3 DEF ToSet
  <2>2. ASSUME NEW j \in fetched + 1 .. fetched + n PROVE j \in ToSet(rows)
    <3>1. j - fetched \in 1 .. n /\ fetched + (j - fetched) = j
      OBVIOUS
    <3> QED  BY <1>3, <3>1 DEF ToSet
  <2> QED  BY <2>1, <2>2
<1> QED  BY <1>2, <1>6, <1>7, <1>8

\* The rows join the queue, and the free workers ask again.
LEMMA RowsStep ==
  ASSUME IInv, NEW n \in Nat, RowsArrive(n)
  PROVE  IInv' /\ NoneLost /\ master'.arrWorkers = master.arrWorkers
<1>1. PICK rows : rows = nextRows(n)
  OBVIOUS
<1>2. PICK b : b = [Begin EXCEPT !.arrObjects = @ \o rows, !.gettingSites = FALSE]
  OBVIOUS
<1>3. PICK r : r = freeWorkersToWork(b)
  OBVIOUS
<1>4. /\ fetched + n \in Job /\ fetched' = fetched + n
      /\ UNCHANGED <<numWorkers, workers, toMaster, rechecked, done, incidents>>
      /\ Commit(r)
  BY <1>1, <1>2, <1>3 DEF RowsArrive
<1>5. Types /\ JobsOnce /\ fetched \in Nat
  BY DEF IInv, Types
<1>6. rows \in Seq(Job) /\ IsInjective(rows) /\ ToSet(rows) = fetched + 1 .. fetched + n
  BY <1>1, <1>4, <1>5, RowsFresh
<1>7. ToSet(rows) \cap (1 .. fetched) = {}
  BY <1>5, <1>6
<1>8. PICK m : m = Begin
  OBVIOUS
<1>9. /\ m \in Running /\ Good(m) /\ Held(m) = AtMaster
      /\ m.arrWorkers = master.arrWorkers /\ m.haltedWorkers = master.haltedWorkers
      /\ m.freeWorkers = master.freeWorkers /\ m.arrObjects = master.arrObjects
      /\ m.localRetries = master.localRetries /\ \A p \in Pid : m.sends[p] = <<>>
  BY <1>8, BeginGood
<1>10. AtMaster \subseteq 1 .. fetched
  BY <1>5 DEF JobsOnce
<1>11. PICK objects : objects = m.arrObjects \o rows
  OBVIOUS
<1>12. m.arrObjects \in Seq(Job)
  BY <1>9 DEF Running
<1>13. objects \in Seq(Job)
  BY <1>6, <1>11, <1>12, ConcatProperties
<1>14. b = [m EXCEPT !.arrObjects = objects, !.gettingSites = FALSE]
  BY <1>2, <1>8, <1>9, <1>11 DEF Running
<1>15. /\ b \in Running /\ b.arrObjects = objects /\ b.sends = m.sends
       /\ b.arrWorkers = m.arrWorkers /\ b.haltedWorkers = m.haltedWorkers
       /\ b.freeWorkers = m.freeWorkers /\ b.localRetries = m.localRetries
  BY <1>9, <1>13, <1>14 DEF Running
<1>16. /\ ToSet(objects) = ToSet(m.arrObjects) \cup ToSet(rows)
       /\ IsInjective(m.arrObjects) /\ ToSet(m.arrObjects) \cap ToSet(rows) = {}
            => IsInjective(objects)
  <2>1. PICK s : s = m.arrObjects
    OBVIOUS
  <2>2. s \in Seq(Job) /\ rows \in Seq(Job) /\ objects = s \o rows
    BY <1>6, <1>11, <1>12, <2>1
  <2>3. /\ ToSet(s \o rows) = ToSet(s) \cup ToSet(rows)
        /\ IsInjective(s) /\ IsInjective(rows) /\ ToSet(s) \cap ToSet(rows) = {}
             => IsInjective(s \o rows)
    BY <2>2, ConcatSet
  <2> QED  BY <1>6, <2>1, <2>2, <2>3
<1>17. Local(b) = AtMaster \cup ToSet(rows) /\ Held(b) = AtMaster \cup ToSet(rows)
  <2>1. \A p \in Pid : JobsIn(b.sends[p]) = {}
    BY <1>9, <1>15 DEF JobsIn
  <2>2. Local(b) = AtMaster \cup ToSet(rows)
    BY <1>9, <1>15, <1>16 DEF Local, AtMaster
  <2> QED  BY <2>1, <2>2 DEF Held
<1>18. Good(b)
  <2>1. FreeSound(b)
    BY <1>9, <1>15 DEF Good, FreeSound
  <2>2. IsInjective(b.arrObjects) /\ ToSet(b.arrObjects) \cap b.localRetries = {}
    BY <1>5, <1>7, <1>9, <1>10, <1>15, <1>16 DEF JobsOnce, AtMaster
  <2>3. \A p \in Pid : JobsIn(b.sends[p]) = {} /\ Apart(b.sends[p])
    BY <1>9, <1>15 DEF JobsIn, Apart
  <2>4. JobsApart(b)
    BY <2>2, <2>3 DEF JobsApart
  <2> QED  BY <1>15, <2>1, <2>4 DEF Good
<1>19. Good(r) /\ Kept(b, r) /\ Drained(r)
  BY <1>3, <1>18, FreeWorkersStep
<1>20. /\ r.arrWorkers = master.arrWorkers /\ r.haltedWorkers = master.haltedWorkers
       /\ \A q \in ToSet(master.freeWorkers) \cap master.arrWorkers :
            q \in ToSet(r.freeWorkers) \/ r.sends[q] # <<>>
       /\ \A q \in Pid \ master.arrWorkers : r.sends[q] = <<>>
       /\ Held(r) = AtMaster \cup (fetched + 1 .. fetched')
  BY <1>4, <1>6, <1>9, <1>15, <1>17, <1>19 DEF Kept
<1>21. fetched' \in 0 .. Cardinality(Job) /\ fetched <= fetched'
  BY <1>4, <1>5, PoolAssumption, FS_CardinalityType
<1>22. numWorkers' \in NumWorkers /\ incidents' \in Nat
  BY <1>4, <1>5 DEF Types
<1> QED  BY <1>4, <1>19, <1>20, <1>21, <1>22, KeptCommit

\* Going on to the next query changes the flags of the round alone.
LEMMA GoOnStep ==
  ASSUME IInv, GoOnGettingSites
  PROVE  IInv' /\ NoneLost /\ master'.arrWorkers = master.arrWorkers
<1>1. PICK m : m = Begin
  OBVIOUS
<1>2. PICK r : r = getMoreSites(m)
  OBVIOUS
<1>3. /\ m \in Running /\ Good(m) /\ Drained(m) /\ Held(m) = AtMaster
      /\ m.arrWorkers = master.arrWorkers /\ m.haltedWorkers = master.haltedWorkers
      /\ m.freeWorkers = master.freeWorkers /\ \A p \in Pid : m.sends[p] = <<>>
  BY <1>1, BeginGood
<1>4. /\ UNCHANGED <<numWorkers, fetched, workers, toMaster, rechecked, done, incidents>>
      /\ Commit(r)
  BY <1>1, <1>2 DEF GoOnGettingSites
<1>5. SameLists(m, r)
  BY <1>2, <1>3, RoundFlags
<1>6. Good(r) /\ Drained(r) /\ Kept(m, r)
  BY <1>3, <1>5, SameIsGood, KeptSelf
<1>7. /\ r.arrWorkers = master.arrWorkers /\ r.haltedWorkers = master.haltedWorkers
      /\ r.freeWorkers = master.freeWorkers /\ \A p \in Pid : r.sends[p] = <<>>
      /\ Held(r) = AtMaster
  BY <1>3, <1>5, <1>6 DEF SameLists, Kept
<1>8. /\ fetched' \in 0 .. Cardinality(Job) /\ fetched <= fetched'
      /\ numWorkers' \in NumWorkers /\ incidents' \in Nat
  BY <1>4 DEF IInv, Types
<1> QED  BY <1>4, <1>6, <1>7, <1>8, KeptCommit

\* Retries that are due are moved to workers or to the queue.
LEMMA RetriesStep ==
  ASSUME IInv, NEW due \in SUBSET master.localRetries, processQueuedRetries(due)
  PROVE  IInv' /\ NoneLost /\ master'.arrWorkers = master.arrWorkers
<1>1. PICK m : m = Begin
  OBVIOUS
<1>2. PICK r : r = processLocalRetries(m, due)
  OBVIOUS
<1>3. /\ Good(m) /\ Drained(m) /\ Held(m) = AtMaster
      /\ m.arrWorkers = master.arrWorkers /\ m.haltedWorkers = master.haltedWorkers
      /\ m.freeWorkers = master.freeWorkers /\ m.localRetries = master.localRetries
      /\ \A p \in Pid : m.sends[p] = <<>>
  BY <1>1, BeginGood
<1>4. /\ UNCHANGED <<numWorkers, fetched, workers, toMaster, rechecked, done, incidents>>
      /\ Commit(r)
  BY <1>1, <1>2 DEF processQueuedRetries
<1>5. Good(r) /\ Kept(m, r) /\ Drained(r)
  BY <1>2, <1>3, ProcessStep
<1>6. /\ r.arrWorkers = master.arrWorkers /\ r.haltedWorkers = master.haltedWorkers
      /\ \A q \in ToSet(master.freeWorkers) \cap master.arrWorkers :
           q \in ToSet(r.freeWorkers) \/ r.sends[q] # <<>>
      /\ \A q \in Pid \ master.arrWorkers : r.sends[q] = <<>>
      /\ Held(r) = AtMaster
  BY <1>3, <1>5 DEF Kept
<1>7. /\ fetched' \in 0 .. Cardinality(Job) /\ fetched <= fetched'
      /\ numWorkers' \in NumWorkers /\ incidents' \in Nat
  BY <1>4 DEF IInv, Types
<1> QED  BY <1>4, <1>5, <1>6, <1>7, KeptCommit

\* A reload changes NUM_WORKERS alone.
LEMMA ReloadStep ==
  ASSUME IInv, ReloadConfig
  PROVE  IInv' /\ NoneLost /\ master'.arrWorkers = master.arrWorkers
<1>1. PICK r : r = Begin
  OBVIOUS
<1>2. /\ Good(r) /\ Drained(r) /\ Held(r) = AtMaster
      /\ r.arrWorkers = master.arrWorkers /\ r.haltedWorkers = master.haltedWorkers
      /\ r.freeWorkers = master.freeWorkers /\ \A p \in Pid : r.sends[p] = <<>>
  BY <1>1, BeginGood
<1>3. /\ numWorkers' \in NumWorkers /\ incidents' = incidents + 1 /\ Commit(r)
      /\ UNCHANGED <<fetched, workers, toMaster, rechecked, done>>
  BY <1>1 DEF ReloadConfig
<1>4. /\ fetched' \in 0 .. Cardinality(Job) /\ fetched <= fetched' /\ incidents' \in Nat
  BY <1>3 DEF IInv, Types
<1> QED  BY <1>2, <1>3, <1>4, KeptCommit

-----------------------------------------------------------------------------
(***************************************************************************)
(* The workers' steps.  They all go through Become, which leaves the       *)
(* master alone.                                                           *)
(***************************************************************************)
LEMMA Singles ==
  /\ ToSet(<<>>) = {} /\ Rechecks(<<>>) = {} /\ RechecksOnce(<<>>) /\ <<>> \in Seq(WorkerMsg)
  /\ \A msg \in WorkerMsg : /\ <<msg>> \in Seq(WorkerMsg) /\ ToSet(<<msg>>) = {msg}
                            /\ Rechecks(<<msg>>) = {j \in Job : msg = recheck(j)}
                            /\ RechecksOnce(<<msg>>)
<1>1. ToSet(<<>>) = {} /\ RechecksOnce(<<>>) /\ <<>> \in Seq(WorkerMsg)
  BY EmptySeq DEF ToSet, RechecksOnce
<1>2. Rechecks(<<>>) = {}
  BY <1>1 DEF Rechecks
<1>3. ASSUME NEW msg \in WorkerMsg
      PROVE  <<msg>> \in Seq(WorkerMsg) /\ ToSet(<<msg>>) = {msg} /\ RechecksOnce(<<msg>>)
  BY <1>3 DEF ToSet, RechecksOnce
<1>4. \A msg \in WorkerMsg : Rechecks(<<msg>>) = {j \in Job : msg = recheck(j)}
  BY <1>3 DEF Rechecks
<1> QED  BY <1>1, <1>2, <1>3, <1>4

\* What Become writes.
Became(p, w, msgs, unread) ==
  /\ workers' \in [Pid -> Process] /\ toWorker' \in [Pid -> Seq(MasterMsg)]
  /\ toMaster' \in [Pid -> Seq(WorkerMsg)]
  /\ workers'[p] = w /\ toWorker'[p] = IF w.exit = Alive THEN unread ELSE <<>>
  /\ ToSet(toMaster'[p]) = ToSet(toMaster[p]) \cup ToSet(msgs)
  /\ Rechecks(toMaster'[p]) = Rechecks(toMaster[p]) \cup Rechecks(msgs)
  /\ RechecksOnce(toMaster[p]) /\ RechecksOnce(msgs)
       /\ Rechecks(toMaster[p]) \cap Rechecks(msgs) = {} => RechecksOnce(toMaster'[p])
  /\ \A q \in Pid \ {p} : /\ workers'[q] = workers[q] /\ toWorker'[q] = toWorker[q]
                          /\ toMaster'[q] = toMaster[q]
  /\ UNCHANGED <<master, numWorkers, fetched>>

LEMMA BecomeFields ==
  ASSUME Types, NEW p \in Pid, NEW w \in Process, NEW msgs \in Seq(WorkerMsg),
         NEW unread \in Seq(MasterMsg), Become(p, w, msgs, unread)
  PROVE  Became(p, w, msgs, unread)
<1>1. /\ workers \in [Pid -> Process] /\ toWorker \in [Pid -> Seq(MasterMsg)]
      /\ toMaster \in [Pid -> Seq(WorkerMsg)] /\ toMaster[p] \in Seq(WorkerMsg)
  BY DEF Types
<1>2. PICK said : said = toMaster[p] \o msgs
  OBVIOUS
<1>3. PICK left : left = IF w.exit = Alive THEN unread ELSE <<>>
  OBVIOUS
<1>4. /\ workers' = [workers EXCEPT ![p] = w] /\ toMaster' = [toMaster EXCEPT ![p] = said]
      /\ toWorker' = [toWorker EXCEPT ![p] = left] /\ UNCHANGED <<master, numWorkers, fetched>>
  BY <1>2, <1>3 DEF Become
<1>5. said \in Seq(WorkerMsg)
  BY <1>1, <1>2, ConcatProperties
<1>6. left \in Seq(MasterMsg)
  BY <1>3, EmptySeq
<1>7. /\ workers' \in [Pid -> Process] /\ toWorker' \in [Pid -> Seq(MasterMsg)]
      /\ toMaster' \in [Pid -> Seq(WorkerMsg)]
      /\ workers'[p] = w /\ toWorker'[p] = left /\ toMaster'[p] = said
      /\ \A q \in Pid \ {p} : /\ workers'[q] = workers[q] /\ toWorker'[q] = toWorker[q]
                              /\ toMaster'[q] = toMaster[q]
  BY <1>1, <1>4, <1>5, <1>6
<1>8. /\ ToSet(said) = ToSet(toMaster[p]) \cup ToSet(msgs)
      /\ Rechecks(said) = Rechecks(toMaster[p]) \cup Rechecks(msgs)
      /\ RechecksOnce(toMaster[p]) /\ RechecksOnce(msgs)
           /\ Rechecks(toMaster[p]) \cap Rechecks(msgs) = {} => RechecksOnce(said)
  BY <1>1, <1>2, ConcatSet, RechecksConcat
<1> QED  BY <1>3, <1>4, <1>7, <1>8 DEF Became

\* What the step of a worker has to show for itself.
LEMMA BecomeStep ==
  ASSUME IInv, NEW p \in Pid, IsAlive(p), NEW w \in Process, NEW msgs \in Seq(WorkerMsg),
         NEW unread \in Seq(MasterMsg), Become(p, w, msgs, unread),
         rechecked' \subseteq Job, incidents' \in Nat,
         done \subseteq done', done' \subseteq done \cup (workers[p].owed \ w.owed),
         RechecksOnce(msgs), Rechecks(msgs) \subseteq workers[p].owed \ w.owed,
         Rechecks(msgs) \cap done' = {},
         Apart(unread), JobsIn(unread) \subseteq JobsIn(toWorker[p]),
         w.owed \subseteq workers[p].owed \cup (JobsIn(toWorker[p]) \ JobsIn(unread)),
         w.exit # Alive => w.owed = {},
         w.exit \notin {Crashed, ShutDown} =>
           workers[p].owed \subseteq w.owed \cup Rechecks(msgs) \cup done',
         w.exit = Alive => /\ JobsIn(toWorker[p]) \subseteq JobsIn(unread) \cup w.owed
                           /\ NoneForgotten(p)'
  PROVE  IInv' /\ NoneLost
<1>1. /\ Types /\ FreeListIsSound /\ NoWorkWhileFree /\ GoneHoldsNothing /\ Remembered /\ JobsOnce
      /\ p \in master.arrWorkers
  BY DEF IInv, GoneHoldsNothing
<1>2. /\ workers' \in [Pid -> Process] /\ toWorker' \in [Pid -> Seq(MasterMsg)]
      /\ toMaster' \in [Pid -> Seq(WorkerMsg)]
      /\ workers'[p] = w /\ toWorker'[p] = IF w.exit = Alive THEN unread ELSE <<>>
      /\ Rechecks(toMaster'[p]) = Rechecks(toMaster[p]) \cup Rechecks(msgs)
      /\ RechecksOnce(toMaster[p]) /\ RechecksOnce(msgs)
           /\ Rechecks(toMaster[p]) \cap Rechecks(msgs) = {} => RechecksOnce(toMaster'[p])
      /\ \A q \in Pid \ {p} : /\ workers'[q] = workers[q] /\ toWorker'[q] = toWorker[q]
                              /\ toMaster'[q] = toMaster[q]
      /\ UNCHANGED <<master, numWorkers, fetched>>
  <2>1. Became(p, w, msgs, unread)
    BY <1>1, BecomeFields
  <2> QED  BY <2>1, Zenon DEF Became
<1>3. IsAlive(p)' <=> w.exit = Alive
  BY <1>2 DEF IsAlive
<1>4. \A q \in Pid \ {p} : IsAlive(q)' <=> IsAlive(q)
  BY <1>2 DEF IsAlive
<1>5. Types'
  <2>1. done' \subseteq Job
    BY <1>1 DEF Types, Process
  <2>2. /\ master \in Lists /\ numWorkers \in NumWorkers
        /\ fetched \in 0 .. Cardinality(Job)
    BY <1>1 DEF Types
  <2>3. UNCHANGED <<master, numWorkers, fetched>>
    BY <1>2
  <2> QED  BY <1>2, <2>1, <2>2, <2>3 DEF Types
<1>6. FreeListIsSound' /\ NoWorkWhileFree'
  BY <1>1, <1>2 DEF FreeListIsSound, NoWorkWhileFree
<1>7. GoneHoldsNothing'
  <2> SUFFICES ASSUME NEW q \in Pid
               PROVE  IF IsAlive(q)' THEN q \in master'.arrWorkers
                                    ELSE workers'[q].owed = {} /\ toWorker'[q] = <<>>
    BY DEF GoneHoldsNothing
  <2>1. CASE q = p
    BY <1>1, <1>2, <1>3, <2>1
  <2>2. CASE q # p
    <3>1. /\ workers'[q] = workers[q] /\ toWorker'[q] = toWorker[q] /\ master' = master
          /\ IsAlive(q)' <=> IsAlive(q)
      BY <1>2, <1>4, <2>2
    <3>2. IF IsAlive(q) THEN q \in master.arrWorkers
                        ELSE workers[q].owed = {} /\ toWorker[q] = <<>>
      BY <1>1 DEF GoneHoldsNothing
    <3> QED  BY <3>1, <3>2
  <2> QED  BY <2>1, <2>2
<1>8. Remembered'
  <2> SUFFICES ASSUME NEW q \in Pid, IsAlive(q)' PROVE NoneForgotten(q)'
    BY DEF Remembered
  <2>1. CASE q = p
    BY <1>3, <2>1
  <2>2. CASE q # p
    <3>1. IsAlive(q) /\ NoneForgotten(q)
      BY <1>1, <1>4, <2>2 DEF Remembered
    <3> QED  BY <1>2, <2>2, <3>1 DEF NoneForgotten, Pending, Stopping
  <2> QED  BY <2>1, <2>2
<1>9. /\ \A q \in Pid \ {p} : Out(q)' = Out(q)
      /\ Out(p)' \subseteq Out(p) /\ AtMaster' = AtMaster
      /\ Out(p)' \cap done' \subseteq Out(p) \cap done
  <2>1. \A q \in Pid \ {p} : Out(q)' = Out(q)
    BY <1>2 DEF Out
  <2>2. JobsIn(<<>>) = {}
    BY DEF JobsIn
  <2>3. JobsIn(toWorker'[p]) \subseteq JobsIn(unread)
    BY <1>2, <2>2
  <2>4. Out(p)' \subseteq Out(p)
    BY <1>2, <2>3 DEF Out
  <2>5. AtMaster' = AtMaster
    BY <1>2 DEF AtMaster
  <2>6. /\ JobsIn(toWorker[p]) \cap workers[p].owed = {}
        /\ workers[p].owed \cap Rechecks(toMaster[p]) = {}
    BY <1>1 DEF JobsOnce
  <2>7. Out(p)' \cap done' \subseteq Out(p) \cap done
    BY <1>2, <2>3, <2>4, <2>6 DEF Out
  <2> QED  BY <2>1, <2>4, <2>5, <2>7
<1>10. JobsOnce'
  <2>1. /\ IsInjective(master.arrObjects) /\ ToSet(master.arrObjects) \cap master.localRetries = {}
        /\ AtMaster \cap done = {} /\ AtMaster \cup done \subseteq 1 .. fetched
        /\ \A q \in Pid : /\ Out(q) \subseteq 1 .. fetched
                          /\ Out(q) \cap (AtMaster \cup done) = {}
                          /\ \A x \in Pid \ {q} : Out(q) \cap Out(x) = {}
                          /\ Apart(toWorker[q]) /\ RechecksOnce(toMaster[q])
                          /\ JobsIn(toWorker[q]) \cap workers[q].owed = {}
                          /\ JobsIn(toWorker[q]) \cap Rechecks(toMaster[q]) = {}
                          /\ workers[q].owed \cap Rechecks(toMaster[q]) = {}
    BY <1>1 DEF JobsOnce
  <2>2. workers[p].owed \subseteq Out(p)
    BY DEF Out
  <2>3. done' \subseteq 1 .. fetched /\ AtMaster \cap done' = {}
    BY <2>1, <2>2
  <2>4. \A q \in Pid : Out(q)' \subseteq 1 .. fetched /\ Out(q)' \cap AtMaster = {}
    BY <1>9, <2>1
  <2>5. \A q \in Pid : Out(q)' \cap done' = {}
    BY <1>9, <2>1, <2>2
  <2>6. \A q \in Pid : \A x \in Pid \ {q} : Out(q)' \cap Out(x)' = {}
    BY <1>9, <2>1
  <2>7. /\ Apart(toWorker'[p]) /\ RechecksOnce(toMaster'[p])
        /\ JobsIn(toWorker'[p]) \cap workers'[p].owed = {}
        /\ JobsIn(toWorker'[p]) \cap Rechecks(toMaster'[p]) = {}
        /\ workers'[p].owed \cap Rechecks(toMaster'[p]) = {}
    <3>1. JobsIn(<<>>) = {} /\ Apart(<<>>)
      BY DEF JobsIn, Apart
    <3>2. JobsIn(toWorker'[p]) \subseteq JobsIn(unread) /\ Apart(toWorker'[p])
      BY <1>2, <3>1
    <3> QED  BY <1>2, <2>1, <3>2
  <2>8. \A q \in Pid : /\ Apart(toWorker'[q]) /\ RechecksOnce(toMaster'[q])
                       /\ JobsIn(toWorker'[q]) \cap workers'[q].owed = {}
                       /\ JobsIn(toWorker'[q]) \cap Rechecks(toMaster'[q]) = {}
                       /\ workers'[q].owed \cap Rechecks(toMaster'[q]) = {}
    BY <1>2, <2>1, <2>7
  <2> QED  BY <1>2, <1>9, <2>1, <2>3, <2>4, <2>5, <2>6, <2>8 DEF JobsOnce
<1>11. NoneLost
  <2>1. Anywhere \subseteq Anywhere' \cup Out(p)
    BY <1>9 DEF Anywhere
  <2>2. Out(p)' \cup done' \subseteq Anywhere'
    BY DEF Anywhere
  <2>3. Rechecks(toMaster[p]) \cup Rechecks(msgs) \cup w.owed \subseteq Out(p)'
    BY <1>2 DEF Out
  <2>4. ASSUME NEW j \in JobsIn(toWorker[p]) PROVE j \in Anywhere' \/ Unread(p, j)
    <3>1. CASE w.exit = Alive
      <4>1. j \in Out(p)'
        BY <1>2, <2>4, <3>1 DEF Out
      <4> QED  BY <2>2, <4>1
    <3>2. CASE w.exit # Alive
      BY <1>3, <2>4, <3>2 DEF Unread
    <3> QED  BY <3>1, <3>2
  <2>5. ASSUME NEW j \in workers[p].owed PROVE j \in Anywhere' \/ Killed(p, j)
    <3>1. CASE w.exit \in {Crashed, ShutDown}
      BY <1>2, <2>5, <3>1 DEF Killed
    <3>2. CASE w.exit \notin {Crashed, ShutDown}
      BY <2>2, <2>3, <2>5, <3>2
    <3> QED  BY <3>1, <3>2
  <2>6. \A j \in Out(p) : j \in Anywhere' \/ Unread(p, j) \/ Killed(p, j)
    BY <2>2, <2>3, <2>4, <2>5 DEF Out
  <2> QED  BY <2>1, <2>6 DEF NoneLost
<1> QED  BY <1>5, <1>6, <1>7, <1>8, <1>10, <1>11 DEF IInv

\* The worker takes up the jobs of a message, or leaves, or marks itself.
LEMMA ReadsStep ==
  ASSUME IInv, NEW p \in Pid, WorkerReads(p)
  PROVE  IInv' /\ NoneLost /\ master' = master
<1>1. Types /\ GoneHoldsNothing /\ Remembered /\ JobsOnce
  BY DEF IInv
<1>2. PICK msg : msg = Head(toWorker[p])
  OBVIOUS
<1>3. PICK unread : unread = Tail(toWorker[p])
  OBVIOUS
<1>4. PICK w : w = IF msg.request = "queue-add" THEN AfterQueueAdd(workers[p], msg.payload)
                                               ELSE AfterEvaporate(workers[p])
  OBVIOUS
<1>5. /\ IsAlive(p) /\ toWorker[p] # <<>> /\ Become(p, w, <<>>, unread)
      /\ UNCHANGED <<rechecked, done, incidents>>
  BY <1>2, <1>3, <1>4 DEF WorkerReads
<1>6. /\ toWorker[p] \in Seq(MasterMsg) /\ Apart(toWorker[p]) /\ workers[p] \in Process
      /\ rechecked \subseteq Job /\ incidents \in Nat /\ NoneForgotten(p)
      /\ workers[p].exit = Alive
  BY <1>1, <1>5 DEF Types, JobsOnce, Remembered, IsAlive
<1>7. /\ unread \in Seq(MasterMsg) /\ msg \in MasterMsg
      /\ JobsIn(toWorker[p]) = JobsOf(msg) \cup JobsIn(unread)
      /\ Apart(unread) /\ JobsOf(msg) \cap JobsIn(unread) = {}
  BY <1>2, <1>3, <1>5, <1>6, TailAt, JobsTail
<1>8. ToSet(<<>>) = {} /\ Rechecks(<<>>) = {} /\ RechecksOnce(<<>>) /\ <<>> \in Seq(WorkerMsg)
  BY Singles
<1>9. /\ w \in Process /\ w.owed = workers[p].owed \cup JobsOf(msg)
      /\ w.available = workers[p].available
      /\ \/ w.exit = Alive /\ w.owed # {} /\ (w.asked => w.suicide)
         \/ w.exit # Alive /\ w.owed = {}
  <2>1. CASE msg.request = "queue-add"
    <3>1. msg.payload \in (SUBSET Job) \ {{}} /\ JobsOf(msg) = msg.payload
      BY <1>7, <2>1 DEF MasterMsg, JobsOf
    <3>2. w = [workers[p] EXCEPT !.owed = @ \cup msg.payload, !.asked = FALSE]
      BY <1>4, <2>1 DEF AfterQueueAdd
    <3>3. /\ w \in Process /\ w.owed = workers[p].owed \cup msg.payload /\ ~w.asked
          /\ w.available = workers[p].available /\ w.exit = workers[p].exit
      BY <1>6, <3>1, <3>2 DEF Process
    <3> QED  BY <1>6, <3>1, <3>3
  <2>2. CASE msg.request # "queue-add"
    <3>1. w = AfterEvaporate(workers[p]) /\ JobsOf(msg) = {}
      BY <1>4, <2>2 DEF JobsOf
    <3>2. CASE workers[p].owed = {}
      <4>1. w = [workers[p] EXCEPT !.exit = SUICIDE_SIGNAL]
        BY <3>1, <3>2 DEF AfterEvaporate
      <4>2. /\ w \in Process /\ w.owed = workers[p].owed
            /\ w.available = workers[p].available /\ w.exit = SUICIDE_SIGNAL
        BY <1>6, <4>1 DEF Process, ExitCode
      <4> QED  BY <3>1, <3>2, <4>2 DEF SUICIDE_SIGNAL, Alive
    <3>3. CASE workers[p].owed # {}
      <4>1. w = [workers[p] EXCEPT !.suicide = TRUE]
        BY <3>1, <3>3 DEF AfterEvaporate
      <4>2. /\ w \in Process /\ w.owed = workers[p].owed /\ w.suicide
            /\ w.available = workers[p].available /\ w.exit = workers[p].exit
        BY <1>6, <4>1 DEF Process
      <4> QED  BY <1>6, <3>1, <3>3, <4>2
    <3> QED  BY <3>2, <3>3
  <2> QED  BY <2>1, <2>2
<1>10. /\ workers'[p] = w /\ ToSet(toMaster'[p]) = ToSet(toMaster[p])
       /\ UNCHANGED <<master, numWorkers, fetched>>
  <2>1. Became(p, w, <<>>, unread)
    BY <1>1, <1>5, <1>7, <1>8, <1>9, BecomeFields DEF IInv
  <2> QED  BY <1>8, <2>1 DEF Became
<1>11. w.exit = Alive => NoneForgotten(p)'
  <2> SUFFICES ASSUME w.exit = Alive PROVE NoneForgotten(p)'
    OBVIOUS
  <2>1. w.owed # {} /\ (w.asked => w.suicide)
    BY <1>9
  <2>2. Stopping(p)' => ~workers[p].available
    BY <1>6, <1>10 DEF NoneForgotten, Stopping
  <2> QED  BY <1>9, <1>10, <2>1, <2>2 DEF NoneForgotten
<1> QED  BY <1>5, <1>6, <1>7, <1>8, <1>9, <1>10, <1>11, BecomeStep

\* Its start-up request, and its statistics.
LEMMA AsksStep ==
  ASSUME IInv, NEW p \in Pid, WorkerAsks(p)
  PROVE  IInv' /\ NoneLost /\ master' = master
<1>1. Types /\ GoneHoldsNothing /\ Remembered /\ JobsOnce
  BY DEF IInv
<1>2. PICK w : w = [workers[p] EXCEPT !.askTimer = FALSE, !.asked = TRUE]
  OBVIOUS
<1>3. AfterAskTimer(workers[p]).worker = w /\ AfterAskTimer(workers[p]).msgs = <<SendWork>>
  BY <1>2 DEF AfterAskTimer, Step
<1>4. /\ IsAlive(p) /\ Become(p, w, <<SendWork>>, toWorker[p])
      /\ UNCHANGED <<rechecked, done, incidents>>
  BY <1>3 DEF WorkerAsks
<1>5. /\ toWorker[p] \in Seq(MasterMsg) /\ Apart(toWorker[p]) /\ workers[p] \in Process
      /\ rechecked \subseteq Job /\ incidents \in Nat /\ NoneForgotten(p)
      /\ workers[p].exit = Alive
  BY <1>1, <1>4 DEF Types, JobsOnce, Remembered, IsAlive
<1>6. /\ w \in Process /\ w.owed = workers[p].owed /\ w.available = workers[p].available
      /\ w.exit = Alive
  BY <1>2, <1>5 DEF Process
<1>7. /\ <<SendWork>> \in Seq(WorkerMsg) /\ ToSet(<<SendWork>>) = {SendWork}
      /\ Rechecks(<<SendWork>>) = {} /\ RechecksOnce(<<SendWork>>)
  <2>1. SendWork \in WorkerMsg /\ \A j \in Job : SendWork # recheck(j)
    BY RecheckMsg DEF SendWork
  <2> QED  BY <2>1, Singles
<1>8. /\ workers'[p] = w /\ ToSet(toMaster'[p]) = ToSet(toMaster[p]) \cup {SendWork}
      /\ UNCHANGED <<master, numWorkers, fetched>>
  <2>1. PICK msgs : msgs = <<SendWork>>
    OBVIOUS
  <2>2. msgs \in Seq(WorkerMsg) /\ ToSet(msgs) = {SendWork} /\ Become(p, w, msgs, toWorker[p])
    BY <1>4, <1>7, <2>1
  <2>3. /\ workers'[p] = w /\ ToSet(toMaster'[p]) = ToSet(toMaster[p]) \cup ToSet(msgs)
        /\ UNCHANGED <<master, numWorkers, fetched>>
    <3>1. Became(p, w, msgs, toWorker[p])
      BY <1>1, <1>5, <1>6, <2>2, BecomeFields
    <3> QED  BY <3>1 DEF Became
  <2> QED  BY <2>2, <2>3
<1>9. NoneForgotten(p)'
  <2>1. Pending(p)'
    BY <1>8 DEF Pending
  <2>2. Stopping(p)' => Stopping(p)
    BY <1>8 DEF Stopping, SendWork, StopWork
  <2> QED  BY <1>5, <1>6, <1>8, <2>1, <2>2 DEF NoneForgotten
<1>10. /\ rechecked' \subseteq Job /\ incidents' \in Nat /\ done' = done
  BY <1>4, <1>5
<1> QED  BY <1>4, <1>5, <1>6, <1>7, <1>8, <1>9, <1>10, BecomeStep

\* A worker sends its statistics.
LEMMA StatsSentStep ==
  ASSUME IInv, NEW p \in Pid, WorkerSendsStats(p)
  PROVE  IInv' /\ NoneLost /\ master' = master
<1>1. Types /\ GoneHoldsNothing /\ Remembered /\ JobsOnce
  BY DEF IInv
<1>2. PICK n \in Nat : /\ IsAlive(p) /\ Become(p, workers[p], <<Stats(n)>>, toWorker[p])
                       /\ UNCHANGED <<rechecked, done, incidents>>
  <2>1. PICK step \in StatsSteps(workers[p]) :
          /\ IsAlive(p) /\ Become(p, step.worker, step.msgs, toWorker[p])
          /\ UNCHANGED <<rechecked, done, incidents>>
    BY DEF WorkerSendsStats
  <2>2. PICK n \in 0 .. Cardinality(workers[p].owed) : step = Step(workers[p], <<Stats(n)>>)
    BY DEF StatsSteps
  <2>3. step.worker = workers[p] /\ step.msgs = <<Stats(n)>>
    BY <2>2 DEF Step
  <2>4. n \in Nat
    <3>1. workers[p].owed \subseteq Job
      BY <1>1 DEF Types, Process
    <3>2. Cardinality(workers[p].owed) \in Nat
      BY <3>1, PoolAssumption, FS_Subset, FS_CardinalityType
    <3> QED  BY <3>2
  <2> QED  BY <2>1, <2>3, <2>4
<1>3. /\ toWorker[p] \in Seq(MasterMsg) /\ Apart(toWorker[p]) /\ workers[p] \in Process
      /\ rechecked \subseteq Job /\ incidents \in Nat /\ NoneForgotten(p)
      /\ workers[p].exit = Alive
  BY <1>1, <1>2 DEF Types, JobsOnce, Remembered, IsAlive
<1>4. /\ <<Stats(n)>> \in Seq(WorkerMsg) /\ ToSet(<<Stats(n)>>) = {Stats(n)}
      /\ Rechecks(<<Stats(n)>>) = {} /\ RechecksOnce(<<Stats(n)>>) /\ Stats(n) # StopWork
  <2>1. /\ Stats(n) \in WorkerMsg /\ \A j \in Job : Stats(n) # recheck(j)
        /\ Stats(n) # StopWork
    BY RecheckMsg DEF Stats, StopWork, WorkerMsg, ControlMsg
  <2> QED  BY <2>1, Singles
<1>5. /\ workers'[p] = workers[p] /\ ToSet(toMaster'[p]) = ToSet(toMaster[p]) \cup {Stats(n)}
      /\ toWorker'[p] = toWorker[p] /\ UNCHANGED <<master, numWorkers, fetched>>
  <2>1. PICK msgs : msgs = <<Stats(n)>>
    OBVIOUS
  <2>2. /\ msgs \in Seq(WorkerMsg) /\ ToSet(msgs) = {Stats(n)}
        /\ Become(p, workers[p], msgs, toWorker[p])
    BY <1>2, <1>4, <2>1
  <2>3. PICK w : w = workers[p]
    OBVIOUS
  <2>4. /\ workers'[p] = w /\ ToSet(toMaster'[p]) = ToSet(toMaster[p]) \cup ToSet(msgs)
        /\ toWorker'[p] = (IF w.exit = Alive THEN toWorker[p] ELSE <<>>)
        /\ UNCHANGED <<master, numWorkers, fetched>>
    <3>1. Became(p, w, msgs, toWorker[p])
      BY <1>1, <1>3, <2>2, <2>3, BecomeFields
    <3> QED  BY <3>1 DEF Became
  <2> QED  BY <1>3, <2>2, <2>3, <2>4
<1>6. NoneForgotten(p)'
  <2>1. Pending(p) => Pending(p)'
    BY <1>5 DEF Pending
  <2>2. Stopping(p)' => Stopping(p)
    BY <1>4, <1>5 DEF Stopping
  <2> QED  BY <1>3, <1>5, <2>1, <2>2 DEF NoneForgotten
<1>7. rechecked' \subseteq Job /\ incidents' \in Nat /\ done' = done
  BY <1>2, <1>3
<1> QED  BY <1>2, <1>3, <1>4, <1>5, <1>6, <1>7, BecomeStep

\* A worker that dies loses what it holds, and nothing else.
LEMMA CrashStep ==
  ASSUME IInv, NEW p \in Pid, Crash(p)
  PROVE  IInv' /\ NoneLost /\ master' = master
<1>1. Types /\ GoneHoldsNothing /\ Remembered /\ JobsOnce
  BY DEF IInv
<1>2. PICK code \in {Crashed, ShutDown} :
        Become(p, [workers[p] EXCEPT !.exit = code, !.owed = {}], <<>>, <<>>)
  BY DEF Crash
<1>3. PICK w : w = [workers[p] EXCEPT !.exit = code, !.owed = {}]
  OBVIOUS
<1>4. /\ IsAlive(p) /\ incidents' = incidents + 1 /\ UNCHANGED <<rechecked, done>>
      /\ Become(p, w, <<>>, <<>>)
  BY <1>2, <1>3 DEF Crash
<1>5. /\ w \in Process /\ w.owed = {} /\ w.exit # Alive /\ w.exit \in {Crashed, ShutDown}
  <2>1. workers[p] \in Process
    BY <1>1 DEF Types
  <2>2. w \in Process /\ w.owed = {} /\ w.exit = code
    BY <1>3, <2>1 DEF Process
  <2> QED  BY <2>2 DEF Crashed, ShutDown, Alive
<1>6. /\ Rechecks(<<>>) = {} /\ RechecksOnce(<<>>) /\ <<>> \in Seq(WorkerMsg)
      /\ <<>> \in Seq(MasterMsg) /\ JobsIn(<<>>) = {} /\ Apart(<<>>)
  BY Singles, EmptySeq DEF JobsIn, Apart
<1>7. rechecked' \subseteq Job /\ incidents' \in Nat /\ done' = done
  BY <1>1, <1>4 DEF Types
<1>8. master' = master
  BY <1>4 DEF Become
<1> QED  BY <1>4, <1>5, <1>6, <1>7, <1>8, BecomeStep

\* What a worker can become when it reports job j, and what it says.
LEMMA ReportFacts ==
  ASSUME NEW w \in Process, w.exit = Alive, NEW j, NEW step \in ReportSteps(w, j)
  PROVE  /\ step.worker \in Process /\ step.worker.owed = w.owed \ {j}
         /\ step.msgs \in {<<>>, <<SendWork>>, <<StopWork>>}
         /\ step.worker.exit # Alive => step.worker.owed = {}
         /\ step.worker.exit = Alive =>
              \/ /\ step.msgs = <<>> /\ step.worker.owed # {}
                 /\ step.worker.available = w.available /\ step.worker.asked = w.asked
                 /\ step.worker.suicide = w.suicide
              \/ step.worker.owed # {} /\ ~step.worker.available
              \/ /\ step.worker.available /\ w.available /\ ~w.suicide
                 /\ \/ step.msgs = <<SendWork>>
                    \/ step.msgs = <<>> /\ w.asked
<1> DEFINE rest == [w EXCEPT !.owed = @ \ {j}]
<1>1. PICK v : v = rest
  OBVIOUS
<1>2. /\ v \in Process /\ v.owed = w.owed \ {j} /\ v.exit = Alive
      /\ v.available = w.available /\ v.asked = w.asked /\ v.suicide = w.suicide
      /\ {v.available, v.asked, v.suicide} \subseteq BOOLEAN
  BY <1>1 DEF Process
<1>3. \/ step = Step(v, <<>>) /\ v.owed # {}
      \/ \E overLimit \in BOOLEAN : step \in AtEndSteps(v, overLimit)
  BY <1>1 DEF ReportSteps
<1>4. CASE step = Step(v, <<>>) /\ v.owed # {}
  <2>1. step.worker = v /\ step.msgs = <<>>
    BY <1>4 DEF Step
  <2> QED  BY <1>2, <1>4, <2>1
<1>5. CASE \E overLimit \in BOOLEAN : step \in AtEndSteps(v, overLimit)
  <2>1. PICK overLimit \in BOOLEAN : step \in AtEndSteps(v, overLimit)
    BY <1>5
  <2> DEFINE stops == v.available /\ (v.suicide \/ overLimit)
             stays == v.available /\ ~stops
             asks  == stays /\ ~v.asked
  <2>2. stays => v.available /\ ~v.suicide /\ ~stops
    OBVIOUS
  <2>3. stays /\ ~asks => v.asked
    OBVIOUS
  <2>4. stays \in BOOLEAN /\ (v.asked \/ asks) \in BOOLEAN
    OBVIOUS
  <2>5. PICK said : said = IF stops THEN <<StopWork>> ELSE IF asks THEN <<SendWork>> ELSE <<>>
    OBVIOUS
  <2>6. step \in IF v.owed = {} /\ ~stays
                   THEN {Step([v EXCEPT !.available = FALSE, !.exit = code], said)
                           : code \in RetireCodes(v)}
                   ELSE {Step([v EXCEPT !.available = stays, !.asked = @ \/ asks], said)}
    BY <2>1, <2>5 DEF AtEndSteps
  <2>7. said \in {<<>>, <<SendWork>>, <<StopWork>>}
    BY <2>5
  <2> HIDE DEF stops, asks, stays
  <2>8. CASE v.owed = {} /\ ~stays
    <3>1. PICK code \in RetireCodes(v) :
            step = Step([v EXCEPT !.available = FALSE, !.exit = code], said)
      BY <2>6, <2>8
    <3>2. code \in ExitCode /\ code # Alive
      BY DEF RetireCodes, ExitCode, Alive, SUICIDE_SIGNAL, EXIT_MAXRAMUSAGE, EXIT_MAXCHECKS
    <3>3. PICK x : x = [v EXCEPT !.available = FALSE, !.exit = code]
      OBVIOUS
    <3>4. x \in Process /\ x.owed = v.owed /\ x.exit = code
      BY <1>2, <3>2, <3>3 DEF Process
    <3>5. step.worker = x /\ step.msgs = said
      BY <3>1, <3>3 DEF Step
    <3> QED  BY <1>2, <2>7, <2>8, <3>2, <3>4, <3>5
  <2>9. CASE ~(v.owed = {} /\ ~stays)
    <3>1. step = Step([v EXCEPT !.available = stays, !.asked = @ \/ asks], said)
      BY <2>6, <2>9
    <3>2. PICK asked \in BOOLEAN : asked = (v.asked \/ asks)
      BY <2>4
    <3>3. PICK x : x = [v EXCEPT !.available = stays, !.asked = asked]
      OBVIOUS
    <3>4. x \in Process /\ x.owed = v.owed /\ x.exit = v.exit /\ x.available = stays
      BY <1>2, <2>4, <3>3 DEF Process
    <3>5. step.worker = x /\ step.msgs = said
      <4>1. [v EXCEPT !.available = stays, !.asked = @ \/ asks] = x
        BY <1>2, <3>2, <3>3 DEF Process
      <4> QED  BY <3>1, <4>1 DEF Step
    <3>6. stays => w.available /\ ~w.suicide /\ (said = <<SendWork>> \/ (said = <<>> /\ w.asked))
      <4> SUFFICES ASSUME stays
                   PROVE  w.available /\ ~w.suicide /\ (said = <<SendWork>> \/ (said = <<>> /\ w.asked))
        OBVIOUS
      <4>1. w.available /\ ~w.suicide /\ ~stops
        BY <1>2, <2>2
      <4>2. CASE asks
        BY <2>5, <4>1, <4>2
      <4>3. CASE ~asks
        BY <1>2, <2>3, <2>5, <4>1, <4>3
      <4> QED  BY <4>1, <4>2, <4>3
    <3> QED  BY <1>2, <2>7, <2>9, <3>4, <3>5, <3>6
  <2> QED  BY <2>8, <2>9
<1> QED  BY <1>3, <1>4, <1>5

\* A job reported leaves its worker for good, or goes back to the master.
LEMMA ReportsStep ==
  ASSUME IInv, NEW p \in Pid, NEW j \in workers[p].owed, WorkerReports(p, j)
  PROVE  IInv' /\ NoneLost /\ master' = master
<1>1. Types /\ GoneHoldsNothing /\ Remembered /\ JobsOnce
  BY DEF IInv
<1>2. PICK old : old = workers[p]
  OBVIOUS
<1>3. PICK step \in ReportSteps(old, j) :
        \/ /\ Become(p, step.worker, step.msgs, toWorker[p])
           /\ done' = done \cup {j} /\ UNCHANGED rechecked
        \/ /\ Become(p, step.worker, <<recheck(j)>> \o step.msgs, toWorker[p])
           /\ rechecked' = rechecked \cup {j} /\ UNCHANGED done
  BY <1>2 DEF WorkerReports
<1>4. /\ toWorker[p] \in Seq(MasterMsg) /\ Apart(toWorker[p]) /\ old \in Process
      /\ rechecked \subseteq Job /\ NoneForgotten(p) /\ incidents' \in Nat
      /\ IsAlive(p) /\ old.exit = Alive /\ j \in old.owed /\ j \in Job
      /\ JobsIn(toWorker[p]) \cap old.owed = {}
  BY <1>1, <1>2 DEF Types, Process, JobsOnce, Remembered, IsAlive, WorkerReports
<1>5. PICK w : w = step.worker
  OBVIOUS
<1>6. PICK said : said = step.msgs
  OBVIOUS
<1>7. /\ w \in Process /\ w.owed = old.owed \ {j}
      /\ said \in {<<>>, <<SendWork>>, <<StopWork>>}
      /\ w.exit # Alive => w.owed = {}
      /\ w.exit = Alive =>
           \/ /\ said = <<>> /\ w.owed # {} /\ w.available = old.available
              /\ w.asked = old.asked /\ w.suicide = old.suicide
           \/ w.owed # {} /\ ~w.available
           \/ /\ w.available /\ old.available /\ ~old.suicide
              /\ said = <<SendWork>> \/ (said = <<>> /\ old.asked)
  <2>1. /\ step.worker \in Process /\ step.worker.owed = old.owed \ {j}
        /\ step.msgs \in {<<>>, <<SendWork>>, <<StopWork>>}
        /\ step.worker.exit # Alive => step.worker.owed = {}
        /\ step.worker.exit = Alive =>
             \/ /\ step.msgs = <<>> /\ step.worker.owed # {}
                /\ step.worker.available = old.available /\ step.worker.asked = old.asked
                /\ step.worker.suicide = old.suicide
             \/ step.worker.owed # {} /\ ~step.worker.available
             \/ /\ step.worker.available /\ old.available /\ ~old.suicide
                /\ \/ step.msgs = <<SendWork>>
                   \/ step.msgs = <<>> /\ old.asked
    BY <1>4, ReportFacts
  <2> QED  BY <1>5, <1>6, <2>1
<1>8. /\ said \in Seq(WorkerMsg) /\ Rechecks(said) = {} /\ RechecksOnce(said)
      /\ said = <<SendWork>> => SendWork \in ToSet(said)
      /\ said = <<>> \/ said = <<SendWork>> => StopWork \notin ToSet(said)
  <2>1. /\ SendWork \in WorkerMsg /\ StopWork \in WorkerMsg /\ SendWork # StopWork
        /\ \A k \in Job : SendWork # recheck(k) /\ StopWork # recheck(k)
    BY RecheckMsg DEF SendWork, StopWork
  <2>2. CASE said = <<>>
    <3>1. ToSet(said) = {} /\ Rechecks(said) = {} /\ RechecksOnce(said) /\ said \in Seq(WorkerMsg)
      BY <2>2, Singles
    <3>2. said # <<SendWork>>
      BY <2>2
    <3> QED  BY <3>1, <3>2
  <2>3. CASE said = <<SendWork>>
    <3>1. /\ ToSet(said) = {SendWork} /\ Rechecks(said) = {} /\ RechecksOnce(said)
          /\ said \in Seq(WorkerMsg)
      BY <2>1, <2>3, Singles
    <3> QED  BY <2>1, <3>1
  <2>4. CASE said = <<StopWork>>
    <3>1. Rechecks(said) = {} /\ RechecksOnce(said) /\ said \in Seq(WorkerMsg)
      BY <2>1, <2>4, Singles
    <3>2. said # <<>> /\ said # <<SendWork>>
      BY <2>1, <2>4
    <3> QED  BY <3>1, <3>2
  <2> QED  BY <1>7, <2>2, <2>3, <2>4
<1>9. /\ recheck(j) \in WorkerMsg /\ recheck(j) # StopWork /\ recheck(j) # SendWork
      /\ \A k \in Job : recheck(j) = recheck(k) => k = j
  BY <1>4, RecheckMsg DEF SendWork, StopWork
<1>10. PICK back : back = <<recheck(j)>>
  OBVIOUS
<1>11. /\ back \in Seq(WorkerMsg) /\ ToSet(back) = {recheck(j)}
       /\ Rechecks(back) = {j} /\ RechecksOnce(back)
  BY <1>4, <1>9, <1>10, Singles
<1>12. PICK msgs : /\ msgs = said \/ msgs = back \o said
                   /\ Become(p, w, msgs, toWorker[p])
                   /\ \/ msgs = said /\ done' = done \cup {j} /\ UNCHANGED rechecked
                      \/ /\ msgs = back \o said /\ rechecked' = rechecked \cup {j}
                         /\ UNCHANGED done
  BY <1>3, <1>5, <1>6, <1>10
<1>13. /\ back \o said \in Seq(WorkerMsg) /\ Rechecks(back \o said) = {j}
       /\ RechecksOnce(back \o said)
       /\ ToSet(back \o said) = {recheck(j)} \cup ToSet(said)
  <2>1. back \o said \in Seq(WorkerMsg)
    BY <1>8, <1>11, ConcatProperties
  <2> QED  BY <1>8, <1>11, <2>1, ConcatSet, RechecksConcat
<1>14. /\ msgs \in Seq(WorkerMsg) /\ RechecksOnce(msgs) /\ Rechecks(msgs) \subseteq {j}
       /\ said = <<SendWork>> => SendWork \in ToSet(msgs)
       /\ said = <<>> \/ said = <<SendWork>> => StopWork \notin ToSet(msgs)
  BY <1>8, <1>9, <1>12, <1>13
<1>15. /\ workers'[p] = w /\ ToSet(toMaster'[p]) = ToSet(toMaster[p]) \cup ToSet(msgs)
       /\ toWorker'[p] = (IF w.exit = Alive THEN toWorker[p] ELSE <<>>)
       /\ UNCHANGED <<master, numWorkers, fetched>>
  <2>1. Became(p, w, msgs, toWorker[p])
    BY <1>1, <1>4, <1>7, <1>12, <1>14, BecomeFields
  <2> QED  BY <2>1 DEF Became
<1>16. w.exit = Alive => NoneForgotten(p)'
  <2> SUFFICES ASSUME w.exit = Alive PROVE NoneForgotten(p)'
    OBVIOUS
  <2>1. /\ old.owed # {} \/ old.askTimer \/ Pending(p)
        /\ old.available /\ old.asked /\ ~old.suicide => Pending(p)
        /\ Stopping(p) => ~old.available
        /\ ~old.available => old.owed # {}
    BY <1>2, <1>4 DEF NoneForgotten
  <2>2. Pending(p) => Pending(p)'
    BY <1>15 DEF Pending
  <2>3. StopWork \notin ToSet(msgs) /\ Stopping(p)' => Stopping(p)
    BY <1>15 DEF Stopping
  <2>4. said = <<SendWork>> => Pending(p)'
    BY <1>14, <1>15 DEF Pending
  <2>5. CASE said = <<>> /\ w.owed # {} /\ w.available = old.available
             /\ w.asked = old.asked /\ w.suicide = old.suicide
    BY <1>14, <1>15, <2>1, <2>2, <2>3, <2>5 DEF NoneForgotten
  <2>6. CASE w.owed # {} /\ ~w.available
    BY <1>15, <2>6 DEF NoneForgotten
  <2>7. CASE w.available /\ old.available /\ ~old.suicide
             /\ (said = <<SendWork>> \/ (said = <<>> /\ old.asked))
    <3>1. Pending(p)'
      BY <2>1, <2>2, <2>4, <2>7
    <3>2. ~Stopping(p)'
      BY <1>14, <2>1, <2>3, <2>7
    <3> QED  BY <1>15, <2>7, <3>1, <3>2 DEF NoneForgotten
  <2> QED  BY <1>7, <2>5, <2>6, <2>7
<1>17. j \notin done
  BY <1>1, <1>2, <1>4 DEF JobsOnce, Out
<1>18. /\ rechecked' \subseteq Job /\ done \subseteq done' /\ done' \subseteq done \cup {j}
       /\ j \in Rechecks(msgs) \/ j \in done'
       /\ Rechecks(msgs) \cap done' = {}
  <2>1. CASE msgs = said /\ done' = done \cup {j} /\ UNCHANGED rechecked
    BY <1>4, <1>8, <2>1
  <2>2. CASE msgs = back \o said /\ rechecked' = rechecked \cup {j} /\ UNCHANGED done
    BY <1>4, <1>13, <1>17, <2>2
  <2> QED  BY <1>12, <2>1, <2>2
<1>19. PICK unread : unread = toWorker[p]
  OBVIOUS
<1>20. /\ unread \in Seq(MasterMsg) /\ Apart(unread) /\ JobsIn(unread) \subseteq JobsIn(toWorker[p])
       /\ Become(p, w, msgs, unread)
       /\ w.owed \subseteq workers[p].owed \cup (JobsIn(toWorker[p]) \ JobsIn(unread))
       /\ JobsIn(toWorker[p]) \subseteq JobsIn(unread) \cup w.owed
  BY <1>2, <1>4, <1>7, <1>12, <1>19
<1>21. /\ done' \subseteq done \cup (workers[p].owed \ w.owed)
       /\ Rechecks(msgs) \subseteq workers[p].owed \ w.owed
       /\ workers[p].owed \subseteq w.owed \cup Rechecks(msgs) \cup done'
  BY <1>2, <1>4, <1>7, <1>14, <1>18
<1>22. IInv' /\ NoneLost
  BY <1>4, <1>7, <1>14, <1>16, <1>18, <1>20, <1>21, BecomeStep
<1> QED  BY <1>15, <1>22

-----------------------------------------------------------------------------
(***************************************************************************)
(* The invariant holds at the start and every step keeps it.               *)
(***************************************************************************)
LEMMA InitHolds ==
  ASSUME Init PROVE IInv
<1>1. /\ master \in Lists /\ master.arrWorkers = {} /\ master.freeWorkers = <<>>
      /\ master.haltedWorkers = {} /\ master.arrObjects = <<>> /\ master.localRetries = {}
  <2>1. PICK free \in Seq(Pid) : free = <<>>
    BY EmptySeq
  <2>2. PICK objects \in Seq(Job) : objects = <<>>
    BY EmptySeq
  <2>3. master = [arrWorkers |-> {}, freeWorkers |-> free, haltedWorkers |-> {},
                  arrObjects |-> objects, localRetries |-> {},
                  gettingSites |-> FALSE, inRound |-> FALSE]
    BY <2>1, <2>2 DEF Init
  <2>4. /\ master \in Lists /\ master.arrWorkers = {} /\ master.freeWorkers = free
        /\ master.haltedWorkers = {} /\ master.arrObjects = objects /\ master.localRetries = {}
    BY <2>3 DEF Lists
  <2> QED  BY <2>1, <2>2, <2>4
<1>2. NoWorker \in Process /\ NoWorker.owed = {} /\ NoWorker.exit # Alive
  <2>1. FreshWorker \in Process /\ FreshWorker.owed = {}
    BY DEF FreshWorker, Process, ExitCode, Alive
  <2>2. NoWorker \in Process /\ NoWorker.owed = {} /\ NoWorker.exit = Crashed
    BY <2>1 DEF NoWorker, Process
  <2> QED  BY <2>2 DEF Crashed, Alive
<1>3. \A p \in Pid : workers[p] = NoWorker /\ toWorker[p] = <<>> /\ toMaster[p] = <<>>
  BY DEF Init
<1>4. workers \in [Pid -> Process]
  BY <1>2 DEF Init
<1>5. toWorker \in [Pid -> Seq(MasterMsg)] /\ toMaster \in [Pid -> Seq(WorkerMsg)]
  <2>1. <<>> \in Seq(MasterMsg) /\ <<>> \in Seq(WorkerMsg)
    BY EmptySeq
  <2> QED  BY <2>1 DEF Init
<1>6. /\ numWorkers \in NumWorkers /\ fetched = 0 /\ rechecked = {} /\ done = {} /\ incidents = 0
  BY DEF Init
<1>7. 0 \in 0 .. Cardinality(Job)
  BY PoolAssumption, FS_CardinalityType
<1>8. Types
  BY <1>1, <1>4, <1>5, <1>6, <1>7 DEF Types
<1>9. ToSet(<<>>) = {} /\ IsInjective(<<>>) /\ JobsIn(<<>>) = {} /\ Apart(<<>>)
  BY DEF ToSet, IsInjective, JobsIn, Apart
<1>10. Rechecks(<<>>) = {} /\ RechecksOnce(<<>>)
  BY Singles
<1>11. FreeListIsSound /\ NoWorkWhileFree
  BY <1>1, <1>9 DEF FreeListIsSound, NoWorkWhileFree
<1>12. GoneHoldsNothing /\ Remembered
  BY <1>2, <1>3 DEF GoneHoldsNothing, Remembered, IsAlive
<1>13. AtMaster = {} /\ \A p \in Pid : Out(p) = {}
  BY <1>1, <1>2, <1>3, <1>9, <1>10 DEF AtMaster, Out
<1>14. JobsOnce
  BY <1>1, <1>2, <1>3, <1>6, <1>9, <1>10, <1>13 DEF JobsOnce
<1> QED  BY <1>8, <1>11, <1>12, <1>14 DEF IInv

\* A step keeps the invariant, and loses a job in a known way only.
LEMMA NextHolds ==
  ASSUME IInv, Next
  PROVE  IInv' /\ NoneLost
<1>1. ASSUME NEW p \in Pid, HandleMessage(p) PROVE IInv' /\ NoneLost
  BY <1>1, MessageStep
<1>2. ASSUME NEW p \in Pid, HandleExit(p) PROVE IInv' /\ NoneLost
  BY <1>2, ExitStep
<1>3. ASSUME NEW p \in Pid, WorkerStep(p) PROVE IInv' /\ NoneLost
  <2>1. CASE WorkerReads(p)
    BY <2>1, ReadsStep
  <2>2. CASE WorkerAsks(p)
    BY <2>2, AsksStep
  <2>3. CASE WorkerSendsStats(p)
    BY <2>3, StatsSentStep
  <2>4. CASE \E j \in workers[p].owed : WorkerReports(p, j)
    BY <2>4, ReportsStep
  <2>5. CASE Crash(p)
    BY <2>5, CrashStep
  <2> QED  BY <1>3, <2>1, <2>2, <2>3, <2>4, <2>5 DEF WorkerStep
<1>4. CASE ensure_worker_count
  BY <1>4, EnsureStep
<1>5. ASSUME NEW n \in 1 .. MaxRows, RowsArrive(n) PROVE IInv' /\ NoneLost
  <2>1. n \in Nat
    BY PoolAssumption
  <2> QED  BY <1>5, <2>1, RowsStep
<1>6. CASE GoOnGettingSites
  BY <1>6, GoOnStep
<1>7. ASSUME NEW due \in SUBSET master.localRetries, processQueuedRetries(due)
      PROVE  IInv' /\ NoneLost
  BY <1>7, RetriesStep
<1>8. CASE ReloadConfig
  BY <1>8, ReloadStep
<1> QED  BY <1>1, <1>2, <1>3, <1>4, <1>5, <1>6, <1>7, <1>8 DEF Next

\* Nothing changes.
LEMMA StutterHolds ==
  ASSUME IInv, UNCHANGED vars PROVE IInv'
  BY DEF vars, IInv, Types, FreeListIsSound, NoWorkWhileFree, GoneHoldsNothing, IsAlive,
         Remembered, NoneForgotten, Pending, Stopping, JobsOnce, AtMaster, Out

\* The inductive invariant holds in every state.
THEOREM InvariantHolds == Spec => []IInv
<1>1. IInv /\ [Next]_vars => IInv'
  BY NextHolds, StutterHolds
<1> QED  BY <1>1, InitHolds, PTL DEF Spec

\* The master's lists, its queue, the workers and the job sets have their
\* types, for any number of processes and jobs.
THEOREM TypeCorrect == Spec => []TypeOK
<1>1. IInv => TypeOK
  <2> SUFFICES ASSUME IInv PROVE TypeOK
    OBVIOUS
  <2>1. /\ master.arrWorkers \subseteq Pid /\ master.haltedWorkers \subseteq Pid
        /\ master.freeWorkers \in Seq(Pid) /\ master.arrObjects \in Seq(Job)
        /\ master.localRetries \subseteq Job
        /\ {master.gettingSites, master.inRound} \subseteq BOOLEAN
    BY DEF IInv, Types, Lists
  <2>2. numWorkers \in NumWorkers /\ fetched \in Nat /\ rechecked \subseteq Job /\ done \subseteq Job
    BY DEF IInv, Types
  <2>3. \A p \in Pid : workers[p].owed \subseteq Job /\ workers[p].exit \in ExitCode \cup {Crashed, ShutDown}
    BY DEF IInv, Types, Process
  <2> QED  BY <2>1, <2>2, <2>3 DEF TypeOK
<1> QED  BY <1>1, InvariantHolds, PTL

\* The list of free workers is exact: no worker twice, none about to be
\* recycled, every idle one, and nobody while work is queued.
THEOREM FreeListHolds == Spec => []FreeListIsExact
<1>1. IInv => FreeListIsExact
  <2> SUFFICES ASSUME IInv PROVE FreeListIsExact
    OBVIOUS
  <2>1. NoWorkerForgotten
    <3> SUFFICES ASSUME NEW p \in master.arrWorkers, Idle(p) PROVE p \in ToSet(master.freeWorkers)
      BY DEF NoWorkerForgotten
    <3>1. p \in Pid /\ IsAlive(p)
      BY DEF IInv, Types, Lists, Idle
    <3>2. NoneForgotten(p)
      BY <3>1 DEF IInv, Remembered
    <3> QED  BY <3>2 DEF NoneForgotten, Pending, Idle
  <2> QED  BY <2>1 DEF IInv, FreeListIsExact
<1> QED  BY <1>1, InvariantHolds, PTL

-----------------------------------------------------------------------------
(***************************************************************************)
(* The places of a job, counted.                                           *)
(***************************************************************************)
LEMMA PlaceIs ==
  ASSUME NEW j, NEW x \in Places(j)
  PROVE  \/ \E i \in Queued(j) : x = [kind |-> "arrObjects", at |-> i]
         \/ j \in master.localRetries /\ x = [kind |-> "localRetries", at |-> j]
         \/ j \in done /\ x = [kind |-> "done", at |-> j]
         \/ \E p \in Pid : \E i \in InTransit(p, j) : x = [kind |-> "transit", pid |-> p, at |-> i]
         \/ \E p \in Pid : j \in workers[p].owed /\ x = [kind |-> "worker", pid |-> p, at |-> j]
         \/ \E p \in Pid : \E i \in Rechecking(p, j) : x = [kind |-> "recheck", pid |-> p, at |-> i]
<1>1. x \in PlacesInside(j) \/ \E p \in Pid : x \in PlacesOut(p, j)
  BY DEF Places
<1>2. CASE x \in PlacesInside(j)
  BY <1>2 DEF PlacesInside
<1>3. ASSUME NEW p \in Pid, x \in PlacesOut(p, j)
      PROVE  \/ \E i \in InTransit(p, j) : x = [kind |-> "transit", pid |-> p, at |-> i]
             \/ j \in workers[p].owed /\ x = [kind |-> "worker", pid |-> p, at |-> j]
             \/ \E i \in Rechecking(p, j) : x = [kind |-> "recheck", pid |-> p, at |-> i]
  BY <1>3 DEF PlacesOut
<1> QED  BY <1>1, <1>2, <1>3

\* Where a place says its job is.
LEMMA PlaceFacts ==
  ASSUME Types, NEW j \in Job
  PROVE  /\ Queued(j) # {} <=> j \in ToSet(master.arrObjects)
         /\ \A p \in Pid : /\ InTransit(p, j) # {} <=> j \in JobsIn(toWorker[p])
                           /\ Rechecking(p, j) # {} <=> j \in Rechecks(toMaster[p])
<1>1. Queued(j) # {} <=> j \in ToSet(master.arrObjects)
  BY DEF Queued, ToSet
<1>2. ASSUME NEW p \in Pid PROVE InTransit(p, j) # {} <=> j \in JobsIn(toWorker[p])
  <2>1. \A i \in DOMAIN toWorker[p] : i \in InTransit(p, j) <=> j \in JobsOf(toWorker[p][i])
    BY DEF InTransit, JobsOf
  <2>2. InTransit(p, j) \subseteq DOMAIN toWorker[p]
    BY DEF InTransit
  <2> QED  BY <2>1, <2>2 DEF JobsIn
<1>3. ASSUME NEW p \in Pid PROVE Rechecking(p, j) # {} <=> j \in Rechecks(toMaster[p])
  BY DEF Rechecking, Rechecks, ToSet
<1> QED  BY <1>1, <1>2, <1>3

\* A job that is anywhere has a place.
LEMMA HasPlace ==
  Types => \A j \in Job : (j \in Anywhere <=> Places(j) # {})
<1> SUFFICES ASSUME Types, NEW j \in Job PROVE j \in Anywhere <=> Places(j) # {}
  OBVIOUS
<1>1. /\ Queued(j) # {} <=> j \in ToSet(master.arrObjects)
      /\ \A p \in Pid : /\ InTransit(p, j) # {} <=> j \in JobsIn(toWorker[p])
                        /\ Rechecking(p, j) # {} <=> j \in Rechecks(toMaster[p])
  BY PlaceFacts
<1>2. ASSUME Places(j) # {} PROVE j \in Anywhere
  <2>1. PICK x : x \in Places(j)
    BY <1>2
  <2> QED  BY <1>1, <2>1, PlaceIs DEF Anywhere, AtMaster, Out
<1>3. ASSUME j \in Anywhere PROVE Places(j) # {}
  <2>1. ASSUME j \in AtMaster \cup done PROVE PlacesInside(j) # {}
    <3>1. CASE j \in ToSet(master.arrObjects)
      <4>1. PICK i : i \in Queued(j)
        BY <1>1, <3>1
      <4>2. [kind |-> "arrObjects", at |-> i] \in PlacesInside(j)
        BY <4>1 DEF PlacesInside
      <4> QED  BY <4>2
    <3>2. CASE j \in master.localRetries
      <4>1. [kind |-> "localRetries", at |-> j] \in PlacesInside(j)
        BY <3>2 DEF PlacesInside
      <4> QED  BY <4>1
    <3>3. CASE j \in done
      <4>1. [kind |-> "done", at |-> j] \in PlacesInside(j)
        BY <3>3 DEF PlacesInside
      <4> QED  BY <4>1
    <3> QED  BY <2>1, <3>1, <3>2, <3>3 DEF AtMaster
  <2>2. ASSUME NEW p \in Pid, j \in Out(p) PROVE PlacesOut(p, j) # {}
    <3>1. CASE j \in JobsIn(toWorker[p])
      <4>1. PICK i : i \in InTransit(p, j)
        BY <1>1, <3>1
      <4>2. [kind |-> "transit", pid |-> p, at |-> i] \in PlacesOut(p, j)
        BY <4>1 DEF PlacesOut
      <4> QED  BY <4>2
    <3>2. CASE j \in workers[p].owed
      <4>1. [kind |-> "worker", pid |-> p, at |-> j] \in PlacesOut(p, j)
        BY <3>2 DEF PlacesOut
      <4> QED  BY <4>1
    <3>3. CASE j \in Rechecks(toMaster[p])
      <4>1. PICK i : i \in Rechecking(p, j)
        BY <1>1, <3>3
      <4>2. [kind |-> "recheck", pid |-> p, at |-> i] \in PlacesOut(p, j)
        BY <4>1 DEF PlacesOut
      <4> QED  BY <4>2
    <3> QED  BY <2>2, <3>1, <3>2, <3>3 DEF Out
  <2> QED  BY <1>3, <2>1, <2>2 DEF Anywhere, Places
<1> QED  BY <1>2, <1>3

\* Two places of a job are the same place.
LEMMA PlaceUnique ==
  ASSUME IInv, NEW j \in Job, NEW x \in Places(j), NEW y \in Places(j)
  PROVE  x = y
<1>1. Types /\ JobsOnce
  BY DEF IInv
<1>2. /\ \A i \in Queued(j) : j \in ToSet(master.arrObjects)
      /\ \A p \in Pid : /\ \A i \in InTransit(p, j) : j \in JobsIn(toWorker[p])
                        /\ \A i \in Rechecking(p, j) : j \in Rechecks(toMaster[p])
  BY <1>1, PlaceFacts
<1>3. \A i, k \in Queued(j) : i = k
  BY <1>1 DEF JobsOnce, IsInjective, Queued
<1>4. \A p \in Pid : \A i, k \in InTransit(p, j) : i = k
  <2> SUFFICES ASSUME NEW p \in Pid, NEW i \in InTransit(p, j), NEW k \in InTransit(p, j)
               PROVE  i = k
    OBVIOUS
  <2>1. /\ i \in DOMAIN toWorker[p] /\ j \in JobsOf(toWorker[p][i])
        /\ k \in DOMAIN toWorker[p] /\ j \in JobsOf(toWorker[p][k])
    BY DEF InTransit, JobsOf
  <2>2. Apart(toWorker[p])
    BY <1>1 DEF JobsOnce
  <2> QED  BY <2>1, <2>2 DEF Apart
<1>5. \A p \in Pid : \A i, k \in Rechecking(p, j) : i = k
  <2> SUFFICES ASSUME NEW p \in Pid, NEW i \in Rechecking(p, j), NEW k \in Rechecking(p, j)
               PROVE  i = k
    OBVIOUS
  <2>1. /\ i \in DOMAIN toMaster[p] /\ toMaster[p][i] = recheck(j)
        /\ k \in DOMAIN toMaster[p] /\ toMaster[p][k] = recheck(j)
    BY DEF Rechecking
  <2>2. toMaster[p][i].msgtype = "recheck"
    BY <2>1, RecheckMsg
  <2>3. RechecksOnce(toMaster[p])
    BY <1>1 DEF JobsOnce
  <2> QED  BY <2>1, <2>2, <2>3 DEF RechecksOnce
<1>6. /\ \A p \in Pid : /\ j \in Out(p) => j \notin AtMaster /\ j \notin done
                        /\ \A q \in Pid : j \in Out(p) /\ j \in Out(q) => p = q
      /\ j \in AtMaster => j \notin done
      /\ ~(j \in ToSet(master.arrObjects) /\ j \in master.localRetries)
      /\ \A p \in Pid : /\ ~(j \in JobsIn(toWorker[p]) /\ j \in workers[p].owed)
                        /\ ~(j \in JobsIn(toWorker[p]) /\ j \in Rechecks(toMaster[p]))
                        /\ ~(j \in workers[p].owed /\ j \in Rechecks(toMaster[p]))
  BY <1>1 DEF JobsOnce
<1>7. /\ j \in ToSet(master.arrObjects) => j \in AtMaster
      /\ j \in master.localRetries => j \in AtMaster
      /\ \A p \in Pid : /\ j \in JobsIn(toWorker[p]) => j \in Out(p)
                        /\ j \in workers[p].owed => j \in Out(p)
                        /\ j \in Rechecks(toMaster[p]) => j \in Out(p)
  BY DEF AtMaster, Out
<1> DEFINE Q(z) == \E i \in Queued(j) : z = [kind |-> "arrObjects", at |-> i]
           R(z) == j \in master.localRetries /\ z = [kind |-> "localRetries", at |-> j]
           D(z) == j \in done /\ z = [kind |-> "done", at |-> j]
           T(z) == \E p \in Pid : \E i \in InTransit(p, j) : z = [kind |-> "transit", pid |-> p, at |-> i]
           W(z) == \E p \in Pid : j \in workers[p].owed /\ z = [kind |-> "worker", pid |-> p, at |-> j]
           C(z) == \E p \in Pid : \E i \in Rechecking(p, j) : z = [kind |-> "recheck", pid |-> p, at |-> i]
<1>8. \A z \in {x, y} : Q(z) \/ R(z) \/ D(z) \/ T(z) \/ W(z) \/ C(z)
  BY PlaceIs
<1>9. CASE Q(x)
  <2>1. ~R(y) /\ ~D(y) /\ ~T(y) /\ ~W(y) /\ ~C(y)
    BY <1>2, <1>6, <1>7, <1>9
  <2>2. Q(y)
    BY <1>8, <2>1
  <2> QED  BY <1>3, <1>9, <2>2
<1>10. CASE R(x)
  <2>1. ~Q(y) /\ ~D(y) /\ ~T(y) /\ ~W(y) /\ ~C(y)
    BY <1>2, <1>6, <1>7, <1>10
  <2>2. R(y)
    BY <1>8, <2>1
  <2> QED  BY <1>10, <2>2
<1>11. CASE D(x)
  <2>1. ~Q(y) /\ ~R(y) /\ ~T(y) /\ ~W(y) /\ ~C(y)
    BY <1>2, <1>6, <1>7, <1>11
  <2>2. D(y)
    BY <1>8, <2>1
  <2> QED  BY <1>11, <2>2
<1>12. CASE T(x)
  <2>1. ~Q(y) /\ ~R(y) /\ ~D(y) /\ ~W(y) /\ ~C(y)
    BY <1>2, <1>6, <1>7, <1>12
  <2>2. T(y)
    BY <1>8, <2>1
  <2> QED  BY <1>2, <1>4, <1>6, <1>7, <1>12, <2>2
<1>13. CASE W(x)
  <2>1. ~Q(y) /\ ~R(y) /\ ~D(y) /\ ~T(y) /\ ~C(y)
    BY <1>2, <1>6, <1>7, <1>13
  <2>2. W(y)
    BY <1>8, <2>1
  <2> QED  BY <1>6, <1>7, <1>13, <2>2
<1>14. CASE C(x)
  <2>1. ~Q(y) /\ ~R(y) /\ ~D(y) /\ ~T(y) /\ ~W(y)
    BY <1>2, <1>6, <1>7, <1>14
  <2>2. C(y)
    BY <1>8, <2>1
  <2> QED  BY <1>2, <1>5, <1>6, <1>7, <1>14, <2>2
<1> QED  BY <1>8, <1>9, <1>10, <1>11, <1>12, <1>13, <1>14

\* A job is checked by one worker at a time: it has one place at most, in
\* the queues, on the channels, with the workers or among the verdicts.
THEOREM JobsStayInOnePlace == Spec => []JobInOnePlace
<1>1. IInv => JobInOnePlace
  <2> SUFFICES ASSUME IInv, NEW j \in Job PROVE Cardinality(Places(j)) <= 1
    BY DEF JobInOnePlace
  <2>1. CASE Places(j) = {}
    BY <2>1, FS_EmptySet
  <2>2. CASE Places(j) # {}
    <3>1. PICK x : x \in Places(j)
      BY <2>2
    <3>2. Places(j) = {x}
      BY <3>1, PlaceUnique
    <3>3. Cardinality({x}) = 1
      BY FS_Singleton
    <3> QED  BY <3>2, <3>3
  <2> QED  BY <2>1, <2>2
<1> QED  BY <1>1, InvariantHolds, PTL

\* A worker that exits loses what it has not read, one that dies also what it
\* accepted, and the master what it sends to one that is gone and what comes
\* back while another job of its site waits to be retried: no other handler,
\* report or retry, and no worker that retires, loses a job.
THEOREM JobsAreKept == Spec => JobLostInKnownWays
<1> DEFINE Loses == \A j \in Job : Places(j) # {} /\ Places(j)' = {} =>
                                     \E p \in Pid : LostTo(p, j)
<1>1. (Types => \A j \in Job : (j \in Anywhere <=> Places(j) # {}))'
  BY HasPlace, PTL
<1>2. IInv /\ IInv' /\ [Next]_vars => [Loses]_vars
  <2> SUFFICES ASSUME IInv, IInv', Next PROVE Loses
    OBVIOUS
  <2>1. \A j \in Job : j \in Anywhere <=> Places(j) # {}
    BY HasPlace DEF IInv
  <2>2. \A j \in Job : j \in Anywhere' <=> Places(j)' # {}
    BY <1>1 DEF IInv
  <2>3. NoneLost
    BY NextHolds
  <2>4. \A j \in Job : \A p \in Pid :
          Unread(p, j) \/ Killed(p, j) \/ SentGone(p, j) \/ Duplicate(p, j) => LostTo(p, j)
    <3>1. \A j \in Job : \A p \in Pid : /\ InTransit(p, j) # {} <=> j \in JobsIn(toWorker[p])
                                        /\ Rechecking(p, j) # {} <=> j \in Rechecks(toMaster[p])
      BY PlaceFacts DEF IInv
    <3> QED  BY <3>1 DEF Unread, Killed, SentGone, Duplicate, LostTo, AtMaster
  <2> QED  BY <2>1, <2>2, <2>3, <2>4 DEF NoneLost
<1> QED  BY <1>2, InvariantHolds, PTL DEF Spec, JobLostInKnownWays

=============================================================================
