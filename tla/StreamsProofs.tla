--------------------------- MODULE StreamsProofs ---------------------------
(***************************************************************************)
(* GatewaySessions: permits, tokens and the pick of an upstream, for any   *)
(* number of connections, instances and generations of the configuration.  *)
(* Logs: the lines a watcher publishes are those of its file, for files,   *)
(* lines, batches and buffers of any size.                                 *)
(***************************************************************************)
EXTENDS GatewaySessions, Logs, SequenceTheorems, FiniteSetTheorems, WellFoundedInduction, TLAPS

-----------------------------------------------------------------------------
(***************************************************************************)
(* The elements of a set of numbers, from the least one on.                *)
(***************************************************************************)

\* The least number of a set, by the well-foundedness of < : what the inductions below
\* rest on.
LEMMA LeastNatural ==
  ASSUME NEW S \in SUBSET Nat, S # {}
  PROVE  \E n \in S : \A m \in S : n <= m
<1>1. IsWellFoundedOn(OpToRel(<, Nat), Nat)
  BY NatLessThanWellFounded
<1>2. PICK n \in S : \A m \in S : ~(<<m, n>> \in OpToRel(<, Nat))
  BY <1>1, WFMin, Zenon
<1>3. \A m \in S : ~(m < n)
  BY <1>2 DEF OpToRel
<1> QED BY <1>3

\* pool.rs, pick: the sorted list of healthy ids has one at every index.
LEMMA IndexExists ==
  ASSUME NEW S \in SUBSET Nat, IsFiniteSet(S), NEW k \in Nat, k < Cardinality(S)
  PROVE  \E id \in S : Cardinality({x \in S : x < id}) = k
<1> DEFINE Bad == {n \in Nat : n < Cardinality(S) /\ ~\E id \in S : Cardinality({x \in S : x < id}) = n}
<1>0. Cardinality(S) \in Nat /\ \A x \in S : x \in Nat
  BY FS_CardinalityType
<1> SUFFICES Bad = {}
  OBVIOUS
<1> SUFFICES ASSUME Bad # {} PROVE FALSE
  OBVIOUS
<1>1. PICK n \in Bad : \A m \in Bad : n <= m
  BY LeastNatural
<1>2. CASE n = 0
  <2>1. S # {}
    BY <1>0, <1>1, <1>2, FS_EmptySet
  <2>2. PICK id \in S : \A m \in S : id <= m
    BY <2>1, LeastNatural
  <2>3. {x \in S : x < id} = {}
    <3>1. \A x \in S : ~(x < id)
      BY <1>0, <2>2
    <3> QED BY <3>1
  <2>4. Cardinality({x \in S : x < id}) = 0
    BY <2>3, FS_EmptySet
  <2> QED BY <1>1, <1>2, <2>4
<1>3. CASE n # 0
  <2>1. n - 1 \in Nat /\ n - 1 \notin Bad /\ n - 1 < Cardinality(S)
    BY <1>0, <1>1, <1>3
  <2>2. PICK id \in S : Cardinality({x \in S : x < id}) = n - 1
    BY <2>1
  <2> DEFINE Lower == {x \in S : x < id}
             UpTo == Lower \cup {id}
             Above == {x \in S : id < x}
  <2>3. IsFiniteSet(Lower)
    BY FS_Subset
  <2>4. Cardinality(UpTo) = n
    <3>1. id \notin Lower /\ Cardinality(Lower) = n - 1
      BY <2>2
    <3>2. Cardinality(UpTo) = Cardinality(Lower) + 1
      BY <2>3, <3>1, FS_AddElement
    <3> QED BY <3>1, <3>2
  <2>5. Above # {}
    <3>1. ASSUME Above = {} PROVE S = UpTo
      <4>1. \A x \in S : x \in UpTo
        BY <1>0, <3>1
      <4> QED BY <4>1
    <3>2. ASSUME S = UpTo PROVE FALSE
      <4>1. Cardinality(S) = Cardinality(UpTo)
        BY <3>2, Zenon
      <4>2. n < Cardinality(S) /\ n \in Nat
        BY <1>1
      <4> HIDE DEF UpTo
      <4> QED BY <1>0, <2>4, <4>1, <4>2
    <3> QED BY <3>1, <3>2
  <2>6. PICK m \in Above : \A y \in Above : m <= y
    BY <2>5, LeastNatural
  <2>7. {x \in S : x < m} = UpTo
    <3>1. \A x \in S : x < m => x \in UpTo
      BY <1>0, <2>6
    <3>2. \A x \in UpTo : x \in S /\ x < m
      BY <1>0, <2>6
    <3> QED BY <3>1, <3>2
  <2> QED BY <1>1, <2>4, <2>6, <2>7
<1> QED BY <1>2, <1>3

-----------------------------------------------------------------------------
(***************************************************************************)
(* The lines of a log.                                                     *)
(***************************************************************************)

LEMMA GreatestNatural ==
  ASSUME NEW S \in SUBSET Nat, S # {}, NEW n \in Nat, \A x \in S : x <= n
  PROVE  Max(S) \in S /\ \A x \in S : x <= Max(S)
<1> DEFINE T == {n - x : x \in S}
<1>1. T \in SUBSET Nat /\ T # {}
  <2>1. \A x \in S : x \in Nat /\ n - x \in Nat
    OBVIOUS
  <2> QED BY <2>1, Zenon
<1>2. PICK d \in T : \A e \in T : d <= e
  BY <1>1, LeastNatural
<1>3. PICK y \in S : d = n - y
  BY <1>2
<1>4. \A x \in S : x <= y
  <2>1. ASSUME NEW x \in S PROVE x <= y
    <3>1. n - x \in T
      OBVIOUS
    <3>2. d <= n - x
      BY <1>2, <3>1
    <3> QED BY <1>3, <3>2
  <2> QED BY <2>1
<1>5. \E z \in S : \A x \in S : z >= x
  BY <1>4
<1>6. Max(S) \in S /\ \A x \in S : Max(S) >= x
  BY <1>5 DEF Max
<1> QED BY <1>6

\* A set is numbered from its least element on.
LEMMA KthIs ==
  ASSUME NEW S \in SUBSET Nat, IsFiniteSet(S), NEW k \in 1 .. Cardinality(S)
  PROVE  Kth(S, k) \in S /\ Cardinality(Below(S, Kth(S, k))) = k - 1
<1>1. Cardinality(S) \in Nat
  BY FS_CardinalityType
<1>2. \E i \in S : Cardinality(Below(S, i)) = k - 1
  <2>1. \E i \in S : Cardinality({j \in S : j < i}) = k - 1
    BY <1>1, IndexExists
  <2> QED BY <2>1 DEF Below
<1> QED BY <1>2 DEF Kth

LEMMA KthUnique ==
  ASSUME NEW S \in SUBSET Nat, IsFiniteSet(S), NEW x \in S, NEW y \in S,
         Cardinality(Below(S, x)) = Cardinality(Below(S, y))
  PROVE  x = y
<1>1. ASSUME NEW a \in S, NEW b \in S, a < b
      PROVE  Cardinality(Below(S, a)) # Cardinality(Below(S, b))
  <2>1. Below(S, b) \in SUBSET S
    BY DEF Below
  <2>2. IsFiniteSet(Below(S, b))
    BY <2>1, FS_Subset
  <2>3. /\ \A j \in S : j < a => j < b
        /\ ~(a < a)
    BY <1>1
  <2>4. Below(S, a) \in SUBSET Below(S, b) /\ a \in Below(S, b) /\ a \notin Below(S, a)
    BY <1>1, <2>3, Zenon DEF Below
  <2> QED BY <2>2, <2>4, FS_Subset
<1> QED BY <1>1

LEMMA KthFrom ==
  ASSUME NEW S \in SUBSET Nat, IsFiniteSet(S), NEW k \in 1 .. Cardinality(S), NEW x \in S,
         Cardinality(Below(S, x)) = k - 1
  PROVE  Kth(S, k) = x
<1>1. Kth(S, k) \in S /\ Cardinality(Below(S, Kth(S, k))) = k - 1
  BY KthIs
<1> QED BY <1>1, KthUnique, Zenon

\* The second of two texts: its positions after the m of the first.
Shift(m, T) == {m + j : j \in T}

LEMMA Shifted ==
  ASSUME NEW T \in SUBSET Nat, IsFiniteSet(T), NEW m \in Nat
  PROVE  /\ Shift(m, T) \in SUBSET Nat /\ IsFiniteSet(Shift(m, T))
         /\ Cardinality(Shift(m, T)) = Cardinality(T)
<1> DEFINE V == Shift(m, T)
           f == [j \in T |-> m + j]
<1>0. V \in SUBSET Nat
  <2>1. \A j \in T : m + j \in Nat
    OBVIOUS
  <2> QED BY <2>1, Zenon DEF Shift
<1>1. f \in [T -> V] /\ \A a, b \in T : f[a] = f[b] => a = b
  <2>1. \A j \in T : m + j \in V
    BY Zenon DEF Shift
  <2> HIDE DEF V
  <2>2. f \in [T -> V]
    BY <2>1
  <2>3. \A a, b \in T : f[a] = f[b] => a = b
    OBVIOUS
  <2> QED BY <2>2, <2>3
<1>2. \A v \in V : \E j \in T : f[j] = v
  <2>1. \A j \in T : f[j] = m + j
    OBVIOUS
  <2> HIDE DEF f
  <2> QED BY <2>1, Zenon DEF Shift
<1> HIDE DEF V, f
<1>3. f \in Bijection(T, V)
  BY <1>1, <1>2 DEF Bijection, Injection, Surjection, IsInjective
<1>4. ExistsBijection(T, V)
  BY <1>3 DEF ExistsBijection
<1>5. IsFiniteSet(V) /\ Cardinality(V) = Cardinality(T)
  BY <1>4, FS_Bijection
<1> QED BY <1>0, <1>5 DEF V

LEMMA ShiftedBelow ==
  ASSUME NEW T \in SUBSET Nat, NEW m \in Nat, NEW i \in Nat
  PROVE  Below(Shift(m, T), m + i) = Shift(m, Below(T, i))
<1>1. \A j \in T : j \in Nat /\ (m + j < m + i <=> j < i)
  OBVIOUS
<1>2. ASSUME NEW x \in Below(Shift(m, T), m + i) PROVE x \in Shift(m, Below(T, i))
  <2>1. PICK j \in T : x = m + j /\ x < m + i
    BY <1>2, Zenon DEF Below, Shift
  <2>2. j \in Below(T, i)
    BY <1>1, <2>1 DEF Below
  <2> QED BY <2>1, <2>2, Zenon DEF Shift
<1>3. ASSUME NEW x \in Shift(m, Below(T, i)) PROVE x \in Below(Shift(m, T), m + i)
  <2>1. PICK j \in Below(T, i) : x = m + j
    BY <1>3, Zenon DEF Shift
  <2>2. j \in T /\ m + j < m + i
    BY <1>1, <2>1 DEF Below
  <2> QED BY <2>1, <2>2, Zenon DEF Below, Shift
<1> QED BY <1>2, <1>3

LEMMA BelowBoth ==
  ASSUME NEW S, NEW T, NEW x
  PROVE  Below(S \cup T, x) = Below(S, x) \cup Below(T, x)
BY Zenon DEF Below

\* Two numbered sets, the second one after the first.
OneAfter(S, m, T, U) ==
  /\ S \in SUBSET Nat /\ IsFiniteSet(S) /\ T \in SUBSET Nat /\ IsFiniteSet(T)
  /\ m \in Nat /\ (\A x \in S : x <= m) /\ (\A j \in T : j > 0)
  /\ U = S \cup Shift(m, T)

LEMMA KthOfBoth ==
  ASSUME NEW S, NEW m, NEW T, NEW U, OneAfter(S, m, T, U)
  PROVE  /\ U \in SUBSET Nat /\ IsFiniteSet(U)
         /\ Cardinality(U) = Cardinality(S) + Cardinality(T)
         /\ \A k \in 1 .. Cardinality(S) : Kth(U, k) = Kth(S, k)
         /\ \A k \in 1 .. Cardinality(T) : Kth(U, Cardinality(S) + k) = m + Kth(T, k)
<1> DEFINE V == Shift(m, T)
<1>0. /\ S \in SUBSET Nat /\ IsFiniteSet(S) /\ T \in SUBSET Nat /\ IsFiniteSet(T)
      /\ m \in Nat /\ (\A x \in S : x <= m) /\ (\A j \in T : j > 0)
      /\ U = S \cup Shift(m, T)
  BY DEF OneAfter
<1> USE <1>0
<1>1. Cardinality(S) \in Nat /\ Cardinality(T) \in Nat
  BY FS_CardinalityType
<1>2. V \in SUBSET Nat /\ IsFiniteSet(V) /\ Cardinality(V) = Cardinality(T)
  BY Shifted
<1>3. \A j \in T : m + j > m
  OBVIOUS
<1>4. \A x \in V : x > m
  BY <1>3, Zenon DEF Shift
<1>5. S \cap V = {} /\ U \in SUBSET Nat
  <2>1. ASSUME NEW x \in S, x \in V PROVE FALSE
    <3>1. x <= m /\ x > m /\ x \in Nat
      BY <1>4, <2>1, Zenon
    <3> QED BY <3>1
  <2> QED BY <1>2, <2>1, Zenon
<1> HIDE DEF V
<1>6. IsFiniteSet(U) /\ Cardinality(U) = Cardinality(S) + Cardinality(T)
  <2>1. /\ Cardinality(S \cup V) = Cardinality(S) + Cardinality(V) - Cardinality({})
        /\ IsFiniteSet(S \cup V)
    BY <1>2, <1>5, FS_Union
  <2>2. U = S \cup V
    BY DEF V
  <2> QED BY <1>1, <1>2, <2>1, <2>2, FS_EmptySet
<1>7. ASSUME NEW k \in 1 .. Cardinality(S) PROVE Kth(U, k) = Kth(S, k)
  <2>1. Kth(S, k) \in S /\ Cardinality(Below(S, Kth(S, k))) = k - 1
    BY KthIs
  <2>2. Below(V, Kth(S, k)) = {}
    <3>1. ASSUME NEW x \in V, x < Kth(S, k) PROVE FALSE
      <4>1. x > m /\ x \in Nat /\ Kth(S, k) <= m /\ Kth(S, k) \in Nat
        BY <1>2, <1>4, <2>1, <3>1
      <4> QED BY <3>1, <4>1
    <3> QED BY <3>1, Zenon DEF Below
  <2>3. Below(U, Kth(S, k)) = Below(S, Kth(S, k))
    <3>0. U = S \cup V
      BY DEF V
    <3>1. Below(U, Kth(S, k)) = Below(S, Kth(S, k)) \cup Below(V, Kth(S, k))
      BY <3>0, BelowBoth
    <3> QED BY <2>2, <3>1
  <2>4. k \in 1 .. Cardinality(U) /\ Kth(S, k) \in U
    BY <1>1, <1>6, <2>1
  <2> QED BY <1>5, <1>6, <2>1, <2>3, <2>4, KthFrom
<1>8. ASSUME NEW k \in 1 .. Cardinality(T) PROVE Kth(U, Cardinality(S) + k) = m + Kth(T, k)
  <2> DEFINE i == Kth(T, k)
             W == Below(T, i)
             n == Cardinality(S) + k
  <2>1. i \in T /\ Cardinality(W) = k - 1
    BY KthIs
  <2> HIDE DEF i
  <2>2. W \in SUBSET T
    BY DEF Below
  <2>3. IsFiniteSet(W) /\ W \in SUBSET Nat
    BY <2>2, FS_Subset
  <2>4. Below(S, m + i) = S
    <3>1. \A x \in S : x < m + i
      BY <2>1
    <3> QED BY <3>1, Zenon DEF Below
  <2>5. Below(V, m + i) = Shift(m, W)
    BY <2>1, ShiftedBelow DEF V
  <2>6. Below(U, m + i) = S \cup Shift(m, W)
    BY <2>4, <2>5, BelowBoth DEF V
  <2>7. /\ Shift(m, W) \in SUBSET Nat /\ IsFiniteSet(Shift(m, W))
        /\ Cardinality(Shift(m, W)) = k - 1
    BY <2>1, <2>3, Shifted
  <2>8. S \cap Shift(m, W) = {}
    <3>1. Shift(m, W) \in SUBSET V
      BY <2>5 DEF Below
    <3> QED BY <1>5, <3>1
  <2>9. Cardinality(Below(U, m + i)) = n - 1
    <3> DEFINE X == Shift(m, W)
    <3> HIDE DEF X
    <3>1. IsFiniteSet(X) /\ Cardinality(X) = k - 1 /\ S \cap X = {}
      BY <2>7, <2>8 DEF X
    <3>2. Cardinality(S \cup X) = Cardinality(S) + Cardinality(X) - Cardinality({})
      BY <3>1, FS_Union
    <3>3. Cardinality({}) = 0
      BY FS_EmptySet
    <3>4. Cardinality(S \cup X) = n - 1
      BY <1>1, <3>1, <3>2, <3>3
    <3> QED BY <2>6, <3>4 DEF X
  <2>10. m + i \in U /\ n \in 1 .. Cardinality(U)
    <3>1. m + i \in V
      BY <2>1 DEF V, Shift
    <3> QED BY <1>1, <1>6, <3>1 DEF V
  <2> HIDE DEF n
  <2>11. Kth(U, n) = m + i
    BY <1>5, <1>6, <2>9, <2>10, KthFrom
  <2> QED BY <2>11 DEF i, n
<1> QED BY <1>5, <1>6, <1>7, <1>8

Text == Seq(Units)

LEMMA TextIs ==
  ASSUME NEW s \in Text
  PROVE  /\ Len(s) \in Nat /\ DOMAIN s = 1 .. Len(s)
         /\ \A i \in 1 .. Len(s) : s[i] \in Units
BY LenProperties, ElementOfSeq DEF Text

\* The NLs of a text, as numbers.
LEMMA NlsAre ==
  ASSUME NEW s \in Text
  PROVE  /\ Nls(s) \in SUBSET Nat /\ IsFiniteSet(Nls(s))
         /\ \A i : i \in Nls(s) <=> (i \in Nat /\ i > 0 /\ i <= Len(s) /\ s[i] = NL)
         /\ Ends(s) \in SUBSET Nat /\ IsFiniteSet(Ends(s))
         /\ \A i : i \in Ends(s) <=> (i \in Nls(s) /\ i > 1 /\ s[i - 1] # NL)
<1>1. Len(s) \in Nat
  BY TextIs
<1>2. IsFiniteSet(1 .. Len(s))
  BY <1>1, FS_Interval
<1>3. Nls(s) \in SUBSET (1 .. Len(s)) /\ Ends(s) \in SUBSET Nls(s)
  BY DEF Nls, Ends
<1>4. IsFiniteSet(Nls(s))
  BY <1>2, <1>3, FS_Subset
<1>5. IsFiniteSet(Ends(s))
  BY <1>3, <1>4, FS_Subset
<1>6. \A i : i \in 1 .. Len(s) <=> i \in Nat /\ i > 0 /\ i <= Len(s)
  BY <1>1
<1>7. \A i : i \in Nls(s) <=> (i \in Nat /\ i > 0 /\ i <= Len(s) /\ s[i] = NL)
  BY <1>6, Zenon DEF Nls
<1>8. Nls(s) \in SUBSET Nat
  BY <1>7
<1>9. \A i : i \in Ends(s) <=> (i \in Nls(s) /\ i > 1 /\ s[i - 1] # NL)
  BY Zenon DEF Ends
<1> QED BY <1>3, <1>4, <1>5, <1>7, <1>8, <1>9

LEMMA NlBeforeIs ==
  ASSUME NEW s \in Text, NEW i \in Nat, i > 0
  PROVE  /\ NlBefore(s, i) \in Nat /\ NlBefore(s, i) < i /\ NlBefore(s, i) <= Len(s)
         /\ NlBefore(s, i) = 0 \/ NlBefore(s, i) \in Nls(s)
         /\ \A j \in Nls(s) : j < i => j <= NlBefore(s, i)
<1> DEFINE B == {0} \cup Below(Nls(s), i)
<1>1. /\ Len(s) \in Nat /\ Nls(s) \in SUBSET Nat
      /\ \A j \in Nls(s) : j \in Nat /\ j <= Len(s)
  BY TextIs, NlsAre
<1>2. \A x : x \in Below(Nls(s), i) <=> x \in Nls(s) /\ x < i
  BY Zenon DEF Below
<1>3. B \in SUBSET Nat /\ B # {} /\ \A x \in B : x <= Len(s)
  BY <1>1, <1>2
<1>4. Max(B) \in B /\ \A x \in B : x <= Max(B)
  BY <1>1, <1>3, GreatestNatural
<1>5. NlBefore(s, i) = Max(B)
  BY Zenon DEF NlBefore
<1> HIDE DEF B
<1>6. NlBefore(s, i) \in Nat /\ NlBefore(s, i) <= Len(s) /\ NlBefore(s, i) \in B
  BY <1>3, <1>4, <1>5
<1>7. NlBefore(s, i) = 0 \/ (NlBefore(s, i) \in Nls(s) /\ NlBefore(s, i) < i)
  BY <1>2, <1>6, Zenon DEF B
<1>8. \A j \in Nls(s) : j < i => j <= NlBefore(s, i)
  BY <1>2, <1>4, <1>5, Zenon DEF B
<1>9. NlBefore(s, i) < i
  BY <1>7
<1> QED BY <1>6, <1>7, <1>8, <1>9

LEMMA NlBeforeFrom ==
  ASSUME NEW s \in Text, NEW i \in Nat, i > 0, NEW n \in Nat,
         n = 0 \/ (n \in Nls(s) /\ n < i), \A j \in Nls(s) : j < i => j <= n
  PROVE  NlBefore(s, i) = n
<1>1. /\ NlBefore(s, i) \in Nat /\ NlBefore(s, i) < i
      /\ NlBefore(s, i) = 0 \/ NlBefore(s, i) \in Nls(s)
      /\ \A j \in Nls(s) : j < i => j <= NlBefore(s, i)
  BY NlBeforeIs
<1> QED BY <1>1

\* A piece of a text.
LEMMA PieceIs ==
  ASSUME NEW s \in Text, NEW a \in Nat, NEW b \in Nat, 1 <= a, a <= b + 1, b <= Len(s)
  PROVE  /\ SubSeq(s, a, b) \in Text /\ Len(SubSeq(s, a, b)) = b + 1 - a
         /\ \A i \in 1 .. b + 1 - a : SubSeq(s, a, b)[i] = s[a + i - 1]
<1>1. \A i \in a .. b : s[i] \in Units
  BY TextIs
<1>2. /\ SubSeq(s, a, b) \in Text
      /\ Len(SubSeq(s, a, b)) = IF a <= b THEN b - a + 1 ELSE 0
      /\ \A i \in 1 .. b - a + 1 : SubSeq(s, a, b)[i] = s[a + i - 1]
  BY <1>1, SubSeqProperties DEF Text
<1> QED BY <1>2

LEMMA RestIs ==
  ASSUME NEW s \in Text
  PROVE  /\ LastNl(s) \in Nat /\ LastNl(s) <= Len(s) /\ (LastNl(s) = 0 \/ LastNl(s) \in Nls(s))
         /\ \A i \in Nls(s) : i <= LastNl(s)
         /\ Rest(s) \in Text /\ Len(Rest(s)) = Len(s) - LastNl(s)
         /\ \A i \in 1 .. Len(s) - LastNl(s) : Rest(s)[i] = s[LastNl(s) + i]
         /\ Nls(Rest(s)) = {}
<1> DEFINE m == LastNl(s)
<1>1. Len(s) \in Nat /\ \A j \in Nls(s) : j \in Nat /\ j <= Len(s)
  BY TextIs, NlsAre
<1>2. m \in Nat /\ m <= Len(s) /\ (m = 0 \/ m \in Nls(s)) /\ \A i \in Nls(s) : i <= m
  BY <1>1, NlBeforeIs DEF LastNl
<1> HIDE DEF m
<1>3. /\ SubSeq(s, m + 1, Len(s)) \in Text
      /\ Len(SubSeq(s, m + 1, Len(s))) = Len(s) - m
      /\ \A i \in 1 .. Len(s) - m : SubSeq(s, m + 1, Len(s))[i] = s[m + i]
  BY <1>1, <1>2, PieceIs
<1>4. Rest(s) = SubSeq(s, m + 1, Len(s))
  BY DEF Rest, m
<1>5. ASSUME NEW i \in Nls(Rest(s)) PROVE FALSE
  <2>1. i \in 1 .. Len(s) - m /\ Rest(s)[i] = NL
    <3>1. Rest(s) \in Text /\ Len(Rest(s)) = Len(s) - m
      BY <1>3, <1>4
    <3>2. i \in Nat /\ i > 0 /\ i <= Len(Rest(s)) /\ Rest(s)[i] = NL
      BY <1>5, <3>1, NlsAre
    <3> QED BY <1>1, <1>2, <3>1, <3>2
  <2>2. s[m + i] = NL /\ m + i \in Nat /\ m + i > 0 /\ m + i <= Len(s)
    BY <1>1, <1>2, <1>3, <1>4, <2>1
  <2>3. m + i \in Nls(s)
    BY <2>2, NlsAre
  <2> QED BY <1>2, <2>1, <2>3
<1> QED BY <1>2, <1>3, <1>4, <1>5 DEF m

\* The text u is s followed by more, and v is what the watcher has in hand: what
\* follows the last NL of s, and the more.
Continues(s, t, u, v, m) ==
  /\ s \in Text /\ t \in Text /\ u \in Text /\ v \in Text
  /\ m = LastNl(s) /\ u = s \o t /\ v = Rest(s) \o t

LEMMA ContinuedText ==
  ASSUME NEW s, NEW t, NEW u, NEW v, NEW m, Continues(s, t, u, v, m)
  PROVE  /\ m \in Nat /\ m <= Len(s) /\ Len(s) \in Nat /\ Len(v) \in Nat
         /\ Len(u) = m + Len(v) /\ Len(u) >= Len(s)
         /\ m = 0 \/ m \in Nls(s)
         /\ \A i \in Nls(s) : i <= m
         /\ \A i \in 1 .. Len(s) : u[i] = s[i]
         /\ \A j \in 1 .. Len(v) : u[m + j] = v[j]
<1>1. s \in Text /\ t \in Text /\ u \in Text /\ v \in Text /\ m = LastNl(s) /\ u = s \o t /\ v = Rest(s) \o t
  BY DEF Continues
<1>2. Len(s) \in Nat /\ Len(t) \in Nat /\ Len(v) \in Nat
  BY <1>1, TextIs
<1>3. /\ m \in Nat /\ m <= Len(s) /\ (m = 0 \/ m \in Nls(s)) /\ \A i \in Nls(s) : i <= m
      /\ Rest(s) \in Text /\ Len(Rest(s)) = Len(s) - m
      /\ \A i \in 1 .. Len(s) - m : Rest(s)[i] = s[m + i]
  BY <1>1, RestIs
<1>4. /\ Len(u) = Len(s) + Len(t)
      /\ \A i \in 1 .. Len(s) + Len(t) : u[i] = IF i <= Len(s) THEN s[i] ELSE t[i - Len(s)]
  BY <1>1, ConcatProperties DEF Text
<1>5. /\ Len(v) = Len(s) - m + Len(t)
      /\ \A i \in 1 .. Len(s) - m + Len(t) : v[i] = IF i <= Len(s) - m THEN Rest(s)[i] ELSE t[i - (Len(s) - m)]
  <2> DEFINE r == Rest(s)
  <2>1. r \in Text /\ Len(r) = Len(s) - m
    BY <1>3
  <2> HIDE DEF r
  <2>2. /\ Len(r \o t) = Len(r) + Len(t)
        /\ \A i \in 1 .. Len(r) + Len(t) : (r \o t)[i] = IF i <= Len(r) THEN r[i] ELSE t[i - Len(r)]
    BY <1>1, <2>1, ConcatProperties DEF Text
  <2> QED BY <1>1, <2>1, <2>2 DEF r
<1>6. \A i \in 1 .. Len(s) : u[i] = s[i]
  BY <1>2, <1>4
<1>7. ASSUME NEW j \in 1 .. Len(v) PROVE u[m + j] = v[j]
  <2>1. CASE j <= Len(s) - m
    <3>1. v[j] = Rest(s)[j] /\ Rest(s)[j] = s[m + j]
      BY <1>2, <1>3, <1>5, <2>1
    <3>2. u[m + j] = s[m + j]
      BY <1>2, <1>3, <1>6, <2>1
    <3> QED BY <3>1, <3>2
  <2>2. CASE ~(j <= Len(s) - m)
    <3>1. v[j] = t[j - (Len(s) - m)]
      BY <1>2, <1>3, <1>5, <2>2
    <3>2. u[m + j] = t[m + j - Len(s)]
      BY <1>2, <1>3, <1>4, <1>5, <2>2
    <3>3. j - (Len(s) - m) = m + j - Len(s)
      BY <1>2, <1>3
    <3> QED BY <3>1, <3>2, <3>3
  <2> QED BY <2>1, <2>2
<1> QED BY <1>2, <1>3, <1>4, <1>5, <1>6, <1>7

LEMMA ContinuedNls ==
  ASSUME NEW s, NEW t, NEW u, NEW v, NEW m, Continues(s, t, u, v, m)
  PROVE  /\ \A x : x \in Nls(u) <=> (x \in Nls(s) \/ (x \in Nat /\ x > m /\ x - m \in Nls(v)))
         /\ \A x : x \in Ends(u) <=> (x \in Ends(s) \/ (x \in Nat /\ x > m /\ x - m \in Ends(v)))
<1>0. s \in Text /\ u \in Text /\ v \in Text
  BY DEF Continues
<1>1. /\ m \in Nat /\ m <= Len(s) /\ Len(s) \in Nat /\ Len(v) \in Nat
      /\ Len(u) = m + Len(v) /\ Len(u) >= Len(s)
      /\ m = 0 \/ m \in Nls(s)
      /\ \A i \in Nls(s) : i <= m
      /\ \A i \in 1 .. Len(s) : u[i] = s[i]
      /\ \A j \in 1 .. Len(v) : u[m + j] = v[j]
  BY ContinuedText
<1>2. /\ \A i : i \in Nls(s) <=> (i \in Nat /\ i > 0 /\ i <= Len(s) /\ s[i] = NL)
      /\ \A i : i \in Ends(s) <=> (i \in Nls(s) /\ i > 1 /\ s[i - 1] # NL)
  BY <1>0, NlsAre
<1>3. /\ \A i : i \in Nls(u) <=> (i \in Nat /\ i > 0 /\ i <= Len(u) /\ u[i] = NL)
      /\ \A i : i \in Ends(u) <=> (i \in Nls(u) /\ i > 1 /\ u[i - 1] # NL)
  BY <1>0, NlsAre
<1>4. /\ \A i : i \in Nls(v) <=> (i \in Nat /\ i > 0 /\ i <= Len(v) /\ v[i] = NL)
      /\ \A i : i \in Ends(v) <=> (i \in Nls(v) /\ i > 1 /\ v[i - 1] # NL)
  BY <1>0, NlsAre
<1>5. ASSUME NEW x \in Nat, x > m
      PROVE  /\ x \in Nls(u) <=> x - m \in Nls(v)
             /\ x \in Ends(u) <=> x - m \in Ends(v)
             /\ x \notin Nls(s)
  <2>1. x - m \in Nat /\ x - m > 0 /\ m + (x - m) = x /\ x > 0
    BY <1>1, <1>5
  <2>2. x <= Len(u) <=> x - m <= Len(v)
    BY <1>1, <2>1
  <2>3. x <= Len(u) => u[x] = v[x - m]
    BY <1>1, <2>1, <2>2
  <2>4. x \in Nls(u) <=> x - m \in Nls(v)
    BY <1>3, <1>4, <2>1, <2>2, <2>3
  <2>5. CASE x = m + 1
    <3>1. x - 1 = m /\ ~(x - m > 1)
      BY <1>1, <2>5
    <3>2. x > 1 => u[x - 1] = NL
      <4>1. ASSUME x > 1 PROVE u[x - 1] = NL
        <5>1. m # 0
          BY <1>1, <2>5, <4>1
        <5>2. s[m] = NL /\ m \in 1 .. Len(s)
          BY <1>1, <1>2, <5>1
        <5> QED BY <1>1, <3>1, <5>2
      <4> QED BY <4>1
    <3>3. x \notin Ends(u) /\ x - m \notin Ends(v)
      BY <1>3, <1>4, <3>1, <3>2
    <3>4. x \notin Nls(s)
      BY <1>1, <1>5
    <3> QED BY <2>4, <3>3, <3>4
  <2>6. CASE x # m + 1
    <3>1. x > 1 /\ x - m > 1 /\ m + (x - m - 1) = x - 1
      BY <1>1, <1>5, <2>6
    <3>2. x <= Len(u) => u[x - 1] = v[x - m - 1]
      <4>1. ASSUME x <= Len(u) PROVE u[x - 1] = v[x - m - 1]
        <5>1. x - m - 1 \in 1 .. Len(v)
          BY <1>1, <3>1, <4>1
        <5> QED BY <1>1, <3>1, <5>1
      <4> QED BY <4>1
    <3>3. x \in Ends(u) <=> x - m \in Ends(v)
      BY <1>3, <1>4, <2>4, <3>1, <3>2
    <3>4. x \notin Nls(s)
      BY <1>1, <1>5
    <3> QED BY <2>4, <3>3, <3>4
  <2> QED BY <2>5, <2>6
<1>6. ASSUME NEW x \in Nat, ~(x > m)
      PROVE  /\ x \in Nls(u) <=> x \in Nls(s)
             /\ x \in Ends(u) <=> x \in Ends(s)
  <2>1. x > 0 => x \in 1 .. Len(s) /\ u[x] = s[x] /\ x <= Len(u)
    BY <1>1, <1>6
  <2>2. x > 1 => u[x - 1] = s[x - 1]
    BY <1>1, <1>6
  <2>3. x \in Nls(u) <=> x \in Nls(s)
    BY <1>2, <1>3, <2>1
  <2> QED BY <1>2, <1>3, <2>2, <2>3
<1>7. \A x : (x \in Nls(u) \/ x \in Nls(s) \/ x \in Ends(u) \/ x \in Ends(s)) => x \in Nat
  BY <1>2, <1>3, Zenon
<1>8. ASSUME NEW x \in Ends(s) PROVE x \in Nls(s)
  BY <1>2, <1>8
<1> QED BY <1>5, <1>6, <1>7, <1>8, Zenon

\* The same, as sets.
LEMMA ContinuedSets ==
  ASSUME NEW s, NEW t, NEW u, NEW v, NEW m, Continues(s, t, u, v, m)
  PROVE  Ends(u) = Ends(s) \cup Shift(m, Ends(v))
<1>0. v \in Text /\ m \in Nat
  BY ContinuedText DEF Continues
<1>1. \A x : x \in Ends(u) <=> (x \in Ends(s) \/ (x \in Nat /\ x > m /\ x - m \in Ends(v)))
  BY ContinuedNls
<1>2. \A j \in Ends(v) : j \in Nat /\ j > 1
  BY <1>0, NlsAre
<1>3. \A x : (x \in Nat /\ x > m /\ x - m \in Ends(v)) => x = m + (x - m)
  BY <1>0
<1>4. \A j \in Ends(v) : m + j \in Nat /\ m + j > m /\ (m + j) - m = j
  BY <1>0, <1>2
<1>5. \A x : x \in Shift(m, Ends(v)) <=> (x \in Nat /\ x > m /\ x - m \in Ends(v))
  <2>1. ASSUME NEW x \in Shift(m, Ends(v)) PROVE x \in Nat /\ x > m /\ x - m \in Ends(v)
    <3>1. PICK j \in Ends(v) : x = m + j
      BY <2>1, Zenon DEF Shift
    <3> QED BY <1>4, <3>1
  <2>2. ASSUME NEW x \in Nat, x > m, x - m \in Ends(v) PROVE x \in Shift(m, Ends(v))
    BY <1>3, <2>2, Zenon DEF Shift
  <2> QED BY <2>1, <2>2, Zenon
<1> QED BY <1>1, <1>5, Zenon

LEMMA ContinuedBefore ==
  ASSUME NEW s, NEW t, NEW u, NEW v, NEW m, Continues(s, t, u, v, m)
  PROVE  /\ \A i \in Nls(s) : NlBefore(u, i) = NlBefore(s, i)
         /\ \A j \in Nat : j > 0 => NlBefore(u, m + j) = m + NlBefore(v, j)
<1>0. s \in Text /\ u \in Text /\ v \in Text
  BY DEF Continues
<1>1. m \in Nat /\ (m = 0 \/ m \in Nls(s)) /\ \A i \in Nls(s) : i <= m
  BY ContinuedText
<1>2. \A x : x \in Nls(u) <=> (x \in Nls(s) \/ (x \in Nat /\ x > m /\ x - m \in Nls(v)))
  BY ContinuedNls
<1>3. /\ \A i \in Nls(s) : i \in Nat /\ i > 0
      /\ \A i \in Nls(v) : i \in Nat /\ i > 0
      /\ \A i \in Nls(u) : i \in Nat
  BY <1>0, NlsAre
<1>4. ASSUME NEW i \in Nls(s) PROVE NlBefore(u, i) = NlBefore(s, i)
  <2> DEFINE n == NlBefore(s, i)
  <2>1. i \in Nat /\ i > 0 /\ i <= m
    BY <1>1, <1>3
  <2>2. n \in Nat /\ n < i /\ (n = 0 \/ n \in Nls(s)) /\ \A j \in Nls(s) : j < i => j <= n
    BY <1>0, <2>1, NlBeforeIs
  <2> HIDE DEF n
  <2>3. n = 0 \/ (n \in Nls(u) /\ n < i)
    BY <1>2, <2>2
  <2>4. ASSUME NEW j \in Nls(u), j < i PROVE j <= n
    <3>1. j \in Nls(s)
      BY <1>1, <1>2, <1>3, <2>1, <2>4
    <3> QED BY <2>2, <2>4, <3>1
  <2>5. NlBefore(u, i) = n
    BY <1>0, <2>1, <2>2, <2>3, <2>4, NlBeforeFrom
  <2> QED BY <2>5 DEF n
<1>5. ASSUME NEW j \in Nat, j > 0 PROVE NlBefore(u, m + j) = m + NlBefore(v, j)
  <2> DEFINE n == NlBefore(v, j)
  <2>1. n \in Nat /\ n < j /\ (n = 0 \/ n \in Nls(v)) /\ \A i \in Nls(v) : i < j => i <= n
    BY <1>0, <1>5, NlBeforeIs
  <2> HIDE DEF n
  <2>2. m + n = 0 \/ (m + n \in Nls(u) /\ m + n < m + j)
    <3>1. CASE n = 0
      BY <1>1, <1>2, <1>5, <3>1
    <3>2. CASE n # 0
      <4>1. n \in Nls(v) /\ m + n \in Nat /\ m + n > m /\ (m + n) - m = n
        BY <1>1, <2>1, <3>2
      <4>2. m + n \in Nls(u)
        BY <1>2, <4>1
      <4> QED BY <1>1, <2>1, <4>2
    <3> QED BY <3>1, <3>2
  <2>3. ASSUME NEW i \in Nls(u), i < m + j PROVE i <= m + n
    <3>1. CASE i \in Nls(s)
      BY <1>1, <1>3, <2>1, <3>1
    <3>2. CASE i \in Nat /\ i > m /\ i - m \in Nls(v)
      BY <1>1, <2>1, <2>3, <3>2
    <3> QED BY <1>2, <3>1, <3>2
  <2>4. m + j \in Nat /\ m + j > 0 /\ m + n \in Nat
    BY <1>1, <1>5, <2>1
  <2>5. NlBefore(u, m + j) = m + n
    BY <1>0, <2>2, <2>3, <2>4, NlBeforeFrom
  <2> QED BY <2>5 DEF n
<1> QED BY <1>4, <1>5

\* A line is a text.
LEMMA LineIs ==
  ASSUME NEW s \in Text, NEW i \in Ends(s)
  PROVE  /\ i \in Nat /\ i > 1 /\ i <= Len(s) /\ NlBefore(s, i) \in Nat /\ NlBefore(s, i) < i
         /\ LineTo(s, i) \in Text /\ Len(LineTo(s, i)) = i - 1 - NlBefore(s, i)
         /\ \A k \in 1 .. i - 1 - NlBefore(s, i) : LineTo(s, i)[k] = s[NlBefore(s, i) + k]
<1>1. i \in Nat /\ i > 1 /\ i <= Len(s) /\ Len(s) \in Nat
  BY NlsAre, TextIs
<1> DEFINE n == NlBefore(s, i)
<1>2. n \in Nat /\ n < i
  BY <1>1, NlBeforeIs
<1> HIDE DEF n
<1>3. /\ SubSeq(s, n + 1, i - 1) \in Text
      /\ Len(SubSeq(s, n + 1, i - 1)) = (i - 1) + 1 - (n + 1)
      /\ \A k \in 1 .. (i - 1) + 1 - (n + 1) : SubSeq(s, n + 1, i - 1)[k] = s[(n + 1) + k - 1]
  BY <1>1, <1>2, PieceIs
<1>4. LineTo(s, i) = SubSeq(s, n + 1, i - 1)
  BY DEF LineTo, n
<1>5. (i - 1) + 1 - (n + 1) = i - 1 - n /\ \A k \in Nat : (n + 1) + k - 1 = n + k
  BY <1>1, <1>2
<1>6. \A k \in 1 .. i - 1 - n : LineTo(s, i)[k] = s[n + k]
  <2>1. ASSUME NEW k \in 1 .. i - 1 - n PROVE LineTo(s, i)[k] = s[n + k]
    <3>1. k \in 1 .. (i - 1) + 1 - (n + 1) /\ (n + 1) + k - 1 = n + k
      BY <1>1, <1>2
    <3> QED BY <1>3, <1>4, <3>1
  <2> QED BY <2>1
<1> QED BY <1>1, <1>2, <1>3, <1>4, <1>5, <1>6 DEF n

LEMMA CompleteIs ==
  ASSUME NEW s \in Text
  PROVE  /\ Complete(s) \in Seq(Text) /\ Len(Complete(s)) = Cardinality(Ends(s))
         /\ Cardinality(Ends(s)) \in Nat
         /\ \A k \in 1 .. Cardinality(Ends(s)) :
              Kth(Ends(s), k) \in Ends(s) /\ Complete(s)[k] = LineTo(s, Kth(Ends(s), k))
<1> DEFINE c == Cardinality(Ends(s))
<1>1. Ends(s) \in SUBSET Nat /\ IsFiniteSet(Ends(s))
  BY NlsAre
<1>2. c \in Nat
  BY <1>1, FS_CardinalityType
<1>3. ASSUME NEW k \in 1 .. c
      PROVE  Kth(Ends(s), k) \in Ends(s) /\ LineTo(s, Kth(Ends(s), k)) \in Text
  <2>1. Kth(Ends(s), k) \in Ends(s)
    BY <1>1, KthIs
  <2> QED BY <2>1, LineIs
<1> HIDE DEF c
<1>4. Complete(s) = [k \in 1 .. c |-> LineTo(s, Kth(Ends(s), k))]
  BY DEF Complete, c
<1>5. Complete(s) \in Seq(Text) /\ Len(Complete(s)) = c
  BY <1>2, <1>3, <1>4
<1>6. \A k \in 1 .. c : Complete(s)[k] = LineTo(s, Kth(Ends(s), k))
  BY <1>4
<1> QED BY <1>2, <1>3, <1>5, <1>6 DEF c

LEMMA ContinuedLines ==
  ASSUME NEW s, NEW t, NEW u, NEW v, NEW m, Continues(s, t, u, v, m)
  PROVE  /\ \A i \in Ends(s) : LineTo(u, i) = LineTo(s, i)
         /\ \A j \in Ends(v) : LineTo(u, m + j) = LineTo(v, j)
<1>0. s \in Text /\ u \in Text /\ v \in Text
  BY DEF Continues
<1>1. /\ m \in Nat /\ m <= Len(s) /\ Len(s) \in Nat /\ Len(v) \in Nat
      /\ Len(u) = m + Len(v) /\ Len(u) >= Len(s)
      /\ \A i \in 1 .. Len(s) : u[i] = s[i]
      /\ \A j \in 1 .. Len(v) : u[m + j] = v[j]
  BY ContinuedText
<1>2. /\ \A i \in Nls(s) : NlBefore(u, i) = NlBefore(s, i)
      /\ \A j \in Nat : j > 0 => NlBefore(u, m + j) = m + NlBefore(v, j)
  BY ContinuedBefore
<1>3. /\ \A x : x \in Ends(u) <=> (x \in Ends(s) \/ (x \in Nat /\ x > m /\ x - m \in Ends(v)))
  BY ContinuedNls
<1>4. ASSUME NEW i \in Ends(s) PROVE LineTo(u, i) = LineTo(s, i)
  <2> DEFINE n == NlBefore(s, i)
             a == LineTo(u, i)
             b == LineTo(s, i)
  <2>1. i \in Ends(u) /\ i \in Nls(s)
    BY <1>0, <1>3, NlsAre
  <2>2. NlBefore(u, i) = n
    BY <1>2, <2>1
  <2>3. /\ i \in Nat /\ i > 1 /\ i <= Len(s) /\ n \in Nat /\ n < i
        /\ b \in Text /\ Len(b) = i - 1 - n
        /\ \A k \in 1 .. i - 1 - n : b[k] = s[n + k]
    BY <1>0, LineIs
  <2>4. /\ a \in Text /\ Len(a) = i - 1 - n
        /\ \A k \in 1 .. i - 1 - n : a[k] = u[n + k]
    BY <1>0, <2>1, <2>2, LineIs
  <2> HIDE DEF n, a, b
  <2>5. \A k \in 1 .. i - 1 - n : n + k \in 1 .. Len(s)
    BY <1>1, <2>3
  <2>6. \A k \in 1 .. Len(a) : a[k] = b[k]
    BY <1>1, <2>3, <2>4, <2>5
  <2>7. a = b
    BY <2>3, <2>4, <2>6, SeqEqual DEF Text
  <2> QED BY <2>7 DEF a, b
<1>5. ASSUME NEW j \in Ends(v) PROVE LineTo(u, m + j) = LineTo(v, j)
  <2> DEFINE n == NlBefore(v, j)
             a == LineTo(u, m + j)
             b == LineTo(v, j)
  <2>1. /\ j \in Nat /\ j > 1 /\ j <= Len(v) /\ n \in Nat /\ n < j
        /\ b \in Text /\ Len(b) = j - 1 - n
        /\ \A k \in 1 .. j - 1 - n : b[k] = v[n + k]
    BY <1>0, LineIs
  <2>2. m + j \in Ends(u)
    <3>1. m + j \in Nat /\ m + j > m /\ (m + j) - m = j
      BY <1>1, <2>1
    <3> QED BY <1>3, <3>1
  <2>3. NlBefore(u, m + j) = m + n
    BY <1>2, <2>1
  <2>4. /\ a \in Text /\ Len(a) = j - 1 - n
        /\ \A k \in 1 .. j - 1 - n : a[k] = u[m + (n + k)]
    <3> DEFINE p == m + j
               q == NlBefore(u, p)
    <3>1. /\ LineTo(u, p) \in Text /\ Len(LineTo(u, p)) = p - 1 - q
          /\ \A k \in 1 .. p - 1 - q : LineTo(u, p)[k] = u[q + k]
      BY <1>0, <2>2, LineIs, Zenon
    <3>2. p = m + j /\ q = m + n /\ a = LineTo(u, p) /\ j \in Nat /\ n \in Nat /\ m \in Nat
      BY <1>1, <2>1, <2>3
    <3> HIDE DEF p, q, a, n
    <3>3. p - 1 - q = j - 1 - n /\ \A k \in Nat : q + k = m + (n + k)
      BY <3>2
    <3>4. ASSUME NEW k \in 1 .. j - 1 - n PROVE a[k] = u[m + (n + k)]
      BY <3>1, <3>2, <3>3
    <3> QED BY <3>1, <3>2, <3>3, <3>4
  <2> HIDE DEF n, a, b
  <2>5. ASSUME NEW k \in 1 .. Len(a) PROVE a[k] = b[k]
    <3>1. n + k \in 1 .. Len(v) /\ k \in 1 .. j - 1 - n
      BY <1>1, <2>1, <2>4
    <3>2. u[m + (n + k)] = v[n + k]
      BY <1>1, <3>1
    <3> QED BY <2>1, <2>4, <3>1, <3>2
  <2>6. a = b
    BY <2>1, <2>4, <2>5, SeqEqual DEF Text
  <2> QED BY <2>6 DEF a, b
<1> QED BY <1>4, <1>5

LEMMA ContinuedComplete ==
  ASSUME NEW s, NEW t, NEW u, NEW v, NEW m, Continues(s, t, u, v, m)
  PROVE  Complete(u) = Complete(s) \o Complete(v) /\ Rest(u) = Rest(v)
<1>1. s \in Text /\ u \in Text /\ v \in Text
  BY DEF Continues
<1>3. /\ m \in Nat /\ m <= Len(s) /\ Len(s) \in Nat /\ Len(v) \in Nat
      /\ Len(u) = m + Len(v)
      /\ \A i \in Nls(s) : i <= m
      /\ \A j \in 1 .. Len(v) : u[m + j] = v[j]
  BY ContinuedText
<1>4. Ends(u) = Ends(s) \cup Shift(m, Ends(v))
  BY ContinuedSets
<1>5. /\ Ends(s) \in SUBSET Nat /\ IsFiniteSet(Ends(s)) /\ \A x \in Ends(s) : x <= m
      /\ Ends(v) \in SUBSET Nat /\ IsFiniteSet(Ends(v)) /\ \A j \in Ends(v) : j > 0
  <2>1. \A x \in Ends(s) : x <= m
    BY <1>1, <1>3, NlsAre
  <2>2. \A j \in Ends(v) : j > 0
    BY <1>1, LineIs
  <2> QED BY <1>1, <2>1, <2>2, NlsAre
<1> DEFINE c == Cardinality(Ends(s))
           d == Cardinality(Ends(v))
<1>6. /\ Cardinality(Ends(u)) = c + d
      /\ \A k \in 1 .. c : Kth(Ends(u), k) = Kth(Ends(s), k)
      /\ \A k \in 1 .. d : Kth(Ends(u), c + k) = m + Kth(Ends(v), k)
  <2> DEFINE S == Ends(s)
             T == Ends(v)
             U == Ends(u)
  <2>1. OneAfter(S, m, T, U)
    BY <1>3, <1>4, <1>5, Zenon DEF OneAfter
  <2> HIDE DEF S, T, U
  <2>2. /\ Cardinality(U) = Cardinality(S) + Cardinality(T)
        /\ \A k \in 1 .. Cardinality(S) : Kth(U, k) = Kth(S, k)
        /\ \A k \in 1 .. Cardinality(T) : Kth(U, Cardinality(S) + k) = m + Kth(T, k)
    BY <2>1, KthOfBoth
  <2> QED BY <2>2 DEF S, T, U
<1>7. /\ Complete(s) \in Seq(Text) /\ Len(Complete(s)) = c /\ c \in Nat
      /\ \A k \in 1 .. c : Kth(Ends(s), k) \in Ends(s) /\ Complete(s)[k] = LineTo(s, Kth(Ends(s), k))
  BY <1>1, CompleteIs
<1>8. /\ Complete(v) \in Seq(Text) /\ Len(Complete(v)) = d /\ d \in Nat
      /\ \A k \in 1 .. d : Kth(Ends(v), k) \in Ends(v) /\ Complete(v)[k] = LineTo(v, Kth(Ends(v), k))
  BY <1>1, CompleteIs
<1> HIDE DEF c, d
<1>9. /\ Complete(u) \in Seq(Text) /\ Len(Complete(u)) = c + d
      /\ \A k \in 1 .. c + d : Complete(u)[k] = LineTo(u, Kth(Ends(u), k))
  BY <1>1, <1>6, CompleteIs
<1>10. /\ \A i \in Ends(s) : LineTo(u, i) = LineTo(s, i)
       /\ \A j \in Ends(v) : LineTo(u, m + j) = LineTo(v, j)
  BY ContinuedLines
<1>11. /\ Complete(s) \o Complete(v) \in Seq(Text) /\ Len(Complete(s) \o Complete(v)) = c + d
       /\ \A k \in 1 .. c + d : (Complete(s) \o Complete(v))[k] =
            IF k <= c THEN Complete(s)[k] ELSE Complete(v)[k - c]
  BY <1>7, <1>8, ConcatProperties
<1>12. ASSUME NEW k \in 1 .. c + d
       PROVE  Complete(u)[k] = (Complete(s) \o Complete(v))[k]
  <2>1. CASE k <= c
    <3>1. k \in 1 .. c
      BY <1>7, <1>8, <2>1
    <3>2. Complete(u)[k] = LineTo(u, Kth(Ends(s), k))
      BY <1>6, <1>9, <3>1
    <3>3. Complete(u)[k] = Complete(s)[k]
      BY <1>7, <1>10, <3>1, <3>2
    <3> QED BY <1>11, <2>1, <3>3
  <2>2. CASE ~(k <= c)
    <3>1. k - c \in 1 .. d /\ c + (k - c) = k
      BY <1>7, <1>8, <2>2
    <3>2. Complete(u)[k] = LineTo(u, m + Kth(Ends(v), k - c))
      BY <1>6, <1>9, <3>1
    <3>3. Complete(u)[k] = Complete(v)[k - c]
      BY <1>8, <1>10, <3>1, <3>2
    <3> QED BY <1>11, <2>2, <3>3
  <2> QED BY <2>1, <2>2
<1>13. Complete(u) = Complete(s) \o Complete(v)
  BY <1>9, <1>11, <1>12, SeqEqual
<1>14. Rest(u) = Rest(v)
  <2> DEFINE n == LastNl(v)
  <2>1. NlBefore(u, m + (Len(v) + 1)) = m + NlBefore(v, Len(v) + 1)
    BY <1>3, ContinuedBefore
  <2>2. m + (Len(v) + 1) = Len(u) + 1
    BY <1>3
  <2>3. LastNl(u) = m + n
    BY <2>1, <2>2 DEF LastNl
  <2>4. /\ n \in Nat /\ n <= Len(v) /\ Rest(v) \in Text /\ Len(Rest(v)) = Len(v) - n
        /\ \A i \in 1 .. Len(v) - n : Rest(v)[i] = v[n + i]
    BY <1>1, RestIs
  <2> HIDE DEF n
  <2>5. /\ Rest(u) \in Text /\ Len(Rest(u)) = Len(u) - (m + n)
        /\ \A i \in 1 .. Len(u) - (m + n) : Rest(u)[i] = u[(m + n) + i]
    <3> DEFINE q == LastNl(u)
    <3>1. /\ Rest(u) \in Text /\ Len(Rest(u)) = Len(u) - q
          /\ \A i \in 1 .. Len(u) - q : Rest(u)[i] = u[q + i]
      BY <1>1, RestIs, Zenon
    <3> QED BY <2>3, <3>1, Zenon
  <2>6. Len(u) - (m + n) = Len(v) - n
    BY <1>3, <2>4
  <2>7. ASSUME NEW i \in 1 .. Len(Rest(u)) PROVE Rest(u)[i] = Rest(v)[i]
    <3>1. n + i \in 1 .. Len(v) /\ (m + n) + i = m + (n + i)
      BY <1>3, <2>4, <2>5, <2>6
    <3>2. u[m + (n + i)] = v[n + i]
      BY <1>3, <3>1
    <3> QED BY <2>4, <2>5, <2>6, <3>1, <3>2
  <2> QED BY <2>4, <2>5, <2>6, <2>7, SeqEqual DEF Text
<1> QED BY <1>13, <1>14

\* What the watcher publishes batch by batch is what is in the file.
LEMMA ReadOn ==
  ASSUME NEW s \in Text, NEW t \in Text
  PROVE  /\ Complete(s \o t) = Complete(s) \o Complete(Rest(s) \o t)
         /\ Rest(s \o t) = Rest(Rest(s) \o t)
<1>1. Rest(s) \in Text
  BY RestIs
<1>2. s \o t \in Text /\ Rest(s) \o t \in Text
  BY <1>1, ConcatProperties DEF Text
<1>3. Continues(s, t, s \o t, Rest(s) \o t, LastNl(s))
  BY <1>2 DEF Continues
<1> QED BY <1>3, ContinuedComplete

LEMMA LogConstants ==
  /\ MaxSpawns \in Nat /\ MaxSpawns > 0 /\ Batch \in Nat /\ Batch > 0
  /\ PendingMax \in Nat /\ PendingMax > 0 /\ Batch <= PendingMax
  /\ RescueTicks \in Nat /\ RescueTicks > 0 /\ BusCap \in Nat /\ BusCap > 0 /\ MaxLines \in Nat
BY LogsAssumption, LinesAssumption

\* The redactor leaves nothing of what it knows: text that it replaced is not what it
\* looks for.
LEMMA ScrubIs ==
  ASSUME NEW x \in Units
  PROVE  Scrub(x) \in Units /\ Scrub(x) \notin Labelled
BY LinesAssumption DEF Scrub, Units

LEMMA NlIs == NL \in Units /\ NL \notin Labelled
BY LinesAssumption DEF NL, Units

LEMMA ByteIs ==
  ASSUME NEW x PROVE Byte(x) \in {0, 1} /\ Byte(x) # NoByte
BY DEF Byte, NoByte

\* A file that only grows: what the watcher has read of it stays.
LEMMA GrowPreserves ==
  ASSUME LogsIInv, UNCHANGED <<w, epoch>>,
         \A f \in Files : \E t \in Text : data'[f] = data[f] \o t
  PROVE  FollowsFile' /\ PlaceInv'
<1> SUFFICES ASSUME Following PROVE FollowsFile' /\ PlaceInv'
  BY DEF FollowsFile, PlaceInv, Following
<1>0. w' = w /\ epoch' = epoch
  OBVIOUS
<1>1. w.ino \in Files /\ w.pos \in Nat /\ w.len \in Nat /\ epoch.from \in Nat /\ data[w.ino] \in Text
  BY DEF LogsIInv, LogsInv, LogsTypeOK, Watchers, PlaceInv, Text
<1> DEFINE d == data[w.ino]
<1>2. PICK t \in Text : data'[w.ino] = d \o t
  BY <1>1
<1> HIDE DEF d
<1>3. /\ Len(d) \in Nat /\ Len(t) \in Nat /\ d \o t \in Text /\ Len(d \o t) = Len(d) + Len(t)
      /\ \A i \in 1 .. Len(d) : (d \o t)[i] = d[i]
  <2>1. d \in Text
    BY <1>1 DEF d
  <2>2. Len(d) \in Nat /\ Len(t) \in Nat
    BY <2>1, TextIs
  <2>3. /\ d \o t \in Text /\ Len(d \o t) = Len(d) + Len(t)
        /\ \A i \in 1 .. Len(d) + Len(t) : (d \o t)[i] = IF i <= Len(d) THEN d[i] ELSE t[i - Len(d)]
    BY <2>1, ConcatProperties DEF Text
  <2> QED BY <2>2, <2>3
<1>4. PlaceInv'
  <2>1. ~epoch.dirty =>
         /\ epoch.from <= w.pos /\ w.pos <= Len(d)
         /\ w.pc \in {"check", "read"} => w.pos <= w.len /\ w.len <= Len(d)
         /\ w.prev # NoByte /\ w.pos > 0 => w.prev = Byte(d[w.pos])
    BY DEF LogsIInv, PlaceInv, d
  <2>2. ~epoch.dirty =>
         /\ epoch.from <= w.pos /\ w.pos <= Len(d \o t)
         /\ w.pc \in {"check", "read"} => w.pos <= w.len /\ w.len <= Len(d \o t)
         /\ w.prev # NoByte /\ w.pos > 0 => w.prev = Byte((d \o t)[w.pos])
    BY <1>1, <1>3, <2>1
  <2> QED BY <1>0, <1>1, <1>2, <2>2 DEF PlaceInv
<1>5. FollowsFile'
  <2> SUFFICES ASSUME ~epoch.dirty, ~epoch.cut
               PROVE  SubSeq(data'[w.ino], epoch.from + 1, w.pos) = SubSeq(data[w.ino], epoch.from + 1, w.pos)
    BY <1>0 DEF LogsIInv, LogsInv, FollowsFile, Following
  <2>1. epoch.from <= w.pos /\ w.pos <= Len(d)
    BY DEF LogsIInv, PlaceInv, d
  <2> DEFINE a == epoch.from + 1
             b == w.pos
  <2>2. a \in Nat /\ b \in Nat /\ 1 <= a /\ a <= b + 1 /\ b <= Len(d) /\ b <= Len(d \o t) /\ d \in Text /\ d \o t \in Text
    BY <1>1, <1>3, <2>1 DEF d
  <2> HIDE DEF a, b
  <2>3. /\ SubSeq(d, a, b) \in Text /\ Len(SubSeq(d, a, b)) = b + 1 - a
        /\ \A i \in 1 .. b + 1 - a : SubSeq(d, a, b)[i] = d[a + i - 1]
    BY <2>2, PieceIs
  <2>4. /\ SubSeq(d \o t, a, b) \in Text /\ Len(SubSeq(d \o t, a, b)) = b + 1 - a
        /\ \A i \in 1 .. b + 1 - a : SubSeq(d \o t, a, b)[i] = (d \o t)[a + i - 1]
    BY <2>2, PieceIs
  <2>5. ASSUME NEW i \in 1 .. b + 1 - a PROVE SubSeq(d \o t, a, b)[i] = SubSeq(d, a, b)[i]
    <3>1. a + i - 1 \in 1 .. Len(d)
      BY <1>3, <2>2
    <3> QED BY <1>3, <2>3, <2>4, <3>1
  <2>6. SubSeq(d \o t, a, b) = SubSeq(d, a, b)
    BY <2>3, <2>4, <2>5, SeqEqual DEF Text
  <2> QED BY <1>2, <2>6 DEF d, a, b
<1> QED BY <1>4, <1>5

\* Lines of the bus keep their numbers while the watcher goes on or begins again.
LEMMA NumbersStay ==
  ASSUME LogsIInv, UNCHANGED <<bus, sub>>, w'.seq \in {w.seq, 0}
  PROVE  NumberInv'
<1>1. bus' = bus /\ sub' = sub
  OBVIOUS
<1>2. NumberInv
  BY DEF LogsIInv
<1> QED BY <1>1, <1>2 DEF NumberInv

LEMMA InitLogs == LogsInit => LogsIInv
<1> SUFFICES ASSUME LogsInit PROVE LogsIInv
  OBVIOUS
<1>1. /\ path = 0 /\ lines = 0
      /\ data = [f \in Files |-> <<>>]
      /\ pumps = [g \in Starts |-> [ino |-> 0, mid |-> 0]]
      /\ bus = [ring |-> <<>>, lagged |-> FALSE]
      /\ sub = [on |-> FALSE, last |-> 0]
      /\ epoch = [from |-> 0, out |-> <<>>, dirty |-> FALSE, cut |-> FALSE]
      /\ w = [pc |-> "none", first |-> TRUE, ino |-> 0, pos |-> 0, prev |-> NoByte,
              pending |-> <<>>, seq |-> 0, ticks |-> 0, len |-> 0]
  BY DEF LogsInit, ClosedWatcher, NewEpoch
<1>2. LogsTypeOK
  <2>1. /\ path \in 0 .. MaxSpawns /\ lines \in 0 .. MaxLines
        /\ data \in [Files -> Seq(Units)]
        /\ pumps \in [Starts -> [ino : 0 .. MaxSpawns, mid : 0 .. 2]]
    BY <1>1, LogConstants
  <2>2. w \in Watchers /\ w.ticks < RescueTicks /\ w.pending = <<>>
    BY <1>1, LogConstants DEF Watchers
  <2>3. Nls(w.pending) = {} /\ Len(w.pending) <= PendingMax
    BY <2>2, LogConstants DEF Nls
  <2>4. epoch \in [from : Nat, out : Seq(Seq(Units)), dirty : BOOLEAN, cut : BOOLEAN]
    BY <1>1
  <2>5. bus \in [ring : Seq(Nat \X Seq(Units)), lagged : BOOLEAN] /\ Len(bus.ring) <= BusCap
    BY <1>1, LogConstants
  <2>6. sub \in [on : BOOLEAN, last : Nat]
    BY <1>1
  <2> QED BY <2>1, <2>2, <2>3, <2>4, <2>5, <2>6 DEF LogsTypeOK
<1>3. FollowsFile /\ PlaceInv
  BY <1>1 DEF FollowsFile, PlaceInv, Following
<1>4. NothingLeaks
  BY <1>1 DEF NothingLeaks
<1>5. NumberInv
  BY <1>1 DEF NumberInv
<1> QED BY <1>2, <1>3, <1>4, <1>5 DEF LogsIInv, LogsInv

\* The parts of the type invariant that a step leaves alone.
LEMMA LogTypes ==
  ASSUME LogsTypeOK
  PROVE  /\ data \in [Files -> Text] /\ \A f \in Files : data[f] \in Text
         /\ path \in 0 .. MaxSpawns /\ lines \in 0 .. MaxLines
         /\ pumps \in [Starts -> [ino : 0 .. MaxSpawns, mid : 0 .. 2]]
         /\ w \in Watchers /\ w.pending \in Text /\ w.pos \in Nat /\ w.len \in Nat /\ w.seq \in Nat /\ w.ticks \in Nat
         /\ epoch.from \in Nat /\ epoch.out \in Seq(Text)
         /\ bus.ring \in Seq(Nat \X Text) /\ sub.last \in Nat
BY DEF LogsTypeOK, Watchers, Text

\* A start has a file for its log, and pumps: a file is some start's.
LEMMA StartHasFile ==
  ASSUME LogsTypeOK, Spawned < MaxSpawns
  PROVE  /\ Spawned + 1 \in Starts
         /\ 1 + Cardinality({pumps[g].ino : g \in Starts} \ {0}) \in Files
<1> DEFINE G == {g \in Starts : pumps[g].ino # 0}
           I == {pumps[g].ino : g \in Starts} \ {0}
           f == [g \in G |-> pumps[g].ino]
<1>1. MaxSpawns \in Nat /\ Spawned = Cardinality(G)
  BY LogConstants DEF Spawned
<1>2. IsFiniteSet(G)
  <2>1. IsFiniteSet(Starts)
    BY <1>1, FS_Interval DEF Starts
  <2> QED BY <2>1, FS_Subset
<1>3. f \in Surjection(G, I)
  <2>1. f \in [G -> I]
    OBVIOUS
  <2>2. \A y \in I : \E g \in G : f[g] = y
    OBVIOUS
  <2> QED BY <2>1, <2>2 DEF Surjection
<1> HIDE DEF G, I, f
<1>4. IsFiniteSet(I) /\ Cardinality(I) <= Cardinality(G)
  BY <1>2, <1>3, FS_Surjection
<1>5. Cardinality(I) \in Nat /\ Cardinality(G) \in Nat
  BY <1>2, <1>4, FS_CardinalityType
<1> QED BY <1>1, <1>4, <1>5 DEF I, Starts, Files

\* What the pumps append was scrubbed, or is an NL.
LEMMA AppendPreserves ==
  ASSUME LogsIInv, NEW i, NEW t \in Text, \A k \in 1 .. Len(t) : t[k] \notin Labelled,
         data' = [data EXCEPT ![i] = @ \o t]
  PROVE  /\ data' \in [Files -> Text]
         /\ \A f \in Files : \E r \in Text : data'[f] = data[f] \o r
         /\ \A f \in Files : \A k \in DOMAIN data'[f] : data'[f][k] \notin Labelled
<1>1. data \in [Files -> Text] /\ \A f \in Files : data[f] \in Text
  BY LogTypes DEF LogsIInv, LogsInv
<1>2. ASSUME NEW f \in Files
      PROVE  \E r \in Text : data'[f] = data[f] \o r /\ \A k \in 1 .. Len(r) : r[k] \notin Labelled
  <2>1. CASE f = i
    <3>1. data'[f] = data[f] \o t
      BY <1>1, <2>1
    <3> QED BY <3>1
  <2>2. CASE f # i
    <3>1. data'[f] = data[f]
      BY <1>1, <2>2
    <3>2. <<>> \in Text /\ data[f] \o <<>> = data[f] /\ Len(<<>>) = 0
      BY <1>1, EmptySeq, ConcatEmptySeq DEF Text
    <3>3. \A k \in 1 .. Len(<<>>) : FALSE
      BY <3>2
    <3>4. data'[f] = data[f] \o <<>>
      BY <3>1, <3>2
    <3> QED BY <3>2, <3>3, <3>4, Zenon
  <2> QED BY <2>1, <2>2
<1>3. ASSUME NEW f \in Files
      PROVE  data'[f] \in Text /\ \A k \in DOMAIN data'[f] : data'[f][k] \notin Labelled
  <2>1. PICK r \in Text : data'[f] = data[f] \o r /\ \A k \in 1 .. Len(r) : r[k] \notin Labelled
    BY <1>2
  <2> DEFINE d == data[f]
  <2>2. d \in Text /\ Len(d) \in Nat /\ Len(r) \in Nat /\ DOMAIN d = 1 .. Len(d)
    BY <1>1, TextIs
  <2>3. \A k \in 1 .. Len(d) : d[k] \notin Labelled
    BY <2>2 DEF LogsIInv, LogsInv, NothingLeaks
  <2> HIDE DEF d
  <2>4. /\ d \o r \in Text /\ Len(d \o r) = Len(d) + Len(r)
        /\ \A k \in 1 .. Len(d) + Len(r) : (d \o r)[k] = IF k <= Len(d) THEN d[k] ELSE r[k - Len(d)]
    BY <2>2, ConcatProperties DEF Text
  <2>5. DOMAIN (d \o r) = 1 .. Len(d) + Len(r)
    BY <2>4, TextIs
  <2>6. \A k \in 1 .. Len(d) + Len(r) : (d \o r)[k] \notin Labelled
    BY <2>1, <2>2, <2>3, <2>4
  <2> QED BY <2>1, <2>4, <2>5, <2>6 DEF d
<1>4. data' \in [Files -> Text]
  <2>1. data' = [f \in Files |-> data'[f]]
    BY <1>1
  <2> QED BY <1>3, <2>1
<1> QED BY <1>2, <1>3, <1>4

\* The watcher, the bus and the client do not change.
LEMMA OtherTypes ==
  ASSUME LogsTypeOK, UNCHANGED <<w, bus, sub>>,
         path' \in 0 .. MaxSpawns, lines' \in 0 .. MaxLines, data' \in [Files -> Text],
         pumps' \in [Starts -> [ino : 0 .. MaxSpawns, mid : 0 .. 2]],
         epoch' \in [from : Nat, out : Seq(Seq(Units)), dirty : BOOLEAN, cut : BOOLEAN]
  PROVE  LogsTypeOK'
<1>1. w' = w /\ bus' = bus /\ sub' = sub
  OBVIOUS
<1> QED BY <1>1 DEF LogsTypeOK, Text

LEMMA WritePreserves ==
  ASSUME LogsIInv, NEW i, NEW t \in Text, \A k \in 1 .. Len(t) : t[k] \notin Labelled,
         data' = [data EXCEPT ![i] = @ \o t], lines' \in 0 .. MaxLines,
         pumps' \in [Starts -> [ino : 0 .. MaxSpawns, mid : 0 .. 2]],
         UNCHANGED <<path, w, epoch, bus, sub>>
  PROVE  LogsIInv'
<1>0. LogsTypeOK /\ FollowsFile /\ NothingLeaks /\ PlaceInv /\ NumberInv
  BY DEF LogsIInv, LogsInv
<1>1. /\ data' \in [Files -> Text]
      /\ \A f \in Files : \E r \in Text : data'[f] = data[f] \o r
      /\ \A f \in Files : \A k \in DOMAIN data'[f] : data'[f][k] \notin Labelled
  BY AppendPreserves
<1>2. LogsTypeOK'
  <2>1. /\ path' \in 0 .. MaxSpawns
        /\ epoch' \in [from : Nat, out : Seq(Seq(Units)), dirty : BOOLEAN, cut : BOOLEAN]
    BY <1>0 DEF LogsTypeOK
  <2> QED BY <1>0, <1>1, <2>1, OtherTypes
<1>3. FollowsFile' /\ PlaceInv'
  BY <1>1, GrowPreserves
<1>4. NothingLeaks'
  BY <1>0, <1>1 DEF NothingLeaks
<1>5. NumberInv'
  BY NumbersStay
<1> QED BY <1>2, <1>3, <1>4, <1>5 DEF LogsIInv, LogsInv

LEMMA PumpTextPreserves ==
  ASSUME LogsIInv, NEW g \in Starts, PumpText(g)
  PROVE  LogsIInv'
<1>1. /\ lines \in 0 .. MaxLines /\ MaxLines \in Nat
      /\ pumps \in [Starts -> [ino : 0 .. MaxSpawns, mid : 0 .. 2]]
  BY LogTypes, LogConstants DEF LogsIInv, LogsInv
<1>2. /\ pumps[g].mid < 2 /\ lines < MaxLines /\ lines' = lines + 1
      /\ pumps' = [pumps EXCEPT ![g].mid = @ + 1]
      /\ UNCHANGED <<path, w, epoch, bus, sub>>
  BY DEF PumpText
<1>3. PICK k \in Widths[lines + 1] : data' = [data EXCEPT ![pumps[g].ino] = @ \o [i \in 1 .. k |-> Scrub(lines + 1)]]
  BY DEF PumpText
<1> DEFINE t == [i \in 1 .. k |-> Scrub(lines + 1)]
<1>4. k \in Nat
  <2>1. lines + 1 \in 1 .. MaxLines
    BY <1>1, <1>2
  <2> QED BY <1>3, <2>1, LinesAssumption
<1>5. Scrub(lines + 1) \in Units /\ Scrub(lines + 1) \notin Labelled
  <2>1. lines + 1 \in Units
    BY <1>1, <1>2 DEF Units
  <2> QED BY <2>1, ScrubIs
<1>6. t \in Text /\ \A j \in 1 .. Len(t) : t[j] \notin Labelled
  BY <1>4, <1>5 DEF Text
<1>7. pumps' \in [Starts -> [ino : 0 .. MaxSpawns, mid : 0 .. 2]]
  BY <1>1, <1>2
<1>8. lines' \in 0 .. MaxLines
  BY <1>1, <1>2
<1> HIDE DEF t
<1> QED BY <1>2, <1>3, <1>6, <1>7, <1>8, WritePreserves DEF t

LEMMA PumpNlPreserves ==
  ASSUME LogsIInv, NEW g \in Starts, PumpNl(g)
  PROVE  LogsIInv'
<1>1. /\ data \in [Files -> Text] /\ lines \in 0 .. MaxLines
      /\ pumps \in [Starts -> [ino : 0 .. MaxSpawns, mid : 0 .. 2]]
  BY LogTypes DEF LogsIInv, LogsInv
<1>2. /\ pumps[g].mid > 0 /\ lines' = lines
      /\ pumps' = [pumps EXCEPT ![g].mid = @ - 1]
      /\ data' = [data EXCEPT ![pumps[g].ino] = Append(@, NL)]
      /\ UNCHANGED <<path, w, epoch, bus, sub>>
  BY DEF PumpNl
<1> DEFINE i == pumps[g].ino
           t == <<NL>>
<1>3. t \in Text /\ Len(t) = 1 /\ t[1] = NL /\ NL \notin Labelled
  BY NlIs DEF Text
<1>4. data' = [data EXCEPT ![i] = @ \o t]
  <2>1. \A d \in Text : Append(d, NL) = d \o t
    BY NlIs, AppendIsConcat DEF Text
  <2>2. i \in Files => Append(data[i], NL) = data[i] \o t
    BY <1>1, <2>1
  <2> HIDE DEF i, t
  <2> QED BY <1>1, <1>2, <2>2 DEF i
<1>5. pumps' \in [Starts -> [ino : 0 .. MaxSpawns, mid : 0 .. 2]]
  <2>1. pumps[g].mid - 1 \in 0 .. 2
    BY <1>1, <1>2
  <2> QED BY <1>1, <1>2, <2>1
<1> HIDE DEF t, i
<1>6. \A k \in 1 .. Len(t) : t[k] \notin Labelled
  BY <1>3
<1> QED BY <1>1, <1>2, <1>3, <1>4, <1>5, <1>6, WritePreserves

LEMMA RemoveFilePreserves ==
  ASSUME LogsIInv, RemoveFile
  PROVE  LogsIInv'
<1>0. LogsTypeOK /\ FollowsFile /\ NothingLeaks /\ PlaceInv /\ NumberInv
  BY DEF LogsIInv, LogsInv
<1>1. /\ path' = 0 /\ data' = data /\ pumps' = pumps /\ lines' = lines
      /\ w' = w /\ epoch' = epoch /\ bus' = bus /\ sub' = sub
  BY DEF RemoveFile
<1>2. LogsTypeOK'
  BY <1>0, <1>1, LogConstants DEF LogsTypeOK
<1>3. FollowsFile' /\ PlaceInv' /\ NothingLeaks' /\ NumberInv'
  BY <1>0, <1>1 DEF FollowsFile, PlaceInv, NothingLeaks, NumberInv, Following
<1> QED BY <1>2, <1>3 DEF LogsIInv, LogsInv

LEMMA SpawnPreserves ==
  ASSUME LogsIInv, Spawn
  PROVE  LogsIInv'
<1>0. LogsTypeOK /\ FollowsFile /\ NothingLeaks /\ PlaceInv /\ NumberInv
  BY DEF LogsIInv, LogsInv
<1> DEFINE new == IF path # 0 THEN path ELSE 1 + Cardinality({pumps[g].ino : g \in Starts} \ {0})
<1>1. new \in Files /\ Spawned + 1 \in Starts
  <2>1. Spawned + 1 \in Starts /\ 1 + Cardinality({pumps[g].ino : g \in Starts} \ {0}) \in Files
    BY <1>0, StartHasFile DEF Spawn
  <2>2. path \in 0 .. MaxSpawns
    BY <1>0, LogTypes
  <2> QED BY <2>1, <2>2, LogConstants DEF Files
<1>2. /\ path' = new /\ data' = [data EXCEPT ![new] = <<>>]
      /\ pumps' = [pumps EXCEPT ![Spawned + 1] = [ino |-> new, mid |-> 0]]
      /\ epoch' = [epoch EXCEPT !.dirty = @ \/ (w.ino = new /\ {w.pos, w.len} # {0})]
      /\ lines' = lines /\ w' = w /\ bus' = bus /\ sub' = sub
  BY DEF Spawn
<1> HIDE DEF new
<1>3. /\ data \in [Files -> Text] /\ lines \in 0 .. MaxLines
      /\ pumps \in [Starts -> [ino : 0 .. MaxSpawns, mid : 0 .. 2]]
  BY <1>0, LogTypes
<1>4. epoch \in [from : Nat, out : Seq(Seq(Units)), dirty : BOOLEAN, cut : BOOLEAN]
  BY <1>0 DEF LogsTypeOK
<1>5. /\ epoch'.from = epoch.from /\ epoch'.out = epoch.out /\ epoch'.cut = epoch.cut
      /\ epoch'.dirty = (epoch.dirty \/ (w.ino = new /\ {w.pos, w.len} # {0}))
  BY <1>2, <1>4
<1>6. data' \in [Files -> Text] /\ data'[new] = <<>> /\ \A f \in Files : f # new => data'[f] = data[f]
  <2>1. <<>> \in Text
    BY EmptySeq DEF Text
  <2> QED BY <1>1, <1>2, <1>3, <2>1
<1>7. LogsTypeOK'
  <2>1. path' \in 0 .. MaxSpawns /\ pumps' \in [Starts -> [ino : 0 .. MaxSpawns, mid : 0 .. 2]]
    BY <1>1, <1>2, <1>3, LogConstants DEF Files
  <2>2. epoch' \in [from : Nat, out : Seq(Seq(Units)), dirty : BOOLEAN, cut : BOOLEAN]
    BY <1>2, <1>4, Zenon
  <2> QED BY <1>0, <1>2, <1>3, <1>6, <2>1, <2>2, OtherTypes
<1>8. PlaceInv' /\ FollowsFile'
  <2>1. CASE w.ino = new /\ {w.pos, w.len} # {0}
    BY <1>0, <1>2, <1>5, <2>1 DEF PlaceInv, FollowsFile, Following
  <2>3. CASE w.ino = new /\ w.pos = 0 /\ w.len = 0
    <3>1. epoch'.dirty = epoch.dirty /\ data'[w.ino] = <<>> /\ Len(<<>>) = 0
      BY <1>4, <1>5, <1>6, <2>3
    <3>2. SubSeq(data[w.ino], 0 + 1, 0) = <<>> /\ SubSeq(<<>>, 0 + 1, 0) = <<>>
      BY SubSeqEmpty
    <3>3. PlaceInv'
      BY <1>0, <1>2, <1>4, <1>5, <2>3, <3>1 DEF PlaceInv, Following
    <3>4. ASSUME Following, ~epoch.dirty PROVE epoch.from = 0
      BY <1>0, <1>4, <2>3, <3>4 DEF PlaceInv
    <3>5. FollowsFile'
      BY <1>0, <1>2, <1>5, <2>3, <3>1, <3>2, <3>4, Zenon DEF FollowsFile, Following
    <3> QED BY <3>3, <3>5
  <2>2. CASE w.ino # new
    <3>1. Following => data'[w.ino] = data[w.ino]
      BY <1>0, <1>6, <2>2 DEF PlaceInv
    <3>2. epoch'.dirty = epoch.dirty
      BY <1>4, <1>5, <2>2
    <3> QED BY <1>0, <1>2, <1>5, <3>1, <3>2 DEF PlaceInv, FollowsFile, Following
  <2> QED BY <2>1, <2>2, <2>3
<1>9. NothingLeaks'
  BY <1>0, <1>2, <1>6 DEF NothingLeaks
<1>10. NumberInv'
  BY <1>2, NumbersStay
<1> QED BY <1>7, <1>8, <1>9, <1>10 DEF LogsIInv, LogsInv

\* The steps of the watcher that publish nothing: the files, the bus and the client
\* stay as they are.
LEMMA QuietWatch ==
  ASSUME LogsIInv, UNCHANGED <<path, data, pumps, lines, bus, sub>>,
         w' \in Watchers, w'.ticks < RescueTicks, w'.seq \in {w.seq, 0}, w'.pending \in {w.pending, <<>>},
         epoch' = epoch \/ \E from \in Nat : epoch' = NewEpoch(from),
         FollowsFile', PlaceInv'
  PROVE  LogsIInv'
<1>0. LogsTypeOK /\ NothingLeaks
  BY DEF LogsIInv, LogsInv
<1>1. path' = path /\ data' = data /\ pumps' = pumps /\ lines' = lines /\ bus' = bus /\ sub' = sub
  OBVIOUS
<1>2. Nls(<<>>) = {} /\ Len(<<>>) = 0 /\ PendingMax \in Nat
  BY LogConstants DEF Nls
<1>3. Nls(w'.pending) = {} /\ Len(w'.pending) <= PendingMax
  <2>1. CASE w'.pending = w.pending
    BY <1>0, <2>1 DEF LogsTypeOK
  <2>2. CASE w'.pending = <<>>
    <3>1. Nls(w'.pending) = {} /\ Len(w'.pending) = 0
      BY <1>2, <2>2
    <3> QED BY <1>2, <3>1
  <2> QED BY <2>1, <2>2
<1>4. epoch' \in [from : Nat, out : Seq(Seq(Units)), dirty : BOOLEAN, cut : BOOLEAN]
  <2>1. CASE epoch' = epoch
    BY <1>0, <2>1 DEF LogsTypeOK
  <2>2. CASE \E from \in Nat : epoch' = NewEpoch(from)
    BY <2>2 DEF NewEpoch
  <2> QED BY <2>1, <2>2
<1>5. LogsTypeOK'
  BY <1>0, <1>1, <1>3, <1>4 DEF LogsTypeOK
<1>6. NothingLeaks'
  BY <1>0, <1>1 DEF NothingLeaks
<1>7. NumberInv'
  BY NumbersStay
<1> QED BY <1>5, <1>6, <1>7 DEF LogsIInv, LogsInv

LEMMA ClosedIs ==
  /\ ClosedWatcher \in Watchers /\ ClosedWatcher.ticks = 0 /\ ClosedWatcher.seq = 0
  /\ ClosedWatcher.pending = <<>> /\ ClosedWatcher.pc = "closed"
BY LogConstants DEF ClosedWatcher, Watchers

\* The watcher gives the file up.
LEMMA ClosePreservesLogs ==
  ASSUME LogsIInv, UNCHANGED <<path, data, pumps, lines, bus, sub>>,
         w' = ClosedWatcher, epoch' = NewEpoch(0)
  PROVE  LogsIInv'
<1>1. /\ w' \in Watchers /\ w'.ticks < RescueTicks /\ w'.seq = 0 /\ w'.pending = <<>> /\ w'.pc = "closed"
  BY ClosedIs, LogConstants
<1>2. FollowsFile' /\ PlaceInv'
  BY <1>1 DEF FollowsFile, PlaceInv, Following
<1> QED BY <1>1, <1>2, QuietWatch

LEMMA DiscoverPreserves ==
  ASSUME LogsIInv, Discover
  PROVE  LogsIInv'
<1>1. w \in Watchers /\ w.ticks < RescueTicks
  BY DEF LogsIInv, LogsInv, LogsTypeOK
<1>2. /\ w' = [w EXCEPT !.pc = IF Listed THEN "closed" ELSE @] /\ w.pc = "none"
      /\ UNCHANGED <<path, data, pumps, lines, epoch, bus, sub>>
  BY DEF Discover
<1>3. w' \in Watchers /\ w'.pc \in {"none", "closed"} /\ w'.ticks = w.ticks /\ w'.seq = w.seq /\ w'.pending = w.pending
  BY <1>1, <1>2 DEF Watchers
<1>4. FollowsFile' /\ PlaceInv'
  BY <1>3 DEF FollowsFile, PlaceInv, Following
<1> QED BY <1>1, <1>2, <1>3, <1>4, QuietWatch

LEMMA NothingYet ==
  Complete(<<>>) = <<>> /\ Rest(<<>>) = <<>>
<1>1. Nls(<<>>) = {} /\ Len(<<>>) = 0 /\ <<>> \in Text
  BY EmptySeq DEF Nls, Text
<1>2. Ends(<<>>) = {}
  BY <1>1 DEF Ends
<1>3. Complete(<<>>) = <<>>
  BY <1>1, <1>2, CompleteIs, FS_EmptySet, EmptySeq
<1>4. Rest(<<>>) = <<>>
  <2>1. Rest(<<>>) \in Text /\ Len(Rest(<<>>)) = Len(<<>>) - LastNl(<<>>) /\ LastNl(<<>>) \in Nat /\ LastNl(<<>>) <= Len(<<>>)
    BY <1>1, RestIs
  <2>2. Len(Rest(<<>>)) = 0
    BY <1>1, <2>1
  <2> QED BY <2>1, <2>2, EmptySeq DEF Text
<1> QED BY <1>3, <1>4

LEMMA OpenPreserves ==
  ASSUME LogsIInv, Open
  PROVE  LogsIInv'
<1>0. LogsTypeOK /\ UNCHANGED <<path, data, pumps, lines, bus, sub>> /\ w.pc = "closed"
  BY DEF Open, LogsIInv, LogsInv
<1>1. CASE path = 0
  <2>1. w' = w /\ epoch' = epoch
    BY <1>1 DEF Open
  <2>2. w \in Watchers /\ w.ticks < RescueTicks
    BY <1>0 DEF LogsTypeOK
  <2>3. FollowsFile' /\ PlaceInv'
    BY <1>0, <2>1 DEF FollowsFile, PlaceInv, Following
  <2> QED BY <1>0, <2>1, <2>2, <2>3, QuietWatch
<1>2. CASE path # 0
  <2> DEFINE pos == IF w.first THEN Len(data[path]) ELSE 0
             d == data[path]
  <2>1. w' = [ClosedWatcher EXCEPT !.pc = "poll", !.ino = path, !.pos = pos] /\ epoch' = NewEpoch(pos)
    BY <1>2 DEF Open
  <2>2. path \in Files /\ path \in 0 .. MaxSpawns /\ d \in Text
    BY <1>0, <1>2, LogTypes, LogConstants DEF Files
  <2>3. Len(d) \in Nat
    BY <2>2, TextIs
  <2>4. pos \in Nat /\ pos <= Len(d)
    <3>1. CASE w.first
      BY <2>3, <3>1
    <3>2. CASE ~w.first
      BY <2>3, <3>2
    <3> QED BY <3>1, <3>2
  <2> HIDE DEF pos, d
  <2>5. /\ w' \in Watchers /\ w'.ticks = 0 /\ w'.seq = 0 /\ w'.pending = <<>> /\ w'.pc = "poll"
        /\ w'.ino = path /\ w'.pos = pos /\ w'.prev = NoByte
    <3>1. w' = [pc |-> "poll", first |-> FALSE, ino |-> path, pos |-> pos, prev |-> NoByte,
                pending |-> <<>>, seq |-> 0, ticks |-> 0, len |-> 0]
      BY <2>1 DEF ClosedWatcher
    <3>2. <<>> \in Seq(Units)
      OBVIOUS
    <3> QED BY <2>2, <2>4, <3>1, <3>2 DEF Watchers
  <2>6. epoch'.from = pos /\ epoch'.out = <<>> /\ data' = data
    BY <1>0, <2>1 DEF NewEpoch
  <2>7. PlaceInv'
    BY <2>2, <2>3, <2>4, <2>5, <2>6 DEF PlaceInv, d
  <2>8. FollowsFile'
    <3>1. SubSeq(d, pos + 1, pos) = <<>>
      BY <2>4, SubSeqEmpty
    <3>2. SubSeq(data'[w'.ino], epoch'.from + 1, w'.pos) = <<>>
      BY <2>5, <2>6, <3>1 DEF d
    <3> QED BY <2>5, <2>6, <3>2, NothingYet DEF FollowsFile
  <2>9. w'.ticks < RescueTicks
    BY <2>5, LogConstants
  <2> QED BY <1>0, <2>1, <2>4, <2>5, <2>7, <2>8, <2>9, QuietWatch
<1> QED BY <1>1, <1>2

LEMMA PollPreserves ==
  ASSUME LogsIInv, Poll
  PROVE  LogsIInv'
<1>0. LogsTypeOK /\ FollowsFile /\ PlaceInv
  BY DEF LogsIInv, LogsInv
<1>1. /\ w \in Watchers /\ w.ticks \in Nat /\ w.ticks < RescueTicks
      /\ Following /\ w.ino \in Files
  BY <1>0 DEF Poll, LogsTypeOK, Following, PlaceInv, Watchers
<1> DEFINE look == w.ticks + 1 >= RescueTicks
           d == data[w.ino]
<1>2. /\ w' = [w EXCEPT !.pc = IF look THEN "check" ELSE "read",
                        !.ticks = IF look THEN 0 ELSE @ + 1, !.len = Len(d)]
      /\ path' = path /\ data' = data /\ pumps' = pumps /\ lines' = lines /\ epoch' = epoch /\ bus' = bus /\ sub' = sub
  BY DEF Poll
<1>3. Len(d) \in Nat
  <2>1. d \in Text
    BY <1>0, <1>1, LogTypes
  <2> QED BY <2>1, TextIs
<1> HIDE DEF d
<1>4. /\ w' \in Watchers /\ w'.ticks < RescueTicks /\ w'.seq = w.seq /\ w'.pending = w.pending
      /\ w'.ino = w.ino /\ w'.pos = w.pos /\ w'.prev = w.prev /\ w'.len = Len(d) /\ w'.pc \in {"check", "read"}
  <2>1. w'.ticks \in Nat /\ w'.ticks < RescueTicks
    BY <1>1, <1>2, LogConstants DEF Watchers
  <2>2. /\ w'.seq = w.seq /\ w'.pending = w.pending /\ w'.first = w.first
        /\ w'.ino = w.ino /\ w'.pos = w.pos /\ w'.prev = w.prev /\ w'.len = Len(d) /\ w'.pc \in {"check", "read"}
    BY <1>1, <1>2 DEF Watchers
  <2>3. w' \in Watchers
    BY <1>1, <1>2, <1>3, <2>1 DEF Watchers
  <2> QED BY <2>1, <2>2, <2>3
<1>5. w.pos \in Nat
  BY <1>1 DEF Watchers
<1>6. PlaceInv'
  <2>1. ~epoch.dirty =>
         /\ epoch.from <= w.pos /\ w.pos <= Len(d)
         /\ w.prev # NoByte /\ w.pos > 0 => w.prev = Byte(d[w.pos])
    BY <1>0, <1>1 DEF PlaceInv, d
  <2>2. data'[w'.ino] = d
    BY <1>2, <1>4 DEF d
  <2> QED BY <1>1, <1>2, <1>3, <1>4, <2>1, <2>2 DEF PlaceInv
<1>7. FollowsFile'
  BY <1>0, <1>1, <1>2, <1>4 DEF FollowsFile, Following
<1> QED BY <1>2, <1>4, <1>6, <1>7, QuietWatch

LEMMA CheckPreserves ==
  ASSUME LogsIInv, Check
  PROVE  LogsIInv'
<1>0. LogsTypeOK /\ FollowsFile /\ PlaceInv /\ w.pc = "check"
  BY DEF LogsIInv, LogsInv, Check
<1>1. UNCHANGED <<path, data, pumps, lines, bus, sub>>
  BY DEF Check
<1>2. CASE path = w.ino /\ Len(data[path]) = w.len
  <2>1. w' = [w EXCEPT !.pc = "read"] /\ epoch' = epoch
    BY <1>2 DEF Check
  <2>2. w \in Watchers /\ w.ticks < RescueTicks
    BY <1>0 DEF LogsTypeOK
  <2>3. /\ w' \in Watchers /\ w'.ticks = w.ticks /\ w'.seq = w.seq /\ w'.pending = w.pending
        /\ w'.ino = w.ino /\ w'.pos = w.pos /\ w'.prev = w.prev /\ w'.len = w.len /\ w'.pc = "read"
    BY <2>1, <2>2 DEF Watchers
  <2>4. PlaceInv' /\ FollowsFile'
    BY <1>0, <1>1, <2>1, <2>3 DEF PlaceInv, FollowsFile, Following
  <2> QED BY <1>1, <2>1, <2>2, <2>3, <2>4, QuietWatch
<1>3. CASE ~(path = w.ino /\ Len(data[path]) = w.len)
  <2>1. w' = ClosedWatcher /\ epoch' = NewEpoch(0)
    BY <1>3 DEF Check
  <2> QED BY <1>1, <2>1, ClosePreservesLogs
<1> QED BY <1>2, <1>3

LEMMA ReadFailsPreserves ==
  ASSUME LogsIInv, ReadFails
  PROVE  LogsIInv'
<1>1. w' = ClosedWatcher /\ epoch' = NewEpoch(0) /\ UNCHANGED <<path, data, pumps, lines, bus, sub>>
  BY DEF ReadFails
<1> QED BY <1>1, ClosePreservesLogs

LEMMA NothingNewPreserves ==
  ASSUME LogsIInv, NothingNew
  PROVE  LogsIInv'
<1>0. LogsTypeOK /\ FollowsFile /\ PlaceInv /\ w.pc = "read"
  BY DEF LogsIInv, LogsInv, NothingNew
<1>1. w' = [w EXCEPT !.pc = "poll", !.len = 0] /\ UNCHANGED <<path, data, pumps, lines, epoch, bus, sub>>
  BY DEF NothingNew
<1>2. w \in Watchers /\ w.ticks < RescueTicks
  BY <1>0 DEF LogsTypeOK
<1>3. /\ w' \in Watchers /\ w'.ticks = w.ticks /\ w'.seq = w.seq /\ w'.pending = w.pending
      /\ w'.ino = w.ino /\ w'.pos = w.pos /\ w'.prev = w.prev /\ w'.pc = "poll"
  BY <1>1, <1>2 DEF Watchers
<1>4. PlaceInv' /\ FollowsFile'
  BY <1>0, <1>1, <1>3 DEF PlaceInv, FollowsFile, Following
<1> QED BY <1>1, <1>2, <1>3, <1>4, QuietWatch

LEMMA RewindPreserves ==
  ASSUME LogsIInv, Rewind
  PROVE  LogsIInv'
<1>0. LogsTypeOK /\ PlaceInv /\ w.pc = "read"
  BY DEF LogsIInv, LogsInv, Rewind
<1>1. /\ w' = [w EXCEPT !.pc = "poll", !.len = 0, !.pos = 0, !.prev = NoByte, !.pending = <<>>, !.seq = 0]
      /\ epoch' = NewEpoch(0) /\ data' = data /\ UNCHANGED <<path, data, pumps, lines, bus, sub>>
  BY DEF Rewind
<1>2. w \in Watchers /\ w.ticks < RescueTicks /\ w.ino \in Files
  BY <1>0 DEF LogsTypeOK, PlaceInv, Following
<1>3. /\ w' \in Watchers /\ w'.ticks = w.ticks /\ w'.seq = 0 /\ w'.pending = <<>>
      /\ w'.ino = w.ino /\ w'.pos = 0 /\ w'.prev = NoByte /\ w'.pc = "poll"
  <2>1. <<>> \in Seq(Units)
    OBVIOUS
  <2>2. w' \in Watchers
    BY <1>1, <1>2, <2>1, Zenon DEF Watchers
  <2> QED BY <1>1, <1>2, <2>2 DEF Watchers
<1>4. epoch'.from = 0 /\ epoch'.out = <<>>
  BY <1>1 DEF NewEpoch
<1>5. Len(data[w.ino]) \in Nat
  BY <1>0, <1>2, LogTypes, TextIs
<1>6. PlaceInv'
  BY <1>1, <1>2, <1>3, <1>4, <1>5 DEF PlaceInv
<1>7. FollowsFile'
  <2>1. SubSeq(data'[w'.ino], 0 + 1, 0) = <<>>
    BY SubSeqEmpty
  <2> QED BY <1>3, <1>4, <2>1, NothingYet DEF FollowsFile
<1> QED BY <1>1, <1>2, <1>3, <1>6, <1>7, QuietWatch

Message == Nat \X Text

\* What travels on the bus, from the number that came before it.
LEMMA NumbersAre ==
  ASSUME LogsIInv
  PROVE  /\ bus.ring \in Seq(Message) /\ Len(bus.ring) \in Nat /\ Len(bus.ring) <= BusCap
         /\ \A i \in 1 .. Len(bus.ring) : bus.ring[i] \in Message /\ bus.ring[i][1] \in Nat /\ bus.ring[i][1] > 0
         /\ \A i \in 1 .. Len(bus.ring) : i > 1 => bus.ring[i][1] \in {bus.ring[i - 1][1] + 1, 1}
         /\ \A i \in 1 .. Len(bus.ring) : \A k \in DOMAIN bus.ring[i][2] : bus.ring[i][2][k] \notin Labelled
         /\ DOMAIN bus.ring = 1 .. Len(bus.ring)
<1>1. bus.ring \in Seq(Message) /\ Len(bus.ring) <= BusCap
  BY DEF LogsIInv, LogsInv, LogsTypeOK, Message, Text
<1>2. /\ Len(bus.ring) \in Nat /\ DOMAIN bus.ring = 1 .. Len(bus.ring)
      /\ \A i \in 1 .. Len(bus.ring) : bus.ring[i] \in Message
  BY <1>1, LenProperties, ElementOfSeq
<1>3. /\ \A i \in 1 .. Len(bus.ring) : bus.ring[i][1] > 0
      /\ \A i \in 1 .. Len(bus.ring) : i > 1 => bus.ring[i][1] \in {bus.ring[i - 1][1] + 1, 1}
  BY <1>2 DEF LogsIInv, NumberInv
<1>4. \A i \in 1 .. Len(bus.ring) : \A k \in DOMAIN bus.ring[i][2] : bus.ring[i][2][k] \notin Labelled
  BY <1>2 DEF LogsIInv, LogsInv, NothingLeaks
<1>5. \A m \in Message : m[1] \in Nat
  BY DEF Message
<1> QED BY <1>1, <1>2, <1>3, <1>4, <1>5

LEMMA SubscribePreserves ==
  ASSUME LogsIInv, Subscribe
  PROVE  LogsIInv'
<1>0. LogsTypeOK /\ FollowsFile /\ NothingLeaks /\ PlaceInv /\ NumberInv
  BY DEF LogsIInv, LogsInv
<1>1. /\ ~sub.on /\ sub' = [on |-> TRUE, last |-> 0]
      /\ path' = path /\ data' = data /\ pumps' = pumps /\ lines' = lines
      /\ w' = w /\ epoch' = epoch /\ bus' = bus
  BY DEF Subscribe
<1>2. LogsTypeOK'
  <2>1. sub' \in [on : BOOLEAN, last : Nat]
    BY <1>1
  <2> QED BY <1>0, <1>1, <2>1 DEF LogsTypeOK
<1>3. FollowsFile' /\ PlaceInv' /\ NothingLeaks'
  BY <1>0, <1>1 DEF FollowsFile, PlaceInv, NothingLeaks, Following
<1>4. NumberInv'
  BY <1>0, <1>1 DEF NumberInv
<1> QED BY <1>2, <1>3, <1>4 DEF LogsIInv, LogsInv

LEMMA ReceivePreserves ==
  ASSUME LogsIInv, Receive
  PROVE  LogsIInv'
<1>0. LogsTypeOK /\ FollowsFile /\ NothingLeaks /\ PlaceInv /\ NumberInv
  BY DEF LogsIInv, LogsInv
<1> DEFINE ring == bus.ring
           left == Tail(bus.ring)
<1>1. /\ ring # <<>> /\ sub' = [sub EXCEPT !.last = Head(ring)[1]]
      /\ bus' = [ring |-> left, lagged |-> FALSE]
      /\ path' = path /\ data' = data /\ pumps' = pumps /\ lines' = lines
      /\ w' = w /\ epoch' = epoch
  BY DEF Receive
<1>2. /\ ring \in Seq(Message) /\ Len(ring) \in Nat /\ Len(ring) <= BusCap
      /\ \A i \in 1 .. Len(ring) : ring[i] \in Message /\ ring[i][1] \in Nat /\ ring[i][1] > 0
      /\ \A i \in 1 .. Len(ring) : i > 1 => ring[i][1] \in {ring[i - 1][1] + 1, 1}
      /\ \A i \in 1 .. Len(ring) : \A k \in DOMAIN ring[i][2] : ring[i][2][k] \notin Labelled
  BY NumbersAre
<1>3. /\ left \in Seq(Message) /\ Len(left) = Len(ring) - 1 /\ Len(ring) > 0
      /\ \A i \in 1 .. Len(left) : left[i] = ring[i + 1]
      /\ Head(ring) = ring[1] /\ DOMAIN left = 1 .. Len(left)
  <2>1. /\ left \in Seq(Message) /\ Len(left) = Len(ring) - 1
        /\ \A i \in 1 .. Len(left) : left[i] = ring[i + 1]
    BY <1>1, <1>2, HeadTailProperties
  <2>2. Len(ring) > 0
    BY <1>1, <1>2, EmptySeq
  <2>3. DOMAIN left = 1 .. Len(left)
    BY <2>1, LenProperties
  <2> QED BY <1>2, <2>1, <2>2, <2>3
<1> DEFINE n == ring[1][1]
<1>4. n \in Nat /\ n > 0 /\ BusCap \in Nat
  BY <1>2, <1>3, LogConstants
<1>5. sub.on /\ sub'.on = sub.on /\ sub'.last = n /\ bus'.ring = left /\ bus'.lagged = FALSE
  BY <1>0, <1>1, <1>3 DEF NumberInv, LogsTypeOK
<1>6. w.seq \in {ring[Len(ring)][1], 0}
  BY <1>0, <1>1 DEF NumberInv
<1> HIDE DEF ring, left, n
<1>7. LogsTypeOK'
  <2>1. sub' \in [on : BOOLEAN, last : Nat]
    BY <1>0, <1>1, <1>3, <1>4 DEF LogsTypeOK, n
  <2>2. bus' \in [ring : Seq(Nat \X Seq(Units)), lagged : BOOLEAN] /\ Len(bus'.ring) <= BusCap
    BY <1>1, <1>2, <1>3, <1>4, <1>5 DEF Message, Text
  <2> QED BY <1>0, <1>1, <2>1, <2>2 DEF LogsTypeOK
<1>8. FollowsFile' /\ PlaceInv'
  BY <1>0, <1>1 DEF FollowsFile, PlaceInv, Following
<1>9. \A i \in 1 .. Len(left) : i + 1 \in 1 .. Len(ring)
  BY <1>2, <1>3
<1>10. NothingLeaks'
  <2>1. \A i \in 1 .. Len(left) : \A k \in DOMAIN left[i][2] : left[i][2][k] \notin Labelled
    BY <1>2, <1>3, <1>9
  <2> QED BY <1>0, <1>1, <1>3, <1>5, <2>1 DEF NothingLeaks
<1>11. NumberInv'
  <2>1. \A i \in 1 .. Len(left) : left[i][1] > 0
    BY <1>2, <1>3, <1>9
  <2>2. ASSUME NEW i \in 1 .. Len(left), i > 1 PROVE left[i][1] \in {left[i - 1][1] + 1, 1}
    <3>1. i + 1 \in 1 .. Len(ring) /\ i + 1 > 1 /\ i - 1 \in 1 .. Len(left) /\ (i + 1) - 1 = i /\ (i - 1) + 1 = i
      BY <1>2, <1>3, <2>2
    <3>2. ring[i + 1][1] \in {ring[(i + 1) - 1][1] + 1, 1}
      BY <1>2, <3>1
    <3>3. left[i - 1] = ring[i] /\ left[i] = ring[i + 1]
      BY <1>3, <3>1
    <3> QED BY <3>1, <3>2, <3>3
  <2>3. left # <<>> => left[1][1] \in {n + 1, 1} /\ w.seq \in {left[Len(left)][1], 0}
    <3>1. ASSUME left # <<>> PROVE left[1][1] \in {n + 1, 1} /\ w.seq \in {left[Len(left)][1], 0}
      <4>1. Len(left) \in Nat /\ Len(left) > 0
        BY <1>3, <3>1, EmptySeq
      <4>2. 1 \in 1 .. Len(left) /\ Len(left) \in 1 .. Len(left) /\ Len(left) + 1 = Len(ring) /\ 2 \in 1 .. Len(ring)
        BY <1>2, <1>3, <4>1
      <4>3. left[1] = ring[2] /\ left[Len(left)] = ring[Len(ring)]
        BY <1>3, <4>2
      <4>4. ring[2][1] \in {ring[2 - 1][1] + 1, 1}
        BY <1>2, <4>2
      <4> QED BY <1>6, <4>3, <4>4 DEF n
    <3> QED BY <3>1
  <2>4. left = <<>> => w.seq \in {n, 0}
    <3>1. ASSUME left = <<>> PROVE Len(ring) = 1
      BY <1>2, <1>3, <3>1, EmptySeq
    <3> QED BY <1>6, <3>1 DEF n
  <2> QED BY <1>1, <1>3, <1>5, <2>1, <2>2, <2>3, <2>4 DEF NumberInv
<1> QED BY <1>7, <1>8, <1>10, <1>11 DEF LogsIInv, LogsInv

\* What is carried from batch to batch stays within PENDING_MAX_BYTES: a text that
\* has grown too long is cut after an NL, which came in with the last batch, or dropped.
LEMMA KeptIs ==
  ASSUME NEW p \in Text, Nls(p) = {}, NEW t \in Text, Len(t) <= Batch
  PROVE  /\ p \o t \in Text /\ Kept(p \o t) \in Text
         /\ Rest(Kept(p \o t)) \in Text /\ Nls(Rest(Kept(p \o t))) = {}
         /\ Len(Rest(Kept(p \o t))) <= PendingMax
<1> DEFINE all == p \o t
<1>1. /\ all \in Text /\ Len(all) = Len(p) + Len(t)
      /\ \A i \in 1 .. Len(p) + Len(t) : all[i] = IF i <= Len(p) THEN p[i] ELSE t[i - Len(p)]
  BY ConcatProperties DEF Text
<1>2. Len(p) \in Nat /\ Len(t) \in Nat
  BY TextIs
<1> HIDE DEF all
<1>3. /\ Rest(all) \in Text /\ Len(Rest(all)) = Len(all) - LastNl(all) /\ LastNl(all) \in Nat
      /\ \A i \in Nls(all) : i <= LastNl(all)
  BY <1>1, RestIs
<1>4. Kept(all) \in Text /\ (Len(Kept(all)) <= PendingMax)
  <2>1. CASE Len(all) <= PendingMax
    BY <1>1, <2>1 DEF Kept
  <2>2. CASE ~(Len(all) <= PendingMax) /\ Nls(all) # {}
    <3>1. Kept(all) = Rest(all)
      BY <2>2, Zenon DEF Kept
    <3>2. PICK i \in Nls(all) : TRUE
      BY <2>2
    <3>3. i \in Nat /\ i > 0 /\ i <= Len(all) /\ all[i] = NL
      BY <1>1, NlsAre
    <3>4. i > Len(p)
      <4>1. ASSUME i <= Len(p) PROVE FALSE
        <5>1. p[i] = NL
          BY <1>1, <1>2, <3>3, <4>1
        <5>2. i \in Nls(p)
          BY <3>3, <4>1, <5>1, NlsAre
        <5> QED BY <5>2
      <4> QED BY <1>2, <3>3, <4>1
    <3>5. Len(Rest(all)) <= Len(t)
      BY <1>1, <1>2, <1>3, <3>2, <3>3, <3>4
    <3> QED BY <1>2, <1>3, <3>1, <3>5, TextIs, LogConstants
  <2>3. CASE ~(Len(all) <= PendingMax) /\ Nls(all) = {}
    <3>1. Kept(all) = <<>>
      BY <2>3, Zenon DEF Kept
    <3>2. <<>> \in Text /\ Len(<<>>) = 0
      BY EmptySeq DEF Text
    <3> QED BY <3>1, <3>2, LogConstants
  <2> QED BY <2>1, <2>2, <2>3
<1>5. /\ Rest(Kept(all)) \in Text /\ Nls(Rest(Kept(all))) = {}
      /\ Len(Rest(Kept(all))) = Len(Kept(all)) - LastNl(Kept(all)) /\ LastNl(Kept(all)) \in Nat
  BY <1>4, RestIs
<1>6. Len(Kept(all)) \in Nat
  BY <1>4, TextIs
<1>7. Len(Rest(Kept(all))) <= PendingMax
  BY <1>4, <1>5, <1>6, LogConstants
<1> QED BY <1>1, <1>4, <1>5, <1>7 DEF all

\* A full broadcast drops its oldest lines.
LEMMA LastOfIs ==
  ASSUME NEW s \in Seq(Message), NEW drop,
         drop = IF Len(s) > BusCap THEN Len(s) - BusCap ELSE 0
  PROVE  /\ drop \in Nat /\ drop <= Len(s) /\ Len(s) \in Nat
         /\ LastOf(s) \in Seq(Message) /\ Len(LastOf(s)) = Len(s) - drop /\ Len(s) - drop <= BusCap
         /\ DOMAIN LastOf(s) = 1 .. Len(s) - drop
         /\ \A i \in 1 .. Len(s) - drop : LastOf(s)[i] = s[drop + i]
<1>1. Len(s) \in Nat /\ \A i \in 1 .. Len(s) : s[i] \in Message
  BY LenProperties, ElementOfSeq
<1>2. drop \in Nat /\ drop <= Len(s) /\ Len(s) - drop <= BusCap
  BY <1>1, LogConstants
<1>3. LastOf(s) = SubSeq(s, 1 + drop, Len(s))
  BY Zenon DEF LastOf
<1>4. /\ SubSeq(s, 1 + drop, Len(s)) \in Seq(Message)
      /\ Len(SubSeq(s, 1 + drop, Len(s))) = IF 1 + drop <= Len(s) THEN Len(s) - (1 + drop) + 1 ELSE 0
      /\ \A i \in 1 .. Len(s) - (1 + drop) + 1 : SubSeq(s, 1 + drop, Len(s))[i] = s[(1 + drop) + i - 1]
  BY <1>1, <1>2, SubSeqProperties
<1>5. ASSUME NEW i \in 1 .. Len(s) - drop PROVE LastOf(s)[i] = s[drop + i]
  <2>1. i \in 1 .. Len(s) - (1 + drop) + 1 /\ (1 + drop) + i - 1 = drop + i
    BY <1>1, <1>2
  <2> QED BY <1>3, <1>4, <2>1
<1>6. LastOf(s) \in Seq(Message) /\ Len(LastOf(s)) = Len(s) - drop
  BY <1>1, <1>2, <1>3, <1>4
<1>7. DOMAIN LastOf(s) = 1 .. Len(s) - drop
  BY <1>6, LenProperties
<1> QED BY <1>1, <1>2, <1>5, <1>6, <1>7

\* The lines a batch gave, with the numbers after those before.
LEMMA NumberedIs ==
  ASSUME LogsIInv, NEW got \in Seq(Text)
  PROVE  /\ Numbered(got) \in Seq(Message) /\ Len(Numbered(got)) = Len(got) /\ Len(got) \in Nat
         /\ \A i \in 1 .. Len(got) :
              /\ Numbered(got)[i][1] = w.seq + i
              /\ \A k \in DOMAIN Numbered(got)[i][2] : Numbered(got)[i][2][k] \notin Labelled
<1>1. w.seq \in Nat /\ Len(got) \in Nat
  BY LogTypes, LenProperties DEF LogsIInv, LogsInv
<1>2. ASSUME NEW i \in 1 .. Len(got)
      PROVE  /\ ScrubLine(got[i]) \in Text
             /\ \A k \in DOMAIN ScrubLine(got[i]) : ScrubLine(got[i])[k] \notin Labelled
  <2> DEFINE l == got[i]
  <2>1. l \in Text
    BY ElementOfSeq
  <2>2. Len(l) \in Nat /\ \A k \in 1 .. Len(l) : l[k] \in Units
    BY <2>1, TextIs
  <2>3. \A k \in 1 .. Len(l) : Scrub(l[k]) \in Units /\ Scrub(l[k]) \notin Labelled
    BY <2>2, ScrubIs
  <2> HIDE DEF l
  <2>4. ScrubLine(l) = [k \in 1 .. Len(l) |-> Scrub(l[k])]
    BY DEF ScrubLine
  <2>5. ScrubLine(l) \in Text
    BY <2>2, <2>3, <2>4 DEF Text
  <2>6. \A k \in DOMAIN ScrubLine(l) : ScrubLine(l)[k] \notin Labelled
    BY <2>3, <2>4
  <2> QED BY <2>5, <2>6 DEF l
<1>3. Numbered(got) = [i \in 1 .. Len(got) |-> <<w.seq + i, ScrubLine(got[i])>>]
  BY DEF Numbered
<1>4. \A i \in 1 .. Len(got) : <<w.seq + i, ScrubLine(got[i])>> \in Message
  BY <1>1, <1>2 DEF Message
<1>5. Numbered(got) \in Seq(Message) /\ Len(Numbered(got)) = Len(got)
  BY <1>1, <1>3, <1>4
<1>6. \A i \in 1 .. Len(got) : Numbered(got)[i][1] = w.seq + i /\ Numbered(got)[i][2] = ScrubLine(got[i])
  BY <1>3
<1> QED BY <1>1, <1>2, <1>5, <1>6

\* The lines of a batch are sent: numbers go on, and what is dropped leaves a mark.
LEMMA PublishPreserves ==
  ASSUME LogsIInv, NEW got \in Seq(Text), Publish(Numbered(got)), sub' = sub,
         w'.seq = w.seq + Len(got)
  PROVE  /\ bus' \in [ring : Seq(Nat \X Seq(Units)), lagged : BOOLEAN] /\ Len(bus'.ring) <= BusCap
         /\ \A m \in DOMAIN bus'.ring : \A i \in DOMAIN bus'.ring[m][2] : bus'.ring[m][2][i] \notin Labelled
         /\ NumberInv'
         /\ Len(bus'.ring) >= Len(bus.ring)
<1> DEFINE ring == bus.ring
           ms == Numbered(got)
           cat == ring \o ms
           drop == IF Len(cat) > BusCap THEN Len(cat) - BusCap ELSE 0
           new == bus'.ring
           seq == w.seq
<1>0. LogsTypeOK /\ NumberInv /\ NothingLeaks /\ bus \in [ring : Seq(Nat \X Seq(Units)), lagged : BOOLEAN]
  BY DEF LogsIInv, LogsInv, LogsTypeOK
<1>1. /\ ring \in Seq(Message) /\ Len(ring) \in Nat /\ Len(ring) <= BusCap
      /\ \A i \in 1 .. Len(ring) : ring[i] \in Message /\ ring[i][1] \in Nat /\ ring[i][1] > 0
      /\ \A i \in 1 .. Len(ring) : i > 1 => ring[i][1] \in {ring[i - 1][1] + 1, 1}
      /\ \A i \in 1 .. Len(ring) : \A k \in DOMAIN ring[i][2] : ring[i][2][k] \notin Labelled
      /\ DOMAIN ring = 1 .. Len(ring)
  BY NumbersAre
<1>2. /\ ms \in Seq(Message) /\ Len(ms) = Len(got) /\ Len(got) \in Nat
      /\ \A i \in 1 .. Len(got) :
           /\ ms[i][1] = seq + i
           /\ \A k \in DOMAIN ms[i][2] : ms[i][2][k] \notin Labelled
  BY NumberedIs
<1>3. seq \in Nat
  BY <1>0, LogTypes
<1>4. CASE ~sub.on
  <2>1. bus' = bus /\ ring = <<>> /\ sub.last = 0
    BY <1>0, <1>4 DEF Publish, NumberInv
  <2>2. NumberInv'
    BY <1>0, <1>4, <2>1 DEF NumberInv
  <2> QED BY <1>0, <1>1, <2>1, <2>2 DEF NothingLeaks
<1>5. CASE sub.on
  <2>1. bus' = [ring |-> LastOf(cat), lagged |-> bus.lagged \/ Len(cat) > BusCap]
    BY <1>5 DEF Publish
  <2>2. new = LastOf(cat) /\ bus'.lagged = (bus.lagged \/ Len(cat) > BusCap)
    BY <2>1
  <2>3. ring # <<>> => seq \in {ring[Len(ring)][1], 0}
    BY <1>0 DEF NumberInv
  <2>4. ring = <<>> /\ sub.last > 0 => seq \in {sub.last, 0}
    BY <1>0 DEF NumberInv
  <2>5. ring # <<>> /\ sub.last > 0 /\ ~bus.lagged => ring[1][1] \in {sub.last + 1, 1}
    BY <1>0 DEF NumberInv
  <2> HIDE DEF ring, ms, seq
  <2>6. /\ cat \in Seq(Message) /\ Len(cat) = Len(ring) + Len(got)
        /\ \A i \in 1 .. Len(ring) + Len(got) : cat[i] = IF i <= Len(ring) THEN ring[i] ELSE ms[i - Len(ring)]
    <3>1. /\ ring \o ms \in Seq(Message) /\ Len(ring \o ms) = Len(ring) + Len(ms)
          /\ \A i \in 1 .. Len(ring) + Len(ms) :
               (ring \o ms)[i] = IF i <= Len(ring) THEN ring[i] ELSE ms[i - Len(ring)]
      <4>1. ring \in Seq(Message) /\ ms \in Seq(Message)
        BY <1>1, <1>2
      <4> QED BY <4>1, ConcatProperties
    <3>2. Len(ms) = Len(got) /\ cat = ring \o ms
      BY <1>2
    <3> HIDE DEF cat
    <3> QED BY <3>1, <3>2
  <2> HIDE DEF cat
  <2>7. /\ drop \in Nat /\ drop <= Len(cat) /\ Len(cat) \in Nat
        /\ new \in Seq(Message) /\ Len(new) = Len(cat) - drop /\ Len(cat) - drop <= BusCap
        /\ DOMAIN new = 1 .. Len(cat) - drop
        /\ \A i \in 1 .. Len(cat) - drop : new[i] = cat[drop + i]
    <3>1. drop = IF Len(cat) > BusCap THEN Len(cat) - BusCap ELSE 0
      OBVIOUS
    <3> HIDE DEF drop, new
    <3>2. /\ drop \in Nat /\ drop <= Len(cat) /\ Len(cat) \in Nat
          /\ LastOf(cat) \in Seq(Message) /\ Len(LastOf(cat)) = Len(cat) - drop /\ Len(cat) - drop <= BusCap
          /\ DOMAIN LastOf(cat) = 1 .. Len(cat) - drop
          /\ \A i \in 1 .. Len(cat) - drop : LastOf(cat)[i] = cat[drop + i]
      <4>1. cat \in Seq(Message)
        BY <2>6
      <4> QED BY <3>1, <4>1, LastOfIs
    <3> QED BY <2>2, <3>2
  <2>8. drop > 0 <=> Len(cat) > BusCap
    BY <1>1, <1>2, <2>6, LogConstants
  <2>9. drop > 0 => Len(new) = BusCap
    BY <2>6, <2>7, <2>8, LogConstants
  <2> HIDE DEF drop, new
  <2>10. ASSUME NEW i \in 1 .. Len(cat)
         PROVE  /\ cat[i][1] \in Nat /\ cat[i][1] > 0
                /\ i > 1 => cat[i][1] \in {cat[i - 1][1] + 1, 1}
                /\ \A k \in DOMAIN cat[i][2] : cat[i][2][k] \notin Labelled
    <3>1. CASE i <= Len(ring)
      <4>1. i \in 1 .. Len(ring) /\ cat[i] = ring[i] /\ (i > 1 => cat[i - 1] = ring[i - 1])
        BY <1>1, <1>2, <2>6, <3>1
      <4> QED BY <1>1, <4>1
    <3>2. CASE ~(i <= Len(ring))
      <4> DEFINE j == i - Len(ring)
      <4>1. j \in 1 .. Len(got) /\ cat[i] = ms[j]
        BY <1>1, <1>2, <2>6, <3>2
      <4>2. /\ cat[i][1] = seq + j
            /\ \A k \in DOMAIN cat[i][2] : cat[i][2][k] \notin Labelled
        BY <1>2, <4>1
      <4>3. j > 1 => cat[i - 1] = ms[j - 1] /\ j - 1 \in 1 .. Len(got)
        <5>1. ASSUME j > 1 PROVE cat[i - 1] = ms[j - 1] /\ j - 1 \in 1 .. Len(got)
          <6>1. i - 1 \in 1 .. Len(ring) + Len(got) /\ ~(i - 1 <= Len(ring)) /\ (i - 1) - Len(ring) = j - 1
            BY <1>1, <1>2, <2>6, <3>2, <5>1
          <6>2. cat[i - 1] = ms[(i - 1) - Len(ring)]
            BY <2>6, <6>1
          <6>3. j - 1 \in 1 .. Len(got)
            BY <1>1, <1>2, <4>1, <5>1
          <6> QED BY <6>1, <6>2, <6>3
        <5> QED BY <5>1
      <4>4. j > 1 => cat[i - 1][1] = seq + (j - 1)
        BY <1>2, <4>3
      <4>5. j = 1 /\ i > 1 => cat[i - 1] = ring[Len(ring)] /\ ring # <<>>
        <5>1. ASSUME j = 1, i > 1 PROVE cat[i - 1] = ring[Len(ring)] /\ Len(ring) > 0
          BY <1>1, <1>2, <2>6, <5>1
        <5>2. Len(ring) > 0 => ring # <<>>
          BY EmptySeq
        <5> QED BY <5>1, <5>2
      <4> HIDE DEF j
      <4>6. CASE j > 1
        BY <1>3, <4>1, <4>2, <4>4, <4>6
      <4>7. CASE ~(j > 1)
        <5>1. j = 1
          BY <1>2, <4>1, <4>7
        <5> QED BY <1>3, <2>3, <4>2, <4>5, <5>1
      <4> QED BY <4>6, <4>7
    <3> QED BY <3>1, <3>2
  <2>11. \A i \in 1 .. Len(new) : drop + i \in 1 .. Len(cat) /\ new[i] = cat[drop + i]
    BY <2>7
  <2>12. \A i \in 1 .. Len(new) : new[i][1] > 0 /\ \A k \in DOMAIN new[i][2] : new[i][2][k] \notin Labelled
    BY <2>10, <2>11
  <2>13. ASSUME NEW i \in 1 .. Len(new), i > 1 PROVE new[i][1] \in {new[i - 1][1] + 1, 1}
    <3>1. i - 1 \in 1 .. Len(new) /\ drop + (i - 1) = (drop + i) - 1 /\ drop + i > 1
      BY <2>7, <2>13
    <3>2. cat[drop + i][1] \in {cat[(drop + i) - 1][1] + 1, 1}
      BY <2>10, <2>11, <3>1
    <3>3. new[i] = cat[drop + i] /\ new[i - 1] = cat[(drop + i) - 1]
      BY <2>11, <3>1
    <3> QED BY <3>2, <3>3
  <2>14. ASSUME new # <<>> PROVE w'.seq \in {new[Len(new)][1], 0}
    <3>1. Len(new) \in Nat /\ Len(new) > 0
      BY <2>7, <2>14, EmptySeq
    <3>2. new[Len(new)] = cat[Len(cat)] /\ Len(cat) > 0
      BY <2>7, <3>1
    <3>3. CASE Len(got) = 0
      <4>1. Len(cat) = Len(ring) /\ cat[Len(cat)] = ring[Len(ring)] /\ Len(ring) > 0
        BY <1>1, <2>6, <3>2, <3>3
      <4>2. ring # <<>>
        BY <4>1, EmptySeq
      <4>3. w'.seq = seq
        BY <1>3, <3>3 DEF seq
      <4> QED BY <2>3, <3>2, <4>1, <4>2, <4>3
    <3>4. CASE Len(got) # 0
      <4>1. cat[Len(cat)] = ms[Len(got)] /\ Len(got) \in 1 .. Len(got)
        BY <1>1, <1>2, <2>6, <3>4
      <4>2. cat[Len(cat)][1] = seq + Len(got)
        BY <1>2, <4>1
      <4> QED BY <3>2, <4>2 DEF seq
    <3> QED BY <3>3, <3>4
  <2>15. ASSUME new = <<>>, sub.last > 0 PROVE w'.seq \in {sub.last, 0}
    <3>1. Len(new) = 0
      BY <2>15, EmptySeq
    <3>2. Len(cat) = 0
      <4>1. drop = 0
        BY <2>7, <2>9, <3>1, LogConstants
      <4> QED BY <2>7, <3>1, <4>1
    <3>3. Len(ring) = 0 /\ Len(got) = 0
      BY <1>1, <1>2, <2>6, <3>2
    <3>4. ring = <<>>
      BY <1>1, <3>3, EmptySeq
    <3>5. w'.seq = seq
      BY <1>3, <3>3 DEF seq
    <3> QED BY <2>4, <2>15, <3>4, <3>5
  <2>16. ASSUME new # <<>>, sub.last > 0, ~bus'.lagged PROVE new[1][1] \in {sub.last + 1, 1}
    <3>1. drop = 0 /\ ~bus.lagged
      <4>1. ~bus.lagged /\ ~(Len(cat) > BusCap)
        BY <2>2, <2>16, Zenon
      <4> QED BY <2>7, <2>8, <4>1
    <3>2. Len(new) \in Nat /\ Len(new) > 0
      BY <2>7, <2>16, EmptySeq
    <3>3. new[1] = cat[1] /\ Len(cat) > 0
      BY <2>7, <3>1, <3>2
    <3>4. CASE Len(ring) > 0
      <4>1. cat[1] = ring[1] /\ ring # <<>>
        BY <1>1, <1>2, <2>6, <3>4, EmptySeq
      <4> QED BY <2>5, <2>16, <3>1, <3>3, <4>1
    <3>5. CASE ~(Len(ring) > 0)
      <4>1. Len(ring) = 0 /\ 1 \in 1 .. Len(got) /\ cat[1] = ms[1]
        BY <1>1, <1>2, <2>6, <3>3, <3>5
      <4>2. cat[1][1] = seq + 1
        BY <1>2, <4>1
      <4>3. ring = <<>>
        BY <1>1, <4>1, EmptySeq
      <4> QED BY <1>3, <2>4, <2>16, <3>3, <4>2, <4>3
    <3> QED BY <3>4, <3>5
  <2>17. NumberInv'
    BY <1>5, <2>7, <2>12, <2>13, <2>14, <2>15, <2>16 DEF NumberInv, new
  <2>18. Len(new) >= Len(ring)
    BY <1>1, <1>2, <2>6, <2>7, <2>8, <2>9, LogConstants
  <2>19. bus' \in [ring : Seq(Nat \X Seq(Units)), lagged : BOOLEAN]
    <3>1. LastOf(cat) \in Seq(Nat \X Seq(Units))
      BY <2>2, <2>7 DEF Message, Text
    <3> QED BY <1>0, <2>1, <3>1
  <2> QED BY <2>7, <2>12, <2>17, <2>18, <2>19 DEF new, ring
<1> QED BY <1>4, <1>5

LEMMA ReadPreserves ==
  ASSUME LogsIInv, Read
  PROVE  LogsIInv' /\ w'.pos >= w.pos /\ w'.pc = "poll" /\ Len(bus'.ring) >= Len(bus.ring)
<1>0. LogsTypeOK /\ FollowsFile /\ NothingLeaks /\ PlaceInv /\ NumberInv
  BY DEF LogsIInv, LogsInv
<1> DEFINE d == data[w.ino]
           end == SmallerOf(w.len, w.pos + Batch)
           t == SubSeq(d, w.pos + 1, end)
           all == w.pending \o t
           got == Complete(Kept(all))
<1>1. /\ w.pc = "read" /\ w.pos < w.len /\ end <= Len(d)
      /\ w' = [w EXCEPT !.pc = "poll", !.len = 0, !.pos = end,
                        !.prev = Byte(d[end]), !.pending = Rest(Kept(all)),
                        !.seq = @ + Len(got)]
      /\ epoch' = [epoch EXCEPT !.out = @ \o got, !.cut = @ \/ Kept(all) # all]
      /\ Publish(Numbered(got))
      /\ path' = path /\ data' = data /\ pumps' = pumps /\ lines' = lines /\ sub' = sub
  BY DEF Read
<1>2. /\ w \in Watchers /\ w.pos \in Nat /\ w.len \in Nat /\ w.seq \in Nat /\ w.pending \in Text
      /\ Following /\ w.ino \in Files /\ d \in Text /\ Nls(w.pending) = {} /\ w.ticks < RescueTicks
  BY <1>0, <1>1, LogTypes DEF PlaceInv, Following, LogsTypeOK
<1>3. end \in Nat /\ w.pos < end /\ end <= w.len /\ end <= w.pos + Batch
  BY <1>1, <1>2, LogConstants DEF SmallerOf
<1> HIDE DEF d, end
<1>4. t \in Text /\ Len(t) <= Batch
  <2>1. Len(d) \in Nat
    BY <1>2, TextIs
  <2>2. t \in Text /\ Len(t) = end + 1 - (w.pos + 1)
    <3> DEFINE a == w.pos + 1
    <3>1. a \in Nat /\ 1 <= a /\ a <= end + 1 /\ end <= Len(d)
      BY <1>1, <1>2, <1>3
    <3> HIDE DEF a
    <3>2. SubSeq(d, a, end) \in Text /\ Len(SubSeq(d, a, end)) = end + 1 - a
      BY <1>2, <1>3, <3>1, PieceIs
    <3> QED BY <3>2 DEF a
  <2> QED BY <1>2, <1>3, <2>2, LogConstants
<1> HIDE DEF t
<1>5. /\ all \in Text /\ Kept(all) \in Text
      /\ Rest(Kept(all)) \in Text /\ Nls(Rest(Kept(all))) = {}
      /\ Len(Rest(Kept(all))) <= PendingMax
  BY <1>2, <1>4, KeptIs
<1> HIDE DEF all
<1>6. got \in Seq(Text) /\ Len(got) \in Nat
  <2>1. got \in Seq(Text)
    BY <1>5, CompleteIs
  <2> QED BY <2>1, LenProperties
<1> HIDE DEF got
<1>7. /\ w'.pc = "poll" /\ w'.pos = end /\ w'.prev = Byte(d[end]) /\ w'.pending = Rest(Kept(all))
      /\ w'.seq = w.seq + Len(got) /\ w'.ino = w.ino /\ w'.ticks = w.ticks
  BY <1>1, <1>2 DEF Watchers
<1>8. w' \in Watchers
  <2>1. /\ end \in Nat /\ Byte(d[end]) \in {NoByte, 0, 1} /\ Rest(Kept(all)) \in Seq(Units)
        /\ w.seq + Len(got) \in Nat
    BY <1>2, <1>3, <1>5, <1>6, ByteIs DEF Text
  <2> QED BY <1>1, <1>2, <2>1 DEF Watchers
<1>9. /\ bus' \in [ring : Seq(Nat \X Seq(Units)), lagged : BOOLEAN] /\ Len(bus'.ring) <= BusCap
      /\ \A m \in DOMAIN bus'.ring : \A i \in DOMAIN bus'.ring[m][2] : bus'.ring[m][2][i] \notin Labelled
      /\ NumberInv'
      /\ Len(bus'.ring) >= Len(bus.ring)
  BY <1>1, <1>6, <1>7, PublishPreserves
<1>10. epoch \in [from : Nat, out : Seq(Seq(Units)), dirty : BOOLEAN, cut : BOOLEAN]
  BY <1>0 DEF LogsTypeOK
<1>11. epoch.out \o got \in Seq(Seq(Units)) /\ epoch.out \in Seq(Text)
  <2>1. epoch.out \in Seq(Text)
    BY <1>10 DEF Text
  <2>2. epoch.out \o got \in Seq(Text)
    BY <1>6, <2>1, ConcatProperties
  <2> QED BY <2>1, <2>2 DEF Text
<1>12. /\ epoch' \in [from : Nat, out : Seq(Seq(Units)), dirty : BOOLEAN, cut : BOOLEAN]
       /\ epoch'.from = epoch.from /\ epoch'.out = epoch.out \o got
       /\ epoch'.dirty = epoch.dirty /\ (~epoch'.cut => ~epoch.cut /\ Kept(all) = all)
  <2>1. epoch' \in [from : Nat, out : Seq(Seq(Units)), dirty : BOOLEAN, cut : BOOLEAN]
    BY <1>1, <1>10, <1>11, Zenon
  <2>2. epoch'.from = epoch.from /\ epoch'.out = epoch.out \o got
    BY <1>1, <1>10
  <2>3. epoch'.dirty = epoch.dirty /\ epoch'.cut = (epoch.cut \/ Kept(all) # all)
    BY <1>1, <1>10
  <2> QED BY <2>1, <2>2, <2>3, Zenon
<1>13. LogsTypeOK'
  BY <1>0, <1>1, <1>2, <1>5, <1>7, <1>8, <1>9, <1>12 DEF LogsTypeOK
<1>14. NothingLeaks'
  BY <1>0, <1>1, <1>9 DEF NothingLeaks
<1>15. data'[w'.ino] = d
  BY <1>1, <1>7 DEF d
<1>16. ~epoch.dirty => epoch.from <= w.pos
  BY <1>0, <1>2 DEF PlaceInv
<1>17. PlaceInv'
  BY <1>1, <1>2, <1>3, <1>7, <1>10, <1>12, <1>15, <1>16 DEF PlaceInv
<1>18. FollowsFile'
  <2> SUFFICES ASSUME ~epoch'.dirty, ~epoch'.cut
               PROVE  LET seen == SubSeq(data'[w'.ino], epoch'.from + 1, w'.pos)
                      IN  epoch'.out = Complete(seen) /\ w'.pending = Rest(seen)
    BY DEF FollowsFile
  <2> DEFINE s == SubSeq(d, epoch.from + 1, w.pos)
  <2>1. ~epoch.dirty /\ ~epoch.cut /\ Kept(all) = all
    BY <1>12
  <2>2. epoch.out = Complete(s) /\ w.pending = Rest(s)
    BY <1>0, <1>2, <2>1 DEF FollowsFile, d
  <2>3. Len(d) \in Nat /\ epoch.from \in Nat /\ epoch.from <= w.pos
    BY <1>2, <1>10, <1>16, <2>1, TextIs
  <2>4. s \in Text
    <3> DEFINE a == epoch.from + 1
    <3>1. a \in Nat /\ 1 <= a /\ a <= w.pos + 1 /\ w.pos <= Len(d)
      BY <1>1, <1>2, <1>3, <2>3
    <3> HIDE DEF a
    <3>2. SubSeq(d, a, w.pos) \in Text
      BY <1>2, <3>1, PieceIs
    <3> QED BY <3>2 DEF a
  <2>5. s \o t = SubSeq(d, epoch.from + 1, end)
    <3>1. /\ epoch.from + 1 \in 1 .. Len(d) + 1 /\ w.pos \in (epoch.from + 1) - 1 .. Len(d)
          /\ end \in w.pos .. Len(d)
      BY <1>1, <1>2, <1>3, <2>3
    <3> QED BY <1>2, <3>1, ConcatAdjacentSubSeq DEF t, Text
  <2> HIDE DEF s
  <2>6. /\ Complete(s \o t) = Complete(s) \o Complete(Rest(s) \o t)
        /\ Rest(s \o t) = Rest(Rest(s) \o t)
    BY <1>4, <2>4, ReadOn
  <2>7. all = Rest(s) \o t
    BY <2>2 DEF all
  <2>8. got = Complete(all)
    BY <2>1 DEF got
  <2> QED BY <1>7, <1>12, <1>15, <2>1, <2>2, <2>5, <2>6, <2>7, <2>8, Zenon
<1> QED BY <1>2, <1>3, <1>7, <1>9, <1>13, <1>14, <1>17, <1>18 DEF LogsIInv, LogsInv

LEMMA WatchPreserves ==
  ASSUME LogsIInv, Watch
  PROVE  LogsIInv'
BY DiscoverPreserves, OpenPreserves, PollPreserves, CheckPreserves, RewindPreserves,
   NothingNewPreserves, ReadPreserves, ReadFailsPreserves DEF Watch

LEMMA LogsStutter ==
  ASSUME LogsIInv, UNCHANGED logVars
  PROVE  LogsIInv'
<1>1. /\ path' = path /\ data' = data /\ pumps' = pumps /\ lines' = lines
      /\ w' = w /\ epoch' = epoch /\ bus' = bus /\ sub' = sub
  BY DEF logVars
<1> QED BY <1>1 DEF LogsIInv, LogsInv, LogsTypeOK, FollowsFile, NothingLeaks, PlaceInv, NumberInv, Following

\* log_tail.rs, logs.rs, process.rs: what the watcher has published and what it holds stay
\* the lines of its file, through truncations, removals and restarts, for files, lines and
\* batches of any size and any number of starts.
THEOREM LogsInvariance == LogsSpec => []LogsIInv
<1>1. LogsInit => LogsIInv
  BY InitLogs
<1>2. LogsIInv /\ [LogsNext]_logVars => LogsIInv'
  <2> SUFFICES ASSUME LogsIInv, [LogsNext]_logVars PROVE LogsIInv'
    OBVIOUS
  <2>1. CASE \E g \in Starts : PumpText(g) \/ PumpNl(g)
    BY <2>1, PumpTextPreserves, PumpNlPreserves
  <2>2. CASE UNCHANGED logVars
    BY <2>2, LogsStutter
  <2> QED BY <2>1, <2>2, SpawnPreserves, RemoveFilePreserves, WatchPreserves,
             SubscribePreserves, ReceivePreserves DEF LogsNext
<1> QED BY <1>1, <1>2, PTL DEF LogsSpec

\* log_tail.rs: no line of a file that only grows is lost or published twice, and no text that
\* the redactor knows reaches the file or a client.
THEOREM LogIsFollowed == LogsSpec => []LogsInv
<1>1. LogsIInv => LogsInv
  BY DEF LogsIInv
<1> QED BY <1>1, LogsInvariance, PTL

LEMMA RestartStep ==
  ASSUME LogsIInv, [LogsNext]_logVars, Following, w'.pc = "closed" \/ w'.pos < w.pos
  PROVE  \/ epoch.dirty \/ path # w.ino
         \/ w.pc = "check" /\ Len(data[w.ino]) # w.len
<1>0. /\ w \in Watchers /\ w.pos \in Nat /\ w.len \in Nat /\ w.ino \in Files
      /\ data[w.ino] \in Text
  BY LogTypes DEF LogsIInv, LogsInv, LogsTypeOK, PlaceInv
<1>1. Len(data[w.ino]) \in Nat
  BY <1>0, TextIs
<1>2. ~epoch.dirty =>
         /\ w.pos <= Len(data[w.ino])
         /\ w.pc \in {"check", "read"} => w.pos <= w.len /\ w.len <= Len(data[w.ino])
         /\ w.prev # NoByte /\ w.pos > 0 => w.prev = Byte(data[w.ino][w.pos])
  BY DEF LogsIInv, PlaceInv
<1>3. CASE w' = w
  BY <1>0, <1>3 DEF Following
<1>4. CASE Discover \/ Open
  BY <1>4 DEF Discover, Open, Following
<1>5. CASE Poll
  BY <1>0, <1>5 DEF Poll, Watchers
<1>6. CASE Check
  <2>1. w.pc = "check" /\ (path = w.ino /\ Len(data[path]) = w.len => w' = [w EXCEPT !.pc = "read"])
    BY <1>6 DEF Check
  <2> QED BY <1>0, <2>1 DEF Watchers
<1>7. CASE Rewind
  BY <1>0, <1>1, <1>2, <1>7 DEF Rewind, Truncated, Rewritten
<1>8. CASE NothingNew
  BY <1>0, <1>8 DEF NothingNew, Watchers
<1>9. CASE Read
  <2>1. w'.pc = "poll" /\ w'.pos >= w.pos
    BY <1>9, ReadPreserves
  <2>2. w'.pos \in Nat
    <3>1. LogsTypeOK'
      BY <1>9, ReadPreserves DEF LogsIInv, LogsInv
    <3> QED BY <3>1 DEF LogsTypeOK, Watchers
  <2> QED BY <1>0, <2>1, <2>2
<1>10. CASE ReadFails
  BY <1>0, <1>1, <1>2, <1>10, LogConstants DEF ReadFails, SmallerOf
<1>11. CASE Spawn \/ RemoveFile \/ (\E g \in Starts : PumpText(g) \/ PumpNl(g)) \/ Subscribe \/ Receive \/ UNCHANGED logVars
  <2>1. w' = w
    BY <1>11 DEF Spawn, RemoveFile, PumpText, PumpNl, Subscribe, Receive, logVars
  <2> QED BY <1>3, <2>1
<1> QED BY <1>4, <1>5, <1>6, <1>7, <1>8, <1>9, <1>10, <1>11 DEF LogsNext, Watch

LEMMA NumberStep ==
  ASSUME LogsIInv, [LogsNext]_logVars, Len(bus'.ring) < Len(bus.ring), sub.last > 0
  PROVE  sub'.last \in {sub.last + 1, 1} \/ bus.lagged
<1>1. bus.ring \in Seq(Message) /\ Len(bus.ring) \in Nat
  BY NumbersAre
<1>2. CASE Receive
  <2>1. bus.ring # <<>> /\ sub' = [sub EXCEPT !.last = Head(bus.ring)[1]]
    BY <1>2 DEF Receive
  <2>2. ~bus.lagged => bus.ring[1][1] \in {sub.last + 1, 1}
    BY <2>1 DEF LogsIInv, NumberInv
  <2>3. Head(bus.ring) = bus.ring[1]
    BY <1>1, <2>1
  <2>4. sub'.last = bus.ring[1][1]
    BY <2>1, <2>3 DEF LogsIInv, LogsInv, LogsTypeOK
  <2> QED BY <2>2, <2>4
<1>3. CASE Read
  <2>1. Len(bus'.ring) >= Len(bus.ring) /\ LogsTypeOK'
    BY <1>3, ReadPreserves DEF LogsIInv, LogsInv
  <2>2. Len(bus'.ring) \in Nat
    BY <2>1, LenProperties DEF LogsTypeOK
  <2> QED BY <1>1, <2>1, <2>2
<1>4. CASE ~Receive /\ ~Read
  <2>1. bus' = bus
    BY <1>4 DEF LogsNext, Watch, Spawn, RemoveFile, PumpText, PumpNl, Subscribe, Discover,
                Open, Poll, Check, Rewind, NothingNew, ReadFails, logVars
  <2> QED BY <1>1, <2>1
<1> QED BY <1>2, <1>3, <1>4

\* A line that is sent takes its number with it; those before it keep theirs.
LEMMA PublishKeepsPlaces ==
  ASSUME LogsIInv, NumberIsPlace, NEW got \in Seq(Text), Publish(Numbered(got)),
         w'.seq = w.seq + Len(got), epoch'.out = epoch.out \o got
  PROVE  NumberIsPlace'
<1> DEFINE ring == bus.ring
           ms == Numbered(got)
           cat == ring \o ms
           drop == IF Len(cat) > BusCap THEN Len(cat) - BusCap ELSE 0
           new == bus'.ring
           seq == w.seq
           out == epoch.out
           all == out \o got
<1>1. /\ ring \in Seq(Message) /\ Len(ring) \in Nat /\ DOMAIN ring = 1 .. Len(ring)
      /\ Len(got) \in Nat /\ seq \in Nat
      /\ ms \in Seq(Message) /\ Len(ms) = Len(got)
  <2>1. w.seq \in Nat
    BY LogTypes DEF LogsIInv, LogsInv
  <2> QED BY <2>1, NumbersAre, NumberedIs
<1>2. /\ seq = Len(out)
      /\ \A i \in 1 .. Len(ring) :
           seq - (Len(ring) - i) > 0 =>
             ring[i] = <<seq - (Len(ring) - i), ScrubLine(out[seq - (Len(ring) - i)])>>
  BY <1>1 DEF NumberIsPlace
<1>3. /\ Len(all) = seq + Len(got)
      /\ \A n \in 1 .. seq : all[n] = out[n]
      /\ \A k \in 1 .. Len(got) : all[seq + k] = got[k]
  <2>1. out \in Seq(Text)
    BY DEF LogsIInv, LogsInv, LogsTypeOK, Text
  <2>2. /\ Len(out \o got) = Len(out) + Len(got)
        /\ \A n \in 1 .. Len(out) + Len(got) :
             (out \o got)[n] = IF n <= Len(out) THEN out[n] ELSE got[n - Len(out)]
    BY <2>1, ConcatProperties
  <2>3. \A n \in 1 .. seq : n \in 1 .. Len(out) + Len(got) /\ n <= Len(out)
    BY <1>1, <1>2
  <2>4. \A k \in 1 .. Len(got) :
          /\ seq + k \in 1 .. Len(out) + Len(got) /\ ~(seq + k <= Len(out))
          /\ (seq + k) - Len(out) = k
    BY <1>1, <1>2
  <2> HIDE DEF out
  <2> QED BY <1>2, <2>2, <2>3, <2>4
<1>4. \A k \in 1 .. Len(got) : ms[k] = <<seq + k, ScrubLine(got[k])>>
  BY DEF Numbered
<1>5. w'.seq = seq + Len(got) /\ epoch'.out = all
  OBVIOUS
<1> HIDE DEF ring, ms, seq, out, all
<1>6. CASE ~sub.on
  <2>1. ring = <<>> /\ new = ring
    BY <1>6 DEF Publish, LogsIInv, NumberInv, ring
  <2>2. DOMAIN new = {}
    BY <2>1
  <2> QED BY <1>3, <1>5, <2>2 DEF NumberIsPlace
<1>7. CASE sub.on
  <2>1. /\ cat \in Seq(Message) /\ Len(cat) = Len(ring) + Len(got)
        /\ \A i \in 1 .. Len(ring) + Len(got) : cat[i] = IF i <= Len(ring) THEN ring[i] ELSE ms[i - Len(ring)]
    <3>1. /\ ring \o ms \in Seq(Message) /\ Len(ring \o ms) = Len(ring) + Len(ms)
          /\ \A i \in 1 .. Len(ring) + Len(ms) :
               (ring \o ms)[i] = IF i <= Len(ring) THEN ring[i] ELSE ms[i - Len(ring)]
      <4>1. ring \in Seq(Message) /\ ms \in Seq(Message)
        BY <1>1
      <4> QED BY <4>1, ConcatProperties
    <3>2. Len(ms) = Len(got) /\ cat = ring \o ms
      BY <1>1
    <3> HIDE DEF cat
    <3> QED BY <3>1, <3>2
  <2>2. new = LastOf(cat)
    BY <1>7 DEF Publish, ring, ms
  <2> HIDE DEF cat
  <2>3. /\ drop \in Nat /\ drop <= Len(cat) /\ Len(cat) \in Nat
        /\ LastOf(cat) \in Seq(Message) /\ Len(LastOf(cat)) = Len(cat) - drop
        /\ DOMAIN LastOf(cat) = 1 .. Len(cat) - drop
        /\ \A i \in 1 .. Len(cat) - drop : LastOf(cat)[i] = cat[drop + i]
    <3>1. drop = IF Len(cat) > BusCap THEN Len(cat) - BusCap ELSE 0
      OBVIOUS
    <3>2. cat \in Seq(Message)
      BY <2>1
    <3> HIDE DEF drop
    <3> QED BY <3>1, <3>2, LastOfIs
  <2> HIDE DEF drop
  <2>4. ASSUME NEW i \in 1 .. Len(cat), NEW n, n = (seq + Len(got)) - (Len(cat) - i), n > 0
        PROVE  cat[i] = <<n, ScrubLine(all[n])>>
    <3>1. CASE i <= Len(ring)
      <4>1. /\ i \in 1 .. Len(ring) /\ cat[i] = ring[i] /\ n = seq - (Len(ring) - i)
            /\ n \in 1 .. seq
        BY <1>1, <2>1, <2>4, <3>1
      <4> QED BY <1>2, <1>3, <2>4, <4>1
    <3>2. CASE ~(i <= Len(ring))
      <4>1. i - Len(ring) \in 1 .. Len(got) /\ n = seq + (i - Len(ring)) /\ cat[i] = ms[i - Len(ring)]
        BY <1>1, <2>1, <2>4, <3>2
      <4> QED BY <1>3, <1>4, <4>1
    <3> QED BY <3>1, <3>2
  <2>5. ASSUME NEW i \in DOMAIN new, NEW n, n = w'.seq - (Len(new) - i), n > 0
        PROVE  new[i] = <<n, ScrubLine(all[n])>>
    <3>1. drop + i \in 1 .. Len(cat) /\ n = (seq + Len(got)) - (Len(cat) - (drop + i))
      BY <1>1, <1>5, <2>1, <2>2, <2>3, <2>5
    <3>2. cat[drop + i] = <<n, ScrubLine(all[n])>>
      BY <2>4, <2>5, <3>1
    <3> QED BY <2>2, <2>3, <2>5, <3>2
  <2> HIDE DEF new
  <2> QED BY <1>3, <1>5, <2>5 DEF NumberIsPlace, new
<1> QED BY <1>6, <1>7

LEMMA StepKeepsPlaces ==
  ASSUME LogsIInv, NumberIsPlace, [LogsNext]_logVars
  PROVE  NumberIsPlace'
<1>1. /\ bus.ring \in Seq(Message) /\ Len(bus.ring) \in Nat /\ DOMAIN bus.ring = 1 .. Len(bus.ring)
  BY NumbersAre
<1>2. /\ w \in Watchers
      /\ epoch \in [from : Nat, out : Seq(Seq(Units)), dirty : BOOLEAN, cut : BOOLEAN]
  BY DEF LogsIInv, LogsInv, LogsTypeOK
<1>3. ASSUME w'.seq = w.seq, epoch'.out = epoch.out, bus'.ring = bus.ring
      PROVE  NumberIsPlace'
  BY <1>3 DEF NumberIsPlace
<1>4. ASSUME w'.seq = 0, epoch'.out = <<>>, bus'.ring = bus.ring
      PROVE  NumberIsPlace'
  <2>1. \A i \in 1 .. Len(bus.ring) : ~(0 - (Len(bus.ring) - i) > 0)
    BY <1>1
  <2>2. Len(<<>>) = 0
    OBVIOUS
  <2> QED BY <1>1, <1>4, <2>1, <2>2 DEF NumberIsPlace
<1>5. CASE Spawn \/ RemoveFile \/ (\E g \in Starts : PumpText(g) \/ PumpNl(g)) \/ Discover \/ Poll
           \/ NothingNew \/ Subscribe \/ UNCHANGED logVars
  <2>1. w'.seq = w.seq /\ epoch'.out = epoch.out /\ bus'.ring = bus.ring
    BY <1>2, <1>5 DEF Spawn, RemoveFile, PumpText, PumpNl, Discover, Poll, NothingNew, Subscribe,
       logVars, Watchers
  <2> QED BY <1>3, <2>1
<1>6. CASE Open \/ Check \/ Rewind \/ ReadFails
  <2>1. /\ bus'.ring = bus.ring
        /\ \/ w'.seq = w.seq /\ epoch'.out = epoch.out
           \/ w'.seq = 0 /\ epoch'.out = <<>>
    <3>1. CASE Open
      <4>1. CASE path = 0
        BY <3>1, <4>1 DEF Open
      <4>2. CASE path # 0
        <5>1. PICK pos : /\ w' = [ClosedWatcher EXCEPT !.pc = "poll", !.ino = path, !.pos = pos]
                         /\ epoch' = NewEpoch(pos) /\ bus' = bus
          BY <3>1, <4>2 DEF Open
        <5>2. w'.seq = 0
          BY <5>1 DEF ClosedWatcher
        <5> QED BY <5>1, <5>2 DEF NewEpoch
      <4> QED BY <4>1, <4>2
    <3>2. CASE Check
      BY <1>2, <3>2 DEF Check, ClosedWatcher, NewEpoch, Watchers
    <3>3. CASE Rewind
      BY <1>2, <3>3 DEF Rewind, NewEpoch, Watchers
    <3>4. CASE ReadFails
      BY <3>4 DEF ReadFails, ClosedWatcher, NewEpoch
    <3> QED BY <1>6, <3>1, <3>2, <3>3, <3>4
  <2> QED BY <1>3, <1>4, <2>1
<1>7. CASE Receive
  <2> DEFINE left == Tail(bus.ring)
  <2>1. bus.ring # <<>> /\ bus'.ring = left /\ w' = w /\ epoch' = epoch
    BY <1>7 DEF Receive
  <2>2. /\ left \in Seq(Message) /\ Len(left) = Len(bus.ring) - 1
        /\ \A i \in 1 .. Len(left) : left[i] = bus.ring[i + 1]
    BY <1>1, <2>1, HeadTailProperties
  <2>3. DOMAIN left = 1 .. Len(left)
    BY <2>2, LenProperties
  <2> HIDE DEF left
  <2>4. w.seq \in Nat
    BY <1>2 DEF Watchers
  <2>5. ASSUME NEW i \in DOMAIN left
        PROVE  /\ i + 1 \in 1 .. Len(bus.ring) /\ left[i] = bus.ring[i + 1]
               /\ w.seq - (Len(left) - i) = w.seq - (Len(bus.ring) - (i + 1))
    BY <1>1, <2>2, <2>3, <2>4
  <2> QED BY <1>1, <2>1, <2>5 DEF NumberIsPlace
<1>8. CASE Read
  <2> DEFINE t == SubSeq(data[w.ino], w.pos + 1, SmallerOf(w.len, w.pos + Batch))
             got == Complete(Kept(w.pending \o t))
  <2>1. /\ Publish(Numbered(got)) /\ w'.seq = w.seq + Len(got) /\ epoch'.out = epoch.out \o got
    BY <1>2, <1>8 DEF Read, Watchers
  <2>2. got \in Seq(Text)
    <3>1. /\ w.ino \in Files /\ data[w.ino] \in Text /\ w.pending \in Text /\ Nls(w.pending) = {}
          /\ w.pos \in Nat /\ w.len \in Nat /\ w.pos < w.len
          /\ SmallerOf(w.len, w.pos + Batch) <= Len(data[w.ino])
      BY <1>8, LogTypes DEF Read, LogsIInv, LogsInv, LogsTypeOK, PlaceInv, Following
    <3> DEFINE a == w.pos + 1
               e == SmallerOf(w.len, w.pos + Batch)
    <3>2. /\ a \in Nat /\ e \in Nat /\ 1 <= a /\ a <= e + 1 /\ e + 1 - a <= Batch
      BY <3>1, LogConstants DEF SmallerOf
    <3>3. e <= Len(data[w.ino])
      BY <3>1
    <3> HIDE DEF a, e
    <3>4. SubSeq(data[w.ino], a, e) \in Text /\ Len(SubSeq(data[w.ino], a, e)) = e + 1 - a
      BY <3>1, <3>2, <3>3, PieceIs
    <3>5. t \in Text /\ Len(t) <= Batch
      BY <3>2, <3>4 DEF a, e
    <3> HIDE DEF t
    <3>6. Kept(w.pending \o t) \in Text
      BY <3>1, <3>5, KeptIs
    <3> QED BY <3>6, CompleteIs
  <2> HIDE DEF got
  <2> QED BY <2>1, <2>2, PublishKeepsPlaces
<1> QED BY <1>5, <1>6, <1>7, <1>8 DEF LogsNext, Watch

\* log_tail.rs, logs.rs: the watcher begins again only for a reason, and on the way from it
\* to a client that has not lagged the numbers go on by one or begin again, each the place
\* of its line among those the watcher has published.
THEOREM GapsAreShown == LogsSpec => GapsShow
<1>1. LogsIInv /\ [LogsNext]_logVars =>
        [(Following /\ (w'.pc = "closed" \/ w'.pos < w.pos)) =>
           \/ epoch.dirty \/ path # w.ino
           \/ w.pc = "check" /\ Len(data[w.ino]) # w.len]_logVars
  BY RestartStep
<1>2. LogsIInv /\ [LogsNext]_logVars =>
        [(Len(bus'.ring) < Len(bus.ring) /\ sub.last > 0) =>
           sub'.last \in {sub.last + 1, 1} \/ bus.lagged]_logVars
  BY NumberStep
<1>3. LogsInit => NumberIsPlace
  BY DEF LogsInit, NumberIsPlace, ClosedWatcher, NewEpoch
<1>4. LogsIInv /\ NumberIsPlace /\ [LogsNext]_logVars => NumberIsPlace'
  BY StepKeepsPlaces
<1> QED BY <1>1, <1>2, <1>3, <1>4, LogsInvariance, PTL
      DEF LogsSpec, GapsShow, RestartsForAReason, SeqTells

USE SecondAssumption, BoundsAssumption

-----------------------------------------------------------------------------
(***************************************************************************)
(* The operators.                                                          *)
(***************************************************************************)

\* The greatest of a number and an option of one.
LEMMA MaxOfOption ==
  ASSUME NEW n \in Nat, NEW S \in SUBSET Nat, \A x, y \in S : x = y
  PROVE  Max({n} \cup S) \in {n} \cup S /\ \A y \in {n} \cup S : Max({n} \cup S) >= y
<1>1. \E x \in {n} \cup S : \A y \in {n} \cup S : x >= y
  <2>1. CASE S = {}
    BY <2>1
  <2>2. CASE S # {}
    <3>1. PICK k \in S : S = {k}
      BY <2>2
    <3> QED BY <3>1
  <2> QED BY <2>1, <2>2
<1> QED BY <1>1 DEF Max

LEMMA MinOfTwo ==
  ASSUME NEW a \in Nat, NEW b \in Nat
  PROVE  Min({a, b}) \in Nat /\ Min({a, b}) <= a /\ Min({a, b}) <= b
<1>1. \E x \in {a, b} : \A y \in {a, b} : x =< y
  OBVIOUS
<1> QED BY <1>1 DEF Min

\* A configuration that has been through its row keeps its limits, as options of
\* positive numbers: a 0 in the row is no limit again.
LEMMA SavedLimits ==
  ASSUME NEW c \in Saved
  PROVE  /\ c.maxConn \subseteq Nat \ {0} /\ \A x, y \in c.maxConn : x = y
         /\ c.maxRps \subseteq Nat \ {0} /\ \A x, y \in c.maxRps : x = y
<1>1. PICK d \in Configs : c = FromRow(ToRow(d))
  BY DEF Saved
<1>2. /\ d = [allow |-> d.allow, auth |-> d.auth, maxConn |-> d.maxConn, maxRps |-> d.maxRps]
      /\ d.maxConn \subseteq Nat /\ \A x, y \in d.maxConn : x = y
      /\ d.maxRps \subseteq Nat /\ \A x, y \in d.maxRps : x = y
  BY ConfigsAssumption
<1>3. Max({0} \cup d.maxConn) \in Nat /\ Max({0} \cup d.maxRps) \in Nat
  BY <1>2, MaxOfOption
<1>4. /\ {"maxConn", "maxRps"} \subseteq DOMAIN ToRow(d)
      /\ ToRow(d).maxConn = Max({0} \cup d.maxConn)
      /\ ToRow(d).maxRps = Max({0} \cup d.maxRps)
  <2>1. DOMAIN d = {"allow", "auth", "maxConn", "maxRps"}
    BY <1>2
  <2> QED BY <2>1 DEF ToRow
<1>5. /\ c.maxConn = {Max({0} \cup d.maxConn)} \ {0}
      /\ c.maxRps = {Max({0} \cup d.maxRps)} \ {0}
  BY <1>1, <1>4 DEF FromRow
<1> QED BY <1>3, <1>5

\* SessionLimits::new: at least one token a second, and permits where there is a limit.
LEMMA LimitValues ==
  ASSUME NEW c \in Saved
  PROVE  Permits(c) \in Nat /\ Rate(c) \in Nat \ {0}
<1>1. /\ Max({1} \cup c.maxConn) \in Nat /\ Max({1} \cup c.maxConn) >= 1
      /\ Max({1} \cup c.maxRps) \in Nat /\ Max({1} \cup c.maxRps) >= 1
  <2>1. /\ c.maxConn \in SUBSET Nat /\ \A x, y \in c.maxConn : x = y
        /\ c.maxRps \in SUBSET Nat /\ \A x, y \in c.maxRps : x = y
    BY SavedLimits
  <2> QED BY <2>1, MaxOfOption
<1> QED BY <1>1 DEF Permits, Rate

LEMMA PickIsAmong ==
  ASSUME NEW S \in SUBSET Nat, IsFiniteSet(S), S # {}, NEW n \in Nat
  PROVE  PickAmong(S, n) \in S
<1>1. Cardinality(S) \in Nat /\ Cardinality(S) # 0
  BY FS_CardinalityType, FS_EmptySet
<1>2. n % Cardinality(S) \in Nat /\ n % Cardinality(S) < Cardinality(S)
  BY <1>1
<1>3. \E id \in S : Cardinality({x \in S : x < id}) = n % Cardinality(S)
  BY <1>2, IndexExists
<1> QED BY <1>3 DEF PickAmong

-----------------------------------------------------------------------------
(***************************************************************************)
(* The shapes of a step of a session.                                      *)
(***************************************************************************)

\* A step of a session that leaves the limits alone: it keeps its permit if it has one,
\* and its generation with it.
LEMMA MovePreserves ==
  ASSUME IInv, NEW s \in Conns, NEW x \in SessionOf, conn' = [conn EXCEPT ![s] = x],
         UNCHANGED <<limits, gens, now, rr, healthy>>,
         x.gen \in 0..Cur, x.pc # "closed" => x.gen \in 1..Cur /\ x.who # None,
         x.at \in 0..now,
         x.holds = conn[s].holds,
         x.holds => /\ x.gen = conn[s].gen
                    /\ x.pc \in {"request", "pick", "dial", "relay"}
  PROVE  IInv'
<1> USE DEF limits
<1>1. conn \in [Conns -> SessionOf]
  BY DEF IInv, SessionInv
<1>2. conn' \in [Conns -> SessionOf] /\ \A t \in Conns : conn'[t] = IF t = s THEN x ELSE conn[t]
  BY <1>1
<1>3. TypeOK'
  BY <1>2 DEF IInv, Inv, TypeOK, Cur, SessionOf
<1>4. PermitsConserved'
  <2>1. \A g : Holders(g)' = Holders(g)
    BY <1>2 DEF Holders
  <2> QED BY <2>1 DEF IInv, Inv, PermitsConserved, Cur
<1>5. RateBounded' /\ GensInv' /\ BucketInv'
  BY DEF IInv, RateBounded, GensInv, BucketInv, Cur
<1>6. SessionInv'
  BY <1>2 DEF IInv, SessionInv, Cfg, Cur
<1> QED BY <1>3, <1>4, <1>5, <1>6 DEF IInv, Inv

\* What a connection is before an accept and after a close.
LEMMA FreshSession ==
  /\ Closed \in SessionOf /\ Closed.pc = "closed"
  /\ Closed.gen = 0 /\ Closed.holds = FALSE /\ Closed.at = 0
<1>1. /\ None \in Options(Clients) /\ None \in Options(Instances)
      /\ 0 \in 0..MaxChunks /\ FALSE \in BOOLEAN /\ 0 \in Nat
  BY DEF Options
<1> QED BY <1>1 DEF Closed, SessionOf

\* Every way a session ends gives the permit back that it holds.
LEMMA ClosePreserves ==
  ASSUME IInv, NEW s \in Conns, Close(s), UNCHANGED <<gens, now, rr, healthy>>
  PROVE  IInv'
<1>1. conn \in [Conns -> SessionOf] /\ permits \in Seq(Nat) /\ Len(permits) = Cur /\ Cur \in Nat
  BY DEF IInv, Inv, TypeOK, SessionInv, Gen
<1>2. /\ Closed \in SessionOf /\ Closed.gen = 0 /\ Closed.pc = "closed"
      /\ Closed.holds = FALSE /\ 0 \in 0..Cur /\ Closed.at \in 0..now
  <2>1. 0 \in 0..now
    BY DEF IInv, Inv, TypeOK
  <2> QED BY <1>1, <2>1, FreshSession
<1>3. /\ conn' \in [Conns -> SessionOf]
      /\ \A t \in Conns : conn'[t] = IF t = s THEN Closed ELSE conn[t]
  BY <1>1, <1>2 DEF Close
<1>4. CASE ~conn[s].holds
  <2>1. conn' = [conn EXCEPT ![s] = Closed] /\ UNCHANGED <<limits, gens, now, rr, healthy>>
    BY <1>4 DEF Close, limits
  <2>2. conn[s].holds = FALSE
    BY <1>1, <1>4 DEF SessionOf
  <2>3. /\ Closed.gen \in 0..Cur
        /\ Closed.pc # "closed" => Closed.gen \in 1..Cur /\ Closed.who # None
        /\ Closed.at \in 0..now
        /\ Closed.holds = conn[s].holds
        /\ Closed.holds => /\ Closed.gen = conn[s].gen
                           /\ Closed.pc \in {"request", "pick", "dial", "relay"}
    BY <1>2, <2>2
  <2> QED BY <1>2, <2>1, <2>3, MovePreserves
<1>5. CASE conn[s].holds
  <2>1. PICK h \in 1..Cur : h = conn[s].gen
    BY <1>5 DEF IInv, SessionInv
  <2>2. /\ permits' \in Seq(Nat) /\ Len(permits') = Cur
        /\ \A g \in 1..Cur : permits'[g] = IF g = h THEN permits[g] + 1 ELSE permits[g]
    <3>1. permits' = [permits EXCEPT ![h] = permits[h] + 1]
      BY <1>5, <2>1 DEF Close
    <3>2. permits[h] + 1 \in Nat
      BY <1>1, <2>1, ElementOfSeq
    <3> QED BY <1>1, <2>1, <3>1, <3>2, ExceptSeq
  <2>3. TypeOK'
    <3>1. \A t \in Conns : /\ conn'[t] \in SessionOf /\ conn'[t].gen \in 0..Cur
                           /\ conn'[t].at \in 0..now
      BY <1>2, <1>3 DEF IInv, Inv, TypeOK
    <3> QED BY <2>2, <3>1 DEF Close, IInv, Inv, TypeOK, Cur, SessionOf
  <2>4. PermitsConserved'
    <3>1. s \in Holders(h) /\ Holders(h)' = Holders(h) \ {s}
      BY <1>2, <1>3, <1>5, <2>1 DEF Holders
    <3>2. \A g \in 1..Cur : g # h => Holders(g)' = Holders(g)
      BY <1>2, <1>3, <2>1 DEF Holders
    <3>3. IsFiniteSet(Holders(h)) /\ Cardinality(Holders(h)) \in Nat
      BY ConnsAssumption, FS_Subset, FS_CardinalityType DEF Holders
    <3>4. Cardinality(Holders(h)') = Cardinality(Holders(h)) - 1
      BY <3>1, <3>3, FS_RemoveElement
    <3>5. permits[h] \in Nat
      BY <1>1, <2>1, ElementOfSeq
    <3>6. ASSUME NEW g \in 1..Cur
          PROVE  permits'[g] + Cardinality(Holders(g)') = Permits(gens[g])
      <4>1. permits[g] + Cardinality(Holders(g)) = Permits(gens[g])
        BY DEF IInv, Inv, PermitsConserved
      <4>2. CASE g = h
        <5>1. permits'[g] = permits[h] + 1 /\ Cardinality(Holders(g)') = Cardinality(Holders(h)) - 1
          BY <2>2, <3>4, <4>2
        <5>2. permits[h] + Cardinality(Holders(h)) = Permits(gens[g])
          BY <4>1, <4>2
        <5> QED BY <3>3, <3>5, <5>1, <5>2
      <4>3. CASE g # h
        BY <2>2, <3>2, <4>1, <4>3
      <4> QED BY <4>2, <4>3
    <3> QED BY <3>6 DEF Close, PermitsConserved, Cur
  <2>5. RateBounded' /\ GensInv' /\ BucketInv'
    BY DEF Close, IInv, RateBounded, GensInv, BucketInv, Cur
  <2>6. SessionInv'
    BY <1>2, <1>3 DEF IInv, SessionInv, Cfg, Cur
  <2> QED BY <2>3, <2>4, <2>5, <2>6 DEF IInv, Inv
<1> QED BY <1>4, <1>5

-----------------------------------------------------------------------------
(***************************************************************************)
(* The token bucket.                                                       *)
(***************************************************************************)

\* BucketInv and RateBounded, of one bucket and its history.
Metered(b, q, rate) ==
  \A i \in 1..Len(q) :
    /\ Credit(q[i]) <= Credit(b)
    /\ b.tokens + (Len(q) - i + 1) * Second <= rate * (Second + Credit(b) - Credit(q[i]))
Paid(q, rate) ==
  \A i, j \in 1..Len(q) :
    i <= j => (j - i + 1) * Second <= rate * (Second + Credit(q[j]) - Credit(q[i]))
Filled(b, rate) == b \in Bucket /\ b.tokens <= rate * Second /\ b.last <= now

\* Paid is what RateBounded says of one history.
LEMMA PaidIsRate ==
  ASSUME NEW q \in Seq(Mark), NEW rate
  PROVE  Paid(q, rate) <=>
           \A i, j \in DOMAIN q :
             LET time == q[j].last - q[i].last
                 twice == q[j].back - q[i].back
             IN  i <= j => (j - i + 1) * Second <= rate * (Second + time + twice)
<1>1. DOMAIN q = 1..Len(q)
  BY LenProperties
<1>2. ASSUME NEW i \in 1..Len(q), NEW j \in 1..Len(q)
      PROVE  Second + Credit(q[j]) - Credit(q[i])
               = Second + (q[j].last - q[i].last) + (q[j].back - q[i].back)
  <2>1. q[i] \in Mark /\ q[j] \in Mark
    BY ElementOfSeq
  <2>2. q[i].last \in Nat /\ q[i].back \in Nat /\ q[j].last \in Nat /\ q[j].back \in Nat
    BY <2>1 DEF Mark
  <2> QED BY <2>2 DEF Credit
<1> QED BY <1>1, <1>2 DEF Paid

LEMMA ProductType ==
  /\ \A m, n \in Nat : m * n \in Nat
  /\ \A m, n \in Int : m * n \in Int
OBVIOUS

LEMMA MaxOfTwo ==
  ASSUME NEW a \in Int
  PROVE  Max({0, a}) = IF a > 0 THEN a ELSE 0
<1>1. CASE a > 0
  <2>1. \E x \in {0, a} : \A y \in {0, a} : x >= y
    BY <1>1
  <2>2. Max({0, a}) \in {0, a} /\ Max({0, a}) >= a
    BY <2>1 DEF Max
  <2> QED BY <1>1, <2>2
<1>2. CASE ~(a > 0)
  <2>1. \E x \in {0, a} : \A y \in {0, a} : x >= y
    BY <1>2
  <2>2. Max({0, a}) \in {0, a} /\ Max({0, a}) >= 0
    BY <2>1 DEF Max
  <2> QED BY <1>2, <2>2
<1> QED BY <1>1, <1>2

\* A refill is worth at most the credit it is for.
LEMMA RefillWorth ==
  ASSUME NEW r \in Nat, NEW t \in Nat, NEW k \in Int, NEW m \in Nat, NEW n \in Nat,
         NEW was \in Nat, NEW old \in Int, t <= m + n * r,
         m + k <= r * (Second + was - old)
  PROVE  t + k <= r * (Second + (was + n) - old)
<1>1. r * (Second + (was + n) - old) = r * (Second + was - old) + r * n
  OBVIOUS
<1>2. n * r = r * n /\ r * n \in Int
  OBVIOUS
<1>3. r * (Second + was - old) \in Int
  OBVIOUS
<1> DEFINE A == r * (Second + was - old)
           B == r * n
           C == r * (Second + (was + n) - old)
<1>4. C = A + B /\ A \in Int /\ B \in Int /\ t <= m + B /\ m + k <= A
  BY <1>1, <1>2, <1>3
<1> HIDE DEF A, B, C
<1>5. t + k <= C
  BY <1>4
<1> QED BY <1>5 DEF C

\* try_take without the taking: the bucket stays within its size and what was taken
\* within the rate.
LEMMA RefillMeters ==
  ASSUME now \in Nat, NEW rate \in Nat \ {0}, NEW b \in Bucket, Filled(b, rate),
         NEW q \in Seq(Mark), Metered(b, q, rate), NEW at \in Nat, at <= now
  PROVE  Filled(Refill(b, rate, at), rate) /\ Metered(Refill(b, rate, at), q, rate)
<1> DEFINE n == Max({0, at - b.last})
           late == Max({0, b.last - at})
           new == b.tokens + n * rate
           t == Min({rate * Second, new})
           c == Refill(b, rate, at)
<1>1. b.tokens \in Nat /\ b.last \in Nat /\ b.back \in Nat
  BY DEF Bucket
<1>2. n \in Nat /\ late \in Nat /\ at + late = b.last + n
  <2>1. at - b.last \in Int /\ b.last - at \in Int
    BY <1>1
  <2>2. n = IF at - b.last > 0 THEN at - b.last ELSE 0
    BY <2>1, MaxOfTwo
  <2>3. late = IF b.last - at > 0 THEN b.last - at ELSE 0
    BY <2>1, MaxOfTwo
  <2> HIDE DEF n, late
  <2> QED BY <1>1, <2>2, <2>3
<1> HIDE DEF n, late
<1>3. rate * Second \in Nat /\ n * rate \in Nat
  BY <1>2, ProductType
<1>4. new \in Nat
  BY <1>1, <1>3
<1> HIDE DEF new
<1>5. t \in Nat /\ t <= rate * Second /\ t <= new
  BY <1>3, <1>4, MinOfTwo
<1>6. c = [tokens |-> t, last |-> at, back |-> b.back + late]
  BY DEF Refill, new, n, late
<1> HIDE DEF t, c
<1>7. /\ c \in Bucket /\ c.tokens = t /\ Credit(c) = Credit(b) + n
      /\ Credit(b) \in Nat /\ c.last = at
  <2>1. c.tokens = t /\ c.last = at /\ c.back = b.back + late
    BY <1>6
  <2>2. b.back + late \in Nat
    BY <1>1, <1>2
  <2>3. c \in Bucket
    BY <1>5, <1>6, <2>2 DEF Bucket
  <2>4. at + (b.back + late) = (b.last + b.back) + n /\ b.last + b.back \in Nat
    <3>1. PICK u \in Nat : u = b.last
      BY <1>1
    <3>2. PICK v \in Nat : v = b.back
      BY <1>1
    <3>3. PICK x \in Nat : x = late
      BY <1>2
    <3>4. PICK y \in Nat : y = n
      BY <1>2
    <3>5. at + x = u + y
      BY <1>2, <3>1, <3>3, <3>4
    <3>6. at + (v + x) = (u + v) + y /\ u + v \in Nat
      BY <3>5
    <3> QED BY <3>1, <3>2, <3>3, <3>4, <3>6
  <2> QED BY <2>1, <2>3, <2>4 DEF Credit
<1>8. Filled(c, rate)
  BY <1>5, <1>7 DEF Filled
<1>9. ASSUME NEW i \in 1..Len(q)
      PROVE  /\ Credit(q[i]) <= Credit(c)
             /\ t + (Len(q) - i + 1) * Second <= rate * (Second + Credit(c) - Credit(q[i]))
  <2>1. q[i] \in Mark /\ Len(q) \in Nat
    BY ElementOfSeq, LenProperties
  <2>2. PICK o \in Nat : o = Credit(q[i])
    BY <2>1 DEF Mark, Credit
  <2>3. PICK was \in Nat : was = Credit(b)
    BY <1>7
  <2>4. o <= was /\ b.tokens + (Len(q) - i + 1) * Second <= rate * (Second + was - o)
    BY <2>2, <2>3 DEF Metered
  <2> DEFINE k == (Len(q) - i + 1) * Second
  <2>5. k \in Int
    BY <2>1
  <2>6. t <= b.tokens + n * rate
    BY <1>5 DEF new
  <2>7. b.tokens + k <= rate * (Second + was - o)
    BY <2>4
  <2> HIDE DEF k
  <2>8. rate \in Nat /\ o \in Int
    OBVIOUS
  <2>9. t + k <= rate * (Second + (was + n) - o)
    BY ONLY <1>1, <1>2, <1>5, <2>3, <2>5, <2>6, <2>7, <2>8, RefillWorth, Zenon
  <2>10. Credit(c) = was + n /\ o <= was + n
    BY <1>2, <1>7, <2>3, <2>4
  <2> QED BY <2>2, <2>9, <2>10 DEF k
<1>10. Metered(c, q, rate)
  BY <1>7, <1>9 DEF Metered
<1> QED BY <1>8, <1>10 DEF c

\* try_take: one token more is one entry more of the history.
LEMMA TakeMeters ==
  ASSUME now \in Nat, NEW rate \in Nat \ {0}, NEW b \in Bucket, Filled(b, rate),
         NEW q \in Seq(Mark), Metered(b, q, rate), Paid(q, rate), b.tokens >= Second
  PROVE  LET c == [b EXCEPT !.tokens = @ - Second]
             p == Append(q, [last |-> b.last, back |-> b.back])
         IN  Filled(c, rate) /\ Metered(c, p, rate) /\ Paid(p, rate)
<1> DEFINE c == [b EXCEPT !.tokens = @ - Second]
           m == [last |-> b.last, back |-> b.back]
           p == Append(q, m)
           was == Credit(b)
<1>1. /\ b.tokens \in Nat /\ b.tokens <= rate * Second /\ rate * Second \in Nat
      /\ c \in Bucket /\ c.tokens = b.tokens - Second /\ c.tokens \in Nat
      /\ c.last = b.last /\ b.last <= now
      /\ Credit(c) = was /\ Credit(m) = was /\ was \in Nat /\ m \in Mark
  <2>1. /\ b.tokens \in Nat /\ b.last \in Nat /\ b.back \in Nat
        /\ b.tokens <= rate * Second /\ b.last <= now /\ rate * Second \in Nat
    BY ProductType DEF Bucket, Filled
  <2>2. b.tokens - Second \in Nat
    BY <2>1
  <2>3. /\ c = [tokens |-> b.tokens - Second, last |-> b.last, back |-> b.back]
        /\ m.last = b.last /\ m.back = b.back
    BY DEF Bucket
  <2>4. c \in Bucket /\ m \in Mark
    BY <2>1, <2>2, <2>3 DEF Bucket, Mark
  <2>5. c.tokens = b.tokens - Second /\ c.last = b.last /\ c.back = b.back
    BY <2>3
  <2> QED BY <2>1, <2>2, <2>3, <2>4, <2>5 DEF Credit
<1> HIDE DEF m
<1>2. /\ Len(p) = Len(q) + 1 /\ Len(q) \in Nat /\ p[Len(q) + 1] = m
      /\ \A i \in 1..Len(q) : p[i] = q[i] /\ q[i] \in Mark
  BY <1>1, AppendProperties, LenProperties, ElementOfSeq
<1>3. \A i \in 1..Len(q) : Credit(q[i]) \in Nat
  BY <1>2 DEF Mark, Credit
<1> HIDE DEF c, p, was
<1>4. Filled(c, rate)
  BY <1>1 DEF Filled
<1>5. ASSUME NEW i \in 1..Len(p)
      PROVE  /\ Credit(p[i]) \in Nat /\ Credit(p[i]) <= was
             /\ c.tokens + (Len(p) - i + 1) * Second <= rate * (Second + was - Credit(p[i]))
  <2>1. CASE i \in 1..Len(q)
    <3>1. PICK o \in Nat : o = Credit(q[i])
      BY <1>3, <2>1
    <3>2. o <= was /\ b.tokens + (Len(q) - i + 1) * Second <= rate * (Second + was - o)
      BY <2>1, <3>1 DEF Metered, was
    <3>3. (Len(p) - i + 1) * Second = (Len(q) - i + 1) * Second + Second
      BY <1>2, <2>1
    <3>4. PICK k \in Int : k = (Len(q) - i + 1) * Second
      BY <1>2, <2>1
    <3>5. c.tokens + (k + Second) = b.tokens + k
      BY <1>1, <3>4
    <3> QED BY <1>2, <2>1, <3>1, <3>2, <3>3, <3>4, <3>5
  <2>2. CASE i = Len(q) + 1
    <3>1. Credit(p[i]) = was /\ Len(p) - i + 1 = 1
      BY <1>1, <1>2, <2>2
    <3>2. Second + was - Credit(p[i]) = Second
      BY <1>1, <3>1
    <3>3. 1 * Second = Second
      OBVIOUS
    <3>4. c.tokens + Second = b.tokens
      BY <1>1
    <3>5. Credit(p[i]) \in Nat /\ Credit(p[i]) <= was
      BY <1>1, <3>1
    <3>6. c.tokens + 1 * Second <= rate * Second
      BY <1>1, <3>3, <3>4
    <3> QED BY <3>1, <3>2, <3>5, <3>6
  <2> QED BY <1>2, <2>1, <2>2
<1>6. Metered(c, p, rate)
  BY <1>1, <1>5 DEF Metered
<1>7. ASSUME NEW i \in 1..Len(p), NEW j \in 1..Len(p), i <= j
      PROVE  (j - i + 1) * Second <= rate * (Second + Credit(p[j]) - Credit(p[i]))
  <2>1. CASE j \in 1..Len(q)
    <3>1. i \in 1..Len(q) /\ p[i] = q[i] /\ p[j] = q[j]
      BY <1>2, <1>7, <2>1
    <3> QED BY <1>7, <2>1, <3>1 DEF Paid
  <2>2. CASE j = Len(q) + 1
    <3>1. Credit(p[j]) = was /\ j = Len(p)
      BY <1>1, <1>2, <2>2
    <3>2. PICK o \in Nat : o = Credit(p[i])
      BY <1>5
    <3>3. c.tokens + (Len(p) - i + 1) * Second <= rate * (Second + was - o)
      BY <1>5, <3>2
    <3> DEFINE k == (Len(p) - i + 1) * Second
               worth == rate * (Second + was - o)
    <3>4. k \in Int /\ worth \in Int /\ c.tokens + k <= worth
      BY <1>1, <1>2, <3>3
    <3> HIDE DEF k, worth
    <3>5. k <= worth
      BY <1>1, <3>4
    <3> QED BY <3>1, <3>2, <3>5 DEF k, worth
  <2>3. j \in 1..Len(q) \/ j = Len(q) + 1
    BY <1>2
  <2> QED BY <2>1, <2>2, <2>3
<1>8. Paid(p, rate)
  BY <1>7 DEF Paid
<1> QED BY <1>4, <1>6, <1>8 DEF c, p, m

\* What IInv says of the buckets, bucket by bucket.
LEMMA BucketsAre ==
  ASSUME IInv, NEW g \in 1..Cur
  PROVE  /\ now \in Nat /\ gens[g] \in Saved /\ Rate(gens[g]) \in Nat \ {0}
         /\ bucket[g] \in Bucket /\ spent[g] \in Seq(Mark)
         /\ Filled(bucket[g], Rate(gens[g]))
         /\ Metered(bucket[g], spent[g], Rate(gens[g])) /\ Paid(spent[g], Rate(gens[g]))
<1>1. /\ now \in 0..MaxNow /\ gens \in Seq(Saved) /\ Cur = Len(gens) /\ Cur \in Nat
      /\ bucket \in Seq(Bucket) /\ Len(bucket) = Cur
      /\ spent \in Seq(Seq(Mark)) /\ Len(spent) = Cur
      /\ bucket[g].tokens \in 0..(Rate(gens[g]) * Second) /\ bucket[g].last \in 0..now
  BY DEF IInv, Inv, TypeOK, GensInv, Cur, Gen
<1>2. gens[g] \in Saved /\ bucket[g] \in Bucket /\ spent[g] \in Seq(Mark)
  BY <1>1, ElementOfSeq
<1>3. Rate(gens[g]) \in Nat \ {0}
  BY <1>2, LimitValues
<1>4. Filled(bucket[g], Rate(gens[g]))
  BY <1>1, <1>2 DEF Filled
<1>5. Metered(bucket[g], spent[g], Rate(gens[g]))
  BY DEF IInv, BucketInv, Metered
<1>6. Paid(spent[g], Rate(gens[g]))
  <2>1. spent[g] \in Seq(Mark)
    BY <1>2
  <2> QED BY <2>1, PaidIsRate DEF IInv, RateBounded
<1>7. now \in Nat
  BY <1>1
<1> QED BY <1>2, <1>3, <1>4, <1>5, <1>6, <1>7

\* acquire, the bucket's half: whether a token is there or not, every bucket stays
\* within its size and its history within the rate.
LEMMA AcquireMeters ==
  ASSUME IInv, NEW s \in Conns, Acquire(s)
  PROVE  /\ bucket' \in Seq(Bucket) /\ Len(bucket') = Cur
         /\ spent' \in Seq(Seq(Mark)) /\ Len(spent') = Cur
         /\ \A g \in 1..Cur : /\ Filled(bucket'[g], Rate(gens[g]))
                              /\ Metered(bucket'[g], spent'[g], Rate(gens[g]))
                              /\ Paid(spent'[g], Rate(gens[g]))
<1>1. PICK g \in 1..Cur : g = conn[s].gen
  BY DEF IInv, SessionInv, Acquire
<1> DEFINE rate == Rate(gens[g])
           b == Refill(bucket[g], rate, conn[s].at)
           c == [b EXCEPT !.tokens = @ - Second]
           m == [last |-> b.last, back |-> b.back]
           limited == gens[g].maxRps # None
           taken == limited /\ b.tokens >= Second
<1>2. /\ bucket' = IF ~limited THEN bucket ELSE [bucket EXCEPT ![g] = IF taken THEN c ELSE b]
      /\ spent' = IF taken THEN [spent EXCEPT ![g] = Append(@, m)] ELSE spent
  BY <1>1 DEF Acquire, Cfg
<1>3. /\ now \in Nat /\ rate \in Nat \ {0} /\ bucket[g] \in Bucket /\ spent[g] \in Seq(Mark)
      /\ Filled(bucket[g], rate) /\ Metered(bucket[g], spent[g], rate) /\ Paid(spent[g], rate)
  BY BucketsAre
<1>4. /\ bucket \in Seq(Bucket) /\ Len(bucket) = Cur
      /\ spent \in Seq(Seq(Mark)) /\ Len(spent) = Cur
  BY DEF IInv, GensInv
<1> HIDE DEF rate
<1>5. b \in Bucket /\ Filled(b, rate) /\ Metered(b, spent[g], rate) /\ m \in Mark
  <2>1. conn[s].at \in Nat /\ conn[s].at <= now
    <3>1. conn[s].at \in 0..now
      BY DEF IInv, Inv, TypeOK
    <3> QED BY <1>3, <3>1
  <2>2. Filled(b, rate) /\ Metered(b, spent[g], rate)
    BY <1>3, <2>1, RefillMeters
  <2>3. b \in Bucket
    BY <2>2 DEF Filled
  <2> QED BY <2>2, <2>3 DEF Bucket, Mark
<1> HIDE DEF b
<1>6. CASE ~limited
  BY <1>2, <1>4, <1>6, BucketsAre
<1>7. CASE limited /\ ~taken
  <2>1. bucket' = [bucket EXCEPT ![g] = b] /\ spent' = spent
    BY <1>2, <1>7
  <2>2. /\ bucket' \in Seq(Bucket) /\ Len(bucket') = Cur
        /\ \A h \in 1..Cur : bucket'[h] = IF h = g THEN b ELSE bucket[h]
    BY <1>1, <1>4, <1>5, <2>1, ExceptSeq
  <2>3. ASSUME NEW h \in 1..Cur
        PROVE  /\ Filled(bucket'[h], Rate(gens[h]))
               /\ Metered(bucket'[h], spent'[h], Rate(gens[h]))
               /\ Paid(spent'[h], Rate(gens[h]))
    <3>1. CASE h = g
      BY <1>3, <1>5, <2>1, <2>2, <3>1 DEF rate
    <3>2. CASE h # g
      BY <2>1, <2>2, <3>2, BucketsAre
    <3> QED BY <3>1, <3>2
  <2> QED BY <1>4, <2>1, <2>2, <2>3
<1>8. CASE taken
  <2>1. bucket' = [bucket EXCEPT ![g] = c] /\ spent' = [spent EXCEPT ![g] = Append(spent[g], m)]
    BY <1>2, <1>8
  <2>2. /\ Filled(c, rate) /\ Metered(c, Append(spent[g], m), rate)
        /\ Paid(Append(spent[g], m), rate)
    BY <1>3, <1>5, <1>8, TakeMeters
  <2>3. c \in Bucket
    BY <2>2 DEF Filled
  <2> HIDE DEF c, m
  <2>4. Append(spent[g], m) \in Seq(Mark)
    BY <1>3, <1>5, AppendProperties
  <2>5. /\ bucket' \in Seq(Bucket) /\ Len(bucket') = Cur
        /\ \A h \in 1..Cur : bucket'[h] = IF h = g THEN c ELSE bucket[h]
    BY <1>1, <1>4, <2>1, <2>3, ExceptSeq
  <2>6. /\ spent' \in Seq(Seq(Mark)) /\ Len(spent') = Cur
        /\ \A h \in 1..Cur : spent'[h] = IF h = g THEN Append(spent[g], m) ELSE spent[h]
    BY <1>1, <1>4, <2>1, <2>4, ExceptSeq
  <2>7. ASSUME NEW h \in 1..Cur
        PROVE  /\ Filled(bucket'[h], Rate(gens[h]))
               /\ Metered(bucket'[h], spent'[h], Rate(gens[h]))
               /\ Paid(spent'[h], Rate(gens[h]))
    <3>1. CASE h = g
      BY <2>2, <2>5, <2>6, <3>1 DEF rate
    <3>2. CASE h # g
      BY <2>5, <2>6, <3>2, BucketsAre
    <3> QED BY <3>1, <3>2
  <2> QED BY <2>5, <2>6, <2>7
<1> QED BY <1>6, <1>7, <1>8

-----------------------------------------------------------------------------
(***************************************************************************)
(* The semaphore.                                                          *)
(***************************************************************************)

\* acquire, the semaphore's half: refused without a trace, or one permit of the
\* session's own generation, where that has a semaphore at all.
LEMMA AcquirePermits ==
  ASSUME IInv, NEW s \in Conns, Acquire(s)
  PROVE  /\ permits' \in Seq(Nat) /\ Len(permits') = Cur
         /\ conn' \in [Conns -> SessionOf]
         /\ \A t \in Conns : t # s => conn'[t] = conn[t]
         /\ \/ conn'[s] = Closed
            \/ /\ conn'[s].pc = "request" /\ conn'[s].gen = conn[s].gen
               /\ conn'[s].who = conn[s].who /\ conn'[s].at = 0
               /\ conn'[s].holds => Cfg(s).maxConn # None
         /\ \A g \in 1..Cur : permits'[g] + Cardinality(Holders(g)') = Permits(gens[g])
<1>1. /\ conn \in [Conns -> SessionOf] /\ permits \in Seq(Nat) /\ Len(permits) = Cur /\ Cur \in Nat
      /\ conn[s].gen \in 1..Cur /\ ~conn[s].holds
  <2>1. conn[s].pc \in {"limits", "take"}
    BY DEF Acquire
  <2>2. conn[s].gen \in 1..Cur /\ ~conn[s].holds
    BY <2>1 DEF IInv, SessionInv
  <2> QED BY <2>1, <2>2 DEF IInv, Inv, TypeOK, SessionInv, Gen
<1>2. PICK h \in 1..Cur : h = conn[s].gen
  BY <1>1
<1>3. permits[h] \in Nat
  BY <1>1, <1>2, ElementOfSeq
<1>4. Closed \in SessionOf /\ Closed.holds = FALSE
  BY FreshSession
<1>5. \A g \in 1..Cur : permits[g] + Cardinality(Holders(g)) = Permits(gens[g])
  BY DEF IInv, Inv, PermitsConserved
<1>6. CASE conn' = [conn EXCEPT ![s] = Closed] /\ permits' = permits
  <2>1. /\ conn' \in [Conns -> SessionOf]
        /\ \A t \in Conns : conn'[t] = IF t = s THEN Closed ELSE conn[t]
    BY <1>1, <1>4, <1>6
  <2>2. \A g : Holders(g)' = Holders(g)
    BY <1>1, <1>4, <2>1 DEF Holders
  <2> QED BY <1>1, <1>5, <1>6, <2>1, <2>2
<1>7. ASSUME conn' = [conn EXCEPT ![s].pc = "request", ![s].at = 0,
                                ![s].holds = Cfg(s).maxConn # None],
             Cfg(s).maxConn # None => permits[h] # 0,
             permits' = IF Cfg(s).maxConn = None THEN permits
                        ELSE [permits EXCEPT ![h] = permits[h] - 1]
      PROVE  /\ permits' \in Seq(Nat) /\ Len(permits') = Cur
             /\ conn' \in [Conns -> SessionOf]
             /\ \A t \in Conns : t # s => conn'[t] = conn[t]
             /\ conn'[s].pc = "request" /\ conn'[s].gen = conn[s].gen
             /\ conn'[s].who = conn[s].who /\ conn'[s].at = 0
             /\ conn'[s].holds => Cfg(s).maxConn # None
             /\ \A g \in 1..Cur : permits'[g] + Cardinality(Holders(g)') = Permits(gens[g])
  <2>1. PICK m \in BOOLEAN : m = (Cfg(s).maxConn # None)
    OBVIOUS
  <2> DEFINE x == [conn[s] EXCEPT !.pc = "request", !.at = 0, !.holds = m]
  <2>2. conn[s] \in SessionOf
    BY <1>1
  <2>3. /\ x \in SessionOf /\ x.pc = "request" /\ x.gen = conn[s].gen /\ x.who = conn[s].who
        /\ x.holds = m /\ x.at = 0
    BY <2>2 DEF SessionOf
  <2>4. conn' = [conn EXCEPT ![s] = x]
    BY <1>1, <1>7, <2>1, <2>2 DEF SessionOf
  <2> HIDE DEF x
  <2>5. /\ conn' \in [Conns -> SessionOf]
        /\ \A t \in Conns : conn'[t] = IF t = s THEN x ELSE conn[t]
    BY <1>1, <2>3, <2>4
  <2>6. CASE ~m
    <3>1. permits' = permits
      BY <1>7, <2>1, <2>6
    <3>2. \A g : Holders(g)' = Holders(g)
      BY <1>1, <2>3, <2>5, <2>6 DEF Holders
    <3> QED BY <1>1, <1>5, <2>3, <2>5, <2>6, <3>1, <3>2
  <2>7. CASE m
    <3>1. permits' = [permits EXCEPT ![h] = permits[h] - 1] /\ permits[h] - 1 \in Nat
      <4>1. Cfg(s).maxConn # None
        BY <2>1, <2>7
      <4>2. permits[h] - 1 \in Nat
        BY <1>3, <1>7, <4>1
      <4> QED BY <1>7, <4>1, <4>2
    <3>2. /\ permits' \in Seq(Nat) /\ Len(permits') = Cur
          /\ \A g \in 1..Cur : permits'[g] = IF g = h THEN permits[h] - 1 ELSE permits[g]
      BY <1>1, <1>2, <3>1, ExceptSeq
    <3>3. s \notin Holders(h) /\ Holders(h)' = Holders(h) \cup {s}
      <4>1. s \notin Holders(h)
        BY <1>1 DEF Holders
      <4>2. \A t \in Conns : (conn'[t].gen = h /\ conn'[t].holds)
                               <=> (t = s \/ (conn[t].gen = h /\ conn[t].holds))
        BY <1>2, <2>3, <2>5, <2>7
      <4> QED BY <4>1, <4>2 DEF Holders
    <3>4. \A g \in 1..Cur : g # h => Holders(g)' = Holders(g)
      BY <1>1, <1>2, <2>3, <2>5 DEF Holders
    <3>5. IsFiniteSet(Holders(h)) /\ Cardinality(Holders(h)) \in Nat
      BY ConnsAssumption, FS_Subset, FS_CardinalityType DEF Holders
    <3>6. Cardinality(Holders(h)') = Cardinality(Holders(h)) + 1
      BY <3>3, <3>5, FS_AddElement
    <3>7. ASSUME NEW g \in 1..Cur
          PROVE  permits'[g] + Cardinality(Holders(g)') = Permits(gens[g])
      <4>1. CASE g = h
        <5>1. permits'[g] = permits[h] - 1 /\ Cardinality(Holders(g)') = Cardinality(Holders(h)) + 1
          BY <3>2, <3>6, <4>1
        <5>2. permits[h] + Cardinality(Holders(h)) = Permits(gens[g])
          BY <1>5, <4>1
        <5> QED BY <1>3, <3>5, <5>1, <5>2
      <4>2. CASE g # h
        BY <1>5, <3>2, <3>4, <4>2
      <4> QED BY <4>1, <4>2
    <3> QED BY <2>1, <2>3, <2>5, <2>7, <3>2, <3>7
  <2> QED BY <2>6, <2>7
<1>8. \/ conn' = [conn EXCEPT ![s] = Closed] /\ permits' = permits
      \/ /\ conn' = [conn EXCEPT ![s].pc = "request", ![s].at = 0,
                                ![s].holds = Cfg(s).maxConn # None]
         /\ Cfg(s).maxConn # None => permits[h] # 0
         /\ permits' = IF Cfg(s).maxConn = None THEN permits
                       ELSE [permits EXCEPT ![h] = permits[h] - 1]
  BY <1>2 DEF Acquire
<1> QED BY <1>6, <1>7, <1>8

LEMMA AcquirePreserves ==
  ASSUME IInv, NEW s \in Conns, Acquire(s)
  PROVE  IInv'
<1>1. UNCHANGED <<gens, now, rr, healthy>> /\ Cur' = Cur /\ Cur \in Nat
  BY DEF Acquire, Cur, IInv, Inv, TypeOK, Gen
<1>2. /\ permits' \in Seq(Nat) /\ Len(permits') = Cur
      /\ conn' \in [Conns -> SessionOf]
      /\ \A t \in Conns : t # s => conn'[t] = conn[t]
      /\ \A g \in 1..Cur : permits'[g] + Cardinality(Holders(g)') = Permits(gens[g])
  BY AcquirePermits
<1>3. \/ conn'[s].pc = "closed" /\ conn'[s].gen = 0 /\ conn'[s].holds = FALSE
      \/ /\ conn'[s].pc = "request" /\ conn'[s].gen = conn[s].gen
         /\ conn'[s].who = conn[s].who
         /\ conn'[s].holds => Cfg(s).maxConn # None
  BY AcquirePermits, FreshSession
<1>4. conn[s].gen \in 1..Cur /\ conn[s].who # None
  <2>1. conn[s].pc \in {"limits", "take"}
    BY DEF Acquire
  <2> QED BY <2>1 DEF IInv, SessionInv
<1>5. /\ bucket' \in Seq(Bucket) /\ Len(bucket') = Cur
      /\ spent' \in Seq(Seq(Mark)) /\ Len(spent') = Cur
      /\ \A g \in 1..Cur : /\ Filled(bucket'[g], Rate(gens[g]))
                           /\ Metered(bucket'[g], spent'[g], Rate(gens[g]))
                           /\ Paid(spent'[g], Rate(gens[g]))
  BY AcquireMeters
<1>6. TypeOK'
  <2>1. \A t \in Conns : /\ conn'[t] \in SessionOf /\ conn'[t].gen \in 0..Cur
                         /\ conn'[t].at \in 0..now
    <3>1. \A t \in Conns : conn[t].gen \in 0..Cur /\ conn[t].at \in 0..now
      BY DEF IInv, Inv, TypeOK
    <3>2. conn'[s].gen \in 0..Cur
      BY <1>1, <1>3, <1>4
    <3>3. conn'[s].at = 0 /\ now \in Nat
      BY AcquirePermits, FreshSession DEF IInv, Inv, TypeOK
    <3> QED BY <1>2, <3>1, <3>2, <3>3
  <2>2. \A g \in 1..Cur : bucket'[g].tokens \in 0..(Rate(gens[g]) * Second)
                          /\ bucket'[g].last \in 0..now
    <3> TAKE g \in 1..Cur
    <3>1. Rate(gens[g]) * Second \in Nat /\ now \in Nat
      BY BucketsAre, ProductType
    <3>2. /\ bucket'[g] \in Bucket /\ bucket'[g].tokens <= Rate(gens[g]) * Second
          /\ bucket'[g].last <= now
      BY <1>5 DEF Filled
    <3>3. bucket'[g].tokens \in Nat /\ bucket'[g].last \in Nat
      BY <3>2 DEF Bucket
    <3> QED BY <3>1, <3>2, <3>3
  <2> QED BY <1>1, <1>2, <2>1, <2>2 DEF IInv, Inv, TypeOK, Cur, SessionOf
<1>7. PermitsConserved'
  BY <1>1, <1>2 DEF PermitsConserved, Cur
<1>8. GensInv'
  BY <1>1, <1>5 DEF GensInv
<1>9. BucketInv'
  BY <1>1, <1>5 DEF BucketInv, Metered
<1>10. RateBounded'
  <2>1. \A g \in 1..Cur : spent'[g] \in Seq(Mark)
    BY <1>5, ElementOfSeq
  <2> QED BY <1>1, <1>5, <2>1, PaidIsRate DEF RateBounded
<1>11. SessionInv'
  BY <1>1, <1>2, <1>3, <1>4 DEF IInv, SessionInv, Cfg
<1> QED BY <1>6, <1>7, <1>8, <1>9, <1>10, <1>11 DEF IInv, Inv

-----------------------------------------------------------------------------
(***************************************************************************)
(* The sessions.                                                           *)
(***************************************************************************)

\* A session that only moves on.
LEMMA StepPreserves ==
  ASSUME IInv, NEW s \in Conns, NEW from, NEW to, Step(s, from, to),
         UNCHANGED <<limits, gens, now, rr, healthy>>,
         <<from, to>> \in {<<"method", "auth">>, <<"method", "limits">>, <<"auth", "limits">>,
                           <<"head", "limits">>, <<"request", "pick">>, <<"dial", "relay">>}
  PROVE  IInv'
<1> DEFINE x == [conn[s] EXCEPT !.pc = to]
<1>1. conn \in [Conns -> SessionOf] /\ conn[s] \in SessionOf /\ conn[s].pc = from
  BY DEF IInv, SessionInv, Step
<1>2. /\ from # "closed" /\ to \in {"auth", "limits", "pick", "relay"}
      /\ from \in {"method", "auth", "head"} \/ to \in {"pick", "relay"}
  OBVIOUS
<1>3. /\ x \in SessionOf /\ x.gen = conn[s].gen /\ x.who = conn[s].who
      /\ x.holds = conn[s].holds /\ x.pc = to /\ x.at = conn[s].at
  BY <1>1, <1>2 DEF SessionOf
<1>4. conn' = [conn EXCEPT ![s] = x]
  BY <1>1 DEF Step
<1>5. x.gen \in 0..Cur /\ x.at \in 0..now
  BY <1>3 DEF IInv, Inv, TypeOK
<1>6. x.gen \in 1..Cur /\ x.who # None
  BY <1>1, <1>2, <1>3 DEF IInv, SessionInv
<1>7. x.holds => x.pc \in {"request", "pick", "dial", "relay"}
  BY <1>1, <1>2, <1>3 DEF IInv, SessionInv
<1> HIDE DEF x
<1> QED BY <1>3, <1>4, <1>5, <1>6, <1>7, MovePreserves

LEMMA AcceptPreserves ==
  ASSUME IInv, NEW s \in Conns, NEW cl \in Clients, Accept(s, cl)
  PROVE  IInv'
<1>1. /\ conn[s] \in SessionOf /\ conn[s].pc = "closed" /\ conn[s].holds = FALSE
      /\ UNCHANGED <<limits, gens, now, rr, healthy>> /\ Cur \in Nat \ {0} /\ rr \in Nat
      /\ 0 \in 0..now
  BY DEF IInv, Inv, TypeOK, Gen, SessionInv, Accept, SessionOf
<1>2. CASE ~ClientAllowed(gens[Cur], cl)
  <2>1. conn' = [conn EXCEPT ![s] = Closed]
    BY <1>2 DEF Accept
  <2>2. Closed \in SessionOf /\ Closed.pc = "closed" /\ Closed.gen = 0 /\ Closed.holds = FALSE
    BY FreshSession
  <2>3. Closed.gen \in 0..Cur /\ Closed.at \in 0..now
    BY <1>1, <2>2, FreshSession
  <2> QED BY <1>1, <2>1, <2>2, <2>3, MovePreserves
<1>3. CASE ClientAllowed(gens[Cur], cl)
  <2> DEFINE to == IF cl.proto = "socks5" THEN "method" ELSE "head"
             x == [Closed EXCEPT !.pc = to, !.who = {cl}, !.gen = Cur, !.rr = rr]
  <2>1. conn' = [conn EXCEPT ![s] = x]
    BY <1>3 DEF Accept
  <2>2. to \in {"method", "head"} /\ {cl} \in Options(Clients)
    BY DEF Options
  <2> HIDE DEF to
  <2>3. /\ x \in SessionOf /\ x.pc = to /\ x.who = {cl} /\ x.gen = Cur
        /\ x.holds = FALSE /\ x.at = 0
    BY <1>1, <2>2, FreshSession DEF SessionOf
  <2> HIDE DEF x
  <2>5. /\ x.gen \in 0..Cur /\ x.gen \in 1..Cur /\ x.who # None /\ x.at \in 0..now
    BY <1>1, <2>3 DEF None
  <2> QED BY <1>1, <2>1, <2>3, <2>5, MovePreserves
<1> QED BY <1>2, <1>3

\* Reads of the head, the pick and the reading of the clock: the session changes, its
\* generation and its permit do not.
LEMMA SamePermit ==
  ASSUME IInv, NEW s \in Conns, NEW x \in SessionOf, conn' = [conn EXCEPT ![s] = x],
         UNCHANGED <<limits, gens, now, rr, healthy>>,
         <<conn[s].pc, x.pc>> \in {<<"head", "head">>, <<"limits", "take">>, <<"pick", "dial">>},
         x.gen = conn[s].gen, x.who = conn[s].who, x.holds = conn[s].holds,
         x.at \in {conn[s].at, now}
  PROVE  IInv'
<1>1. x.gen \in 0..Cur /\ x.at \in 0..now
  BY DEF IInv, Inv, TypeOK
<1>2. x.gen \in 1..Cur /\ x.who # None
  BY DEF IInv, SessionInv
<1>3. x.holds => x.pc \in {"request", "pick", "dial", "relay"}
  BY DEF IInv, SessionInv
<1> QED BY <1>1, <1>2, <1>3, MovePreserves

LEMMA ReadClockPreserves ==
  ASSUME IInv, NEW s \in Conns, ReadClock(s)
  PROVE  IInv'
<1>1. conn \in [Conns -> SessionOf] /\ conn[s] \in SessionOf /\ conn[s].pc = "limits"
  BY DEF IInv, SessionInv, ReadClock
<1> DEFINE x == [conn[s] EXCEPT !.pc = "take", !.at = now]
<1>2. now \in Nat
  BY DEF IInv, Inv, TypeOK
<1>3. /\ x \in SessionOf /\ x.pc = "take" /\ x.gen = conn[s].gen /\ x.who = conn[s].who
      /\ x.holds = conn[s].holds /\ x.at = now
  BY <1>1, <1>2 DEF SessionOf
<1>4. conn' = [conn EXCEPT ![s] = x] /\ UNCHANGED <<limits, gens, now, rr, healthy>>
  BY <1>1 DEF ReadClock, SessionOf
<1> HIDE DEF x
<1> QED BY <1>1, <1>3, <1>4, SamePermit

LEMMA ReadMorePreserves ==
  ASSUME IInv, NEW s \in Conns, HttpReadMore(s)
  PROVE  IInv'
<1>1. conn \in [Conns -> SessionOf] /\ conn[s] \in SessionOf /\ conn[s].pc = "head"
  BY DEF IInv, SessionInv, HttpReadMore
<1>2. CASE conn[s].chunks < MaxChunks
  <2> DEFINE x == [conn[s] EXCEPT !.chunks = conn[s].chunks + 1]
  <2>1. conn[s].chunks + 1 \in 0..MaxChunks
    BY <1>1, <1>2 DEF SessionOf
  <2>2. /\ x \in SessionOf /\ x.pc = conn[s].pc /\ x.gen = conn[s].gen /\ x.who = conn[s].who
        /\ x.holds = conn[s].holds /\ x.at = conn[s].at
    BY <1>1, <2>1 DEF SessionOf
  <2>3. conn' = [conn EXCEPT ![s] = x] /\ UNCHANGED <<limits, gens, now, rr, healthy>>
    BY <1>1, <1>2 DEF HttpReadMore, SessionOf
  <2> HIDE DEF x
  <2> QED BY <1>1, <2>2, <2>3, SamePermit
<1>3. CASE ~(conn[s].chunks < MaxChunks)
  BY <1>3, ClosePreserves DEF HttpReadMore
<1> QED BY <1>2, <1>3

LEMMA PickPreserves ==
  ASSUME IInv, NEW s \in Conns, Pick(s)
  PROVE  IInv'
<1>1. conn \in [Conns -> SessionOf] /\ conn[s] \in SessionOf /\ conn[s].pc = "pick"
  BY DEF IInv, SessionInv, Pick
<1>2. CASE healthy = {}
  BY <1>2, ClosePreserves DEF Pick
<1>3. CASE healthy # {}
  <2> DEFINE id == PickAmong(healthy, conn[s].rr)
             x == [conn[s] EXCEPT !.pc = "dial", !.rr = conn[s].rr + 1, !.up = {id}]
  <2>1. conn[s].rr \in Nat /\ conn[s].rr + 1 \in Nat
    BY <1>1 DEF SessionOf
  <2>2. healthy \in SUBSET Instances
    BY DEF IInv, Inv, TypeOK
  <2>3. healthy \in SUBSET Nat /\ IsFiniteSet(healthy)
    BY <2>2, InstancesAssumption, FS_Subset
  <2>4. id \in healthy
    BY <1>3, <2>1, <2>3, PickIsAmong
  <2> HIDE DEF id
  <2>5. {id} \in Options(Instances)
    BY <2>2, <2>4 DEF Options
  <2>6. /\ x \in SessionOf /\ x.pc = "dial" /\ x.gen = conn[s].gen /\ x.who = conn[s].who
        /\ x.holds = conn[s].holds /\ x.at = conn[s].at
    BY <1>1, <2>1, <2>5 DEF SessionOf
  <2>7. conn' = [conn EXCEPT ![s] = x] /\ UNCHANGED <<limits, gens, now, rr, healthy>>
    BY <1>1, <1>3 DEF Pick, SessionOf, id
  <2> HIDE DEF x
  <2> QED BY <1>1, <2>6, <2>7, SamePermit
<1> QED BY <1>2, <1>3

LEMMA SessionPreserves ==
  ASSUME IInv, NEW s \in Conns, Session(s)
  PROVE  IInv'
<1>1. CASE \E cl \in Clients : Accept(s, cl)
  BY <1>1, AcceptPreserves
<1>2. CASE SocksMethod(s)
  BY <1>2, StepPreserves, ClosePreserves DEF SocksMethod
<1>3. CASE SocksAuth(s) \/ HttpHeadDone(s) \/ ReadTarget(s) \/ DialOk(s)
  BY <1>3, StepPreserves, ClosePreserves DEF SocksAuth, HttpHeadDone, ReadTarget, DialOk
<1>4. CASE HttpReadMore(s) \/ Pick(s) \/ ReadClock(s) \/ Acquire(s)
  BY <1>4, ReadMorePreserves, PickPreserves, ReadClockPreserves, AcquirePreserves
<1>5. CASE \/ HeadTimeout(s) \/ BadTarget(s) \/ ClientGone(s)
           \/ DialFails(s) \/ DialTimeout(s) \/ RelayEnds(s)
  BY <1>5, ClosePreserves
     DEF HeadTimeout, BadTarget, ClientGone, DialFails, DialTimeout, RelayEnds
<1> QED BY <1>1, <1>2, <1>3, <1>4, <1>5 DEF Session

-----------------------------------------------------------------------------
(***************************************************************************)
(* The rest of the world.                                                  *)
(***************************************************************************)

\* A new generation starts with a full bucket, all its permits and no session; the
\* others keep theirs.
LEMMA ApplyPreserves ==
  ASSUME IInv, NEW c \in Saved, Apply(c)
  PROVE  IInv'
<1>1. /\ gens \in Seq(Saved) /\ permits \in Seq(Nat) /\ bucket \in Seq(Bucket)
      /\ spent \in Seq(Seq(Mark))
      /\ Len(gens) = Cur /\ Len(permits) = Cur /\ Len(bucket) = Cur /\ Len(spent) = Cur
      /\ Cur \in Nat \ {0} /\ Cur < MaxGen /\ now \in Nat /\ MaxGen \in Nat
  BY DEF IInv, Inv, TypeOK, GensInv, Cur, Gen, Apply
<1>2. /\ Permits(c) \in Nat /\ Rate(c) \in Nat \ {0} /\ Rate(c) * Second \in Nat
      /\ NewBucket(c, now) \in Bucket /\ <<>> \in Seq(Mark)
      /\ NewBucket(c, now).tokens = Rate(c) * Second /\ NewBucket(c, now).last = now
  <2>1. Permits(c) \in Nat /\ Rate(c) \in Nat \ {0}
    BY LimitValues
  <2>2. Rate(c) * Second \in Nat
    BY <2>1, ProductType
  <2> QED BY <1>1, <2>1, <2>2, EmptySeq DEF NewBucket, Bucket
<1> DEFINE k == Cur + 1
<1>3. /\ gens' \in Seq(Saved) /\ Cur' = k /\ gens'[k] = c
      /\ \A g \in 1..Cur : gens'[g] = gens[g]
  BY <1>1, AppendProperties DEF Apply, Cur
<1>4. /\ permits' \in Seq(Nat) /\ Len(permits') = k /\ permits'[k] = Permits(c)
      /\ \A g \in 1..Cur : permits'[g] = permits[g]
  BY <1>1, <1>2, AppendProperties DEF Apply
<1>5. /\ bucket' \in Seq(Bucket) /\ Len(bucket') = k /\ bucket'[k] = NewBucket(c, now)
      /\ \A g \in 1..Cur : bucket'[g] = bucket[g]
  BY <1>1, <1>2, AppendProperties DEF Apply
<1>6. /\ spent' \in Seq(Seq(Mark)) /\ Len(spent') = k /\ spent'[k] = <<>>
      /\ \A g \in 1..Cur : spent'[g] = spent[g]
  BY <1>1, <1>2, AppendProperties DEF Apply
<1>7. UNCHANGED <<conn, now, rr, healthy>>
  BY DEF Apply
<1>8. k \in 1..MaxGen /\ k \in Nat /\ \A g \in 1..k : g \in 1..Cur \/ g = k
  BY <1>1
<1>9. 1..Cur \subseteq 1..k /\ 0..Cur \subseteq 0..k
  BY <1>1
<1>10. Len(<<>>) = 0 /\ DOMAIN <<>> = {}
  OBVIOUS
<1> HIDE DEF k
<1>11. TypeOK'
  <2>1. ASSUME NEW g \in 1..k
        PROVE  /\ bucket'[g].tokens \in 0..(Rate(gens'[g]) * Second)
               /\ bucket'[g].last \in 0..now
    <3>1. CASE g \in 1..Cur
      BY <1>3, <1>5, <3>1 DEF IInv, Inv, TypeOK
    <3>2. CASE g = k
      BY <1>1, <1>2, <1>3, <1>5, <3>2
    <3> QED BY <1>8, <3>1, <3>2
  <2>2. \A s \in Conns : conn[s].gen \in 0..k /\ conn[s].at \in 0..now
    BY <1>9 DEF IInv, Inv, TypeOK
  <2>3. k \in Gen
    BY <1>8 DEF Gen
  <2> QED BY <1>3, <1>4, <1>7, <2>1, <2>2, <2>3 DEF IInv, Inv, TypeOK
<1>12. PermitsConserved'
  <2>1. \A g : Holders(g)' = Holders(g)
    BY <1>7 DEF Holders
  <2>2. \A s \in Conns : conn[s].gen # k
    BY <1>1, <1>8 DEF IInv, Inv, TypeOK, k
  <2>3. Holders(k) = {}
    BY <2>2 DEF Holders
  <2>4. Cardinality(Holders(k)) = 0
    BY <2>3, FS_EmptySet
  <2>5. ASSUME NEW g \in 1..k
        PROVE  permits'[g] + Cardinality(Holders(g)) = Permits(gens'[g])
    <3>1. CASE g \in 1..Cur
      BY <1>3, <1>4, <3>1 DEF IInv, Inv, PermitsConserved
    <3>2. CASE g = k
      BY <1>2, <1>3, <1>4, <2>4, <3>2
    <3> QED BY <1>8, <3>1, <3>2
  <2> QED BY <1>3, <2>1, <2>5 DEF PermitsConserved
<1>13. RateBounded'
  <2>1. ASSUME NEW g \in 1..k, NEW i \in DOMAIN spent'[g], NEW j \in DOMAIN spent'[g], i <= j
        PROVE  (j - i + 1) * Second
                 <= Rate(gens'[g]) * (Second + (spent'[g][j].last - spent'[g][i].last)
                                             + (spent'[g][j].back - spent'[g][i].back))
    <3>1. CASE g \in 1..Cur
      <4>1. gens'[g] = gens[g] /\ spent'[g] = spent[g]
        BY <1>3, <1>6, <3>1
      <4> QED BY <2>1, <3>1, <4>1 DEF IInv, RateBounded
    <3>2. CASE g = k
      BY <1>6, <1>10, <3>2
    <3> QED BY <1>8, <3>1, <3>2
  <2> QED BY <1>3, <2>1 DEF RateBounded
<1>14. GensInv'
  BY <1>3, <1>5, <1>6 DEF GensInv
<1>15. BucketInv'
  <2>1. ASSUME NEW g \in 1..k, NEW i \in 1..Len(spent'[g])
        PROVE  /\ Credit(spent'[g][i]) <= Credit(bucket'[g])
               /\ bucket'[g].tokens + (Len(spent'[g]) - i + 1) * Second
                    <= Rate(gens'[g]) * (Second + Credit(bucket'[g]) - Credit(spent'[g][i]))
    <3>1. CASE g \in 1..Cur
      <4>1. gens'[g] = gens[g] /\ spent'[g] = spent[g] /\ bucket'[g] = bucket[g]
        BY <1>3, <1>5, <1>6, <3>1
      <4> QED BY <2>1, <3>1, <4>1 DEF IInv, BucketInv
    <3>2. CASE g = k
      <4>1. i \in 1..0
        BY <1>6, <1>10, <3>2
      <4> QED BY <4>1
    <3> QED BY <1>8, <3>1, <3>2
  <2> QED BY <1>3, <2>1 DEF BucketInv
<1>16. SessionInv'
  <2>1. \A s \in Conns : conn[s].pc # "closed" =>
                           conn[s].gen \in 1..k /\ conn[s].who # None
    BY <1>9 DEF IInv, SessionInv
  <2>2. ASSUME NEW s \in Conns, conn[s].holds
        PROVE  /\ conn[s].pc \in {"request", "pick", "dial", "relay"}
               /\ gens'[conn[s].gen].maxConn # None
    <3>1. /\ conn[s].pc \in {"request", "pick", "dial", "relay"}
          /\ gens[conn[s].gen].maxConn # None /\ conn[s].gen \in 1..Cur
      BY <2>2 DEF IInv, SessionInv, Cfg
    <3> QED BY <1>3, <3>1
  <2> QED BY <1>3, <1>7, <2>1, <2>2 DEF IInv, SessionInv, Cfg
<1> QED BY <1>11, <1>12, <1>13, <1>14, <1>15, <1>16 DEF IInv, Inv

LEMMA WorldPreserves ==
  ASSUME IInv, Environment
  PROVE  IInv'
<1>1. CASE \E c \in Saved : Apply(c)
  BY <1>1, ApplyPreserves
<1>2. CASE \E i \in Instances : SetHealthy(i) \/ Degrade(i)
  <2>1. healthy' \subseteq Instances /\ UNCHANGED <<gens, limits, now, conn, rr>>
    BY <1>2 DEF SetHealthy, Degrade, IInv, Inv, TypeOK
  <2> QED BY <2>1
          DEF IInv, Inv, TypeOK, PermitsConserved, RateBounded, GensInv, SessionInv, BucketInv,
              Holders, Cfg, Cur, limits
<1>3. CASE Tick
  <2>1. UNCHANGED <<gens, limits, conn, rr, healthy>> /\ now' \in 0..MaxNow /\ now <= now'
        /\ now \in Nat /\ now' \in Nat
    BY <1>3 DEF Tick, IInv, Inv, TypeOK
  <2>2. TypeOK'
    <3>1. \A g \in 1..Cur : bucket[g].last \in 0..now'
      BY <2>1 DEF IInv, Inv, TypeOK
    <3>2. \A s \in Conns : conn[s].at \in 0..now'
      BY <2>1 DEF IInv, Inv, TypeOK
    <3> QED BY <2>1, <3>1, <3>2 DEF IInv, Inv, TypeOK, Cur, limits
  <2> QED BY <2>1, <2>2
          DEF IInv, Inv, PermitsConserved, RateBounded, GensInv, SessionInv, BucketInv,
              Holders, Cfg, Cur, limits
<1> QED BY <1>1, <1>2, <1>3 DEF Environment

LEMMA InitIInv == Init => IInv
<1> SUFFICES ASSUME Init PROVE IInv
  OBVIOUS
<1>1. PICK c \in Saved :
        /\ gens = <<c>> /\ permits = <<Permits(c)>> /\ now = 0
        /\ bucket = <<NewBucket(c, 0)>>
        /\ conn = [s \in Conns |-> Closed] /\ rr = 0 /\ healthy \in SUBSET Instances
        /\ spent = << <<>> >>
  BY DEF Init
<1>2. Permits(c) \in Nat /\ Rate(c) \in Nat \ {0} /\ Rate(c) * Second \in Nat
  BY LimitValues, ProductType
<1>3. /\ NewBucket(c, 0) \in Bucket /\ NewBucket(c, 0).tokens = Rate(c) * Second
      /\ NewBucket(c, 0).last = 0
  BY <1>2 DEF Bucket, NewBucket
<1>4. /\ gens \in Seq(Saved) /\ Cur = 1 /\ gens[1] = c
      /\ permits \in Seq(Nat) /\ Len(permits) = 1 /\ permits[1] = Permits(c)
      /\ bucket \in Seq(Bucket) /\ Len(bucket) = 1
      /\ bucket[1].tokens = Rate(c) * Second /\ bucket[1].last = 0
      /\ spent \in Seq(Seq(Mark)) /\ Len(spent) = 1 /\ spent[1] = <<>>
  BY <1>1, <1>2, <1>3 DEF Cur
<1>5. /\ Closed \in SessionOf /\ Closed.pc = "closed" /\ Closed.gen = 0
      /\ Closed.holds = FALSE /\ Closed.at = 0
  BY FreshSession
<1>6. conn \in [Conns -> SessionOf] /\ \A s \in Conns : conn[s] = Closed
  BY <1>1, <1>5
<1>7. 1..1 = {1} /\ 1 \in 1..MaxGen /\ 0 \in 0..MaxNow /\ 0 \in 0..0 /\ 0 \in 0..1
      /\ rr \in Nat /\ healthy \subseteq Instances
  BY <1>1
<1>8. TypeOK
  <2>1. Rate(c) * Second \in 0..(Rate(c) * Second)
    BY <1>2
  <2>2. \A s \in Conns : conn[s] \in SessionOf /\ conn[s].gen \in 0..Cur /\ conn[s].at \in 0..now
    BY <1>1, <1>4, <1>5, <1>6, <1>7
  <2>3. \A g \in 1..Cur : bucket[g].tokens \in 0..(Rate(gens[g]) * Second)
                          /\ bucket[g].last \in 0..now
    BY <1>1, <1>4, <1>7, <2>1
  <2> QED BY <1>1, <1>4, <1>7, <2>2, <2>3 DEF TypeOK, Gen, SessionOf
<1>9. PermitsConserved
  <2>1. Holders(1) = {}
    BY <1>5, <1>6 DEF Holders
  <2>2. Cardinality(Holders(1)) = 0
    BY <2>1, FS_EmptySet
  <2> QED BY <1>2, <1>4, <1>7, <2>2 DEF PermitsConserved
<1>10. RateBounded /\ BucketInv
  <2>1. DOMAIN spent[1] = {} /\ 1..Len(spent[1]) = {}
    BY <1>4
  <2> QED BY <1>4, <1>7, <2>1 DEF RateBounded, BucketInv
<1>11. GensInv /\ SessionInv
  BY <1>4, <1>5, <1>6 DEF GensInv, SessionInv
<1> QED BY <1>8, <1>9, <1>10, <1>11 DEF IInv, Inv

-----------------------------------------------------------------------------
(***************************************************************************)
(* The theorems.                                                           *)
(***************************************************************************)

\* IInv holds of every behaviour, for any number of connections, of instances and of
\* configurations: the sessions of handle_conn, SessionLimits, TokenBucket and the pool.
THEOREM SessionsInvariance == Spec => []IInv
<1>1. IInv /\ [Next]_vars => IInv'
  <2> SUFFICES ASSUME IInv, [Next]_vars PROVE IInv'
    OBVIOUS
  <2>1. CASE Environment
    BY <2>1, WorldPreserves
  <2>2. CASE \E s \in Conns : Session(s)
    BY <2>2, SessionPreserves
  <2>3. CASE UNCHANGED vars
    BY <2>3
       DEF IInv, Inv, TypeOK, PermitsConserved, RateBounded, GensInv, SessionInv, BucketInv,
           Holders, Cfg, Cur, vars
  <2> QED BY <2>1, <2>2, <2>3 DEF Next
<1> QED BY <1>1, InitIInv, PTL DEF Spec

\* No permit of SessionLimits is lost and none made up, whichever way sessions end and
\* however often the gateway is rebuilt; no bucket is fuller than one second of its rate.
THEOREM PermitsAddUp == Spec => []Inv
<1>1. IInv => Inv
  BY DEF IInv
<1> QED BY <1>1, SessionsInvariance, PTL

\* Between no two takings does TokenBucket::try_take let more through than a full bucket
\* and the refill of the time between their clock readings, and what sessions that were
\* late at its locks had it refill again.
THEOREM RateIsKept == Spec => []RateBounded
<1>1. IInv => RateBounded
  BY DEF IInv
<1> QED BY <1>1, SessionsInvariance, PTL

-----------------------------------------------------------------------------
(***************************************************************************)
(* Strangers: the allowlist and the password.                              *)
(***************************************************************************)

\* config.rs, parse_cidr and client_allowed: arithmetic of one entry.  An address that
\* agrees with a network above the host bits lies in its block, which starts at the
\* network's address if that has no host bits.
LEMMA Divides ==
  ASSUME NEW h \in Nat \ {0}, NEW n \in Nat
  PROVE  n \div h \in Nat /\ n % h \in 0..(h - 1) /\ n = h * (n \div h) + (n % h)
<1>1. n \div h \in Nat
  OBVIOUS
<1>2. n % h \in 0..(h - 1)
  OBVIOUS
<1>3. n = h * (n \div h) + (n % h)
  OBVIOUS
<1> QED BY <1>1, <1>2, <1>3

LEMMA InItsBlock ==
  ASSUME NEW h \in Nat \ {0}, NEW net \in Nat, NEW n \in Nat, n \div h = net \div h
  PROVE  /\ n \in (net - (net % h))..(net - (net % h) + h - 1)
         /\ net % h = 0 => net \div h \in 0..net /\ net = (net \div h) * h
<1> DEFINE q == net \div h
           r == net % h
<1>1. q \in Nat /\ net = h * q + r /\ r \in 0..(h - 1)
  BY Divides
<1>2. n = h * (n \div h) + (n % h) /\ n % h \in 0..(h - 1)
  BY Divides
<1>3. n = h * q + (n % h)
  BY <1>2
<1>4. h * q = q * h /\ q <= q * h /\ h * q \in Nat
  BY <1>1
<1> HIDE DEF q, r
<1>5. n = (net - r) + (n % h)
  BY <1>1, <1>2, <1>3, <1>4
<1>6. n \in (net - r)..(net - r + h - 1)
  BY <1>1, <1>2, <1>5
<1>7. r = 0 => net = q * h /\ q \in 0..net
  BY <1>1, <1>4
<1> QED BY <1>6, <1>7 DEF q, r

LEMMA SavedAllow ==
  ASSUME NEW c \in Saved, NEW e \in c.allow, e.fam \in DOMAIN Width
  PROVE  /\ e.net \in 0..(2^Width[e.fam]) /\ e.prefix \subseteq Nat
         /\ \A x, y \in e.prefix : x = y
<1>1. PICK d \in Configs : c = FromRow(ToRow(d))
  BY DEF Saved
<1>2. d = [allow |-> d.allow, auth |-> d.auth, maxConn |-> d.maxConn, maxRps |-> d.maxRps]
  BY ConfigsAssumption
<1>3. DOMAIN d = {"allow", "auth", "maxConn", "maxRps"}
  BY <1>2
<1>4. "allow" \in DOMAIN ToRow(d) /\ ToRow(d).allow = d.allow
  BY <1>3 DEF ToRow
<1>5. c.allow = {x \in d.allow : x.fam # "blank"}
  BY <1>1, <1>4 DEF FromRow
<1>6. e \in d.allow
  BY <1>5
<1> QED BY <1>6, ConfigsAssumption

\* Whom an entry admits is in its block, and the entry is a block.
LEMMA AdmittedIsInBlock ==
  ASSUME NEW c \in Saved, NEW cl \in Clients, NEW e \in c.allow,
         ParseCidr(e), NetContains(e, cl.ip)
  PROVE  e \in Blocks(c) /\ cl.ip \in Block(e)
<1> DEFINE W == Width[e.fam]
           N == cl.ip.n
<1>1. /\ e.fam \in DOMAIN Width /\ e.fam = cl.ip.fam
      /\ cl.ip = [fam |-> e.fam, n |-> N] /\ N \in Nat
  BY ClientsAssumption DEF ParseCidr, NetContains
<1>2. /\ W \in Nat /\ 2^(W - W) = 1 /\ 2^W \in Nat
      /\ \A p \in 0..W : 2^(W - p) \in Nat \ {0}
  BY <1>1, WidthAssumption
<1>3. /\ e.net \in 0..(2^W) /\ e.prefix \subseteq Nat /\ \A x, y \in e.prefix : x = y
  BY <1>1, SavedAllow
<1>4. LET host == 2^(W - Min({W} \cup e.prefix)) IN N \div host = e.net \div host
  BY DEF NetContains
<1> DEFINE Net == e.net
<1>5. Net \in Nat /\ Net <= 2^W
  BY <1>2, <1>3
<1>6. CASE e.prefix = {}
  <2>1. Min({W} \cup e.prefix) = W
    <3>1. {W} \cup e.prefix = {W, W}
      BY <1>6
    <3>2. Min({W, W}) \in {W, W}
      <4>1. \E x \in {W, W} : \A y \in {W, W} : x =< y
        BY <1>2
      <4> QED BY <4>1 DEF Min
    <3> QED BY <3>1, <3>2
  <2>2. N \div 1 = Net \div 1
    BY <1>2, <1>4, <2>1
  <2>3. N = Net
    BY <1>1, <1>5, <2>2
  <2>4. N \in (Net - (Net % 2^(W - W)))..(Net - (Net % 2^(W - W)) + 2^(W - W) - 1)
    <3>1. Net % 1 = 0
      BY <1>5
    <3> QED BY <1>1, <1>2, <1>5, <2>3, <3>1
  <2>5. cl.ip \in Block(e)
    BY <1>1, <1>6, <2>4 DEF Block, None
  <2>6. e \in Blocks(c)
    BY <1>6 DEF Blocks
  <2> QED BY <2>5, <2>6
<1>7. ASSUME NEW p \in e.prefix PROVE e \in Blocks(c) /\ cl.ip \in Block(e)
  <2>1. /\ p \in Nat /\ p <= W /\ e.prefix = {p}
        /\ Net % 2^(W - p) = 0 \/ (e.fam = "v6" /\ p = 0)
    BY <1>3, <1>7 DEF ParseCidr
  <2>2. Min({W} \cup e.prefix) = p
    <3>1. {W} \cup e.prefix = {W, p}
      BY <2>1
    <3>2. \E x \in {W, p} : \A y \in {W, p} : x =< y
      BY <1>2, <2>1
    <3>3. Min({W, p}) \in {W, p} /\ Min({W, p}) <= p
      BY <3>2 DEF Min
    <3>4. Min({W, p}) = p
      BY <1>2, <2>1, <3>3
    <3> QED BY <3>1, <3>4, Zenon
  <2> DEFINE h == 2^(W - p)
  <2>3. h \in Nat \ {0}
    BY <1>2, <2>1
  <2>4. N \div h = Net \div h /\ (Net % h = 0 \/ (e.fam = "v6" /\ p = 0))
    BY <1>4, <2>1, <2>2
  <2> HIDE DEF h
  <2>5. /\ N \in (Net - (Net % h))..(Net - (Net % h) + h - 1)
        /\ Net % h = 0 => Net \div h \in 0..Net /\ Net = (Net \div h) * h
    BY <1>1, <1>5, <2>3, <2>4, InItsBlock
  <2>6. cl.ip \in Block(e)
    <3>1. e.prefix # None
      BY <2>1 DEF None
    <3> QED BY <1>1, <1>7, <2>5, <3>1 DEF Block, h
  <2>7. \E k \in 0..(2^W) : p <= W /\ (e.net = k * 2^(W - p) \/ (e.fam = "v6" /\ p = 0))
    <3>1. CASE Net % h = 0
      <4>1. Net \div h \in 0..(2^W)
        BY <1>2, <1>5, <2>5, <3>1
      <4> QED BY <2>1, <2>5, <3>1, <4>1 DEF h
    <3>2. CASE e.fam = "v6" /\ p = 0
      <4>1. 0 \in 0..(2^W)
        BY <1>2
      <4> QED BY <2>1, <3>2, <4>1
    <3> QED BY <2>4, <3>1, <3>2
  <2>8. e \in Blocks(c)
    BY <2>1, <2>7 DEF Blocks
  <2> QED BY <2>6, <2>8
<1> QED BY <1>6, <1>7

Behind == {"limits", "take", "request", "pick", "dial", "relay"}

\* One session moves: it ends, or keeps its caller and its generation, and is not past
\* the authentication without a password where it was not before.
LEMMA GuardStep ==
  ASSUME GuardInv, UNCHANGED gens, NEW s \in Conns, \A t \in Conns : t # s => conn'[t] = conn[t],
         \/ conn'[s].pc = "closed"
         \/ /\ conn[s].pc # "closed"
            /\ conn'[s].gen = conn[s].gen /\ conn'[s].who = conn[s].who
            /\ conn'[s].pc \in Behind =>
                 conn[s].pc \in Behind \/ VerifyCredentials(Cfg(s), Who(s))
  PROVE  GuardInv'
<1> SUFFICES ASSUME NEW t \in Conns, conn'[t].pc # "closed"
             PROVE  /\ ClientAllowed(Cfg(t)', Who(t)')
                    /\ conn'[t].pc \in Behind => VerifyCredentials(Cfg(t)', Who(t)')
  BY DEF GuardInv, Behind
<1>1. conn'[t].gen = conn[t].gen /\ conn'[t].who = conn[t].who /\ conn[t].pc # "closed"
  OBVIOUS
<1>2. Cfg(t)' = Cfg(t)
  BY <1>1 DEF Cfg
<1>3. Who(t)' = Who(t)
  BY <1>1, Zenon DEF Who
<1>4. conn'[t].pc \in Behind => VerifyCredentials(Cfg(t), Who(t))
  BY DEF GuardInv, Behind
<1>5. ClientAllowed(Cfg(t), Who(t))
  BY <1>1 DEF GuardInv
<1> QED BY <1>2, <1>3, <1>4, <1>5

LEMMA GuardClose ==
  ASSUME IInv, GuardInv, NEW s \in Conns, conn' = [conn EXCEPT ![s] = Closed], UNCHANGED gens
  PROVE  GuardInv'
<1>1. conn \in [Conns -> SessionOf] /\ Closed.pc = "closed"
  BY FreshSession DEF IInv, SessionInv
<1>2. conn'[s].pc = "closed" /\ \A t \in Conns : t # s => conn'[t] = conn[t]
  BY <1>1
<1> QED BY <1>2, GuardStep

\* socks5.rs, http.rs: method and password; the limits are behind them.
LEMMA GuardSession ==
  ASSUME IInv, GuardInv, NEW s \in Conns, Session(s)
  PROVE  GuardInv'
<1>0. /\ conn \in [Conns -> SessionOf] /\ conn[s] \in SessionOf /\ UNCHANGED gens
  BY DEF IInv, SessionInv, Session, Accept, SocksMethod, SocksAuth, HttpReadMore,
         HttpHeadDone, HeadTimeout, ReadClock, Acquire, ReadTarget, BadTarget, ClientGone, Pick, DialOk,
         DialFails, DialTimeout, RelayEnds
<1>1. ASSUME NEW cl \in Clients, Accept(s, cl) PROVE GuardInv'
  <2>1. CASE ~ClientAllowed(gens[Cur], cl)
    <3>1. conn' = [conn EXCEPT ![s] = Closed]
      BY <1>1, <2>1 DEF Accept
    <3> QED BY <1>0, <3>1, GuardClose
  <2>2. CASE ClientAllowed(gens[Cur], cl)
    <3> DEFINE to == IF cl.proto = "socks5" THEN "method" ELSE "head"
               x == [Closed EXCEPT !.pc = to, !.who = {cl}, !.gen = Cur, !.rr = rr]
    <3>1. conn' = [conn EXCEPT ![s] = x]
      BY <1>1, <2>2 DEF Accept
    <3>2. to \notin Behind
      BY DEF Behind
    <3> HIDE DEF to
    <3>3. x.pc = to /\ x.who = {cl} /\ x.gen = Cur
      BY FreshSession DEF SessionOf
    <3> HIDE DEF x
    <3>4. conn'[s] = x /\ \A t \in Conns : t # s => conn'[t] = conn[t]
      BY <1>0, <3>1
    <3>5. Cfg(s)' = gens[Cur] /\ Who(s)' = cl
      BY <1>0, <3>3, <3>4 DEF Cfg, Who
    <3>6. ASSUME NEW t \in Conns, t # s
          PROVE  /\ conn'[t].pc # "closed" => ClientAllowed(Cfg(t)', Who(t)')
                 /\ conn'[t].pc \in Behind => VerifyCredentials(Cfg(t)', Who(t)')
      <4>1. Who(t)' = Who(t)
        BY <3>4, <3>6, Zenon DEF Who
      <4>2. Cfg(t)' = Cfg(t)
        BY <1>0, <3>4, <3>6 DEF Cfg
      <4> QED BY <3>4, <3>6, <4>1, <4>2 DEF GuardInv, Behind
    <3>7. /\ ClientAllowed(Cfg(s)', Who(s)')
          /\ conn'[s].pc \notin Behind
      BY <2>2, <3>2, <3>3, <3>4, <3>5
    <3> QED BY <3>6, <3>7 DEF GuardInv, Behind
  <2> QED BY <2>1, <2>2
<1>2. ASSUME NEW from, NEW to, Step(s, from, to), from # "closed",
             to \in Behind => from \in Behind \/ VerifyCredentials(Cfg(s), Who(s))
      PROVE  GuardInv'
  <2>1. conn' = [conn EXCEPT ![s].pc = to] /\ conn[s].pc = from
    BY <1>2 DEF Step
  <2>2. /\ conn'[s].pc = to /\ conn'[s].gen = conn[s].gen /\ conn'[s].who = conn[s].who
        /\ \A t \in Conns : t # s => conn'[t] = conn[t]
    BY <1>0, <2>1 DEF SessionOf
  <2> QED BY <1>0, <1>2, <2>1, <2>2, GuardStep
<1>3. ASSUME Close(s) PROVE GuardInv'
  BY <1>0, <1>3, GuardClose DEF Close
<1>4. CASE SocksMethod(s)
  <2>1. Cfg(s).auth = None => VerifyCredentials(Cfg(s), Who(s))
    BY DEF VerifyCredentials
  <2> QED BY <1>2, <1>3, <1>4, <2>1 DEF SocksMethod, Behind
<1>5. CASE SocksAuth(s) \/ HttpHeadDone(s) \/ ReadTarget(s) \/ DialOk(s)
  BY <1>2, <1>3, <1>5 DEF SocksAuth, HttpHeadDone, ReadTarget, DialOk, Behind
<1>6. CASE HttpReadMore(s)
  <2>1. CASE conn[s].chunks < MaxChunks
    <3>1. conn' = [conn EXCEPT ![s].chunks = @ + 1] /\ conn[s].pc = "head"
      BY <1>6, <2>1 DEF HttpReadMore
    <3>2. /\ conn'[s].pc = "head" /\ conn'[s].gen = conn[s].gen /\ conn'[s].who = conn[s].who
          /\ \A t \in Conns : t # s => conn'[t] = conn[t]
      BY <1>0, <3>1 DEF SessionOf
    <3> QED BY <1>0, <3>1, <3>2, GuardStep DEF Behind
  <2>2. CASE ~(conn[s].chunks < MaxChunks)
    BY <1>3, <1>6, <2>2 DEF HttpReadMore
  <2> QED BY <2>1, <2>2
<1>7. CASE Acquire(s)
  <2>1. conn[s].pc \in {"limits", "take"}
    BY <1>7 DEF Acquire
  <2>2. /\ \A t \in Conns : t # s => conn'[t] = conn[t]
        /\ \/ conn'[s].pc = "closed"
           \/ conn'[s].gen = conn[s].gen /\ conn'[s].who = conn[s].who
    BY <1>7, AcquirePermits, FreshSession
  <2> QED BY <1>0, <2>1, <2>2, GuardStep DEF Behind
<1>8. CASE Pick(s)
  <2>1. CASE healthy = {}
    BY <1>3, <1>8, <2>1 DEF Pick
  <2>2. CASE healthy # {}
    <3>1. PICK id : conn' = [conn EXCEPT ![s].pc = "dial", ![s].rr = @ + 1, ![s].up = {id}]
      BY <1>8, <2>2 DEF Pick
    <3>2. /\ conn'[s].gen = conn[s].gen /\ conn'[s].who = conn[s].who /\ conn[s].pc = "pick"
          /\ \A t \in Conns : t # s => conn'[t] = conn[t]
      BY <1>0, <1>8, <3>1 DEF SessionOf, Pick
    <3> QED BY <1>0, <3>2, GuardStep DEF Behind
  <2> QED BY <2>1, <2>2
<1>9. CASE ReadClock(s)
  <2>1. conn' = [conn EXCEPT ![s].pc = "take", ![s].at = now] /\ conn[s].pc = "limits"
    BY <1>9 DEF ReadClock
  <2>2. /\ conn'[s].gen = conn[s].gen /\ conn'[s].who = conn[s].who
        /\ \A t \in Conns : t # s => conn'[t] = conn[t]
    BY <1>0, <2>1 DEF SessionOf
  <2> QED BY <1>0, <2>1, <2>2, GuardStep DEF Behind
<1>10. CASE \/ HeadTimeout(s) \/ BadTarget(s) \/ ClientGone(s)
            \/ DialFails(s) \/ DialTimeout(s) \/ RelayEnds(s)
  BY <1>3, <1>10 DEF HeadTimeout, BadTarget, ClientGone, DialFails, DialTimeout, RelayEnds
<1> QED BY <1>1, <1>4, <1>5, <1>6, <1>7, <1>8, <1>9, <1>10 DEF Session

\* Whatever else happens, a session keeps the configuration it was accepted under.
LEMMA GuardWorld ==
  ASSUME IInv, GuardInv, Environment \/ UNCHANGED vars
  PROVE  GuardInv'
<1>1. conn' = conn
  BY DEF Environment, Apply, SetHealthy, Degrade, Tick, vars
<1>2. gens \in Seq(Saved) /\ Cur = Len(gens)
  BY DEF IInv, Inv, TypeOK, Cur
<1>3. \A g \in 1..Cur : gens'[g] = gens[g]
  <2>1. CASE UNCHANGED gens
    BY <2>1
  <2>2. CASE \E c \in Saved : Apply(c)
    BY <1>2, <2>2, AppendProperties DEF Apply
  <2> QED BY <2>1, <2>2 DEF Environment, SetHealthy, Degrade, Tick, vars
<1>4. ASSUME NEW t \in Conns, conn[t].pc # "closed"
      PROVE  /\ ClientAllowed(Cfg(t)', Who(t)')
             /\ conn[t].pc \in Behind => VerifyCredentials(Cfg(t)', Who(t)')
  <2>1. conn[t].gen \in 1..Cur
    BY <1>4 DEF IInv, SessionInv
  <2>2. Cfg(t)' = Cfg(t)
    BY <1>1, <1>3, <2>1 DEF Cfg
  <2>3. Who(t)' = Who(t)
    BY <1>1, Zenon DEF Who
  <2> QED BY <1>4, <2>2, <2>3 DEF GuardInv, Behind
<1> QED BY <1>1, <1>4 DEF GuardInv, Behind

LEMMA GuardInvariance == Spec => []GuardInv
<1>1. Init => GuardInv
  BY DEF Init, GuardInv, Closed
<1>2. IInv /\ GuardInv /\ [Next]_vars => GuardInv'
  BY GuardSession, GuardWorld DEF Next
<1> QED BY <1>1, <1>2, SessionsInvariance, PTL DEF Spec

\* socks5.rs and http.rs: whoever gets as far as SessionLimits::acquire is inside a block
\* of the allowlist that it was accepted under, if there is one, and has the password.
THEOREM StrangersAreStopped == Spec => StrangersCostNothing
<1>1. IInv /\ GuardInv /\ [Next]_vars =>
        [\A s \in Conns :
           conn[s].pc = "limits" /\ conn'[s].pc # "limits" =>
             /\ \/ Cfg(s).allow = {}
                \/ \E e \in Blocks(Cfg(s)) : Who(s).ip \in Block(e)
             /\ VerifyCredentials(Cfg(s), Who(s))]_vars
  <2> SUFFICES ASSUME IInv, GuardInv, NEW s \in Conns, conn[s].pc = "limits"
               PROVE  /\ \/ Cfg(s).allow = {}
                         \/ \E e \in Blocks(Cfg(s)) : Who(s).ip \in Block(e)
                      /\ VerifyCredentials(Cfg(s), Who(s))
    OBVIOUS
  <2>1. conn[s].gen \in 1..Cur /\ conn[s].who # None /\ conn[s].who \in Options(Clients)
    BY DEF IInv, SessionInv, SessionOf
  <2>2. Who(s) \in Clients
    BY <2>1 DEF Who, Options
  <2>3. Cfg(s) \in Saved
    BY <2>1, ElementOfSeq DEF IInv, Inv, TypeOK, Cur, Cfg
  <2>4. ClientAllowed(Cfg(s), Who(s)) /\ VerifyCredentials(Cfg(s), Who(s))
    BY DEF GuardInv
  <2>5. CASE Cfg(s).allow # {}
    <3>1. PICK e \in Cfg(s).allow : ParseCidr(e) /\ NetContains(e, Who(s).ip)
      BY <2>4, <2>5 DEF ClientAllowed
    <3> QED BY <2>2, <2>3, <2>4, <3>1, AdmittedIsInBlock
  <2> QED BY <2>4, <2>5
<1> QED BY <1>1, SessionsInvariance, GuardInvariance, PTL DEF Spec, StrangersCostNothing

=============================================================================
