------------------------- MODULE StageFanoutProofs -------------------------
(***************************************************************************)
(* What is proved of the names of a stage's fan-out for every strategy and *)
(* every deployment block, of any number of axes, values and environments. *)
(***************************************************************************)
EXTENDS StageFanout, FiniteSetTheorems, FunctionTheorems, SequenceTheorems, WellFoundedInduction, TLAPS

-----------------------------------------------------------------------------
(* Concatenation of a sequence of sequences.                               *)

LEMMA Least ==
  ASSUME NEW T \in SUBSET Nat, T # {}
  PROVE  \E n \in T : \A m \in T : n <= m
<1>1. PICK n \in T : \A m \in T : <<m, n>> \notin OpToRel(<, Nat)
  BY WFMin, NatLessThanWellFounded
<1>2. \A m \in T : ~ (m < n)
  BY <1>1 DEF OpToRel
<1>. QED
  BY <1>2

\* g concatenates the first sequences of s, up to the n-th.
Concatenates(g, s, n) == g = [i \in 1..n |-> IF i = 1 THEN s[i] ELSE g[i - 1] \o s[i]]

LEMMA ConcatenationExists ==
  ASSUME NEW s, NEW n \in Nat
  PROVE  \E g : Concatenates(g, s, n)
<1>. DEFINE T == {m \in Nat : ~ \E g : Concatenates(g, s, m)}
<1>. SUFFICES ASSUME T # {} PROVE FALSE
  OBVIOUS
<1>1. PICK m \in T : \A k \in T : m <= k
  BY Least
<1>2. CASE m = 0
  <2>. DEFINE g == [i \in 1..0 |-> s[i]]
  <2>1. Concatenates(g, s, m)
    BY <1>2 DEF Concatenates
  <2>. QED
    BY <2>1
<1>3. CASE m # 0
  <2>1. m - 1 \in Nat /\ m - 1 \notin T /\ m \in Nat
    BY <1>1, <1>3
  <2>2. PICK h : Concatenates(h, s, m - 1)
    BY <2>1
  <2>. DEFINE g == [i \in 1..m |-> IF i = m THEN IF i = 1 THEN s[i] ELSE h[i - 1] \o s[i] ELSE h[i]]
  <2>3. ASSUME NEW i \in 1..m PROVE g[i] = IF i = 1 THEN s[i] ELSE g[i - 1] \o s[i]
    <3>1. CASE i = m
      <4>1. i # 1 => i - 1 \in 1..m /\ i - 1 # m
        BY <2>1
      <4>. QED
        BY <3>1, <4>1
    <3>2. CASE i # m
      <4>1. i \in 1..m - 1 /\ (i # 1 => i - 1 \in 1..m /\ i - 1 # m)
        BY <2>1, <3>2
      <4>2. h[i] = IF i = 1 THEN s[i] ELSE h[i - 1] \o s[i]
        BY <2>2, <4>1 DEF Concatenates
      <4>. QED
        BY <3>2, <4>1, <4>2
    <3>. QED
      BY <3>1, <3>2
  <2>4. g = [i \in 1..m |-> IF i = 1 THEN s[i] ELSE g[i - 1] \o s[i]]
    <3>1. DOMAIN g = 1..m /\ g = [i \in 1..m |-> g[i]]
      OBVIOUS
    <3>. HIDE DEF g
    <3>. QED
      BY <2>3, <3>1
  <2>. QED
    BY <2>4 DEF Concatenates
<1>. QED
  BY <1>2, <1>3

LEMMA FlattenConcatenates ==
  ASSUME NEW s, Len(s) \in Nat, Len(s) # 0
  PROVE  \E g : Concatenates(g, s, Len(s)) /\ FlattenSeq(s) = g[Len(s)]
<1>. DEFINE g == CHOOSE h : Concatenates(h, s, Len(s))
<1>1. Concatenates(g, s, Len(s))
  BY ConcatenationExists
<1>2. FlattenSeq(s) = g[Len(s)]
  BY DEF FlattenSeq, Concatenates
<1>. QED
  BY <1>1, <1>2

\* The places in the first n sequences of s.
Places(s, n) == UNION {{i} \X DOMAIN s[i] : i \in 1..n}

(* The concatenation has as many elements as its parts have together.      *)
LEMMA FlattenParts ==
  ASSUME NEW X, NEW s \in Seq(Seq(X)), s # <<>>
  PROVE  /\ FlattenSeq(s) \in Seq(X)
         /\ IsFiniteSet(Places(s, Len(s))) /\ Len(FlattenSeq(s)) = Cardinality(Places(s, Len(s)))
<1>1. Len(s) \in Nat /\ Len(s) # 0
  BY EmptySeq
<1>2. PICK g : Concatenates(g, s, Len(s)) /\ FlattenSeq(s) = g[Len(s)]
  BY <1>1, FlattenConcatenates
<1>. DEFINE Holds(m) == /\ g[m] \in Seq(X) /\ IsFiniteSet(Places(s, m))
                        /\ Len(g[m]) = Cardinality(Places(s, m))
            T == {m \in 1..Len(s) : ~ Holds(m)}
<1>0. Len(s) \in 1..Len(s)
  BY <1>1
<1>. SUFFICES ASSUME T # {} PROVE FALSE
  <2>1. Holds(Len(s))
    BY <1>0
  <2>. QED
    BY <1>2, <2>1
<1>3. T \in SUBSET Nat
  OBVIOUS
<1>4. PICK m \in T : \A k \in T : m <= k
  BY <1>3, Least
<1>5. m \in Nat /\ m \in 1..Len(s) /\ s[m] \in Seq(X)
  BY <1>1, <1>4
<1>6. g[m] = IF m = 1 THEN s[m] ELSE g[m - 1] \o s[m]
  BY <1>2, <1>5 DEF Concatenates
<1>. DEFINE last == {m} \X DOMAIN s[m]
<1>7. IsFiniteSet(last) /\ Cardinality(last) = Len(s[m]) /\ Len(s[m]) \in Nat
  <2>1. DOMAIN s[m] = 1..Len(s[m]) /\ Len(s[m]) \in Nat
    BY <1>5, LenProperties
  <2>2. IsFiniteSet(1..Len(s[m])) /\ Cardinality(1..Len(s[m])) = Len(s[m])
    <3>. DEFINE n == Len(s[m])
    <3>1. n \in Nat
      BY <2>1
    <3>. HIDE DEF n
    <3>2. 1 \in Int /\ n \in Int
      BY <3>1
    <3>3. IsFiniteSet(1..n) /\ Cardinality(1..n) = IF 1 > n THEN 0 ELSE n - 1 + 1
      BY <3>2, FS_Interval
    <3>4. Cardinality(1..n) = n
      BY <3>1, <3>3
    <3>. QED
      BY <3>3, <3>4 DEF n
  <2>3. IsFiniteSet({m}) /\ Cardinality({m}) = 1
    BY FS_Singleton
  <2>4. IsFiniteSet(last) /\ Cardinality(last) = 1 * Len(s[m])
    <3>. DEFINE D == DOMAIN s[m]
    <3>1. IsFiniteSet(D) /\ Cardinality(D) = Len(s[m])
      BY <2>1, <2>2
    <3>. HIDE DEF D
    <3>2. IsFiniteSet({m} \X D) /\ Cardinality({m} \X D) = Cardinality({m}) * Cardinality(D)
      BY <2>3, <3>1, FS_Product
    <3>. QED
      BY <2>3, <3>1, <3>2 DEF D
  <2>. QED
    BY <2>1, <2>4
<1>8. CASE m = 1
  <2>1. Places(s, m) = last
    BY <1>8 DEF Places
  <2>. QED
    BY <1>4, <1>5, <1>6, <1>7, <1>8, <2>1
<1>9. CASE m # 1
  <2>1. m - 1 \in 1..Len(s) /\ m - 1 \notin T
    BY <1>1, <1>4, <1>5, <1>9
  <2>2. Holds(m - 1)
    BY <2>1
  <2>3. Places(s, m) = Places(s, m - 1) \cup last
    <3>1. 1..m = (1..m - 1) \cup {m}
      BY <1>5, <2>1
    <3>. QED
      BY <3>1 DEF Places
  <2>4. Places(s, m - 1) \cap last = {}
    <3>1. \A i \in 1..m - 1 : i # m
      BY <1>5
    <3>. QED
      BY <3>1 DEF Places
  <2>5. /\ IsFiniteSet(Places(s, m))
        /\ Cardinality(Places(s, m)) = Cardinality(Places(s, m - 1)) + Cardinality(last) - Cardinality({})
    <3>. DEFINE A == Places(s, m - 1)
    <3>1. IsFiniteSet(A) /\ IsFiniteSet(last)
      BY <1>7, <2>2
    <3>. HIDE DEF A, last
    <3>2. /\ IsFiniteSet(A \cup last)
          /\ Cardinality(A \cup last) = Cardinality(A) + Cardinality(last) - Cardinality(A \cap last)
      BY <3>1, FS_Union
    <3>3. A \cap last = {} /\ Places(s, m) = A \cup last
      BY <2>3, <2>4 DEF A
    <3>. QED
      BY <3>2, <3>3 DEF A
  <2>6. Cardinality({}) = 0
    BY FS_EmptySet
  <2>7. g[m] \in Seq(X) /\ Len(g[m]) = Len(g[m - 1]) + Len(s[m])
    <3>1. g[m] = g[m - 1] \o s[m] /\ g[m - 1] \in Seq(X)
      BY <1>6, <1>9, <2>2
    <3>. QED
      BY <1>5, <3>1, ConcatProperties
  <2>8. Cardinality(Places(s, m - 1)) \in Nat
    BY <2>2, FS_CardinalityType
  <2>9. Holds(m)
    BY <1>7, <2>2, <2>5, <2>6, <2>7, <2>8
  <2>. QED
    BY <1>4, <2>9
<1>. QED
  BY <1>8, <1>9

-----------------------------------------------------------------------------
(* Counting names.                                                         *)

(* Different members of a finite set that get different names get as many  *)
(* names as there are members.                                             *)
LEMMA OneNameEach ==
  ASSUME NEW S, NEW N, NEW f \in [S -> N], IsFiniteSet(S),
         \A x, y \in S : f[x] = f[y] => x = y, \A n \in N : \E x \in S : f[x] = n
  PROVE  Cardinality(N) = Cardinality(S)
<1>1. f \in Injection(S, N)
  BY Fun_IsInj
<1>2. f \in Surjection(S, N)
  BY DEF Surjection
<1>3. ExistsBijection(S, N)
  BY <1>1, <1>2 DEF ExistsBijection, Bijection
<1>. QED
  BY <1>3, FS_Bijection

LEMMA Counted ==
  ASSUME NEW n \in Nat
  PROVE  IsFiniteSet(1..n) /\ Cardinality(1..n) = n
<1>1. 1 \in Int /\ n \in Int
  OBVIOUS
<1>2. IsFiniteSet(1..n) /\ Cardinality(1..n) = IF 1 > n THEN 0 ELSE n - 1 + 1
  BY <1>1, FS_Interval
<1>. QED
  BY <1>2

LEMMA IndexPositions ==
  /\ Len(IndexTokens) \in Nat /\ Positions = 1..Len(IndexTokens)
  /\ \A i \in Positions : IndexTokens[i] \in STRING
  /\ \A i, j \in Positions : IndexTokens[i] = IndexTokens[j] => i = j
BY IndexAssumption, LenProperties DEF Positions

\* What a name is.
Names == Seq(STRING) \ {<<>>}

LEMMA Truncated ==
  ASSUME NEW s \in Names
  PROVE  Truncate(s) \in Names
<1>1. SuffixCap \in Nat \ {0} /\ s \in Seq(STRING) /\ Len(s) \in Nat \ {0}
  BY SuffixCapAssumption, EmptySeq DEF Names
<1>. DEFINE n == IF Len(s) > SuffixCap THEN SuffixCap ELSE Len(s)
<1>2. n \in Nat \ {0} /\ n <= Len(s)
  BY <1>1
<1>3. \A i \in 1..n : s[i] \in STRING
  BY <1>1, <1>2, ElementOfSeq
<1>. HIDE DEF n
<1>4. SubSeq(s, 1, n) \in Seq(STRING) /\ Len(SubSeq(s, 1, n)) = IF 1 <= n THEN n - 1 + 1 ELSE 0
  BY <1>2, <1>3, SubSeqProperties
<1>5. SubSeq(s, 1, n) # <<>>
  BY <1>2, <1>4, EmptySeq
<1>. QED
  BY <1>4, <1>5 DEF Truncate, Names, n

LEMMA RangeNames ==
  ASSUME NEW n \in Nat, n = 0 \/ n \in Positions
  PROVE  RangeSuffixes(n) \subseteq Names /\ Cardinality(RangeSuffixes(n)) = n
<1>1. 1..n \subseteq Positions
  BY IndexPositions
<1>. DEFINE f == [i \in 1..n |-> <<IndexTokens[i]>>]
<1>2. \A i \in 1..n : <<IndexTokens[i]>> \in Names
  BY <1>1, IndexPositions DEF Names
<1>3. f \in [1..n -> Names]
  BY <1>2
<1>4. \A i, j \in 1..n : f[i] = f[j] => i = j
  BY <1>1, IndexPositions
<1>5. Cardinality(RangeSuffixes(n)) = Cardinality(1..n)
  <2>. DEFINE D == 1..n
              N == RangeSuffixes(n)
  <2>1. /\ f \in [D -> N] /\ (\A i, j \in D : f[i] = f[j] => i = j) /\ IsFiniteSet(D)
        /\ \A t \in N : \E i \in D : f[i] = t
    BY <1>3, <1>4, Counted DEF RangeSuffixes
  <2>. HIDE DEF f, D, N
  <2>2. Cardinality(N) = Cardinality(D)
    BY <2>1, OneNameEach
  <2>. QED
    BY <2>2 DEF D, N
<1>. QED
  BY <1>2, <1>5, Counted DEF RangeSuffixes

-----------------------------------------------------------------------------
(* The matrix.                                                             *)

Kept(m) == MatrixCombos(m.axes, m.excludes)

LEMMA MatrixAxes ==
  ASSUME NEW m, MatrixBlock(m)
  PROVE  /\ Len(m.axes) \in Nat /\ DOMAIN m.axes = 1..Len(m.axes)
         /\ \A a \in DOMAIN m.axes :
              /\ m.axes[a].name \in Nat /\ m.axes[a].vals \in Seq(Values)
              /\ DOMAIN m.axes[a].vals = 1..Len(m.axes[a].vals) /\ Len(m.axes[a].vals) \in Nat
              /\ 1..Len(m.axes[a].vals) \subseteq Positions
<1>. DEFINE A == [name : Nat, vals : Seq(Values), scalar : BOOLEAN]
<1>1. m.axes \in Seq(A)
  BY DEF MatrixBlock
<1>2. Len(m.axes) \in Nat /\ DOMAIN m.axes = 1..Len(m.axes) /\ \A a \in DOMAIN m.axes : m.axes[a] \in A
  <2>. HIDE DEF A
  <2>. QED
    BY <1>1, LenProperties
<1>3. ASSUME NEW a \in DOMAIN m.axes
      PROVE  /\ m.axes[a].name \in Nat /\ m.axes[a].vals \in Seq(Values)
             /\ DOMAIN m.axes[a].vals = 1..Len(m.axes[a].vals) /\ Len(m.axes[a].vals) \in Nat
             /\ 1..Len(m.axes[a].vals) \subseteq Positions
  <2>1. m.axes[a] \in A
    BY <1>2
  <2>2. m.axes[a].name \in Nat /\ m.axes[a].vals \in Seq(Values)
    BY <2>1
  <2>3. DOMAIN m.axes[a].vals = 1..Len(m.axes[a].vals) /\ Len(m.axes[a].vals) \in Nat
    BY <2>2, LenProperties
  <2>. QED
    BY <2>2, <2>3 DEF MatrixBlock
<1>. QED
  BY <1>2, <1>3

LEMMA CombosHere ==
  ASSUME NEW m, MatrixBlock(m), NEW c \in Combos(m.axes)
  PROVE  /\ c \in [DOMAIN m.axes -> Positions]
         /\ \A a \in DOMAIN m.axes : c[a] \in DOMAIN m.axes[a].vals
<1>. DEFINE widest == UNION {1..Len(m.axes[a].vals) : a \in DOMAIN m.axes}
<1>1. c \in [DOMAIN m.axes -> widest] /\ \A a \in DOMAIN m.axes : c[a] <= Len(m.axes[a].vals)
  BY DEF Combos
<1>2. widest \subseteq Positions /\ widest \subseteq Nat \ {0}
  BY MatrixAxes
<1>3. ASSUME NEW a \in DOMAIN m.axes PROVE c[a] \in DOMAIN m.axes[a].vals
  <2>1. c[a] \in Nat \ {0} /\ c[a] <= Len(m.axes[a].vals) /\ Len(m.axes[a].vals) \in Nat
    BY <1>1, <1>2, MatrixAxes
  <2>. QED
    BY <2>1, MatrixAxes
<1>. QED
  BY <1>1, <1>2, <1>3

(* Positions are few, so there are finitely many combinations: each is     *)
(* known by the pairs of an axis and its position.                         *)
LEMMA FinitelyManyCombos ==
  ASSUME NEW m, MatrixBlock(m)
  PROVE  IsFiniteSet(Combos(m.axes)) /\ IsFiniteSet(Kept(m))
<1>. DEFINE D == DOMAIN m.axes
            C == Combos(m.axes)
            pairs == [c \in C |-> {<<a, c[a]>> : a \in D}]
<1>1. IsFiniteSet(D) /\ IsFiniteSet(Positions)
  BY MatrixAxes, Counted, IndexPositions
<1>2. IsFiniteSet(D \X Positions)
  <2>. HIDE DEF D
  <2>. QED
    BY <1>1, FS_Product
<1>3. IsFiniteSet(SUBSET (D \X Positions))
  <2>. DEFINE P == D \X Positions
  <2>1. IsFiniteSet(P)
    BY <1>2
  <2>. HIDE DEF P
  <2>2. IsFiniteSet(SUBSET P)
    BY <2>1, FS_SUBSET
  <2>. QED
    BY <2>2 DEF P
<1>4. \A c \in C : c \in [D -> Positions]
  BY CombosHere
<1>5. pairs \in [C -> SUBSET (D \X Positions)]
  BY <1>4
<1>6. ASSUME NEW c \in C, NEW d \in C, pairs[c] = pairs[d] PROVE c = d
  <2>1. ASSUME NEW a \in D PROVE c[a] = d[a]
    <3>1. <<a, c[a]>> \in pairs[d]
      BY <1>6
    <3>. QED
      BY <3>1
  <2>. QED
    BY <1>4, <2>1
<1>7. IsFiniteSet(C)
  <2>. DEFINE T == SUBSET (D \X Positions)
  <2>1. pairs \in Injection(C, T)
    <3>1. pairs \in [C -> T] /\ \A c, d \in C : pairs[c] = pairs[d] => c = d
      BY <1>5, <1>6
    <3>. HIDE DEF pairs, C, T
    <3>. QED
      BY <3>1, Fun_IsInj
  <2>2. IsFiniteSet(T)
    BY <1>3
  <2>. HIDE DEF pairs, C, T
  <2>. QED
    BY <2>1, <2>2, FS_Injection
<1>. QED
  BY <1>7, FS_Subset DEF Kept, MatrixCombos

(* What a matrix enumerates is what is counted: looking up the one axis of *)
(* a name is the same as asking every axis of that name.                   *)
LEMMA KeptAreCounted ==
  ASSUME NEW m, MatrixBlock(m), m.type = "matrix"
  PROVE  RunCount(m) = Cardinality(Kept(m))
<1>. DEFINE Differs(c, ex, name) ==
              /\ \A a \in DOMAIN m.axes : m.axes[a].name = name => m.axes[a].vals[c[a]].raw # ex[name]
              /\ ex[name] = "" => \E a \in DOMAIN m.axes : m.axes[a].name = name
<1>1. ASSUME NEW c \in Combos(m.axes), NEW ex \in m.excludes, NEW name \in DOMAIN ex
      PROVE  ComboValue(m.axes, c, name) # ex[name] <=> Differs(c, ex, name)
  <2>1. \A a, b \in DOMAIN m.axes : m.axes[a].name = name /\ m.axes[b].name = name => a = b
    BY DEF MatrixBlock
  <2>. QED
    BY <2>1 DEF ComboValue
<1>2. RunCount(m) = Cardinality({c \in Combos(m.axes) : \A ex \in m.excludes : \E name \in DOMAIN ex : Differs(c, ex, name)})
  BY DEF RunCount
<1>. HIDE DEF Differs
<1>3. ASSUME NEW c \in Combos(m.axes)
      PROVE  ~ MatchesAnyExclude(m.axes, c, m.excludes)
             <=> \A ex \in m.excludes : \E name \in DOMAIN ex : Differs(c, ex, name)
  BY <1>1 DEF MatchesAnyExclude
<1>. DEFINE kept == {c \in Combos(m.axes) : ~ MatchesAnyExclude(m.axes, c, m.excludes)}
            counted == {c \in Combos(m.axes) : \A ex \in m.excludes : \E name \in DOMAIN ex : Differs(c, ex, name)}
<1>4. kept = counted
  BY <1>3
<1>5. Kept(m) = kept
  BY DEF Kept, MatrixCombos
<1>. QED
  BY <1>2, <1>4, <1>5

LEMMA IndexNames ==
  ASSUME NEW m, MatrixBlock(m), m.axes # <<>>
  PROVE  /\ \A c \in Combos(m.axes) : IndexName(m.axes, c) \in Names
         /\ \A c, d \in Combos(m.axes) : IndexName(m.axes, c) = IndexName(m.axes, d) => c = d
<1>1. ASSUME NEW c \in Combos(m.axes) PROVE IndexName(m.axes, c) \in Names
  <2>1. \A a \in 1..Len(m.axes) : IndexTokens[c[a]] \in STRING
    BY CombosHere, MatrixAxes, IndexPositions
  <2>2. [a \in 1..Len(m.axes) |-> IndexTokens[c[a]]] \in Seq(STRING)
    BY <2>1, MatrixAxes
  <2>3. IndexName(m.axes, c) = [a \in 1..Len(m.axes) |-> IndexTokens[c[a]]] /\ Len(m.axes) # 0
    BY MatrixAxes, EmptySeq DEF IndexName, MatrixBlock
  <2>4. IndexName(m.axes, c) # <<>>
    BY <2>3, MatrixAxes
  <2>. QED
    BY <2>2, <2>3, <2>4 DEF Names
<1>2. ASSUME NEW c \in Combos(m.axes), NEW d \in Combos(m.axes), IndexName(m.axes, c) = IndexName(m.axes, d)
      PROVE  c = d
  <2>1. ASSUME NEW a \in DOMAIN m.axes PROVE c[a] = d[a]
    <3>1. IndexTokens[c[a]] = IndexTokens[d[a]]
      BY <1>2 DEF IndexName
    <3>. QED
      BY <3>1, CombosHere, IndexPositions
  <2>. QED
    BY <2>1, CombosHere
<1>. QED
  BY <1>1, <1>2

-----------------------------------------------------------------------------
(* The names themselves.                                                   *)

\* The axes before one in alphabetical order.
AxesBefore(axes, a) == {b \in DOMAIN axes : axes[b].name < axes[a].name}

(* No two axes have the same name, so there is a k-th one for every k.     *)
LEMMA SortedAxisIsThere ==
  ASSUME NEW m, MatrixBlock(m), NEW k \in DOMAIN m.axes
  PROVE  SortedAxes(m.axes)[k] \in DOMAIN m.axes
<1>. DEFINE D == DOMAIN m.axes
            B(a) == AxesBefore(m.axes, a)
            n == Len(m.axes)
            rank == [a \in D |-> Cardinality(B(a))]
<1>1. n \in Nat /\ D = 1..n /\ IsFiniteSet(D) /\ Cardinality(D) = n /\ \A a \in D : m.axes[a].name \in Nat
  BY MatrixAxes, Counted
<1>2. ASSUME NEW a \in D PROVE IsFiniteSet(B(a)) /\ Cardinality(B(a)) \in 0..n - 1
  <2>1. a \notin B(a) /\ B(a) \in SUBSET (D \ {a})
    BY <1>1 DEF AxesBefore
  <2>2. IsFiniteSet(D \ {a}) /\ Cardinality(D \ {a}) = n - 1
    <3>. HIDE DEF D, n
    <3>. QED
      BY <1>1, FS_RemoveElement
  <2>. HIDE DEF B, D, n
  <2>3. IsFiniteSet(B(a)) /\ Cardinality(B(a)) <= n - 1
    BY <2>1, <2>2, FS_Subset
  <2>. QED
    BY <1>1, <2>3, FS_CardinalityType
<1>3. ASSUME NEW a \in D, NEW b \in D, m.axes[a].name < m.axes[b].name
      PROVE  Cardinality(B(a)) # Cardinality(B(b))
  <2>1. B(a) \in SUBSET B(b) /\ a \in B(b) /\ a \notin B(a)
    BY <1>1, <1>3 DEF AxesBefore
  <2>. HIDE DEF B, D
  <2>2. IsFiniteSet(B(a)) /\ IsFiniteSet(B(b))
    BY <1>2
  <2>3. Cardinality(B(a)) = Cardinality(B(b)) => B(a) = B(b)
    BY <2>1, <2>2, FS_Subset
  <2>. QED
    BY <2>1, <2>3
<1>4. ASSUME NEW a \in D, NEW b \in D, Cardinality(B(a)) = Cardinality(B(b)) PROVE a = b
  <2>1. ~ m.axes[a].name < m.axes[b].name /\ ~ m.axes[b].name < m.axes[a].name
    BY <1>3, <1>4
  <2>2. m.axes[a].name = m.axes[b].name
    BY <1>1, <2>1
  <2>. QED
    BY <2>2 DEF MatrixBlock
<1>5. IsFiniteSet(0..n - 1) /\ Cardinality(0..n - 1) = n
  <2>1. 0 \in Int /\ n - 1 \in Int
    BY <1>1
  <2>. HIDE DEF n
  <2>2. IsFiniteSet(0..n - 1) /\ Cardinality(0..n - 1) = IF 0 > n - 1 THEN 0 ELSE n - 1 - 0 + 1
    BY <2>1, FS_Interval
  <2>3. n \in Nat
    BY <1>1 DEF n
  <2>. QED
    BY <2>2, <2>3
<1>6. \E a \in D : Cardinality(B(a)) = k - 1
  <2>. DEFINE T == 0..n - 1
  <2>1. rank \in [D -> T] /\ \A a, b \in D : rank[a] = rank[b] => a = b
    BY <1>2, <1>4
  <2>2. k - 1 \in T
    BY <1>1
  <2>3. IsFiniteSet(T) /\ Cardinality(T) = Cardinality(D) /\ IsFiniteSet(D)
    BY <1>1, <1>5
  <2>. HIDE DEF rank, T
  <2>4. rank \in Surjection(D, T)
    <3>. HIDE DEF D
    <3>1. rank \in Injection(D, T)
      BY <2>1, Fun_IsInj
    <3>. QED
      BY <2>3, <3>1, FS_Injection
  <2>5. \E a \in D : rank[a] = k - 1
    BY <2>2, <2>4 DEF Surjection
  <2>. QED
    BY <2>5 DEF rank
<1>7. SortedAxes(m.axes)[k] = CHOOSE a \in D : Cardinality(B(a)) = k - 1
  BY DEF SortedAxes, AxesBefore
<1>. QED
  BY <1>6, <1>7

LEMMA ValueNameTyped ==
  ASSUME NEW m, MatrixBlock(m), m.axes # <<>>, NEW c \in Combos(m.axes)
  PROVE  ValueName(m.axes, c) \in Names
<1>. DEFINE sorted == SortedAxes(m.axes)
            parts == [k \in DOMAIN m.axes |-> m.axes[sorted[k]].vals[c[sorted[k]]].tokens]
<1>1. Len(m.axes) \in Nat \ {0} /\ DOMAIN m.axes = 1..Len(m.axes)
  BY MatrixAxes, EmptySeq DEF MatrixBlock
<1>2. ASSUME NEW k \in DOMAIN m.axes PROVE parts[k] \in Names
  <2>1. PICK a \in DOMAIN m.axes : a = sorted[k]
    BY SortedAxisIsThere
  <2>2. c[a] \in DOMAIN m.axes[a].vals /\ m.axes[a].vals \in Seq(Values)
    BY CombosHere, MatrixAxes
  <2>3. m.axes[a].vals[c[a]] \in Values
    BY <2>2, LenProperties
  <2>. QED
    BY <2>1, <2>3 DEF Values, Names
<1>3. parts \in Seq(Seq(STRING)) /\ Len(parts) = Len(m.axes)
  <2>. DEFINE n == Len(m.axes)
  <2>1. parts \in [1..n -> Seq(STRING)] /\ n \in Nat
    BY <1>1, <1>2 DEF Names
  <2>. HIDE DEF parts, n
  <2>2. parts \in Seq(Seq(STRING)) /\ Len(parts) = n
    BY <2>1
  <2>. QED
    BY <2>2 DEF n
<1>4. parts # <<>> /\ parts[1] \in Seq(STRING) /\ parts[1] # <<>>
  <2>1. 1 \in DOMAIN m.axes
    BY <1>1
  <2>2. parts[1] \in Names
    BY <1>2, <2>1
  <2>. QED
    BY <1>1, <1>3, <2>2, EmptySeq DEF Names
<1>. HIDE DEF parts
<1>5. <<1, 1>> \in Places(parts, Len(parts))
  <2>1. 1 \in DOMAIN parts[1]
    BY <1>4, LenProperties, EmptySeq
  <2>. QED
    BY <1>1, <1>3, <2>1 DEF Places
<1>6. FlattenSeq(parts) \in Names
  <2>1. /\ FlattenSeq(parts) \in Seq(STRING) /\ IsFiniteSet(Places(parts, Len(parts)))
        /\ Len(FlattenSeq(parts)) = Cardinality(Places(parts, Len(parts)))
    BY <1>3, <1>4, FlattenParts
  <2>2. Len(FlattenSeq(parts)) # 0
    BY <1>5, <2>1, FS_EmptySet
  <2>. QED
    BY <2>1, <2>2 DEF Names
<1>7. ValueName(m.axes, c) = Truncate(FlattenSeq(parts))
  BY DEF ValueName, parts
<1>. QED
  BY <1>6, <1>7, Truncated

-----------------------------------------------------------------------------
(* The outcome of each block.                                              *)

(* An enumeration is known or, with no run left, excluded; its names are   *)
(* the members of the set enumerated.                                      *)
LEMMA EnumeratedOutcome ==
  ASSUME NEW S
  PROVE  /\ Enumerated(S).present /\ Enumerated(S).suffixes = S
         /\ Enumerated(S).excluded <=> S = {}
BY DEF Enumerated, Excluded, Instances, Fanout

\* m resolves to nothing known, or to one name for each combination kept.
NamesKept(m, F) ==
  \/ ~ F.known /\ ~ F.excluded
  \/ /\ m.flags = {} /\ m.axes # <<>>
     /\ Cardinality(F.suffixes) = Cardinality(Kept(m))
     /\ F.excluded <=> Kept(m) = {}

LEMMA IndexOutcome ==
  ASSUME NEW m, MatrixBlock(m), m.flags = {}, m.axes # <<>>
  PROVE  NamesKept(m, Enumerated({IndexName(m.axes, c) : c \in Kept(m)}))
<1>. DEFINE K == Kept(m)
            f == [c \in K |-> IndexName(m.axes, c)]
            S == {IndexName(m.axes, c) : c \in K}
<1>1. K \subseteq Combos(m.axes) /\ IsFiniteSet(K)
  BY FinitelyManyCombos DEF Kept, MatrixCombos
<1>2. f \in [K -> S] /\ (\A c, d \in K : f[c] = f[d] => c = d) /\ \A t \in S : \E c \in K : f[c] = t
  BY <1>1, IndexNames
<1>4. Cardinality(S) = Cardinality(K)
  <2>. HIDE DEF f, K, S
  <2>. QED
    BY <1>1, <1>2, OneNameEach
<1>5. S = {} <=> K = {}
  OBVIOUS
<1>. HIDE DEF K, S
<1>6. Enumerated(S).suffixes = S /\ (Enumerated(S).excluded <=> S = {})
  BY EnumeratedOutcome
<1>7. NamesKept(m, Enumerated(S))
  BY <1>4, <1>5, <1>6 DEF NamesKept, K
<1>. QED
  BY <1>7 DEF S, K

LEMMA ValueOutcome ==
  ASSUME NEW m, MatrixBlock(m), m.flags = {}, m.axes # <<>>
  PROVE  LET F == MatrixValueSuffixes(m.axes, m.excludes)
         IN  F.present /\ NamesKept(m, F) /\ (F.excluded <=> Kept(m) = {})
<1>. DEFINE K == Kept(m)
            F == MatrixValueSuffixes(m.axes, m.excludes)
            name(c) == ValueName(m.axes, c)
            S == {name(c) : c \in K}
            merged == \E c, d \in K : c # d /\ name(c) = name(d)
<1>1. F = IF merged THEN NotEnumerable("custom_names") ELSE Enumerated(S)
  BY DEF MatrixValueSuffixes, Kept
<1>2. CASE merged
  <2>1. F.present /\ ~ F.known /\ ~ F.excluded
    BY <1>1, <1>2 DEF NotEnumerable, Fanout
  <2>. QED
    BY <1>2, <2>1 DEF NamesKept
<1>3. CASE ~ merged
  <2>. DEFINE f == [c \in K |-> name(c)]
  <2>1. IsFiniteSet(K)
    BY FinitelyManyCombos
  <2>2. f \in [K -> S] /\ (\A c, d \in K : f[c] = f[d] => c = d) /\ \A t \in S : \E c \in K : f[c] = t
    BY <1>3
  <2>3. Cardinality(S) = Cardinality(K)
    <3>. HIDE DEF f, K, S
    <3>. QED
      BY <2>1, <2>2, OneNameEach
  <2>4. S = {} <=> K = {}
    OBVIOUS
  <2>5. F = Enumerated(S)
    BY <1>1, <1>3
  <2>. HIDE DEF F, S, K
  <2>6. F.present /\ F.suffixes = S /\ (F.excluded <=> S = {})
    BY <2>5, EnumeratedOutcome
  <2>7. NamesKept(m, F)
    BY <2>3, <2>4, <2>6 DEF NamesKept, K
  <2>. QED
    BY <2>4, <2>6, <2>7 DEF F, K
<1>. QED
  BY <1>2, <1>3

AllScalar(m) == \A a \in DOMAIN m.axes : m.axes[a].scalar

(* A matrix, under either naming, resolves to nothing known or to a name   *)
(* for each combination kept; with scalar axes, it is skipped exactly when *)
(* its axes are literal and no combination is kept, under both namings.    *)
LEMMA MatrixOutcome ==
  ASSUME NEW m, MatrixBlock(m), NEW n \in {"index", "value"}
  PROVE  LET F == MatrixSuffixes(m, n)
         IN  /\ F.present /\ NamesKept(m, F)
             /\ AllScalar(m) => (F.excluded <=> m.flags = {} /\ m.axes # <<>> /\ Kept(m) = {})
<1>. DEFINE F == MatrixSuffixes(m, n)
            literal == m.flags = {} /\ m.axes # <<>>
<1>1. m.flags \subseteq {"runtimeInput", "badShape", "nodeName"}
  BY DEF MatrixBlock
<1>2. CASE ~ literal
  <2>1. \/ F = NotEnumerable("runtime_input") \/ F = Failed("invalid") \/ F = NotEnumerable("custom_names")
    <3>1. CASE "runtimeInput" \in m.flags
      BY <3>1 DEF MatrixSuffixes
    <3>2. CASE "runtimeInput" \notin m.flags /\ "badShape" \in m.flags
      BY <3>2 DEF MatrixSuffixes
    <3>3. CASE "runtimeInput" \notin m.flags /\ "badShape" \notin m.flags
      <4>1. m.flags = {} \/ m.flags = {"nodeName"}
        BY <1>1, <3>3
      <4>2. CASE m.flags = {"nodeName"}
        BY <4>2 DEF MatrixSuffixes
      <4>3. CASE m.flags = {}
        BY <1>2, <4>3 DEF MatrixSuffixes
      <4>. QED
        BY <4>1, <4>2, <4>3
    <3>. QED
      BY <3>1, <3>2, <3>3
  <2>2. F.present /\ ~ F.known /\ ~ F.excluded
    BY <2>1 DEF NotEnumerable, Failed, Fanout
  <2>. QED
    BY <1>2, <2>2 DEF NamesKept
<1>3. CASE literal
  <2>1. m.excludes = {} => Kept(m) = Combos(m.axes)
    BY DEF Kept, MatrixCombos, MatchesAnyExclude
  <2>. DEFINE I == Enumerated({IndexName(m.axes, c) : c \in Kept(m)})
              V == MatrixValueSuffixes(m.axes, m.excludes)
  <2>2. \/ n = "index" /\ F = I
        \/ ~ AllScalar(m) /\ F = NotEnumerable("custom_names")
        \/ n = "value" /\ F = V
    BY <1>3, <2>1 DEF MatrixSuffixes, Kept, AllScalar
  <2>3. CASE F = I
    <3>1. I.present /\ NamesKept(m, I) /\ (I.excluded <=> Kept(m) = {})
      <4>. DEFINE S == {IndexName(m.axes, c) : c \in Kept(m)}
      <4>1. NamesKept(m, Enumerated(S)) /\ (S = {} <=> Kept(m) = {})
        BY <1>3, IndexOutcome
      <4>. HIDE DEF S
      <4>2. Enumerated(S).present /\ (Enumerated(S).excluded <=> Kept(m) = {})
        BY <4>1, EnumeratedOutcome
      <4>. QED
        BY <4>1, <4>2 DEF S
    <3>. QED
      BY <1>3, <2>3, <3>1
  <2>4. CASE ~ AllScalar(m) /\ F = NotEnumerable("custom_names")
    <3>1. F.present /\ ~ F.known /\ ~ F.excluded
      BY <2>4 DEF NotEnumerable, Fanout
    <3>. QED
      BY <2>4, <3>1 DEF NamesKept
  <2>5. CASE F = V
    <3>1. V.present /\ NamesKept(m, V) /\ (V.excluded <=> Kept(m) = {})
      BY <1>3, ValueOutcome
    <3>. QED
      BY <1>3, <2>5, <3>1
  <2>. QED
    BY <2>2, <2>3, <2>4, <2>5
<1>. QED
  BY <1>2, <1>3

(* What one `strategy` block resolves to: counted, and skipped only when   *)
(* its runs are listed and there is none.                                  *)
Resolved(s, F) ==
  /\ F.present <=> s.type # "none"
  /\ F.present /\ Enumerates(F) => Cardinality(F.suffixes) = RunCount(s)
  /\ F.excluded => s.type \in {"matrix", "repeat"} /\ s.flags = {} /\ RunCount(s) = 0

LEMMA RepeatOutcome ==
  ASSUME NEW s, StrategyBlock(s), s.type = "repeat"
  PROVE  Resolved(s, RepeatSuffixes(s))
<1>. DEFINE F == RepeatSuffixes(s)
<1>1. /\ s.times \in {-1, 0} \cup Positions /\ s.items \in {-1, 0} \cup Positions
      /\ s.flags \subseteq {"nodeName", "ranged"}
  BY DEF StrategyBlock
<1>2. Positions \subseteq Nat \ {0}
  BY IndexPositions
<1>3. RunCount(s) = IF s.times > 0 THEN s.times ELSE s.items
  BY DEF RunCount
<1>4. CASE s.flags = {} /\ s.times > 0
  <2>1. F = Instances(RangeSuffixes(s.times))
    BY <1>4 DEF RepeatSuffixes
  <2>2. s.times \in Positions /\ s.times \in Nat
    <3>1. \A x \in {-1, 0} : ~ x > 0
      OBVIOUS
    <3>2. s.times \in Positions
      BY <1>1, <1>4, <3>1, Zenon
    <3>. QED
      BY <1>2, <3>2
  <2>3. Cardinality(RangeSuffixes(s.times)) = s.times
    BY <2>2, RangeNames
  <2>4. F.present /\ F.suffixes = RangeSuffixes(s.times) /\ ~ F.excluded
    BY <2>1 DEF Instances, Fanout
  <2>. QED
    BY <1>3, <1>4, <2>3, <2>4 DEF Resolved
<1>5. CASE s.flags = {} /\ s.times = -1 /\ s.items >= 0
  <2>1. F = Enumerated(RangeSuffixes(s.items))
    BY <1>5 DEF RepeatSuffixes
  <2>2. s.items \in Nat /\ (s.items = 0 \/ s.items \in Positions)
    <3>1. ~ -1 >= 0
      OBVIOUS
    <3>2. s.items = 0 \/ s.items \in Positions
      BY <1>1, <1>5, <3>1, Zenon
    <3>3. 0 \in Nat /\ Positions \subseteq Nat
      BY <1>2
    <3>. QED
      BY <3>2, <3>3, Zenon
  <2>3. Cardinality(RangeSuffixes(s.items)) = s.items
    BY <2>2, RangeNames
  <2>4. F.present /\ F.suffixes = RangeSuffixes(s.items) /\ (F.excluded <=> RangeSuffixes(s.items) = {})
    BY <2>1, EnumeratedOutcome
  <2>5. F.excluded => s.items = 0
    BY <2>3, <2>4, FS_EmptySet
  <2>. QED
    BY <1>3, <1>5, <2>3, <2>4, <2>5 DEF Resolved
<1>6. CASE ~ (s.flags = {} /\ s.times > 0) /\ ~ (s.flags = {} /\ s.times = -1 /\ s.items >= 0)
  <2>1. F = NotEnumerable("custom_names") \/ F = NotEnumerable("runtime_input")
    BY <1>1, <1>6 DEF RepeatSuffixes
  <2>2. F.present /\ ~ F.known /\ ~ F.excluded
    BY <2>1 DEF NotEnumerable, Fanout
  <2>. QED
    BY <2>2 DEF Resolved, Enumerates
<1>. QED
  BY <1>4, <1>5, <1>6

LEMMA ResolveOutcome ==
  ASSUME NEW s, StrategyBlock(s), NEW n \in {"index", "value"}
  PROVE  Resolved(s, Resolve(s, n))
<1>. DEFINE F == Resolve(s, n)
<1>1. s.type \in {"matrix", "parallelism", "repeat", "none", "runtimeInput", "unrecognized"}
  BY DEF StrategyBlock
<1>2. CASE s.type = "matrix"
  <2>. DEFINE M == MatrixSuffixes(s, n)
  <2>1. F = M /\ MatrixBlock(s)
    BY <1>2 DEF Resolve, StrategyBlock
  <2>2. M.present /\ NamesKept(s, M)
    BY <2>1, MatrixOutcome
  <2>. HIDE DEF M
  <2>3. RunCount(s) = Cardinality(Kept(s)) /\ (Kept(s) = {} => Cardinality(Kept(s)) = 0)
    BY <1>2, <2>1, KeptAreCounted, FS_EmptySet
  <2>. QED
    BY <1>2, <2>1, <2>2, <2>3 DEF Resolved, NamesKept, Enumerates
<1>3. CASE s.type = "parallelism"
  <2>1. F = ParallelismSuffixes(s) /\ s.count \in {0} \cup Positions /\ Positions \subseteq Nat \ {0}
    BY <1>3, IndexPositions DEF Resolve, StrategyBlock
  <2>2. CASE s.count > 0
    <3>1. F.present /\ F.suffixes = RangeSuffixes(s.count) /\ ~ F.excluded
      BY <2>1, <2>2 DEF ParallelismSuffixes, Instances, Fanout
    <3>2. Cardinality(RangeSuffixes(s.count)) = s.count /\ RunCount(s) = s.count
      BY <1>3, <2>1, <2>2, RangeNames DEF RunCount
    <3>. QED
      BY <1>3, <3>1, <3>2 DEF Resolved
  <2>3. CASE ~ s.count > 0
    <3>1. F.present /\ ~ F.known /\ ~ F.excluded
      BY <2>1, <2>3 DEF ParallelismSuffixes, NotEnumerable, Fanout
    <3>. QED
      BY <1>3, <3>1 DEF Resolved, Enumerates
  <2>. QED
    BY <2>2, <2>3
<1>4. CASE s.type = "repeat"
  BY <1>4, RepeatOutcome DEF Resolve
<1>5. CASE s.type \in {"runtimeInput", "unrecognized"}
  <2>1. F.present /\ ~ F.known /\ ~ F.excluded
    BY <1>5 DEF Resolve, NotEnumerable, Failed, Fanout
  <2>. QED
    BY <1>5, <2>1 DEF Resolved, Enumerates
<1>6. CASE s.type = "none"
  <2>1. ~ F.present /\ ~ F.excluded
    BY <1>6 DEF Resolve, NoFanout, Fanout
  <2>. QED
    BY <1>6, <2>1 DEF Resolved
<1>. QED
  BY <1>1, <1>2, <1>3, <1>4, <1>5, <1>6

-----------------------------------------------------------------------------
(* Multi-deployments.                                                      *)

Rows(d) == IF d.envs = <<>> THEN <<<<>>>> ELSE FlattenSeq([i \in DOMAIN d.envs |-> EnvRows(d.envs[i])])
Services(d) == IF d.services = <<>> THEN <<<<>>>> ELSE [i \in DOMAIN d.services |-> d.services[i].tokens]
Pairs(d) == (DOMAIN Services(d)) \X (DOMAIN Rows(d))
PairName(d, p) == Truncate(Rows(d)[p[2]] \o Services(d)[p[1]])

\* Rows and services are named, but the one that stands for none at all.
NamedOrNone(rows, present) ==
  /\ Len(rows) \in Nat \ {0} /\ DOMAIN rows = 1..Len(rows)
  /\ \A i \in DOMAIN rows : IF present THEN rows[i] \in Names ELSE rows[i] = <<>>

LEMMA ServicesNamed ==
  ASSUME NEW d, DeploymentBlock(d)
  PROVE  /\ NamedOrNone(Services(d), d.services # <<>>)
         /\ Len(Services(d)) = IF d.services = <<>> THEN 1 ELSE Len(d.services)
<1>1. CASE d.services = <<>>
  BY <1>1 DEF Services, NamedOrNone
<1>2. CASE d.services # <<>>
  <2>1. d.services \in Seq(Values)
    BY DEF DeploymentBlock
  <2>2. Len(d.services) \in Nat /\ DOMAIN d.services = 1..Len(d.services) /\ \A i \in DOMAIN d.services : d.services[i] \in Values
    BY <2>1, LenProperties
  <2>3. \A i \in DOMAIN d.services : d.services[i].tokens \in Names
    BY <2>2 DEF Values, Names
  <2>4. Services(d) = [i \in 1..Len(d.services) |-> d.services[i].tokens]
    BY <1>2, <2>2 DEF Services
  <2>5. Len(d.services) # 0
    BY <1>2, <2>1, EmptySeq
  <2>. QED
    BY <1>2, <2>2, <2>3, <2>4, <2>5 DEF NamedOrNone
<1>. QED
  BY <1>1, <1>2

LEMMA EnvRowsNamed ==
  ASSUME NEW env \in [ref : Values, infras : Seq(Values), infraRuntime : BOOLEAN, gitOps : BOOLEAN]
  PROVE  /\ EnvRows(env) \in Seq(Names)
         /\ DOMAIN EnvRows(env) = 1..(IF env.infras = <<>> THEN 1 ELSE Len(env.infras))
<1>1. env.ref \in Values /\ env.infras \in Seq(Values)
  OBVIOUS
<1>2. env.ref.tokens \in Names
  BY <1>1 DEF Values, Names
<1>3. CASE env.infras = <<>>
  BY <1>2, <1>3 DEF EnvRows
<1>4. CASE env.infras # <<>>
  <2>1. Len(env.infras) \in Nat /\ DOMAIN env.infras = 1..Len(env.infras) /\ \A i \in DOMAIN env.infras : env.infras[i] \in Values
    BY <1>1, LenProperties
  <2>2. ASSUME NEW i \in DOMAIN env.infras PROVE env.ref.tokens \o env.infras[i].tokens \in Names
    <3>1. env.infras[i].tokens \in Names
      BY <2>1 DEF Values, Names
    <3>2. env.ref.tokens \in Seq(STRING) /\ env.infras[i].tokens \in Seq(STRING) /\ env.ref.tokens # <<>>
      BY <1>2, <3>1 DEF Names
    <3>. QED
      BY <3>2, ConcatProperties, EmptySeq DEF Names
  <2>3. EnvRows(env) = [i \in 1..Len(env.infras) |-> env.ref.tokens \o env.infras[i].tokens]
    BY <1>4, <2>1 DEF EnvRows
  <2>. QED
    BY <1>4, <2>1, <2>2, <2>3
<1>. QED
  BY <1>3, <1>4

\* The rows of a deployment, counted.
RowCount(d) ==
  IF d.envs = <<>> THEN 1
  ELSE Cardinality(UNION {{i} \X (1..IF d.envs[i].infras = <<>> THEN 1 ELSE Len(d.envs[i].infras)) : i \in DOMAIN d.envs})

LEMMA RowsNamed ==
  ASSUME NEW d, DeploymentBlock(d)
  PROVE  NamedOrNone(Rows(d), d.envs # <<>>) /\ Len(Rows(d)) = RowCount(d)
<1>1. CASE d.envs = <<>>
  BY <1>1 DEF Rows, NamedOrNone, RowCount
<1>2. CASE d.envs # <<>>
  <2>. DEFINE Envs == [ref : Values, infras : Seq(Values), infraRuntime : BOOLEAN, gitOps : BOOLEAN]
              parts == [i \in DOMAIN d.envs |-> EnvRows(d.envs[i])]
  <2>1. Len(d.envs) \in Nat /\ DOMAIN d.envs = 1..Len(d.envs) /\ \A i \in DOMAIN d.envs : d.envs[i] \in Envs
    <3>1. d.envs \in Seq(Envs)
      BY DEF DeploymentBlock
    <3>. HIDE DEF Envs
    <3>. QED
      BY <3>1, LenProperties
  <2>2. \A i \in DOMAIN d.envs :
          /\ parts[i] \in Seq(Names)
          /\ DOMAIN parts[i] = 1..(IF d.envs[i].infras = <<>> THEN 1 ELSE Len(d.envs[i].infras))
    BY <2>1, EnvRowsNamed
  <2>3. parts \in Seq(Seq(Names)) /\ Len(parts) = Len(d.envs)
    <3>1. parts = [i \in 1..Len(d.envs) |-> EnvRows(d.envs[i])] /\ \A i \in 1..Len(d.envs) : EnvRows(d.envs[i]) \in Seq(Names)
      BY <2>1, <2>2
    <3>. QED
      BY <2>1, <3>1
  <2>4. parts # <<>>
    BY <1>2, <2>1, <2>3, EmptySeq DEF DeploymentBlock
  <2>5. Places(parts, Len(parts)) =
        UNION {{i} \X (1..IF d.envs[i].infras = <<>> THEN 1 ELSE Len(d.envs[i].infras)) : i \in DOMAIN d.envs}
    <3>. DEFINE width(i) == 1..IF d.envs[i].infras = <<>> THEN 1 ELSE Len(d.envs[i].infras)
    <3>1. \A i \in DOMAIN d.envs : {i} \X DOMAIN parts[i] = {i} \X width(i)
      BY <2>2
    <3>2. Places(parts, Len(parts)) = UNION {{i} \X DOMAIN parts[i] : i \in DOMAIN d.envs}
      BY <2>1, <2>3 DEF Places
    <3>. HIDE DEF parts, width
    <3>3. \A x : (\E i \in DOMAIN d.envs : x \in {i} \X DOMAIN parts[i]) <=> (\E i \in DOMAIN d.envs : x \in {i} \X width(i))
      BY <3>1, Zenon
    <3>4. UNION {{i} \X DOMAIN parts[i] : i \in DOMAIN d.envs} = UNION {{i} \X width(i) : i \in DOMAIN d.envs}
      BY <3>3, Zenon
    <3>. QED
      BY <3>2, <3>4 DEF width
  <2>. HIDE DEF parts
  <2>6. FlattenSeq(parts) \in Seq(Names) /\ Len(FlattenSeq(parts)) = Cardinality(Places(parts, Len(parts)))
    BY <2>3, <2>4, FlattenParts
  <2>7. Rows(d) = FlattenSeq(parts)
    BY <1>2 DEF Rows, parts
  <2>8. Len(Rows(d)) = RowCount(d)
    BY <1>2, <2>5, <2>6, <2>7 DEF RowCount
  <2>9. Len(Rows(d)) # 0
    <3>1. 1 \in DOMAIN d.envs /\ d.envs[1].infras \in Seq(Values)
      <4>1. Len(d.envs) # 0
        BY <2>3, <2>4, EmptySeq
      <4>2. 1 \in DOMAIN d.envs
        BY <2>1, <4>1
      <4>. QED
        BY <2>1, <4>2
    <3>2. 1 \in DOMAIN parts[1]
      <4>1. d.envs[1].infras # <<>> => Len(d.envs[1].infras) \in Nat \ {0}
        BY <3>1, EmptySeq
      <4>. QED
        BY <2>2, <3>1, <4>1
    <3>3. <<1, 1>> \in Places(parts, Len(parts))
      BY <2>1, <2>3, <3>1, <3>2 DEF Places
    <3>4. IsFiniteSet(Places(parts, Len(parts)))
      BY <2>3, <2>4, FlattenParts
    <3>. QED
      BY <2>6, <2>7, <3>3, <3>4, FS_EmptySet
  <2>10. NamedOrNone(Rows(d), d.envs # <<>>)
    BY <1>2, <2>6, <2>7, <2>9, LenProperties DEF NamedOrNone
  <2>. QED
    BY <2>8, <2>10
<1>. QED
  BY <1>1, <1>2

LEMMA PairsCounted ==
  ASSUME NEW d, DeploymentBlock(d)
  PROVE  IsFiniteSet(Pairs(d)) /\ Cardinality(Pairs(d)) = DeploymentCount(d)
<1>. DEFINE S == DOMAIN Services(d)
            R == DOMAIN Rows(d)
<1>1. IsFiniteSet(S) /\ Cardinality(S) = Len(Services(d))
  BY ServicesNamed, Counted DEF NamedOrNone
<1>2. IsFiniteSet(R) /\ Cardinality(R) = RowCount(d)
  BY RowsNamed, Counted DEF NamedOrNone
<1>. HIDE DEF S, R
<1>3. IsFiniteSet(S \X R) /\ Cardinality(S \X R) = Cardinality(S) * Cardinality(R)
  BY <1>1, <1>2, FS_Product
<1>4. DeploymentCount(d) = Len(Services(d)) * RowCount(d)
  <2>1. DeploymentCount(d) = (IF d.services = <<>> THEN 1 ELSE Len(d.services)) * RowCount(d)
    BY Zenon DEF DeploymentCount, RowCount
  <2>2. Len(Services(d)) = IF d.services = <<>> THEN 1 ELSE Len(d.services)
    BY ServicesNamed
  <2>. QED
    BY <2>1, <2>2, Zenon
<1>. QED
  BY <1>1, <1>2, <1>3, <1>4 DEF Pairs, S, R

\* Why the names of a deployment are not known in advance.
Runtime(d) ==
  \/ \E i \in DOMAIN d.services : ~ IsLiteralRef(d.services[i])
  \/ \E i \in DOMAIN d.envs : EnvIsRuntime(d.envs[i])
  \/ \E p, q \in Pairs(d) : p # q /\ PairName(d, p) = PairName(d, q)

LEMMA DeploymentCases ==
  ASSUME NEW d
  PROVE  MultiDeploySpec(d) = CASE d.envGroup -> NotEnumerable("runtime_input")
                                [] ~ d.envGroup /\ d.services = <<>> /\ d.envs = <<>> -> NoFanout
                                [] OTHER -> IF Runtime(d) THEN NotEnumerable("runtime_input")
                                            ELSE Instances({PairName(d, p) : p \in Pairs(d)})
BY DEF MultiDeploySpec, Rows, Services, Pairs, PairName, Runtime

(* A deployment is never skipped, and when its instances are known there   *)
(* is one name for each.                                                   *)
LEMMA DeploymentOutcome ==
  ASSUME NEW d, DeploymentBlock(d)
  PROVE  LET F == MultiDeploySpec(d)
         IN  /\ ~ F.excluded
             /\ F.present /\ F.known => Cardinality(F.suffixes) = DeploymentCount(d)
<1>. DEFINE F == MultiDeploySpec(d)
            N == {PairName(d, p) : p \in Pairs(d)}
<1>1. \/ F = NotEnumerable("runtime_input") \/ F = NoFanout
      \/ ~ Runtime(d) /\ F = Instances(N)
  BY DeploymentCases
<1>2. CASE F = NotEnumerable("runtime_input") \/ F = NoFanout
  <2>1. ~ F.known /\ ~ F.excluded
    BY <1>2 DEF NotEnumerable, NoFanout, Fanout
  <2>. QED
    BY <2>1
<1>3. CASE ~ Runtime(d) /\ F = Instances(N)
  <2>. DEFINE P == Pairs(d)
              f == [p \in P |-> PairName(d, p)]
  <2>1. ~ F.excluded /\ F.suffixes = N
    BY <1>3 DEF Instances, Fanout
  <2>2. /\ f \in [P -> N] /\ (\A p, q \in P : f[p] = f[q] => p = q)
        /\ \A n \in N : \E p \in P : f[p] = n
    BY <1>3 DEF Runtime
  <2>3. IsFiniteSet(P) /\ Cardinality(P) = DeploymentCount(d)
    BY PairsCounted
  <2>4. Cardinality(N) = DeploymentCount(d)
    <3>. HIDE DEF P, f, N
    <3>. QED
      BY <2>2, <2>3, OneNameEach
  <2>. QED
    BY <2>1, <2>4
<1>. QED
  BY <1>1, <1>2, <1>3

-----------------------------------------------------------------------------
(* The fan-out of a stage.                                                 *)

\* The blocks of the stage, and what they resolve to once it is built.
Built ==
  /\ StrategyBlock(strategy) /\ DeploymentBlock(deployment)
  /\ naming \in {"index", "value"}
  /\ strat \in {NoFanout, StageStrat(strategy, deployment, naming)}

LEMMA AlwaysBuilt == FanoutSpec => []Built
<1>1. Init => Built
  BY BlocksAssumption, NamingsAssumption DEF Init, Built
<1>2. Built /\ [Next]_vars => Built'
  BY DEF Built, Next, BuildStage, vars
<1>. QED
  BY <1>1, <1>2, PTL DEF FanoutSpec

(* A built fan-out is that of the strategy, when the stage has one and no  *)
(* multi-deployment; that of the deployment, when it has no strategy; and  *)
(* otherwise unknown.                                                      *)
LEMMA Combined ==
  ASSUME NEW s, NEW d, NEW n
  PROVE  LET R == Resolve(s, n)
             F == StageStrat(s, d, n)
         IN  IF R.present /\ MultiDeploySpec(d).present
             THEN ~ F.known /\ ~ F.excluded
             ELSE F = IF R.present THEN R ELSE MultiDeploySpec(d)
BY DEF StageStrat, CombineStageSpecs, NotEnumerable, Fanout

(* An enumerated fan-out has one name per run the engine starts: a         *)
(* literal matrix, repeat, parallelism or multi-deployment never merges    *)
(* two instances under one name, drops one or invents one, whatever its    *)
(* size (matrixSuffixes, repeatSuffixes, multiDeploySpec).                 *)
THEOREM OneNameForEachRun == FanoutSpec => []OneNamePerRun
<1>1. Built => OneNamePerRun
  <2>. SUFFICES ASSUME Built, strat.present, Enumerates(strat)
                PROVE  Cardinality(strat.suffixes) =
                         IF strategy.type = "none" THEN DeploymentCount(deployment) ELSE RunCount(strategy)
    BY DEF OneNamePerRun
  <2>. DEFINE R == Resolve(strategy, naming)
              D == MultiDeploySpec(deployment)
  <2>1. strat = StageStrat(strategy, deployment, naming)
    BY DEF Built, NoFanout, Fanout
  <2>2. strat = IF R.present THEN R ELSE D
    BY <2>1, Combined DEF Enumerates
  <2>3. Resolved(strategy, R)
    BY ResolveOutcome DEF Built
  <2>4. ~ D.excluded /\ (D.present /\ D.known => Cardinality(D.suffixes) = DeploymentCount(deployment))
    BY DeploymentOutcome DEF Built
  <2>. HIDE DEF R, D
  <2>. QED
    BY <2>2, <2>3, <2>4 DEF Resolved, Enumerates
<1>. QED
  BY <1>1, AlwaysBuilt, PTL

(* A stage is skipped only when its strategy is literal and leaves no run; *)
(* a fan-out of unknown size never is (enumerated, combineStageSpecs).     *)
THEOREM SkippedWhenEmpty == FanoutSpec => []SkippedOnlyWhenEmpty
<1>1. Built => SkippedOnlyWhenEmpty
  <2>. SUFFICES ASSUME Built, strat.excluded
                PROVE  strategy.type \in {"matrix", "repeat"} /\ strategy.flags = {} /\ RunCount(strategy) = 0
    BY DEF SkippedOnlyWhenEmpty
  <2>. DEFINE R == Resolve(strategy, naming)
              D == MultiDeploySpec(deployment)
  <2>1. strat = StageStrat(strategy, deployment, naming)
    BY DEF Built, NoFanout, Fanout
  <2>2. strat = IF R.present THEN R ELSE D
    BY <2>1, Combined
  <2>3. Resolved(strategy, R) /\ ~ D.excluded
    BY ResolveOutcome, DeploymentOutcome DEF Built
  <2>. HIDE DEF R, D
  <2>. QED
    BY <2>2, <2>3 DEF Resolved
<1>. QED
  BY <1>1, AlwaysBuilt, PTL

(* With scalar axes, the naming option decides the names of a stage's      *)
(* instances and never whether it is skipped (WithMatrixNaming).           *)
THEOREM NamingOnlyNames == FanoutSpec => []NamingNeverDecidesSkip
<1>1. Built => NamingNeverDecidesSkip
  <2>. SUFFICES ASSUME Built, strat.present, NEW n \in {"index", "value"},
                       strategy.type = "matrix" => AllScalar(strategy)
                PROVE  StageStrat(strategy, deployment, n).excluded = strat.excluded
    BY DEF NamingNeverDecidesSkip, AllScalar
  <2>. DEFINE R(k) == Resolve(strategy, k)
              F(k) == StageStrat(strategy, deployment, k)
  <2>1. strat = F(naming) /\ naming \in {"index", "value"}
    BY DEF Built, NoFanout, Fanout
  <2>2. CASE strategy.type # "matrix"
    <3>1. R(n) = R(naming)
      BY <2>2 DEF Resolve
    <3>2. F(n) = F(naming)
      BY <3>1 DEF StageStrat
    <3>. QED
      BY <2>1, <3>2
  <2>3. CASE strategy.type = "matrix"
    <3>1. MatrixBlock(strategy) /\ R(n) = MatrixSuffixes(strategy, n) /\ R(naming) = MatrixSuffixes(strategy, naming)
      BY <2>3 DEF Built, StrategyBlock, Resolve
    <3>. DEFINE empty == strategy.flags = {} /\ strategy.axes # <<>> /\ Kept(strategy) = {}
    <3>2. R(n).present /\ (R(n).excluded <=> empty)
      BY <2>3, <3>1, MatrixOutcome
    <3>3. R(naming).present /\ (R(naming).excluded <=> empty)
      BY <2>1, <2>3, <3>1, MatrixOutcome
    <3>4. R(n).excluded \in BOOLEAN /\ R(naming).excluded \in BOOLEAN
      BY <3>1 DEF MatrixSuffixes, MatrixValueSuffixes, Enumerated, NotEnumerable, Failed, Excluded, Instances, Fanout
    <3>5. CASE MultiDeploySpec(deployment).present
      <4>1. F(n).excluded = FALSE /\ F(naming).excluded = FALSE
        BY <3>2, <3>3, <3>5 DEF StageStrat, CombineStageSpecs, NotEnumerable, Fanout
      <4>. QED
        BY <2>1, <4>1
    <3>6. CASE ~ MultiDeploySpec(deployment).present
      <4>1. F(n) = R(n) /\ F(naming) = R(naming)
        BY <3>2, <3>3, <3>6 DEF StageStrat, CombineStageSpecs
      <4>. QED
        BY <2>1, <3>2, <3>3, <3>4, <4>1
    <3>. QED
      BY <3>5, <3>6
  <2>. QED
    BY <2>2, <2>3
<1>. QED
  BY <1>1, AlwaysBuilt, PTL

-----------------------------------------------------------------------------
(* Well-formed fan-outs.                                                   *)

Typed(F) ==
  /\ F.suffixes \subseteq Names
  /\ F.status \in FanoutStatuses
  /\ F.known <=> F.suffixes # {}
  /\ F.present /\ F.error = "none" =>
       /\ F.known => ~ F.excluded /\ F.status = "none"
       /\ ~ F.known => (F.excluded <=> F.status = "none")

LEMMA Outcomes ==
  /\ \A S \in SUBSET Names : Typed(Enumerated(S)) /\ (S # {} => Typed(Instances(S)))
  /\ Typed(NoFanout) /\ \A e : Typed([NotEnumerable("runtime_input") EXCEPT !.error = e])
  /\ \A status \in {"runtime_input", "custom_names"} : Typed(NotEnumerable(status))
  /\ \A e \in {"invalid", "unsupported"} : Typed(Failed(e))
BY DEF Typed, Enumerated, Instances, Excluded, NoFanout, NotEnumerable, Failed, Fanout, FanoutStatuses

LEMMA MatrixTyped ==
  ASSUME NEW m, MatrixBlock(m), NEW n \in {"index", "value"}
  PROVE  Typed(MatrixSuffixes(m, n))
<1>. DEFINE C == Combos(m.axes)
            I(K) == {IndexName(m.axes, c) : c \in K}
            V(K) == {ValueName(m.axes, c) : c \in K}
<1>1. m.axes # <<>> => \A K \in SUBSET C : I(K) \in SUBSET Names /\ V(K) \in SUBSET Names
  BY IndexNames, ValueNameTyped
<1>2. MatrixCombos(m.axes, m.excludes) \in SUBSET C
  BY DEF MatrixCombos
<1>3. m.axes # <<>> => Typed(MatrixValueSuffixes(m.axes, m.excludes))
  BY <1>1, <1>2, Outcomes DEF MatrixValueSuffixes
<1>4. m.axes # <<>> => \A K \in SUBSET C : Typed(Enumerated(I(K)))
  BY <1>1, Outcomes
<1>5. m.flags \subseteq {"runtimeInput", "badShape", "nodeName"}
  BY DEF MatrixBlock
<1>. HIDE DEF C, I
<1>6. \/ \E status \in {"runtime_input", "custom_names"} : MatrixSuffixes(m, n) = NotEnumerable(status)
      \/ MatrixSuffixes(m, n) = Failed("invalid")
      \/ m.axes # <<>> /\ \E K \in SUBSET C : MatrixSuffixes(m, n) = Enumerated(I(K))
      \/ m.axes # <<>> /\ MatrixSuffixes(m, n) = MatrixValueSuffixes(m.axes, m.excludes)
  <2>1. CASE "runtimeInput" \in m.flags
    BY <2>1 DEF MatrixSuffixes
  <2>2. CASE "runtimeInput" \notin m.flags /\ "badShape" \in m.flags
    BY <2>2 DEF MatrixSuffixes
  <2>3. CASE m.flags = {"nodeName"}
    BY <2>3 DEF MatrixSuffixes
  <2>4. CASE m.flags = {} /\ m.axes = <<>>
    BY <2>4 DEF MatrixSuffixes
  <2>5. CASE m.flags = {} /\ m.axes # <<>>
    <3>1. MatrixSuffixes(m, n) = IF n = "index" /\ m.excludes = {} THEN Enumerated(I(C))
                                 ELSE IF \E a \in DOMAIN m.axes : ~ m.axes[a].scalar THEN NotEnumerable("custom_names")
                                 ELSE IF n = "value" THEN MatrixValueSuffixes(m.axes, m.excludes)
                                 ELSE Enumerated(I(MatrixCombos(m.axes, m.excludes)))
      BY <2>5 DEF MatrixSuffixes, C, I
    <3>. QED
      BY <1>2, <2>5, <3>1
  <2>. QED
    BY <1>5, <2>1, <2>2, <2>3, <2>4, <2>5
<1>. QED
  BY <1>3, <1>4, <1>6, Outcomes

LEMMA RangeTyped ==
  ASSUME NEW n \in Positions
  PROVE  RangeSuffixes(n) \in SUBSET Names /\ RangeSuffixes(n) # {} /\ n > 0
<1>1. n \in Nat \ {0}
  BY IndexPositions
<1>2. <<IndexTokens[1]>> \in RangeSuffixes(n)
  BY <1>1 DEF RangeSuffixes
<1>. QED
  BY <1>1, <1>2, RangeNames

LEMMA ResolveTyped ==
  ASSUME NEW s, StrategyBlock(s), NEW n \in {"index", "value"}
  PROVE  Typed(Resolve(s, n))
<1>1. s.type \in {"matrix", "parallelism", "repeat", "none", "runtimeInput", "unrecognized"}
  BY DEF StrategyBlock
<1>2. CASE s.type = "matrix"
  BY <1>2, MatrixTyped DEF Resolve, StrategyBlock
<1>3. CASE s.type = "parallelism"
  <2>1. Resolve(s, n) = ParallelismSuffixes(s) /\ s.count \in {0} \cup Positions
    BY <1>3 DEF Resolve, StrategyBlock
  <2>2. CASE s.count = 0
    BY <2>1, <2>2, Outcomes DEF ParallelismSuffixes
  <2>3. CASE s.count \in Positions
    BY <2>1, <2>3, RangeTyped, Outcomes DEF ParallelismSuffixes
  <2>. QED
    BY <2>1, <2>2, <2>3
<1>4. CASE s.type = "repeat"
  <2>1. /\ Resolve(s, n) = RepeatSuffixes(s)
        /\ s.times \in {-1, 0} \cup Positions /\ s.items \in {-1, 0} \cup Positions
    BY <1>4 DEF Resolve, StrategyBlock
  <2>2. \/ \E status \in {"runtime_input", "custom_names"} : RepeatSuffixes(s) = NotEnumerable(status)
        \/ s.times > 0 /\ RepeatSuffixes(s) = Instances(RangeSuffixes(s.times))
        \/ s.items >= 0 /\ RepeatSuffixes(s) = Enumerated(RangeSuffixes(s.items))
    <3>1. CASE s.flags = {} /\ s.times > 0
      BY <3>1 DEF RepeatSuffixes
    <3>2. CASE s.flags = {} /\ s.times = -1 /\ s.items >= 0
      BY <3>2 DEF RepeatSuffixes
    <3>3. CASE ~ (s.flags = {} /\ s.times > 0) /\ ~ (s.flags = {} /\ s.times = -1 /\ s.items >= 0)
      BY <3>3 DEF RepeatSuffixes
    <3>. QED
      BY <3>1, <3>2, <3>3
  <2>3. CASE s.times > 0 /\ RepeatSuffixes(s) = Instances(RangeSuffixes(s.times))
    <3>1. \A x \in {-1, 0} : ~ x > 0
      OBVIOUS
    <3>2. s.times \in Positions
      BY <2>1, <2>3, <3>1, Zenon
    <3>. QED
      BY <2>1, <2>3, <3>2, RangeTyped, Outcomes
  <2>4. CASE s.items >= 0 /\ RepeatSuffixes(s) = Enumerated(RangeSuffixes(s.items))
    <3>1. ~ -1 >= 0
      OBVIOUS
    <3>2. s.items = 0 \/ s.items \in Positions
      BY <2>1, <2>4, <3>1, Zenon
    <3>3. RangeSuffixes(0) \in SUBSET Names
      BY RangeNames
    <3>4. RangeSuffixes(s.items) \in SUBSET Names
      BY <3>2, <3>3, RangeTyped, Zenon
    <3>. QED
      BY <2>1, <2>4, <3>4, Outcomes
  <2>. QED
    BY <2>1, <2>2, <2>3, <2>4, Outcomes
<1>5. CASE s.type \in {"none", "runtimeInput", "unrecognized"}
  BY <1>5, Outcomes DEF Resolve
<1>. QED
  BY <1>1, <1>2, <1>3, <1>4, <1>5

LEMMA DeploymentTyped ==
  ASSUME NEW d, DeploymentBlock(d)
  PROVE  Typed(MultiDeploySpec(d))
<1>. DEFINE N == {PairName(d, p) : p \in Pairs(d)}
<1>1. CASE d.services = <<>> /\ d.envs = <<>>
  BY <1>1, DeploymentCases, Outcomes
<1>2. CASE d.services # <<>> \/ d.envs # <<>>
  <2>1. ASSUME NEW p \in Pairs(d) PROVE PairName(d, p) \in Names
    <3>. DEFINE r == Rows(d)[p[2]]
                v == Services(d)[p[1]]
    <3>1. p[1] \in DOMAIN Services(d) /\ p[2] \in DOMAIN Rows(d)
      BY DEF Pairs
    <3>2. /\ IF d.envs # <<>> THEN r \in Names ELSE r = <<>>
          /\ IF d.services # <<>> THEN v \in Names ELSE v = <<>>
      BY <3>1, RowsNamed, ServicesNamed DEF NamedOrNone
    <3>3. r \in Seq(STRING) /\ v \in Seq(STRING) /\ (r # <<>> \/ v # <<>>)
      BY <1>2, <3>2, EmptySeq DEF Names
    <3>. HIDE DEF r, v
    <3>4. r \o v \in Names
      BY <3>3, ConcatProperties, ConcatEqualIffEmpty DEF Names
    <3>. QED
      BY <3>4, Truncated DEF PairName, r, v
  <2>2. N \in SUBSET Names
    BY <2>1
  <2>3. N # {}
    <3>1. 1 \in DOMAIN Services(d)
      BY ServicesNamed DEF NamedOrNone
    <3>2. 1 \in DOMAIN Rows(d)
      BY RowsNamed DEF NamedOrNone
    <3>3. <<1, 1>> \in Pairs(d)
      BY <3>1, <3>2 DEF Pairs
    <3>. QED
      BY <3>3
  <2>. HIDE DEF N
  <2>4. \/ MultiDeploySpec(d) = NotEnumerable("runtime_input")
        \/ MultiDeploySpec(d) = Instances(N)
    BY <1>2, DeploymentCases DEF N
  <2>. QED
    BY <2>2, <2>3, <2>4, Outcomes
<1>. QED
  BY <1>1, <1>2

(* Whatever the blocks, the fan-out the evaluation reads is well formed:   *)
(* known with its names, skipped, or unknown for a stated reason.          *)
THEOREM FanoutTyped == FanoutSpec => []TypeOK
<1>1. Built => TypeOK
  <2>. SUFFICES ASSUME Built PROVE Typed(strat)
    BY DEF Typed, TypeOK, Names
  <2>. DEFINE R == Resolve(strategy, naming)
              D == MultiDeploySpec(deployment)
  <2>1. Typed(R) /\ Typed(D)
    BY ResolveTyped, DeploymentTyped DEF Built
  <2>2. strat = NoFanout \/ strat = CombineStageSpecs(R, D)
    BY DEF Built, StageStrat
  <2>. HIDE DEF R, D
  <2>. QED
    BY <2>1, <2>2, Outcomes DEF CombineStageSpecs
<1>. QED
  BY <1>1, AlwaysBuilt, PTL

=============================================================================
