------------------------- MODULE PipelineGraphProofs -------------------------
(***************************************************************************)
(* The gate of every step of every document keeps its order.               *)
(*                                                                         *)
(* From the tree: paths, the order of the units, the climb to the units    *)
(* immediately before a step, the walk over the ones stepped over, the     *)
(* names and runs of a fan-out, the gate that all of it yields, and the    *)
(* graph that BuildGraph makes of a document.                              *)
(***************************************************************************)
EXTENDS StepEvaluation, PipelineOrder, FiniteSetTheorems, FunctionTheorems, SequenceTheorems,
        WellFoundedInduction, TLAPS

LEMMA Least ==
  ASSUME NEW T \in SUBSET Nat, T # {}
  PROVE  \E n \in T : \A m \in T : n <= m
<1>1. PICK n \in T : \A m \in T : <<m, n>> \notin OpToRel(<, Nat)
  BY WFMin, NatLessThanWellFounded
<1>2. \A m \in T : ~ (m < n)
  BY <1>1 DEF OpToRel
<1>. QED
  BY <1>2

-----------------------------------------------------------------------------
(* Paths.                                                                  *)

Paths == Seq(Nat)

\* The path c leads to n or to a container of n.
Leads(c, n) == Len(c) <= Len(n) /\ \A i \in 1..Len(c) : c[i] = n[i]

LEMMA Cut ==
  ASSUME NEW n \in Paths, NEW k \in 0..Len(n)
  PROVE  /\ SubSeq(n, 1, k) \in Paths /\ Len(SubSeq(n, 1, k)) = k
         /\ \A i \in 1..k : SubSeq(n, 1, k)[i] = n[i]
         /\ Leads(SubSeq(n, 1, k), n)
<1>1. Len(n) \in Nat
  BY LenProperties DEF Paths
<1>2. \A i \in 1..k : n[i] \in Nat
  BY <1>1, ElementOfSeq DEF Paths
<1>3. /\ SubSeq(n, 1, k) \in Seq(Nat)
      /\ Len(SubSeq(n, 1, k)) = IF 1 <= k THEN k - 1 + 1 ELSE 0
      /\ \A i \in 1..k - 1 + 1 : SubSeq(n, 1, k)[i] = n[1 + i - 1]
  BY <1>1, <1>2, SubSeqProperties
<1>. QED
  BY <1>1, <1>3 DEF Paths, Leads

\* The containers of a node are the paths that lead to it.
LEMMA ChainIs ==
  ASSUME NEW n \in Paths, NEW c
  PROVE  c \in Chain(n) <=> c \in Paths /\ Leads(c, n)
<1>1. ASSUME c \in Chain(n) PROVE c \in Paths /\ Leads(c, n)
  BY <1>1, Cut DEF Chain, Prefixes
<1>2. ASSUME c \in Paths, Leads(c, n) PROVE c \in Chain(n)
  <2>1. Len(c) \in 0..Len(n) /\ Len(c) \in Nat
    BY <1>2, LenProperties DEF Leads, Paths
  <2>2. c = SubSeq(n, 1, Len(c))
    <3>. DEFINE d == SubSeq(n, 1, Len(c))
    <3>1. d \in Paths /\ Len(d) = Len(c) /\ \A i \in 1..Len(c) : d[i] = n[i]
      BY <2>1, Cut
    <3>. HIDE DEF d
    <3>2. c = d
      BY <1>2, <3>1, SeqEqual DEF Paths, Leads
    <3>. QED
      BY <3>2 DEF d
  <2>. QED
    BY <2>1, <2>2 DEF Chain, Prefixes
<1>. QED
  BY <1>1, <1>2

\* A path that leads to another of the same length is that path.
LEMMA LeadsSame ==
  ASSUME NEW c \in Paths, NEW n \in Paths, Leads(c, n), Len(n) <= Len(c)
  PROVE  c = n
<1>1. Len(c) = Len(n)
  BY LenProperties DEF Leads, Paths
<1>. QED
  BY <1>1, SeqEqual DEF Leads, Paths

LEMMA PrefixIs ==
  ASSUME NEW n \in Paths, NEW x \in Paths
  PROVE  IsPrefix(n, x) <=> Leads(n, x)
<1>1. Len(n) \in Nat /\ Len(x) \in Nat
  BY LenProperties DEF Paths
<1>2. SubSeq(n, 1, Len(n)) = n
  BY SubSeqFull DEF Paths
<1>3. ASSUME Len(n) <= Len(x)
      PROVE  /\ SubSeq(x, 1, Len(n)) \in Paths /\ Len(SubSeq(x, 1, Len(n))) = Len(n)
             /\ \A i \in 1..Len(n) : SubSeq(x, 1, Len(n))[i] = x[i]
  BY <1>1, <1>3, Cut
<1>4. ASSUME IsPrefix(n, x) PROVE Leads(n, x)
  BY <1>2, <1>3, <1>4 DEF IsPrefix, Leads
<1>5. ASSUME Leads(n, x) PROVE IsPrefix(n, x)
  <2>. DEFINE d == SubSeq(x, 1, Len(n))
  <2>1. d \in Paths /\ Len(d) = Len(n) /\ \A i \in 1..Len(n) : d[i] = x[i]
    BY <1>3, <1>5 DEF Leads
  <2>. HIDE DEF d
  <2>2. n = d
    BY <1>5, <2>1, SeqEqual DEF Leads, Paths
  <2>. QED
    BY <1>2, <1>5, <2>2 DEF IsPrefix, Leads, d
<1>. QED
  BY <1>4, <1>5

LEMMA UnderIs ==
  ASSUME NEW n \in Paths, NEW x \in Paths
  PROVE  Under(n, x) <=> Leads(n, x) /\ Len(n) < Len(x)
<1>1. Len(n) \in Nat /\ Len(x) \in Nat
  BY LenProperties DEF Paths
<1>. QED
  BY <1>1, PrefixIs, LeadsSame DEF Under, Leads

LEMMA LeadsTransitive ==
  ASSUME NEW c \in Paths, NEW n \in Paths, NEW x \in Paths, Leads(c, n), Leads(n, x)
  PROVE  Leads(c, x)
<1>1. Len(c) \in Nat /\ Len(n) \in Nat /\ Len(x) \in Nat
  BY LenProperties DEF Paths
<1>. QED
  BY <1>1 DEF Leads

\* Of two containers of a node the shorter path leads to the longer one.
LEMMA LeadsNested ==
  ASSUME NEW c \in Paths, NEW d \in Paths, NEW x \in Paths, Leads(c, x), Leads(d, x), Len(c) <= Len(d)
  PROVE  Leads(c, d)
<1>1. Len(c) \in Nat /\ Len(d) \in Nat /\ Len(x) \in Nat
  BY LenProperties DEF Paths
<1>. QED
  BY <1>1 DEF Leads

LEMMA ChainSize ==
  ASSUME NEW n \in Paths
  PROVE  IsFiniteSet(Chain(n)) /\ Cardinality(Chain(n)) = Len(n) + 1
<1>. DEFINE S == 0..Len(n)
            cut == [k \in S |-> SubSeq(n, 1, k)]
<1>1. Len(n) \in Nat
  BY LenProperties DEF Paths
<1>2. IsFiniteSet(S) /\ Cardinality(S) = Len(n) + 1
  <2>. DEFINE l == Len(n)
  <2>. HIDE DEF l
  <2>1. l \in Nat
    BY <1>1 DEF l
  <2>2. 0 \in Int /\ l \in Int
    BY <2>1
  <2>3. IsFiniteSet(0..l) /\ Cardinality(0..l) = IF 0 > l THEN 0 ELSE l - 0 + 1
    BY <2>2, FS_Interval
  <2>4. Cardinality(0..l) = l + 1
    BY <2>1, <2>3
  <2>. QED
    BY <2>3, <2>4 DEF l
<1>3. \A k \in S : cut[k] \in Chain(n) /\ Len(cut[k]) = k
  BY Cut DEF Chain, Prefixes
<1>4. \A c \in Chain(n) : \E k \in S : cut[k] = c
  BY DEF Chain, Prefixes
<1>5. cut \in [S -> Chain(n)]
  BY <1>3
<1>6. cut \in Bijection(S, Chain(n))
  BY <1>3, <1>4, <1>5 DEF Bijection, Injection, Surjection, IsInjective
<1>7. ExistsBijection(S, Chain(n))
  BY <1>6 DEF ExistsBijection
<1>. HIDE DEF S
<1>8. IsFiniteSet(Chain(n)) /\ Cardinality(Chain(n)) = Cardinality(S)
  BY <1>2, <1>7, FS_Bijection
<1>. QED
  BY <1>2, <1>8

-----------------------------------------------------------------------------
(* The container two nodes share.                                          *)

LEMMA SharedLongest ==
  ASSUME NEW x \in Paths, NEW y \in Paths, NEW c \in Paths, Leads(c, x), Leads(c, y),
         \A d \in Paths : Leads(d, x) /\ Leads(d, y) => Len(d) <= Len(c)
  PROVE  Shared(x, y) = c
<1>. DEFINE both == Chain(x) \cap Chain(y)
<1>1. both = Chain(c)
  <2>1. ASSUME NEW d \in both PROVE d \in Chain(c)
    <3>1. d \in Paths /\ Leads(d, x) /\ Leads(d, y)
      BY ChainIs
    <3>2. Leads(d, c)
      BY <3>1, LeadsNested
    <3>. QED
      BY <3>1, <3>2, ChainIs
  <2>2. ASSUME NEW d \in Chain(c) PROVE d \in both
    <3>1. d \in Paths /\ Leads(d, c)
      BY ChainIs
    <3>2. Leads(d, x) /\ Leads(d, y)
      BY <3>1, LeadsTransitive
    <3>. QED
      BY <3>1, <3>2, ChainIs
  <2>. QED
    BY <2>1, <2>2
<1>2. Len(c) \in Nat /\ Cardinality(both) - 1 = Len(c)
  <2>1. Cardinality(Chain(c)) = Len(c) + 1
    BY ChainSize
  <2>2. Len(c) \in Nat
    BY LenProperties DEF Paths
  <2>. HIDE DEF both
  <2>. QED
    BY <1>1, <2>1, <2>2
<1>3. c \in both
  BY ChainIs
<1>4. ASSUME NEW d \in both, Len(d) = Cardinality(both) - 1 PROVE d = c
  <2>1. d \in Paths /\ Leads(d, c)
    BY <1>1, ChainIs
  <2>. QED
    BY <1>2, <1>4, <2>1, LeadsSame
<1>. HIDE DEF both
<1>5. (CHOOSE d \in both : Len(d) = Cardinality(both) - 1) = c
  BY <1>2, <1>3, <1>4
<1>. QED
  BY <1>5 DEF Shared, LowestCommonAncestor, both

\* Two nodes share the container in which they take different positions.
LEMMA SharedIs ==
  ASSUME NEW x \in Paths, NEW y \in Paths, NEW c \in Paths, Leads(c, x), Leads(c, y),
         Len(c) < Len(x), Len(c) < Len(y), x[Len(c) + 1] # y[Len(c) + 1]
  PROVE  Shared(x, y) = c
<1>1. Len(c) \in Nat
  BY LenProperties DEF Paths
<1>2. ASSUME NEW d \in Paths, Leads(d, x), Leads(d, y) PROVE Len(d) <= Len(c)
  <2>1. Len(d) \in Nat
    BY LenProperties DEF Paths
  <2>. SUFFICES ASSUME Len(d) > Len(c) PROVE FALSE
    BY <1>1, <2>1
  <2>2. Len(c) + 1 \in 1..Len(d)
    BY <1>1, <2>1
  <2>. QED
    BY <1>2, <2>2 DEF Leads
<1>. QED
  BY <1>2, SharedLongest

LEMMA SharedLeads ==
  ASSUME NEW x \in Paths, NEW y \in Paths
  PROVE  LET c == Shared(x, y)
         IN  /\ c \in Paths /\ Leads(c, x) /\ Leads(c, y)
             /\ c # x /\ c # y =>
                  Len(c) < Len(x) /\ Len(c) < Len(y) /\ x[Len(c) + 1] # y[Len(c) + 1]
<1>. DEFINE both == {d \in Paths : Leads(d, x) /\ Leads(d, y)}
            T == {Len(x) - Len(d) : d \in both}
<1>1. Len(x) \in Nat /\ Len(y) \in Nat
  BY LenProperties DEF Paths
<1>2. <<>> \in both
  BY <1>1, EmptySeq DEF Paths, Leads
<1>3. T \in SUBSET Nat
  <2>1. ASSUME NEW d \in both PROVE Len(x) - Len(d) \in Nat
    BY <1>1, LenProperties DEF Paths, Leads
  <2>. QED
    BY <2>1
<1>4. T # {}
  BY <1>2
<1>5. PICK m \in T : \A k \in T : m <= k
  BY <1>3, <1>4, Least
<1>6. PICK c \in both : m = Len(x) - Len(c)
  BY <1>5
<1>7. Len(c) \in Nat
  BY LenProperties DEF Paths
<1>8. ASSUME NEW d \in both PROVE Len(d) <= Len(c)
  <2>1. Len(x) - Len(c) <= Len(x) - Len(d)
    BY <1>5, <1>6
  <2>2. Len(d) \in Nat
    BY LenProperties DEF Paths
  <2>. QED
    BY <1>1, <1>7, <2>1, <2>2
<1>9. Shared(x, y) = c
  BY <1>8, SharedLongest
<1>10. ASSUME c # x, c # y
       PROVE  Len(c) < Len(x) /\ Len(c) < Len(y) /\ x[Len(c) + 1] # y[Len(c) + 1]
  <2>1. Len(c) < Len(x) /\ Len(c) < Len(y)
    BY <1>1, <1>7, <1>10, LeadsSame DEF Leads
  <2>. SUFFICES ASSUME x[Len(c) + 1] = y[Len(c) + 1] PROVE FALSE
    BY <2>1
  <2>. DEFINE d == SubSeq(x, 1, Len(c) + 1)
  <2>2. Len(c) + 1 \in 0..Len(x)
    BY <1>1, <1>7, <2>1
  <2>3. d \in Paths /\ Len(d) = Len(c) + 1 /\ Leads(d, x) /\ \A i \in 1..Len(c) + 1 : d[i] = x[i]
    BY <2>2, Cut
  <2>. HIDE DEF d
  <2>4. Leads(d, y)
    <3>1. \A i \in 1..Len(c) + 1 : i \in 1..Len(c) \/ i = Len(c) + 1
      BY <1>7
    <3>. QED
      BY <1>1, <1>7, <2>1, <2>3, <3>1 DEF Leads
  <2>. QED
    BY <1>7, <1>8, <2>3, <2>4
<1>. QED
  BY <1>9, <1>10

-----------------------------------------------------------------------------
(* The order of a document.                                                *)

\* x comes before y in the container c.
BeforeIn(g, c, x, y) ==
  /\ Leads(c, x) /\ Leads(c, y) /\ Len(c) < Len(x) /\ Len(c) < Len(y)
  /\ g[c].kind # "parallel"
  /\ ForwardFrom(c, x) /\ ForwardFrom(c, y)
  /\ x[Len(c) + 1] < y[Len(c) + 1]

LEMMA BeforeIs ==
  ASSUME NEW g, NEW x \in Paths, NEW y \in Paths
  PROVE  /\ Before(g, x, y) => Shared(x, y) \in Paths /\ BeforeIn(g, Shared(x, y), x, y)
         /\ \A c \in Paths : BeforeIn(g, c, x, y) => Shared(x, y) = c /\ Before(g, x, y)
<1>1. ASSUME Before(g, x, y) PROVE Shared(x, y) \in Paths /\ BeforeIn(g, Shared(x, y), x, y)
  BY <1>1, SharedLeads DEF Before, BeforeIn
<1>2. ASSUME NEW c \in Paths, BeforeIn(g, c, x, y) PROVE Shared(x, y) = c /\ Before(g, x, y)
  <2>1. Len(c) + 1 \in 1..Len(x) /\ Len(c) + 1 \in 1..Len(y)
    BY <1>2, LenProperties DEF BeforeIn, Paths
  <2>2. x[Len(c) + 1] \in Nat /\ y[Len(c) + 1] \in Nat
    BY <2>1, ElementOfSeq DEF Paths
  <2>3. x[Len(c) + 1] # y[Len(c) + 1]
    BY <1>2, <2>2 DEF BeforeIn
  <2>4. Shared(x, y) = c
    BY <1>2, <2>3, SharedIs DEF BeforeIn
  <2>5. Len(x) \in Nat /\ Len(y) \in Nat /\ Len(c) \in Nat
    BY LenProperties DEF Paths
  <2>. QED
    BY <1>2, <2>4, <2>5 DEF BeforeIn, Before
<1>. QED
  BY <1>1, <1>2

\* Of two steps in the order, the wider one is in the wider of their containers.
LEMMA BeforeNested ==
  ASSUME NEW g, NEW x \in Paths, NEW p \in Paths, NEW y \in Paths, NEW c \in Paths, NEW d \in Paths,
         BeforeIn(g, c, x, p), BeforeIn(g, d, p, y)
  PROVE  \/ Leads(c, d) /\ BeforeIn(g, c, x, y)
         \/ Leads(d, c) /\ Len(d) < Len(c) /\ BeforeIn(g, d, x, y)
<1>1. BeforeIn(g, c, x, p)
  OBVIOUS
<1>2. BeforeIn(g, d, p, y)
  OBVIOUS
<1>3. /\ Len(c) \in Nat /\ Len(d) \in Nat /\ Len(x) \in Nat /\ Len(p) \in Nat /\ Len(y) \in Nat
      /\ \A i \in 1..Len(x) : x[i] \in Nat
      /\ \A i \in 1..Len(p) : p[i] \in Nat
      /\ \A i \in 1..Len(y) : y[i] \in Nat
  BY LenProperties, ElementOfSeq DEF Paths
<1>4. CASE Len(c) < Len(d)
  <2>1. Leads(c, d)
    BY <1>1, <1>2, <1>3, <1>4, LeadsNested DEF BeforeIn
  <2>2. Leads(c, y) /\ p[Len(c) + 1] = y[Len(c) + 1]
    <3>1. Leads(c, y)
      BY <1>2, <2>1, LeadsTransitive DEF BeforeIn
    <3>2. Len(c) + 1 \in 1..Len(d)
      BY <1>3, <1>4
    <3>3. d[Len(c) + 1] = p[Len(c) + 1] /\ d[Len(c) + 1] = y[Len(c) + 1]
      BY <1>2, <3>2 DEF BeforeIn, Leads
    <3>. QED
      BY <3>1, <3>3
  <2>3. ForwardFrom(c, y)
    <3>. SUFFICES ASSUME NEW k \in Len(c) + 1..Len(y) PROVE y[k] > 0
      BY DEF ForwardFrom
    <3>1. CASE k <= Len(d)
      BY <1>1, <1>2, <1>3, <3>1 DEF BeforeIn, ForwardFrom, Leads
    <3>2. CASE k > Len(d)
      BY <1>2, <1>3, <3>2 DEF BeforeIn, ForwardFrom
    <3>. QED
      BY <1>3, <3>1, <3>2
  <2>4. BeforeIn(g, c, x, y)
    BY <1>1, <1>2, <1>3, <1>4, <2>2, <2>3 DEF BeforeIn
  <2>. QED
    BY <2>1, <2>4
<1>5. CASE Len(d) < Len(c)
  <2>1. Leads(d, c)
    BY <1>1, <1>2, <1>3, <1>5, LeadsNested DEF BeforeIn
  <2>2. Leads(d, x) /\ p[Len(d) + 1] = x[Len(d) + 1]
    <3>1. Leads(d, x)
      BY <1>1, <2>1, LeadsTransitive DEF BeforeIn
    <3>2. Len(d) + 1 \in 1..Len(c)
      BY <1>3, <1>5
    <3>3. c[Len(d) + 1] = p[Len(d) + 1] /\ c[Len(d) + 1] = x[Len(d) + 1]
      BY <1>1, <3>2 DEF BeforeIn, Leads
    <3>. QED
      BY <3>1, <3>3
  <2>3. ForwardFrom(d, x)
    <3>. SUFFICES ASSUME NEW k \in Len(d) + 1..Len(x) PROVE x[k] > 0
      BY DEF ForwardFrom
    <3>1. CASE k <= Len(c)
      <4>1. k \in 1..Len(c) /\ k \in Len(d) + 1..Len(p)
        BY <1>1, <1>3, <3>1 DEF BeforeIn
      <4>2. x[k] = c[k] /\ p[k] = c[k]
        BY <1>1, <4>1 DEF BeforeIn, Leads
      <4>3. p[k] > 0
        BY <1>2, <4>1 DEF BeforeIn, ForwardFrom
      <4>. QED
        BY <4>2, <4>3
    <3>2. CASE k > Len(c)
      BY <1>1, <1>3, <3>2 DEF BeforeIn, ForwardFrom
    <3>. QED
      BY <1>3, <3>1, <3>2
  <2>4. BeforeIn(g, d, x, y)
    BY <1>1, <1>2, <1>3, <1>5, <2>2, <2>3 DEF BeforeIn
  <2>. QED
    BY <1>5, <2>1, <2>4
<1>6. CASE Len(c) = Len(d)
  <2>1. c = d
    BY <1>1, <1>2, <1>3, <1>6, LeadsNested, LeadsSame DEF BeforeIn
  <2>2. Len(c) + 1 \in 1..Len(x) /\ Len(c) + 1 \in 1..Len(p) /\ Len(c) + 1 \in 1..Len(y)
    BY <1>1, <1>2, <1>3, <2>1 DEF BeforeIn
  <2>3. x[Len(c) + 1] < y[Len(c) + 1]
    BY <1>1, <1>2, <1>3, <2>1, <2>2 DEF BeforeIn
  <2>4. BeforeIn(g, c, x, y)
    BY <1>1, <1>2, <2>1, <2>3 DEF BeforeIn
  <2>5. Leads(c, d)
    BY <1>3, <2>1 DEF Leads
  <2>. QED
    BY <2>4, <2>5
<1>. QED
  BY <1>3, <1>4, <1>5, <1>6


(* What comes before something that comes before a step comes before the   *)
(* step.                                                                   *)
LEMMA BeforeTransitive ==
  ASSUME NEW g, NEW x \in Paths, NEW p \in Paths, NEW y \in Paths, Before(g, x, p), Before(g, p, y)
  PROVE  Before(g, x, y)
<1>1. PICK c \in Paths : BeforeIn(g, c, x, p)
  BY BeforeIs
<1>2. PICK d \in Paths : BeforeIn(g, d, p, y)
  BY BeforeIs
<1>. QED
  BY <1>1, <1>2, BeforeNested, BeforeIs

-----------------------------------------------------------------------------
(* The containers of a node in a graph.                                    *)

LEMMA ParentIs ==
  ASSUME NEW n \in Paths, n # <<>>
  PROVE  /\ Parent(n) \in Paths /\ Leads(Parent(n), n) /\ Len(n) \in Nat \ {0}
         /\ Len(Parent(n)) = Len(n) - 1
<1>1. Len(n) \in Nat \ {0} /\ Len(n) - 1 \in 0..Len(n)
  BY EmptySeq, LenProperties DEF Paths
<1>. QED
  BY <1>1, Cut DEF Parent, Front

\* The path with one position more.
LEMMA ParentOfCut ==
  ASSUME NEW n \in Paths, NEW k \in 1..Len(n)
  PROVE  LET d == SubSeq(n, 1, k)
         IN  /\ d \in Paths /\ d # <<>> /\ Leads(d, n) /\ Len(d) = k /\ Last(d) = n[k]
             /\ Parent(d) = SubSeq(n, 1, k - 1)
<1>. DEFINE d == SubSeq(n, 1, k)
            c == SubSeq(n, 1, k - 1)
<1>1. Len(n) \in Nat /\ k \in 0..Len(n) /\ k - 1 \in 0..Len(n)
  BY LenProperties DEF Paths
<1>2. d \in Paths /\ Len(d) = k /\ Leads(d, n) /\ \A i \in 1..k : d[i] = n[i]
  BY <1>1, Cut
<1>3. c \in Paths /\ Len(c) = k - 1 /\ Leads(c, n)
  BY <1>1, Cut
<1>. HIDE DEF d, c
<1>4. d # <<>> /\ Last(d) = n[k]
  BY <1>2, EmptySeq DEF Last
<1>5. Parent(d) \in Paths /\ Leads(Parent(d), d) /\ Len(Parent(d)) = k - 1
  BY <1>2, <1>4, ParentIs
<1>6. Leads(Parent(d), n)
  BY <1>2, <1>5, LeadsTransitive
<1>7. Leads(Parent(d), c)
  BY <1>3, <1>5, <1>6, LeadsNested, LenProperties DEF Paths
<1>8. Parent(d) = c
  BY <1>3, <1>5, <1>7, LeadsSame, LenProperties DEF Paths
<1>. QED
  BY <1>2, <1>4, <1>8 DEF d, c

\* A set that has the parents of its paths has all their containers.
LEMMA ChainInTree ==
  ASSUME NEW D \in SUBSET Paths, \A d \in D \ {<<>>} : Parent(d) \in D, NEW n \in D
  PROVE  n \in Paths /\ Chain(n) \subseteq D /\ Chain(n) \subseteq Paths
<1>1. n \in Paths
  OBVIOUS
<1>2. Len(n) \in Nat
  BY <1>1, LenProperties DEF Paths
<1>. DEFINE T == {k \in 0..Len(n) : SubSeq(n, 1, Len(n) - k) \notin D}
<1>3. T = {}
  <2>. SUFFICES ASSUME T # {} PROVE FALSE
    OBVIOUS
  <2>1. T \in SUBSET Nat
    OBVIOUS
  <2>2. PICK k \in T : \A j \in T : k <= j
    BY <2>1, Least
  <2>3. SubSeq(n, 1, Len(n)) = n
    BY <1>1, SubSeqFull DEF Paths
  <2>4. k # 0 /\ k \in 0..Len(n) /\ k \in Nat
    <3>1. k \in 0..Len(n) /\ SubSeq(n, 1, Len(n) - k) \notin D
      BY <2>2
    <3>2. ASSUME k = 0 PROVE FALSE
      <4>1. Len(n) - k = Len(n)
        BY <1>2, <3>2
      <4>2. SubSeq(n, 1, Len(n) - k) = n
        BY <2>3, <4>1
      <4>. QED
        BY <3>1, <4>2
    <3>3. k \in 0..Len(n)
      BY <3>1
    <3>4. k \in Nat
      BY <3>3
    <3>. QED
      BY <3>2, <3>3, <3>4
  <2>5. k - 1 \in 0..Len(n) /\ k - 1 \notin T
    BY <2>2, <2>4
  <2>. DEFINE l == Len(n) - (k - 1)
              d == SubSeq(n, 1, l)
  <2>6. l \in 1..Len(n) /\ l - 1 = Len(n) - k
    BY <1>2, <2>4
  <2>7. d \in D
    BY <2>5
  <2>8. d \in Paths /\ d # <<>> /\ Parent(d) = SubSeq(n, 1, l - 1)
    BY <1>1, <2>6, ParentOfCut
  <2>9. Parent(d) \in D
    BY <2>7, <2>8
  <2>. QED
    BY <2>2, <2>6, <2>8, <2>9
<1>4. ASSUME NEW c \in Chain(n) PROVE c \in D
  <2>1. PICK l \in 0..Len(n) : c = SubSeq(n, 1, l)
    BY DEF Chain, Prefixes
  <2>2. Len(n) - l \in 0..Len(n) /\ Len(n) - (Len(n) - l) = l
    BY <1>2
  <2>. QED
    BY <1>3, <2>1, <2>2
<1>. QED
  BY <1>1, <1>4, ChainIs

LEMMA InTree ==
  ASSUME NEW g, OrderingGraph(g), NEW n \in DOMAIN g
  PROVE  n \in Paths /\ Chain(n) \subseteq DOMAIN g /\ Chain(n) \subseteq Paths
<1>1. DOMAIN g \subseteq Paths /\ \A d \in DOMAIN g \ {<<>>} : Parent(d) \in DOMAIN g
  BY DEF OrderingGraph, Paths
<1>. QED
  BY <1>1, ChainInTree

\* A node is inside a rollback exactly when its path goes through a child 0.
LEMMA RollbackFree ==
  ASSUME NEW g, OrderingGraph(g), NEW n \in DOMAIN g
  PROVE  RollbackContainers(g, n) = {} <=> \A i \in 1..Len(n) : n[i] > 0
<1>1. n \in Paths /\ Chain(n) \subseteq DOMAIN g /\ Chain(n) \subseteq Paths
  BY InTree
<1>2. ASSUME NEW i \in 1..Len(n)
      PROVE  SubSeq(n, 1, i) \in Chain(n) /\ (g[SubSeq(n, 1, i)].kind = "rollback" <=> n[i] = 0)
  <2>. DEFINE d == SubSeq(n, 1, i)
  <2>1. d \in Paths /\ d # <<>> /\ Leads(d, n) /\ Last(d) = n[i]
    BY <1>1, ParentOfCut
  <2>2. d \in Chain(n)
    BY <1>1, <2>1, ChainIs
  <2>3. g[d].kind = "rollback" <=> Last(d) = 0
    BY <1>1, <2>1, <2>2 DEF OrderingGraph
  <2>. QED
    BY <2>1, <2>2, <2>3
<1>3. ASSUME RollbackContainers(g, n) = {}, NEW i \in 1..Len(n) PROVE n[i] > 0
  <2>1. n[i] \in Nat
    BY <1>1, ElementOfSeq DEF Paths
  <2>. QED
    BY <1>2, <1>3, <2>1 DEF RollbackContainers
<1>4. ASSUME \A i \in 1..Len(n) : n[i] > 0, NEW c \in RollbackContainers(g, n) PROVE FALSE
  <2>1. c \in Chain(n) /\ g[c].kind = "rollback"
    BY DEF RollbackContainers
  <2>2. PICK l \in 0..Len(n) : c = SubSeq(n, 1, l)
    BY <2>1 DEF Chain, Prefixes
  <2>3. CASE l = 0
    <3>1. c = <<>>
      BY <2>2, <2>3, SubSeqEmpty
    <3>. QED
      BY <2>1, <3>1 DEF OrderingGraph
  <2>4. CASE l # 0
    <3>1. l \in 1..Len(n)
      BY <1>1, <2>4, LenProperties DEF Paths
    <3>2. n[l] = 0 /\ n[l] > 0
      BY <1>2, <1>4, <2>1, <2>2, <3>1
    <3>. QED
      BY <3>2
  <2>. QED
    BY <2>3, <2>4
<1>. QED
  BY <1>3, <1>4

\* What comes before a step outside all rollbacks is outside them too.
LEMMA BeforeForward ==
  ASSUME NEW g, OrderingGraph(g), NEW x \in DOMAIN g, NEW y \in DOMAIN g,
         RollbackContainers(g, y) = {}, Before(g, x, y)
  PROVE  RollbackContainers(g, x) = {}
<1>1. x \in Paths /\ y \in Paths
  BY InTree
<1>2. PICK c \in Paths : BeforeIn(g, c, x, y)
  BY <1>1, BeforeIs
<1>3. Len(c) \in Nat /\ Len(x) \in Nat /\ Len(y) \in Nat
  BY <1>1, LenProperties DEF Paths
<1>4. \A i \in 1..Len(y) : y[i] > 0
  BY RollbackFree
<1>5. ASSUME NEW i \in 1..Len(x) PROVE x[i] > 0
  <2>1. CASE i <= Len(c)
    <3>1. i \in 1..Len(c) /\ i \in 1..Len(y)
      BY <1>2, <1>3, <2>1 DEF BeforeIn
    <3>2. x[i] = c[i] /\ y[i] = c[i]
      BY <1>2, <3>1 DEF BeforeIn, Leads
    <3>. QED
      BY <1>4, <3>1, <3>2
  <2>2. CASE i > Len(c)
    BY <1>2, <1>3, <2>2 DEF BeforeIn, ForwardFrom
  <2>. QED
    BY <1>3, <2>1, <2>2
<1>. QED
  BY <1>5, RollbackFree

-----------------------------------------------------------------------------
(* What a walk reaches.                                                    *)

\* w is the walk of Reached from S along next, for k rounds.
Walks(w, next, S, k) ==
  w = [j \in 0..k |->
         IF j = 0 THEN [seen |-> {}, new |-> S]
         ELSE [seen |-> w[j - 1].seen \cup w[j - 1].new,
               new  |-> (UNION {next[n] : n \in w[j - 1].new}) \ (w[j - 1].seen \cup w[j - 1].new)]]

LEMMA WalkExists ==
  ASSUME NEW next, NEW S, NEW k \in Nat
  PROVE  \E w : Walks(w, next, S, k)
<1>. DEFINE T == {m \in Nat : ~ \E w : Walks(w, next, S, m)}
<1>. SUFFICES ASSUME T # {} PROVE FALSE
  OBVIOUS
<1>1. PICK m \in T : \A j \in T : m <= j
  BY Least
<1>2. CASE m = 0
  <2>. DEFINE w == [j \in 0..0 |-> [seen |-> {}, new |-> S]]
  <2>1. Walks(w, next, S, m)
    BY <1>2 DEF Walks
  <2>. QED
    BY <1>1, <2>1
<1>3. CASE m # 0
  <2>1. m \in Nat /\ m - 1 \in Nat /\ m - 1 \notin T
    BY <1>1, <1>3
  <2>2. PICK v : Walks(v, next, S, m - 1)
    BY <2>1
  <2>. DEFINE then(r) == [seen |-> r.seen \cup r.new,
                          new  |-> (UNION {next[n] : n \in r.new}) \ (r.seen \cup r.new)]
              w == [j \in 0..m |-> IF j = m THEN then(v[m - 1]) ELSE v[j]]
  <2>3. ASSUME NEW j \in 0..m
        PROVE  w[j] = IF j = 0 THEN [seen |-> {}, new |-> S] ELSE then(w[j - 1])
    <3>1. CASE j = m
      <4>1. j # 0 /\ j - 1 \in 0..m /\ j - 1 # m /\ j - 1 = m - 1
        BY <2>1, <1>3, <3>1
      <4>2. w[j] = then(v[m - 1]) /\ w[j - 1] = v[m - 1]
        BY <3>1, <4>1
      <4>. HIDE DEF w, then
      <4>. QED
        BY <4>1, <4>2
    <3>2. CASE j # m
      <4>1. j \in 0..m - 1 /\ (j # 0 => j - 1 \in 0..m /\ j - 1 # m)
        BY <2>1, <3>2
      <4>2. v[j] = IF j = 0 THEN [seen |-> {}, new |-> S] ELSE then(v[j - 1])
        BY <2>2, <4>1 DEF Walks
      <4>3. w[j] = v[j] /\ (j # 0 => w[j - 1] = v[j - 1])
        BY <3>2, <4>1
      <4>. HIDE DEF w, then
      <4>. QED
        BY <4>2, <4>3
    <3>. QED
      BY <3>1, <3>2
  <2>4. w = [j \in 0..m |-> IF j = 0 THEN [seen |-> {}, new |-> S] ELSE then(w[j - 1])]
    <3>1. DOMAIN w = 0..m /\ w = [j \in 0..m |-> w[j]]
      OBVIOUS
    <3>. HIDE DEF w, then
    <3>. QED
      BY <2>3, <3>1
  <2>. HIDE DEF w
  <2>5. Walks(w, next, S, m)
    BY <2>4 DEF Walks
  <2>. QED
    BY <1>1, <2>5
<1>. QED
  BY <1>2, <1>3

(* Nothing is reached outside a set that holds the beginnings and that no  *)
(* step leaves.                                                            *)
LEMMA ReachedWithin ==
  ASSUME NEW next, NEW S, NEW nodes, IsFiniteSet(nodes),
         NEW T, S \subseteq T, \A n \in T : next[n] \subseteq T
  PROVE  Reached(next, S, nodes) \subseteq T
<1>. DEFINE N == Cardinality(nodes)
            w == CHOOSE v : Walks(v, next, S, N)
<1>1. N \in Nat
  BY FS_CardinalityType
<1>2. Walks(w, next, S, N)
  BY <1>1, WalkExists
<1>3. Reached(next, S, nodes) = w[N].seen \cup w[N].new
  BY DEF Reached, Walks
<1>. HIDE DEF N, w
<1>. DEFINE Within(j) == w[j].seen \subseteq T /\ w[j].new \subseteq T
            Bad == {j \in 0..N : ~ Within(j)}
<1>4. Bad = {}
  <2>. SUFFICES ASSUME Bad # {} PROVE FALSE
    OBVIOUS
  <2>1. Bad \in SUBSET Nat
    OBVIOUS
  <2>2. PICK j \in Bad : \A i \in Bad : j <= i
    BY <2>1, Least
  <2>3. j \in 0..N /\ j \in Nat /\ ~ Within(j)
    BY <2>2
  <2>4. CASE j = 0
    <3>1. w[j] = [seen |-> {}, new |-> S]
      BY <1>1, <1>2, <2>3, <2>4 DEF Walks
    <3>. QED
      BY <2>3, <3>1
  <2>5. CASE j # 0
    <3>1. j - 1 \in 0..N /\ j - 1 \notin Bad
      BY <1>1, <2>2, <2>3, <2>5
    <3>2. Within(j - 1)
      BY <3>1
    <3>. DEFINE r == w[j - 1]
    <3>3. w[j] = [seen |-> r.seen \cup r.new, new |-> (UNION {next[n] : n \in r.new}) \ (r.seen \cup r.new)]
      BY <1>2, <2>3, <2>5 DEF Walks
    <3>. HIDE DEF r
    <3>4. r.seen \subseteq T /\ r.new \subseteq T
      BY <3>2 DEF r
    <3>5. w[j].seen \subseteq T
      BY <3>3, <3>4
    <3>6. w[j].new \subseteq T
      BY <3>3, <3>4
    <3>. QED
      BY <2>3, <3>5, <3>6
  <2>. QED
    BY <2>4, <2>5
<1>5. N \in 0..N /\ N \notin Bad
  BY <1>1, <1>4
<1>. QED
  BY <1>3, <1>5

\* What is reached holds the beginnings and what every step leads to.
LEMMA ReachedClosed ==
  ASSUME NEW next, NEW nodes, IsFiniteSet(nodes), NEW S \in SUBSET nodes,
         \A n \in nodes : next[n] \subseteq nodes
  PROVE  LET R == Reached(next, S, nodes)
         IN  S \subseteq R /\ R \subseteq nodes /\ \A n \in R : next[n] \subseteq R
<1>. DEFINE N == Cardinality(nodes)
            w == CHOOSE v : Walks(v, next, S, N)
<1>1. N \in Nat
  BY FS_CardinalityType
<1>2. Walks(w, next, S, N)
  BY <1>1, WalkExists
<1>3. Reached(next, S, nodes) = w[N].seen \cup w[N].new
  BY DEF Reached, Walks
<1>4. \A T : T \subseteq nodes => IsFiniteSet(T) /\ Cardinality(T) \in Nat
  BY FS_Subset, FS_CardinalityType
<1>5. ASSUME NEW A, NEW B, A \subseteq B, B \subseteq nodes, A # B PROVE Cardinality(A) < Cardinality(B)
  <2>1. IsFiniteSet(B) /\ Cardinality(A) \in Nat /\ Cardinality(B) \in Nat
    BY <1>4, <1>5
  <2>2. Cardinality(A) <= Cardinality(B) /\ Cardinality(A) # Cardinality(B)
    BY <1>5, <2>1, FS_Subset
  <2>. QED
    BY <2>1, <2>2
<1>. HIDE DEF w
\* Every round but the last finds something new, and there is room for N finds.
<1>. DEFINE Good(A, B, j) ==
              /\ A \cup B \subseteq nodes /\ A \cap B = {} /\ S \subseteq A \cup B
              /\ \A m \in A : next[m] \subseteq A \cup B
              /\ B # {} => Cardinality(A) >= j
            Bad == {j \in 0..N : ~ Good(w[j].seen, w[j].new, j)}
<1>6. Bad = {}
  <2>. SUFFICES ASSUME Bad # {} PROVE FALSE
    OBVIOUS
  <2>1. PICK j \in Bad : \A i \in Bad : j <= i
    <3>1. Bad \in SUBSET Nat
      OBVIOUS
    <3>. HIDE DEF Bad
    <3>. QED
      BY <3>1, Least
  <2>2. j \in 0..N /\ j \in Nat
    OBVIOUS
  <2>3. CASE j = 0
    <3>1. w[j] = [seen |-> {}, new |-> S]
      BY <1>1, <1>2, <2>2, <2>3 DEF Walks
    <3>2. w[j].seen = {} /\ w[j].new = S
      BY <3>1
    <3>3. Cardinality({}) = 0
      BY FS_EmptySet
    <3>. QED
      BY <2>1, <2>3, <3>2, <3>3
  <2>4. CASE j # 0
    <3>. DEFINE r == w[j - 1]
                A == r.seen
                B == r.new
    <3>1. j - 1 \in 0..N /\ j - 1 \notin Bad /\ j - 1 \in Nat
      <4>. HIDE DEF N, Bad
      <4>. QED
        BY <1>1, <2>1, <2>2, <2>4
    <3>2. Good(A, B, j - 1)
      BY <3>1
    <3>3. w[j] = [seen |-> A \cup B, new |-> (UNION {next[n] : n \in B}) \ (A \cup B)]
      BY <1>2, <2>2, <2>4 DEF Walks
    <3>. DEFINE C == A \cup B
                D == (UNION {next[n] : n \in B}) \ C
    <3>4. w[j].seen = C /\ w[j].new = D
      BY <3>3
    <3>. HIDE DEF r, A, B
    <3>. DEFINE E == UNION {next[n] : n \in B}
    <3>5. A \subseteq nodes /\ B \subseteq nodes /\ S \subseteq C /\ \A m \in A : next[m] \subseteq C
      BY <3>2
    <3>6. E \subseteq nodes /\ \A m \in B : next[m] \subseteq E
      BY <3>5
    <3>7. D = E \ C
      OBVIOUS
    <3>. HIDE DEF E, D
    <3>8. /\ C \cup D \subseteq nodes /\ C \cap D = {} /\ S \subseteq C \cup D
          /\ \A m \in C : next[m] \subseteq C \cup D
      <4>1. \A m \in C : next[m] \subseteq C \cup D
        BY <3>5, <3>6, <3>7
      <4>. QED
        BY <3>5, <3>6, <3>7, <4>1
    <3>9. ASSUME D # {} PROVE Cardinality(C) >= j
      <4>1. B # {} /\ Cardinality(A) >= j - 1
        BY <3>2, <3>7, <3>9 DEF E
      <4>2. Cardinality(A) < Cardinality(C)
        BY <1>5, <3>2, <4>1
      <4>3. Cardinality(A) \in Nat /\ Cardinality(C) \in Nat
        BY <1>4, <3>2
      <4>. QED
        BY <2>2, <4>1, <4>2, <4>3
    <3>10. Good(C, D, j)
      BY <3>8, <3>9
    <3>. QED
      BY <2>1, <3>4, <3>10
  <2>. QED
    BY <2>3, <2>4
<1>. DEFINE A == w[N].seen
            B == w[N].new
<1>7. Good(A, B, N)
  BY <1>1, <1>6
<1>. HIDE DEF A, B
<1>8. B = {}
  <2>. SUFFICES ASSUME B # {} PROVE FALSE
    OBVIOUS
  <2>1. Cardinality(A) >= N /\ A \subseteq nodes /\ A # nodes
    BY <1>7
  <2>2. Cardinality(A) < N /\ Cardinality(A) \in Nat
    BY <1>4, <1>5, <2>1
  <2>. QED
    BY <1>1, <2>1, <2>2
<1>9. Reached(next, S, nodes) = A
  BY <1>3, <1>8 DEF A, B
<1>. QED
  BY <1>7, <1>8, <1>9

-----------------------------------------------------------------------------
(* First and last of a set of units.                                       *)

LEMMA BeforeIrreflexive ==
  ASSUME NEW g, NEW x \in Paths
  PROVE  ~ Before(g, x, x)
<1>. SUFFICES ASSUME Before(g, x, x) PROVE FALSE
  OBVIOUS
<1>1. PICK c \in Paths : BeforeIn(g, c, x, x)
  BY BeforeIs
<1>2. Len(c) + 1 \in 1..Len(x)
  BY <1>1, LenProperties DEF BeforeIn, Paths
<1>3. x[Len(c) + 1] \in Nat
  BY <1>2, ElementOfSeq DEF Paths
<1>. QED
  BY <1>1, <1>3 DEF BeforeIn

LEMMA Earliest ==
  ASSUME NEW g, NEW S \in SUBSET Paths, IsFiniteSet(S), S # {}
  PROVE  \E m \in S : \A n \in S : ~ Before(g, n, m)
<1>. DEFINE earlier(n) == {x \in S : Before(g, x, n)}
            T == {Cardinality(earlier(n)) : n \in S}
<1>1. \A n \in S : IsFiniteSet(earlier(n)) /\ Cardinality(earlier(n)) \in Nat
  <2>1. \A n \in S : earlier(n) \subseteq S
    OBVIOUS
  <2>. HIDE DEF earlier
  <2>. QED
    BY <2>1, FS_Subset, FS_CardinalityType
<1>2. PICK m \in S : \A n \in S : Cardinality(earlier(m)) <= Cardinality(earlier(n))
  <2>. HIDE DEF earlier
  <2>1. T \in SUBSET Nat /\ T # {}
    BY <1>1
  <2>2. PICK k \in T : \A j \in T : k <= j
    <3>. HIDE DEF T
    <3>. QED
      BY <2>1, Least
  <2>. QED
    BY <2>2
<1>3. ASSUME NEW n \in S, Before(g, n, m) PROVE FALSE
  <2>1. earlier(n) \subseteq earlier(m)
    BY <1>3, BeforeTransitive
  <2>2. n \in earlier(m) /\ n \notin earlier(n)
    BY <1>3, BeforeIrreflexive
  <2>. HIDE DEF earlier
  <2>3. Cardinality(earlier(n)) <= Cardinality(earlier(m)) /\ Cardinality(earlier(n)) # Cardinality(earlier(m))
    BY <1>1, <2>1, <2>2, FS_Subset
  <2>. QED
    BY <1>1, <1>2, <2>3
<1>. QED
  BY <1>3

LEMMA Latest ==
  ASSUME NEW g, NEW S \in SUBSET Paths, IsFiniteSet(S), S # {}
  PROVE  \E m \in S : \A n \in S : ~ Before(g, m, n)
<1>. DEFINE later(n) == {x \in S : Before(g, n, x)}
            T == {Cardinality(later(n)) : n \in S}
<1>1. \A n \in S : IsFiniteSet(later(n)) /\ Cardinality(later(n)) \in Nat
  <2>1. \A n \in S : later(n) \subseteq S
    OBVIOUS
  <2>. HIDE DEF later
  <2>. QED
    BY <2>1, FS_Subset, FS_CardinalityType
<1>2. PICK m \in S : \A n \in S : Cardinality(later(m)) <= Cardinality(later(n))
  <2>. HIDE DEF later
  <2>1. T \in SUBSET Nat /\ T # {}
    BY <1>1
  <2>2. PICK k \in T : \A j \in T : k <= j
    <3>. HIDE DEF T
    <3>. QED
      BY <2>1, Least
  <2>. QED
    BY <2>2
<1>3. ASSUME NEW n \in S, Before(g, m, n) PROVE FALSE
  <2>1. later(n) \subseteq later(m)
    BY <1>3, BeforeTransitive
  <2>2. n \in later(m) /\ n \notin later(n)
    BY <1>3, BeforeIrreflexive
  <2>. HIDE DEF later
  <2>3. Cardinality(later(n)) <= Cardinality(later(m)) /\ Cardinality(later(n)) # Cardinality(later(m))
    BY <1>1, <2>1, <2>2, FS_Subset
  <2>. QED
    BY <1>1, <1>2, <2>3
<1>. QED
  BY <1>3

-----------------------------------------------------------------------------
(* The children of a container.                                            *)

\* The child that a path to a node goes through is one of the container's,
\* and every number up to theirs is a child.
LEMMA ChildOf ==
  ASSUME NEW g, OrderingGraph(g), NEW x \in DOMAIN g, NEW c \in Chain(x), c # x, x[Len(c) + 1] > 0
  PROVE  /\ c \in DOMAIN g /\ c \in Paths /\ g[c].kids \in Nat
         /\ x[Len(c) + 1] \in 1..g[c].kids /\ ~ Leaf(g, c)
<1>1. /\ x \in Paths /\ c \in DOMAIN g /\ c \in Paths /\ Leads(c, x)
      /\ Chain(x) \subseteq DOMAIN g
  BY InTree, ChainIs
<1>2. Len(x) \in Nat /\ Len(c) \in Nat /\ Len(c) < Len(x)
  <2>1. Len(x) \in Nat /\ Len(c) \in Nat /\ Len(c) <= Len(x)
    BY <1>1, LenProperties DEF Paths, Leads
  <2>2. Len(c) # Len(x)
    BY <1>1, <2>1, LeadsSame
  <2>. QED
    BY <2>1, <2>2
<1>. DEFINE k == Len(c) + 1
            d == SubSeq(x, 1, k)
<1>3. k \in 1..Len(x) /\ k - 1 = Len(c) /\ k \in Nat
  BY <1>2
<1>4. d \in Paths /\ d # <<>> /\ Leads(d, x) /\ Len(d) = k /\ Last(d) = x[k] /\ Parent(d) = SubSeq(x, 1, k - 1)
  BY <1>1, <1>3, ParentOfCut
<1>5. SubSeq(x, 1, Len(c)) = c
  <2>. DEFINE b == SubSeq(x, 1, Len(c))
  <2>1. Len(c) \in 0..Len(x)
    BY <1>2
  <2>2. b \in Paths /\ Leads(b, x) /\ Len(b) = Len(c)
    BY <1>1, <2>1, Cut
  <2>. HIDE DEF b
  <2>3. Leads(b, c)
    BY <1>1, <1>2, <2>2, LeadsNested
  <2>4. b = c
    BY <1>1, <1>2, <2>2, <2>3, LeadsSame
  <2>. QED
    BY <2>4 DEF b
<1>6. Parent(d) = c
  BY <1>3, <1>4, <1>5
<1>7. d \in DOMAIN g
  BY <1>1, <1>4, ChainIs
<1>. HIDE DEF d, k
<1>8. Under(c, d)
  <2>1. Leads(c, d)
    BY <1>1, <1>2, <1>3, <1>4, LeadsNested
  <2>. QED
    BY <1>1, <1>2, <1>3, <1>4, <2>1, UnderIs
<1>9. Last(d) > 0 /\ Len(d) = Len(c) + 1
  BY <1>4 DEF k
<1>10. d \in Kids(g, c)
  BY <1>7, <1>8, <1>9 DEF Kids
<1>11. g[c].kids \in Nat /\ {Last(z) : z \in Kids(g, c)} = 1..g[c].kids
  BY <1>1 DEF OrderingGraph
<1>12. Last(d) \in 1..g[c].kids
  BY <1>10, <1>11
<1>13. g[Parent(d)].kind # "step"
  BY <1>4, <1>7 DEF OrderingGraph
<1>14. ~ Leaf(g, c)
  BY <1>6, <1>11, <1>12, <1>13 DEF Leaf
<1>. QED
  BY <1>1, <1>4, <1>11, <1>12, <1>14 DEF k

LEMMA ChildIn ==
  ASSUME NEW g, OrderingGraph(g), NEW c \in DOMAIN g, NEW j \in 1..g[c].kids
  PROVE  LET s == Append(c, j)
         IN  /\ s \in DOMAIN g /\ s \in Paths /\ Len(s) = Len(c) + 1 /\ s[Len(c) + 1] = j
             /\ Leads(c, s) /\ c \in Paths /\ Len(c) \in Nat
<1>1. c \in Paths /\ Len(c) \in Nat /\ g[c].kids \in Nat
  BY InTree, LenProperties DEF Paths, OrderingGraph
<1>2. PICK z \in Kids(g, c) : Last(z) = j
  <2>1. {Last(z) : z \in Kids(g, c)} = 1..g[c].kids
    BY DEF OrderingGraph
  <2>. QED
    BY <2>1
<1>3. z \in DOMAIN g /\ Len(z) = Len(c) + 1 /\ Under(c, z)
  BY DEF Kids
<1>4. z \in Paths /\ Leads(c, z)
  BY <1>1, <1>3, InTree, UnderIs
<1>. DEFINE s == Append(c, j)
<1>5. s \in Paths /\ Len(s) = Len(c) + 1 /\ s[Len(c) + 1] = j /\ \A i \in 1..Len(c) : s[i] = c[i]
  <2>1. j \in Nat
    BY <1>1
  <2>. QED
    BY <1>1, <2>1, AppendProperties DEF Paths
<1>. HIDE DEF s
<1>6. Leads(s, z)
  <2>1. ASSUME NEW i \in 1..Len(s) PROVE s[i] = z[i]
    <3>1. i \in 1..Len(c) \/ i = Len(c) + 1
      BY <1>1, <1>5
    <3>2. CASE i \in 1..Len(c)
      BY <1>4, <1>5, <3>2 DEF Leads
    <3>3. CASE i = Len(c) + 1
      BY <1>2, <1>3, <1>5, <3>3 DEF Last
    <3>. QED
      BY <3>1, <3>2, <3>3
  <2>. QED
    BY <1>1, <1>3, <1>5, <2>1 DEF Leads
<1>7. s = z
  BY <1>1, <1>3, <1>4, <1>5, <1>6, LeadsSame
<1>8. Leads(c, s)
  BY <1>4, <1>7
<1>. QED
  BY <1>1, <1>3, <1>5, <1>7, <1>8 DEF s

\* Below every forward child something completes last.
LEMMA TerminalExists ==
  ASSUME NEW g, OrderingGraph(g), NEW s \in DOMAIN g, s # <<>>
  PROVE  TerminalLeaves(g, s) # {}
<1>. DEFINE Down(x, c) == /\ ~ Leaf(g, c)
                          /\ g[c].kind # "parallel" => x[Len(c) + 1] = g[c].kids
            T == {x \in DOMAIN g : /\ x = s \/ Under(s, x)
                                   /\ \A c \in Chain(x) : (c = s \/ Under(s, c)) /\ c # x => Down(x, c)}
            N == Cardinality(DOMAIN g)
            K == {N - Len(x) : x \in T}
<1>1. N \in Nat /\ IsFiniteSet(DOMAIN g)
  BY FS_CardinalityType DEF OrderingGraph
<1>2. ASSUME NEW x \in DOMAIN g PROVE x \in Paths /\ Len(x) \in Nat /\ N - Len(x) \in Nat
  <2>1. x \in Paths /\ Chain(x) \subseteq DOMAIN g
    BY InTree
  <2>2. Cardinality(Chain(x)) = Len(x) + 1 /\ Len(x) \in Nat
    BY <2>1, ChainSize, LenProperties DEF Paths
  <2>3. Cardinality(Chain(x)) <= N
    BY <1>1, <2>1, FS_Subset
  <2>. HIDE DEF N
  <2>. QED
    BY <1>1, <2>1, <2>2, <2>3
<1>. HIDE DEF N
<1>3. s \in T
  <2>. SUFFICES ASSUME NEW c \in Chain(s), c = s \/ Under(s, c), c # s PROVE FALSE
    OBVIOUS
  <2>1. c \in Paths /\ s \in Paths /\ Leads(c, s) /\ Leads(s, c) /\ Len(s) < Len(c)
    BY <1>2, ChainIs, UnderIs
  <2>2. Len(c) \in Nat /\ Len(s) \in Nat
    BY <2>1, LenProperties DEF Paths
  <2>. QED
    BY <2>1, <2>2 DEF Leads
<1>4. T \subseteq DOMAIN g
  OBVIOUS
<1>. HIDE DEF T
<1>5. K \in SUBSET Nat /\ K # {}
  BY <1>2, <1>3, <1>4
<1>6. PICK k \in K : \A j \in K : k <= j
  <2>. HIDE DEF K
  <2>. QED
    BY <1>5, Least
<1>7. PICK x \in T : \A z \in T : Len(z) <= Len(x)
  <2>1. PICK x \in T : k = N - Len(x)
    BY <1>6
  <2>2. ASSUME NEW z \in T PROVE Len(z) <= Len(x)
    <3>1. N - Len(x) <= N - Len(z)
      BY <1>6, <2>1
    <3>. QED
      BY <1>1, <1>2, <1>4, <3>1
  <2>. QED
    BY <2>2
<1>8. /\ x \in DOMAIN g /\ (x = s \/ Under(s, x))
      /\ \A c \in Chain(x) : (c = s \/ Under(s, c)) /\ c # x => Down(x, c)
  BY DEF T
<1>9. x \in Paths /\ s \in Paths /\ Len(x) \in Nat
  BY <1>2, <1>8
<1>10. Leaf(g, x)
  <2>. SUFFICES ASSUME ~ Leaf(g, x) PROVE FALSE
    OBVIOUS
  <2>. DEFINE j == g[x].kids
              z == Append(x, j)
  <2>1. j \in 1..g[x].kids
    BY <1>8 DEF Leaf, OrderingGraph
  <2>2. /\ z \in DOMAIN g /\ z \in Paths /\ Len(z) = Len(x) + 1 /\ z[Len(x) + 1] = g[x].kids
        /\ Leads(x, z)
    BY <1>8, <2>1, ChildIn
  <2>. HIDE DEF z, j
  <2>3. z = s \/ Under(s, z)
    <3>1. Leads(s, x) /\ Len(s) <= Len(x)
      BY <1>8, <1>9, UnderIs DEF Leads
    <3>2. Leads(s, z)
      BY <1>9, <2>2, <3>1, LeadsTransitive
    <3>3. Len(s) \in Nat
      BY <1>9, LenProperties DEF Paths
    <3>4. Len(s) < Len(z)
      BY <1>9, <2>2, <3>1, <3>3
    <3>. QED
      BY <1>9, <2>2, <3>2, <3>4, UnderIs
  <2>4. ASSUME NEW c \in Chain(z), c = s \/ Under(s, c), c # z PROVE Down(z, c)
    <3>1. c \in Paths /\ Leads(c, z) /\ Len(c) \in Nat
      BY <2>2, ChainIs, LenProperties DEF Paths
    <3>2. Len(c) <= Len(x)
      <4>1. Len(c) <= Len(z)
        BY <3>1 DEF Leads
      <4>2. Len(c) # Len(z)
        BY <2>2, <2>4, <3>1, LeadsSame
      <4>. QED
        BY <1>9, <2>2, <3>1, <4>1, <4>2
    <3>3. Leads(c, x)
      BY <1>9, <2>2, <3>1, <3>2, LeadsNested
    <3>4. c \in Chain(x)
      BY <1>9, <3>1, <3>3, ChainIs
    <3>5. CASE c = x
      BY <2>2, <3>5
    <3>6. CASE c # x
      <4>1. Down(x, c)
        BY <1>8, <2>4, <3>4, <3>6
      <4>2. Len(c) # Len(x)
        BY <1>9, <3>1, <3>3, <3>6, LeadsSame
      <4>3. Len(c) + 1 \in 1..Len(x)
        BY <1>9, <3>1, <3>2, <4>2
      <4>4. z[Len(c) + 1] = x[Len(c) + 1]
        BY <2>2, <4>3 DEF Leads
      <4>. QED
        BY <4>1, <4>4
    <3>. QED
      BY <3>5, <3>6
  <2>5. z \in T
    BY <2>2, <2>3, <2>4 DEF T
  <2>. QED
    BY <1>7, <1>9, <2>2, <2>5
<1>11. x \in TerminalLeaves(g, s)
  BY <1>8, <1>10 DEF TerminalLeaves
<1>. QED
  BY <1>11

-----------------------------------------------------------------------------
(* Where climb ends.                                                       *)

LEMMA EntranceIs ==
  ASSUME NEW g, NEW n \in Paths
  PROVE  /\ Entrance(g, n) \in Chain(n) /\ Stops(g, Entrance(g, n))
         /\ \A d \in Chain(n) : Stops(g, d) => Len(d) <= Len(Entrance(g, n))
<1>. DEFINE C == {c \in Chain(n) : Stops(g, c)}
            T == {Len(n) - Len(c) : c \in C}
<1>1. Len(n) \in Nat
  BY LenProperties DEF Paths
<1>2. \A c \in Chain(n) : Len(c) \in Nat /\ Len(n) - Len(c) \in Nat
  BY <1>1, ChainIs, LenProperties DEF Leads, Paths
<1>3. <<>> \in C
  <2>1. <<>> \in Paths /\ Leads(<<>>, n)
    BY <1>1, EmptySeq DEF Paths, Leads
  <2>. QED
    BY <2>1, ChainIs DEF Stops
<1>4. T \in SUBSET Nat /\ T # {}
  BY <1>2, <1>3
<1>5. PICK m \in T : \A k \in T : m <= k
  BY <1>4, Least
<1>6. PICK c \in C : m = Len(n) - Len(c)
  BY <1>5
<1>7. ASSUME NEW d \in C PROVE Len(d) <= Len(c)
  <2>1. Len(n) - Len(c) <= Len(n) - Len(d)
    BY <1>5, <1>6
  <2>2. Len(c) \in Nat /\ Len(d) \in Nat
    BY <1>2
  <2>. QED
    BY <1>1, <2>1, <2>2
<1>8. \E e \in Chain(n) : Stops(g, e) /\ \A d \in Chain(n) : Stops(g, d) => Len(d) <= Len(e)
  BY <1>7
<1>. QED
  BY <1>8 DEF Entrance

\* The positions of a terminal leaf below the unit it completes lead forward.
LEMMA TerminalForward ==
  ASSUME NEW g, OrderingGraph(g), NEW s \in Paths, NEW x \in TerminalLeaves(g, s)
  PROVE  x \in DOMAIN g /\ x \in Paths /\ Leads(s, x) /\ \A k \in Len(s) + 1..Len(x) : x[k] > 0
<1>1. x \in DOMAIN g /\ x \in Paths /\ Chain(x) \subseteq DOMAIN g /\ Chain(x) \subseteq Paths
  BY InTree DEF TerminalLeaves
<1>2. Len(x) \in Nat /\ Len(s) \in Nat
  BY <1>1, LenProperties DEF Paths
<1>3. Leads(s, x)
  BY <1>1, <1>2, UnderIs DEF TerminalLeaves, Leads
<1>4. ASSUME NEW k \in Len(s) + 1..Len(x), ~ (x[k] > 0) PROVE FALSE
  <2>. DEFINE c == SubSeq(x, 1, k - 1)
              d == SubSeq(x, 1, k)
  <2>1. k \in 1..Len(x) /\ k - 1 \in 0..Len(x)
    BY <1>2
  <2>2. c \in Paths /\ Leads(c, x) /\ Len(c) = k - 1
    BY <1>1, <2>1, Cut
  <2>3. d \in Paths /\ Leads(d, x) /\ d # <<>> /\ Last(d) = x[k] /\ Parent(d) = c
    BY <1>1, <2>1, ParentOfCut
  <2>4. c \in Chain(x) /\ d \in Chain(x) /\ c \in DOMAIN g /\ d \in DOMAIN g
    BY <1>1, <2>2, <2>3, ChainIs
  <2>5. c # x /\ (c = s \/ Under(s, c))
    <3>. HIDE DEF c
    <3>1. Leads(s, c)
      <4>1. Len(s) <= Len(c)
        BY <1>2, <2>1, <2>2
      <4>. QED
        BY <1>1, <1>3, <2>2, <4>1, LeadsNested
    <3>2. Len(c) < Len(x)
      BY <1>2, <2>1, <2>2
    <3>3. c # x
      BY <1>2, <3>2
    <3>4. c = s \/ Len(s) < Len(c)
      BY <1>2, <2>1, <2>2, <3>1, LeadsSame
    <3>. QED
      BY <2>2, <3>1, <3>3, <3>4, UnderIs
  <2>6. x[k] = 0
    <3>1. x[k] \in Nat
      BY <1>1, <2>1, ElementOfSeq DEF Paths
    <3>. QED
      BY <1>4, <3>1
  <2>7. g[d].kind = "rollback" /\ g[c].kind = "stage"
    <3>1. d \in DOMAIN g /\ d # <<>> /\ Last(d) = 0 /\ Parent(d) = c
      BY <2>3, <2>4, <2>6
    <3>. HIDE DEF c, d
    <3>2. g[d].kind = "rollback"
      BY <3>1 DEF OrderingGraph
    <3>. QED
      BY <3>1, <3>2 DEF OrderingGraph
  <2>8. ~ Leaf(g, c) /\ x[Len(c) + 1] = g[c].kids
    BY <2>4, <2>5, <2>7 DEF TerminalLeaves
  <2>9. g[c].kids = 0
    BY <2>1, <2>2, <2>6, <2>8
  <2>. QED
    BY <2>8, <2>9 DEF Leaf
<1>. QED
  BY <1>1, <1>3, <1>4

\* The nearest container or node with a preceding sibling, e, under p, and
\* that sibling s.
ClimbsTo(g, n, e, p, s) ==
  /\ p \in Paths /\ Len(p) \in Nat /\ p \in DOMAIN g /\ g[p].kind # "parallel" /\ Leads(p, n)
  /\ Len(p) < Len(n) /\ Len(e) = Len(p) + 1 /\ Leads(e, n) /\ e \in Paths
  /\ n[Len(p) + 1] \in Nat /\ n[Len(p) + 1] > 1
  /\ s \in Paths /\ s \in DOMAIN g /\ Leads(p, s) /\ Len(s) = Len(p) + 1 /\ s # <<>>
  /\ s[Len(p) + 1] = n[Len(p) + 1] - 1
  /\ ForwardFrom(p, n)
  /\ Climb(g, n) = TerminalLeaves(g, s)

LEMMA EntranceForward ==
  ASSUME NEW g, OrderingGraph(g), NEW n \in DOMAIN g, ~ AtRollbackEntry(g, n),
         NEW k \in Len(Entrance(g, n))..Len(n), k # 0
  PROVE  n[k] > 0
<1>. DEFINE e == Entrance(g, n)
            d == SubSeq(n, 1, k)
<1>1. n \in Paths /\ Chain(n) \subseteq DOMAIN g /\ Chain(n) \subseteq Paths
  BY InTree
<1>2. /\ e \in Chain(n) /\ e \in Paths /\ Leads(e, n) /\ e \in DOMAIN g
      /\ \A c \in Chain(n) : Stops(g, c) => Len(c) <= Len(e)
  BY <1>1, EntranceIs, ChainIs
<1>3. Len(n) \in Nat /\ Len(e) \in Nat /\ k \in 1..Len(n)
  BY <1>1, <1>2, LenProperties DEF Paths
<1>4. d \in Paths /\ d # <<>> /\ Leads(d, n) /\ Len(d) = k /\ Last(d) = n[k]
  BY <1>1, <1>3, ParentOfCut
<1>5. d \in Chain(n) /\ d \in DOMAIN g
  BY <1>1, <1>4, ChainIs
<1>. HIDE DEF d
<1>6. n[k] \in Nat
  BY <1>1, <1>3, ElementOfSeq DEF Paths
<1>7. ASSUME n[k] = 0 PROVE FALSE
  <2>1. g[d].kind = "rollback"
    BY <1>4, <1>5, <1>7 DEF OrderingGraph
  <2>2. Stops(g, d)
    BY <1>4, <2>1 DEF Stops
  <2>3. Len(d) <= Len(e) /\ Len(e) <= Len(d)
    BY <1>2, <1>3, <1>4, <1>5, <2>2
  <2>. HIDE DEF e
  <2>4. Leads(d, e)
    BY <1>1, <1>2, <1>4, <2>3, LeadsNested
  <2>5. d = e
    BY <1>2, <1>4, <2>3, <2>4, LeadsSame
  <2>. QED
    BY <2>1, <2>5 DEF AtRollbackEntry, e
<1>. QED
  BY <1>6, <1>7

LEMMA ClimbSplits ==
  ASSUME NEW g, OrderingGraph(g), NEW n \in DOMAIN g, ~ AtRollbackEntry(g, n),
         Entrance(g, n) # <<>>
  PROVE  \E p, s : ClimbsTo(g, n, Entrance(g, n), p, s)
<1>. DEFINE e == Entrance(g, n)
            p == Parent(e)
            s == Append(p, Last(e) - 1)
<1>1. n \in Paths /\ Chain(n) \subseteq DOMAIN g /\ Chain(n) \subseteq Paths
  BY InTree
<1>2. e \in Chain(n) /\ Stops(g, e)
  BY <1>1, EntranceIs
<1>3. e \in Paths /\ Leads(e, n) /\ e \in DOMAIN g
  BY <1>1, <1>2, ChainIs
<1>4. g[e].kind # "rollback" /\ e # <<>>
  BY DEF AtRollbackEntry
<1>5. g[p].kind # "parallel" /\ Last(e) > 1
  BY <1>2, <1>4 DEF Stops
<1>6. Climb(g, n) = TerminalLeaves(g, s)
  BY <1>4 DEF Climb
<1>7. p \in Paths /\ Leads(p, e) /\ Len(e) \in Nat \ {0} /\ Len(p) = Len(e) - 1
  BY <1>3, <1>4, ParentIs
<1>8. Last(e) = e[Len(e)]
  BY DEF Last
<1>9. ForwardFrom(p, n)
  <2>. SUFFICES ASSUME NEW k \in Len(p) + 1..Len(n) PROVE n[k] > 0
    BY DEF ForwardFrom
  <2>1. k \in Len(Entrance(g, n))..Len(n) /\ k # 0
    BY <1>7
  <2>. QED
    BY <2>1, EntranceForward
<1>. HIDE DEF e, p
<1>10. Leads(p, n) /\ Len(n) \in Nat /\ Len(p) < Len(n) /\ Len(e) = Len(p) + 1 /\ Len(p) \in Nat
  <2>1. Len(n) \in Nat
    BY <1>1, LenProperties DEF Paths
  <2>2. Leads(p, n)
    BY <1>1, <1>3, <1>7, LeadsTransitive
  <2>. QED
    BY <1>3, <1>7, <2>1, <2>2 DEF Leads
<1>11. Last(e) = n[Len(p) + 1] /\ n[Len(p) + 1] \in Nat /\ n[Len(p) + 1] > 1
  <2>1. Len(e) \in 1..Len(e) /\ Len(p) + 1 \in 1..Len(n)
    BY <1>7, <1>10
  <2>2. n[Len(p) + 1] \in Nat
    BY <1>1, <2>1, ElementOfSeq DEF Paths
  <2>3. Last(e) = n[Len(p) + 1]
    BY <1>3, <1>8, <1>10, <2>1 DEF Leads
  <2>. QED
    BY <1>5, <2>2, <2>3
<1>12. p \in Chain(n) /\ p # n
  BY <1>1, <1>7, <1>10, ChainIs
<1>13. n[Len(p) + 1] \in 1..g[p].kids /\ p \in DOMAIN g /\ g[p].kids \in Nat
  BY <1>11, <1>12, ChildOf
<1>14. Last(e) - 1 \in 1..g[p].kids
  BY <1>11, <1>13
<1>15. /\ s \in DOMAIN g /\ s \in Paths /\ Len(s) = Len(p) + 1 /\ s[Len(p) + 1] = Last(e) - 1
       /\ Leads(p, s)
  BY <1>13, <1>14, ChildIn
<1>. HIDE DEF s
<1>16. s # <<>>
  BY <1>10, <1>15, EmptySeq
<1>17. s[Len(p) + 1] = n[Len(p) + 1] - 1
  BY <1>11, <1>15
<1>18. ClimbsTo(g, n, e, p, s)
  BY <1>3, <1>5, <1>6, <1>7, <1>9, <1>10, <1>11, <1>13, <1>15, <1>16, <1>17 DEF ClimbsTo
<1>. QED
  BY <1>18 DEF e

\* A terminal leaf of the preceding sibling is a unit before the node.
LEMMA TerminalBefore ==
  ASSUME NEW g, OrderingGraph(g), NEW p \in Paths, NEW n \in Paths, NEW s \in Paths, NEW x \in TerminalLeaves(g, s),
         Leads(p, n), Leads(p, s), Len(p) < Len(n), Len(p) < Len(s), g[p].kind # "parallel",
         ForwardFrom(p, n), \A k \in Len(p) + 1..Len(s) : s[k] > 0, s[Len(p) + 1] < n[Len(p) + 1]
  PROVE  x \in Units(g) /\ x \in DOMAIN g /\ x \in Paths /\ Leads(s, x) /\ BeforeIn(g, p, x, n)
<1>1. x \in DOMAIN g /\ x \in Paths /\ Leads(s, x) /\ \A k \in Len(s) + 1..Len(x) : x[k] > 0
  BY TerminalForward
<1>2. Len(x) \in Nat /\ Len(n) \in Nat /\ Len(p) \in Nat /\ Len(s) \in Nat
  BY <1>1, LenProperties DEF Paths
<1>3. Leads(p, x) /\ Len(p) < Len(x)
  <2>1. Leads(p, x)
    BY <1>1, LeadsTransitive
  <2>2. Len(s) <= Len(x)
    BY <1>1 DEF Leads
  <2>. QED
    BY <1>2, <2>1, <2>2
<1>4. ASSUME NEW k \in Len(p) + 1..Len(x) PROVE x[k] > 0
  <2>1. CASE k <= Len(s)
    <3>1. k \in 1..Len(s) /\ k \in Len(p) + 1..Len(s)
      BY <1>2, <2>1
    <3>2. x[k] = s[k]
      BY <1>1, <3>1 DEF Leads
    <3>. QED
      BY <3>1, <3>2
  <2>2. CASE k > Len(s)
    BY <1>1, <1>2, <2>2
  <2>. QED
    BY <1>2, <2>1, <2>2
<1>5. x[Len(p) + 1] < n[Len(p) + 1]
  <2>1. Len(p) + 1 \in 1..Len(s)
    BY <1>2
  <2>2. x[Len(p) + 1] = s[Len(p) + 1]
    BY <1>1, <2>1 DEF Leads
  <2>. QED
    BY <2>2
<1>6. BeforeIn(g, p, x, n)
  <2>1. ForwardFrom(p, x)
    BY <1>4 DEF ForwardFrom
  <2>. QED
    BY <1>3, <1>5, <2>1 DEF BeforeIn
<1>7. x \in Units(g)
  <2>1. x # <<>> /\ Len(x) \in Len(p) + 1..Len(x)
    BY <1>2, <1>3, EmptySeq
  <2>2. Last(x) > 0
    BY <1>4, <2>1 DEF Last
  <2>3. g[x].kind # "rollback" /\ g[x].kind \in {"stage", "stepGroup", "step", "parallel", "rollback"}
    BY <1>1, <2>1, <2>2 DEF OrderingGraph
  <2>4. Leaf(g, x)
    BY DEF TerminalLeaves
  <2>5. g[x].kind # "parallel"
    BY <1>1, <2>4 DEF Leaf, OrderingGraph
  <2>. QED
    BY <1>1, <2>3, <2>4, <2>5 DEF Units, Nodes
<1>. QED
  BY <1>1, <1>6, <1>7

(* The predecessors that climb finds for a node that is not the entry of a *)
(* rollback are units, and the document puts them before the node.         *)
LEMMA ClimbBefore ==
  ASSUME NEW g, OrderingGraph(g), NEW n \in DOMAIN g, ~ AtRollbackEntry(g, n), NEW x \in Climb(g, n)
  PROVE  x \in Units(g) /\ Before(g, x, n)
<1>1. Entrance(g, n) # <<>>
  BY DEF Climb
<1>2. PICK p, s : ClimbsTo(g, n, Entrance(g, n), p, s)
  BY <1>1, ClimbSplits
<1>3. n \in Paths /\ p \in Paths /\ s \in Paths /\ x \in TerminalLeaves(g, s)
  BY <1>2, InTree DEF ClimbsTo
<1>4. \A k \in Len(p) + 1..Len(s) : s[k] > 0
  BY <1>2 DEF ClimbsTo
<1>5. x \in Units(g) /\ x \in Paths /\ BeforeIn(g, p, x, n)
  <2>1. /\ Leads(p, n) /\ Leads(p, s) /\ Len(p) < Len(n) /\ Len(p) < Len(s) /\ g[p].kind # "parallel"
        /\ ForwardFrom(p, n) /\ s[Len(p) + 1] < n[Len(p) + 1]
    BY <1>2 DEF ClimbsTo
  <2>. QED
    BY <1>3, <1>4, <2>1, TerminalBefore
<1>. QED
  BY <1>3, <1>5, BeforeIs

\* Climb ascends no further than a container in which something is before.
LEMMA EntranceWithin ==
  ASSUME NEW g, OrderingGraph(g), NEW n \in DOMAIN g, NEW x \in Paths, NEW c \in Paths, BeforeIn(g, c, x, n)
  PROVE  Len(c) < Len(Entrance(g, n)) /\ Entrance(g, n) # <<>>
<1>1. n \in Paths /\ Chain(n) \subseteq DOMAIN g /\ Chain(n) \subseteq Paths
  BY InTree
<1>2. /\ Leads(c, n) /\ Len(c) < Len(n) /\ Len(c) < Len(x) /\ g[c].kind # "parallel"
      /\ x[Len(c) + 1] > 0 /\ x[Len(c) + 1] < n[Len(c) + 1]
  <2>1. Len(c) + 1 \in Len(c) + 1..Len(x)
    BY <1>1, LenProperties DEF BeforeIn, Paths
  <2>. QED
    BY <2>1 DEF BeforeIn, ForwardFrom
<1>. DEFINE k == Len(c) + 1
            d == SubSeq(n, 1, k)
<1>3. Len(c) \in Nat /\ Len(n) \in Nat /\ k \in 1..Len(n) /\ k - 1 = Len(c)
  BY <1>1, <1>2, LenProperties DEF Paths
<1>4. d \in Paths /\ d # <<>> /\ Leads(d, n) /\ Len(d) = k /\ Last(d) = n[k] /\ Parent(d) = SubSeq(n, 1, k - 1)
  BY <1>1, <1>3, ParentOfCut
<1>5. Parent(d) = c
  <2>. DEFINE b == SubSeq(n, 1, k - 1)
  <2>1. k - 1 \in 0..Len(n)
    BY <1>3
  <2>2. b \in Paths /\ Leads(b, n) /\ Len(b) = Len(c)
    BY <1>1, <1>3, <2>1, Cut
  <2>. HIDE DEF b
  <2>3. Leads(b, c)
    BY <1>1, <1>2, <1>3, <2>2, LeadsNested
  <2>4. b = c
    BY <1>3, <2>2, <2>3, LeadsSame
  <2>. QED
    BY <1>4, <2>4 DEF b
<1>6. x[k] \in Nat /\ n[k] \in Nat
  <2>1. k \in 1..Len(x)
    BY <1>2, <1>3, LenProperties DEF Paths
  <2>. QED
    BY <1>1, <1>3, <2>1, ElementOfSeq DEF Paths
<1>7. Last(d) > 1
  BY <1>2, <1>4, <1>6
<1>8. d \in Chain(n)
  BY <1>1, <1>4, ChainIs
<1>. HIDE DEF d
<1>9. Stops(g, d)
  BY <1>2, <1>4, <1>5, <1>7 DEF Stops
<1>10. Len(d) <= Len(Entrance(g, n)) /\ Entrance(g, n) \in Paths
  BY <1>1, <1>8, <1>9, EntranceIs
<1>11. Len(Entrance(g, n)) \in Nat
  BY <1>10, LenProperties DEF Paths
<1>12. Entrance(g, n) # <<>>
  BY <1>3, <1>4, <1>10, <1>11, EmptySeq
<1>. QED
  BY <1>3, <1>4, <1>10, <1>11, <1>12

\* Nothing is before the entry of a rollback: what is below the rollback's
\* own container is all the document compares it with.
LEMMA EntryFirst ==
  ASSUME NEW g, OrderingGraph(g), NEW n \in DOMAIN g, AtRollbackEntry(g, n), NEW x \in Paths
  PROVE  ~ Before(g, x, n)
<1>. SUFFICES ASSUME Before(g, x, n) PROVE FALSE
  OBVIOUS
<1>. DEFINE e == Entrance(g, n)
<1>1. n \in Paths /\ Chain(n) \subseteq DOMAIN g /\ Chain(n) \subseteq Paths
  BY InTree
<1>2. PICK c \in Paths : BeforeIn(g, c, x, n)
  BY <1>1, BeforeIs
<1>3. Len(c) < Len(e) /\ e # <<>>
  BY <1>2, EntranceWithin
<1>4. e \in Chain(n) /\ e \in Paths /\ Leads(e, n) /\ e \in DOMAIN g
  BY <1>1, EntranceIs, ChainIs
<1>5. g[e].kind = "rollback"
  BY DEF AtRollbackEntry
<1>. HIDE DEF e
<1>6. Last(e) = 0
  BY <1>3, <1>4, <1>5 DEF OrderingGraph
<1>7. Len(e) \in Len(c) + 1..Len(n) /\ Len(e) \in 1..Len(e)
  BY <1>1, <1>2, <1>3, <1>4, LenProperties DEF Paths, Leads
<1>8. n[Len(e)] = 0
  BY <1>4, <1>6, <1>7 DEF Leads, Last
<1>9. n[Len(e)] > 0
  BY <1>2, <1>7 DEF BeforeIn, ForwardFrom
<1>. QED
  BY <1>8, <1>9

\* No unit is between a terminal leaf of s and what comes after all of s.
LEMMA TerminalLast ==
  ASSUME NEW g, OrderingGraph(g), NEW s \in Paths, NEW x \in TerminalLeaves(g, s), s # <<>>,
         NEW z \in DOMAIN g, Before(g, x, z), Leads(s, z)
  PROVE  FALSE
<1>1. x \in DOMAIN g /\ x \in Paths /\ Leads(s, x) /\ z \in Paths
  BY TerminalForward, InTree
<1>2. PICK c \in Paths : BeforeIn(g, c, x, z)
  BY <1>1, BeforeIs
<1>3. /\ Leads(c, x) /\ Leads(c, z) /\ Len(c) < Len(x) /\ Len(c) < Len(z) /\ g[c].kind # "parallel"
      /\ ForwardFrom(c, z) /\ x[Len(c) + 1] < z[Len(c) + 1]
  BY <1>2 DEF BeforeIn
<1>4. Len(c) \in Nat /\ Len(s) \in Nat /\ Len(x) \in Nat /\ Len(z) \in Nat
  BY <1>1, LenProperties DEF Paths
<1>5. Len(c) + 1 \in 1..Len(x) /\ Len(c) + 1 \in 1..Len(z) /\ Len(c) + 1 \in Len(c) + 1..Len(z)
  BY <1>3, <1>4
<1>6. x[Len(c) + 1] \in Nat /\ z[Len(c) + 1] \in Nat
  BY <1>1, <1>5, ElementOfSeq DEF Paths
\* The two part inside s: above it their paths agree.
<1>7. Len(s) <= Len(c)
  <2>. SUFFICES ASSUME Len(c) < Len(s) PROVE FALSE
    BY <1>4
  <2>1. Len(c) + 1 \in 1..Len(s)
    BY <1>4
  <2>2. x[Len(c) + 1] = s[Len(c) + 1] /\ z[Len(c) + 1] = s[Len(c) + 1]
    BY <1>1, <2>1 DEF Leads
  <2>. QED
    BY <1>3, <1>6, <2>2
<1>8. Leads(s, c)
  BY <1>1, <1>3, <1>7, LeadsNested
<1>9. c \in Chain(x) /\ c \in Chain(z) /\ c # x /\ c # z
  BY <1>1, <1>3, <1>4, ChainIs
<1>10. c = s \/ Under(s, c)
  BY <1>4, <1>7, <1>8, UnderIs, LeadsSame
<1>11. x[Len(c) + 1] = g[c].kids
  BY <1>3, <1>9, <1>10 DEF TerminalLeaves
<1>12. z[Len(c) + 1] > 0
  BY <1>3, <1>5 DEF ForwardFrom
<1>13. z[Len(c) + 1] \in 1..g[c].kids /\ g[c].kids \in Nat
  BY <1>9, <1>12, ChildOf
<1>. QED
  BY <1>3, <1>11, <1>13

\* Nothing comes between what climb finds and the node.
LEMMA ClimbNearest ==
  ASSUME NEW g, OrderingGraph(g), NEW n \in DOMAIN g, ~ AtRollbackEntry(g, n), NEW x \in Climb(g, n),
         NEW z \in DOMAIN g, Before(g, x, z), Before(g, z, n)
  PROVE  FALSE
<1>1. Entrance(g, n) # <<>>
  BY DEF Climb
<1>2. PICK p, s : ClimbsTo(g, n, Entrance(g, n), p, s)
  BY <1>1, ClimbSplits
<1>3. /\ n \in Paths /\ z \in Paths /\ p \in Paths /\ s \in Paths /\ s # <<>> /\ Len(p) \in Nat
      /\ Leads(p, n) /\ Leads(p, s) /\ Len(p) < Len(n) /\ Len(s) = Len(p) + 1 /\ g[p].kind # "parallel"
      /\ n[Len(p) + 1] \in Nat /\ n[Len(p) + 1] > 1 /\ s[Len(p) + 1] = n[Len(p) + 1] - 1
      /\ ForwardFrom(p, n) /\ x \in TerminalLeaves(g, s) /\ Len(Entrance(g, n)) = Len(p) + 1
  BY <1>2, InTree DEF ClimbsTo
<1>4. x \in Paths /\ Leads(s, x) /\ BeforeIn(g, p, x, n)
  <2>1. \A k \in Len(p) + 1..Len(s) : s[k] > 0
    BY <1>3
  <2>2. Len(p) < Len(s) /\ s[Len(p) + 1] < n[Len(p) + 1]
    BY <1>3
  <2>. QED
    BY <1>3, <2>1, <2>2, TerminalBefore
<1>5. PICK c \in Paths : BeforeIn(g, c, x, z)
  BY <1>3, <1>4, BeforeIs
<1>6. PICK d \in Paths : BeforeIn(g, d, z, n)
  BY <1>3, BeforeIs
<1>7. Len(c) \in Nat /\ Len(d) \in Nat
  BY LenProperties DEF Paths
<1>8. CASE Leads(c, d) /\ BeforeIn(g, c, x, n)
  <2>1. c = p
    <3>1. Shared(x, n) = c /\ Shared(x, n) = p
      BY <1>3, <1>4, <1>8, BeforeIs
    <3>. QED
      BY <3>1
  <2>2. Len(d) < Len(Entrance(g, n))
    BY <1>3, <1>6, EntranceWithin
  <2>3. d = p
    BY <1>3, <1>7, <1>8, <2>1, <2>2, LeadsSame
  <2>4. /\ x[Len(p) + 1] < z[Len(p) + 1] /\ z[Len(p) + 1] < n[Len(p) + 1]
        /\ Len(p) < Len(z) /\ Len(p) < Len(x)
    BY <1>5, <1>6, <2>1, <2>3 DEF BeforeIn
  <2>5. z[Len(p) + 1] \in Nat
    <3>1. Len(p) + 1 \in 1..Len(z)
      BY <1>3, <2>4, LenProperties DEF Paths
    <3>. QED
      BY <1>3, <3>1, ElementOfSeq DEF Paths
  <2>6. x[Len(p) + 1] = s[Len(p) + 1]
    <3>1. Len(p) + 1 \in 1..Len(s)
      BY <1>3
    <3>. QED
      BY <1>4, <3>1 DEF Leads
  <2>. QED
    BY <1>3, <2>4, <2>5, <2>6
<1>9. CASE Leads(d, c) /\ Len(d) < Len(c) /\ BeforeIn(g, d, x, n)
  <2>1. d = p
    <3>1. Shared(x, n) = d /\ Shared(x, n) = p
      BY <1>3, <1>4, <1>9, BeforeIs
    <3>. QED
      BY <3>1
  <2>2. Leads(c, x) /\ Leads(c, z) /\ Len(s) <= Len(c)
    BY <1>3, <1>5, <1>7, <1>9, <2>1 DEF BeforeIn
  <2>3. Leads(s, c)
    BY <1>3, <1>4, <2>2, LeadsNested
  <2>4. Leads(s, z)
    BY <1>3, <2>2, <2>3, LeadsTransitive
  <2>. QED
    BY <1>3, <2>4, TerminalLast
<1>. QED
  BY <1>3, <1>4, <1>5, <1>6, <1>8, <1>9, BeforeNested

\* Whatever is immediately before a node is found.
LEMMA NearestClimbed ==
  ASSUME NEW g, OrderingGraph(g), NEW n \in DOMAIN g, ~ AtRollbackEntry(g, n), NEW x \in Immediately(g, n)
  PROVE  x \in Climb(g, n)
<1>1. /\ n \in Paths /\ x \in DOMAIN g /\ x \in Paths /\ x \in Units(g) /\ Before(g, x, n)
      /\ \A u \in Units(g) : ~ (Before(g, u, n) /\ Before(g, x, u))
  BY InTree DEF Immediately, Units, Nodes
<1>2. PICK c \in Paths : BeforeIn(g, c, x, n)
  BY <1>1, BeforeIs
<1>3. Entrance(g, n) # <<>> /\ Len(c) < Len(Entrance(g, n))
  BY <1>1, <1>2, EntranceWithin
<1>4. PICK p, s : ClimbsTo(g, n, Entrance(g, n), p, s)
  BY <1>3, ClimbSplits
<1>5. /\ p \in Paths /\ s \in Paths /\ s \in DOMAIN g /\ s # <<>> /\ Len(p) \in Nat
      /\ Leads(p, n) /\ Leads(p, s) /\ Len(p) < Len(n) /\ Len(s) = Len(p) + 1 /\ g[p].kind # "parallel"
      /\ n[Len(p) + 1] \in Nat /\ n[Len(p) + 1] > 1 /\ s[Len(p) + 1] = n[Len(p) + 1] - 1
      /\ ForwardFrom(p, n) /\ Climb(g, n) = TerminalLeaves(g, s) /\ Len(Entrance(g, n)) = Len(p) + 1
  BY <1>4 DEF ClimbsTo
<1>6. Len(c) \in Nat /\ Len(x) \in Nat /\ Len(n) \in Nat /\ Len(c) <= Len(p)
  <2>1. Len(c) \in Nat /\ Len(x) \in Nat /\ Len(n) \in Nat
    BY <1>1, LenProperties DEF Paths
  <2>. QED
    BY <1>3, <1>5, <2>1
<1>7. Leads(c, p)
  BY <1>1, <1>2, <1>5, <1>6, LeadsNested DEF BeforeIn
\* A leaf that completes the preceding sibling.
<1>8. PICK u \in TerminalLeaves(g, s) : TRUE
  BY <1>5, TerminalExists
<1>9. u \in Units(g) /\ u \in Paths /\ Leads(s, u) /\ BeforeIn(g, p, u, n)
  <2>1. \A k \in Len(p) + 1..Len(s) : s[k] > 0
    BY <1>5
  <2>2. Len(p) < Len(s) /\ s[Len(p) + 1] < n[Len(p) + 1]
    BY <1>5
  <2>. QED
    BY <1>1, <1>5, <2>1, <2>2, TerminalBefore
<1>10. ~ Before(g, x, u)
  BY <1>1, <1>5, <1>9, BeforeIs
<1>11. c = p
  <2>. SUFFICES ASSUME Len(c) < Len(p) PROVE FALSE
    BY <1>5, <1>6, <1>7, LeadsSame
  <2>1. Len(c) + 1 \in 1..Len(p) /\ Len(u) \in Nat
    BY <1>5, <1>6, <1>9, LenProperties DEF Paths
  <2>2. Leads(p, u) /\ Leads(c, u) /\ Len(c) < Len(u)
    BY <1>5, <1>6, <1>7, <1>9, <2>1, LeadsTransitive DEF BeforeIn
  <2>3. u[Len(c) + 1] = n[Len(c) + 1]
    BY <1>5, <2>1, <2>2 DEF Leads
  <2>4. ForwardFrom(c, u)
    <3>. SUFFICES ASSUME NEW k \in Len(c) + 1..Len(u) PROVE u[k] > 0
      BY DEF ForwardFrom
    <3>1. CASE k <= Len(p)
      <4>1. k \in 1..Len(p) /\ k \in Len(c) + 1..Len(n)
        BY <1>5, <1>6, <3>1
      <4>2. u[k] = n[k]
        BY <1>5, <2>2, <4>1 DEF Leads
      <4>. QED
        BY <1>2, <4>1, <4>2 DEF BeforeIn, ForwardFrom
    <3>2. CASE k > Len(p)
      BY <1>5, <1>9, <2>1, <3>2 DEF BeforeIn, ForwardFrom
    <3>. QED
      BY <1>5, <1>6, <3>1, <3>2
  <2>5. BeforeIn(g, c, x, u)
    BY <1>2, <2>2, <2>3, <2>4 DEF BeforeIn
  <2>. QED
    BY <1>1, <1>9, <1>10, <2>5, BeforeIs
<1>. DEFINE k == Len(p) + 1
<1>12. /\ Leads(p, x) /\ Len(p) < Len(x) /\ ForwardFrom(p, x) /\ x[k] < n[k]
       /\ k \in 1..Len(x) /\ x[k] \in Nat
  <2>1. Leads(p, x) /\ Len(p) < Len(x) /\ ForwardFrom(p, x) /\ x[k] < n[k]
    BY <1>2, <1>11 DEF BeforeIn
  <2>2. k \in 1..Len(x)
    BY <1>5, <1>6, <2>1
  <2>. QED
    BY <1>1, <2>1, <2>2, ElementOfSeq DEF Paths
<1>13. u[k] = s[k]
  <2>1. k \in 1..Len(s)
    BY <1>5
  <2>. QED
    BY <1>9, <2>1 DEF Leads
<1>14. x[k] = s[k]
  <2>. SUFFICES ASSUME x[k] # s[k] PROVE FALSE
    OBVIOUS
  <2>1. x[k] < u[k]
    BY <1>5, <1>12, <1>13
  <2>2. BeforeIn(g, p, x, u)
    BY <1>9, <1>12, <2>1 DEF BeforeIn
  <2>. QED
    BY <1>1, <1>5, <1>9, <1>10, <2>2, BeforeIs
<1>15. Leads(s, x)
  <2>1. ASSUME NEW i \in 1..Len(s) PROVE s[i] = x[i]
    <3>1. i \in 1..Len(p) \/ i = k
      BY <1>5
    <3>2. CASE i \in 1..Len(p)
      BY <1>5, <1>12, <3>2 DEF Leads
    <3>. QED
      BY <1>14, <3>1, <3>2
  <2>. QED
    BY <1>5, <1>6, <1>12, <2>1 DEF Leads
<1>16. x = s \/ Under(s, x)
  <2>1. Len(s) = Len(x) \/ Len(s) < Len(x)
    BY <1>5, <1>6, <1>12
  <2>. QED
    BY <1>1, <1>5, <1>6, <1>15, <2>1, UnderIs, LeadsSame
<1>17. ASSUME NEW d \in Chain(x), d = s \/ Under(s, d), d # x
       PROVE  ~ Leaf(g, d) /\ (g[d].kind # "parallel" => x[Len(d) + 1] = g[d].kids)
  <2>. DEFINE j == Len(d) + 1
  <2>1. d \in Paths /\ Leads(d, x) /\ Leads(s, d) /\ Len(d) \in Nat /\ Len(s) <= Len(d) /\ Len(d) < Len(x)
    <3>1. d \in Paths /\ Leads(d, x) /\ Len(d) \in Nat /\ Len(d) <= Len(x)
      BY <1>1, ChainIs, LenProperties DEF Paths, Leads
    <3>2. Len(d) # Len(x)
      BY <1>1, <1>17, <3>1, LeadsSame
    <3>3. Leads(s, d)
      BY <1>5, <1>17, <3>1, UnderIs DEF Leads
    <3>. QED
      BY <1>6, <3>1, <3>2, <3>3 DEF Leads
  <2>2. j \in Len(p) + 1..Len(x) /\ Len(p) < Len(d)
    BY <1>5, <1>6, <2>1
  <2>3. x[j] > 0
    BY <1>12, <2>2 DEF ForwardFrom
  <2>4. d \in DOMAIN g /\ x[j] \in 1..g[d].kids /\ ~ Leaf(g, d) /\ g[d].kids \in Nat
    BY <1>1, <1>17, <2>3, ChildOf
  <2>5. ASSUME g[d].kind # "parallel", x[j] # g[d].kids PROVE FALSE
    <3>. DEFINE m == g[d].kids
                v == Append(d, m)
    <3>1. x[j] < m /\ m \in 1..g[d].kids
      BY <2>4, <2>5
    <3>2. v \in DOMAIN g /\ v \in Paths /\ Len(v) = Len(d) + 1 /\ v[Len(d) + 1] = g[d].kids /\ Leads(d, v)
      BY <2>4, <3>1, ChildIn
    <3>. HIDE DEF v, m
    <3>3. v # <<>>
      BY <2>1, <3>2, EmptySeq
    <3>4. PICK w \in TerminalLeaves(g, v) : TRUE
      BY <3>2, <3>3, TerminalExists
    <3>5. \A l \in Len(p) + 1..Len(v) : v[l] > 0
      <4>. SUFFICES ASSUME NEW l \in Len(p) + 1..Len(v) PROVE v[l] > 0
        OBVIOUS
      <4>1. CASE l <= Len(d)
        <5>1. l \in 1..Len(d) /\ l \in Len(p) + 1..Len(x)
          BY <1>5, <1>6, <2>1, <4>1
        <5>2. v[l] = x[l]
          BY <2>1, <3>2, <5>1 DEF Leads
        <5>. QED
          BY <1>12, <5>1, <5>2 DEF ForwardFrom
      <4>2. CASE l = Len(d) + 1
        BY <2>4, <3>2, <4>2
      <4>3. l \in Nat /\ l <= Len(d) + 1 /\ Len(d) \in Nat
        BY <1>5, <2>1, <3>2
      <4>4. l <= Len(d) \/ l = Len(d) + 1
        BY <4>3
      <4>. QED
        BY <4>1, <4>2, <4>4
    <3>6. Leads(p, v) /\ Len(p) < Len(v) /\ v[Len(p) + 1] < n[Len(p) + 1]
      <4>1. Leads(p, d)
        BY <1>5, <2>1, LeadsTransitive
      <4>2. Leads(s, v)
        BY <1>5, <2>1, <3>2, LeadsTransitive
      <4>3. v[Len(p) + 1] = s[Len(p) + 1]
        BY <1>5, <4>2 DEF Leads
      <4>. QED
        BY <1>5, <2>1, <2>2, <3>2, <4>1, <4>3, LeadsTransitive
    <3>7. w \in Units(g) /\ w \in Paths /\ Leads(v, w) /\ BeforeIn(g, p, w, n)
      BY <1>1, <1>5, <3>2, <3>5, <3>6, TerminalBefore
    <3>8. BeforeIn(g, d, x, w)
      <4>1. Leads(d, w) /\ Len(d) < Len(w) /\ Len(w) \in Nat
        <5>1. Len(w) \in Nat /\ Len(v) <= Len(w)
          BY <3>7, LenProperties DEF Paths, Leads
        <5>. QED
          BY <2>1, <3>2, <3>7, <5>1, LeadsTransitive
      <4>2. ForwardFrom(d, x)
        BY <1>5, <1>6, <1>12, <2>1, <2>2 DEF ForwardFrom
      <4>3. ForwardFrom(d, w)
        BY <1>5, <2>1, <2>2, <3>7, <4>1 DEF BeforeIn, ForwardFrom
      <4>4. w[j] = v[j]
        <5>1. j \in 1..Len(v)
          BY <2>1, <3>2
        <5>. QED
          BY <3>7, <5>1 DEF Leads
      <4>5. x[j] < w[j]
        BY <3>1, <3>2, <4>4 DEF m
      <4>. QED
        BY <2>1, <2>5, <4>1, <4>2, <4>3, <4>5 DEF BeforeIn
    <3>. QED
      BY <1>1, <1>5, <2>1, <3>7, <3>8, BeforeIs
  <2>. QED
    BY <2>4, <2>5
<1>18. Leaf(g, x)
  BY <1>1 DEF Units
<1>19. x \in TerminalLeaves(g, s)
  <2>. HIDE DEF k
  <2>. QED
    BY <1>1, <1>16, <1>17, <1>18 DEF TerminalLeaves
<1>. QED
  BY <1>5, <1>19

(* For a node that is not the entry of a rollback climb finds exactly the  *)
(* units immediately before it.                                            *)
LEMMA ClimbImmediate ==
  ASSUME NEW g, OrderingGraph(g), NEW n \in DOMAIN g, ~ AtRollbackEntry(g, n)
  PROVE  Climb(g, n) = Immediately(g, n)
<1>1. ASSUME NEW x \in Climb(g, n) PROVE x \in Immediately(g, n)
  <2>1. x \in Units(g) /\ Before(g, x, n)
    BY ClimbBefore
  <2>2. \A z \in Units(g) : Before(g, z, n) => ~ Before(g, x, z)
    BY ClimbNearest DEF Units, Nodes
  <2>. QED
    BY <2>1, <2>2 DEF Immediately
<1>. QED
  BY <1>1, NearestClimbed

-----------------------------------------------------------------------------
(* Rollbacks.                                                              *)

\* A rollback belongs to a stage, and no stage is inside a rollback.
LEMMA RollbackIs ==
  ASSUME NEW g, OrderingGraph(g), NEW n \in DOMAIN g, NEW r \in RollbackContainers(g, n)
  PROVE  /\ r \in DOMAIN g /\ r \in Paths /\ Leads(r, n) /\ g[r].kind = "rollback" /\ r # <<>>
         /\ Len(r) \in Nat \ {0} /\ n[Len(r)] = 0
         /\ Parent(r) \in DOMAIN g /\ Parent(r) \in Paths /\ Leads(Parent(r), r)
         /\ Len(Parent(r)) = Len(r) - 1 /\ RollbackContainers(g, Parent(r)) = {}
<1>1. r \in Chain(n) /\ g[r].kind = "rollback"
  BY DEF RollbackContainers
<1>2. r \in DOMAIN g /\ r \in Paths /\ Leads(r, n) /\ n \in Paths
  BY <1>1, InTree, ChainIs
<1>3. r # <<>>
  BY <1>1 DEF OrderingGraph
<1>4. Parent(r) \in DOMAIN g /\ Last(r) = 0 /\ g[Parent(r)].kind = "stage"
  BY <1>1, <1>2, <1>3 DEF OrderingGraph
<1>5. Parent(r) \in Paths /\ Leads(Parent(r), r) /\ Len(r) \in Nat \ {0} /\ Len(Parent(r)) = Len(r) - 1
  BY <1>2, <1>3, ParentIs
<1>6. n[Len(r)] = 0
  <2>1. Len(r) \in 1..Len(r)
    BY <1>5
  <2>. QED
    BY <1>2, <1>4, <2>1 DEF Leads, Last
<1>7. RollbackContainers(g, Parent(r)) = {}
  <2>. DEFINE s == Parent(r)
  <2>. HIDE DEF s
  <2>1. s \in DOMAIN g /\ g[s].kind = "stage" /\ s # <<>>
    BY <1>4 DEF OrderingGraph, s
  <2>2. \A c \in Chain(s) \ {s} : g[c].kind \in {"pipeline", "parallel"}
    BY <2>1 DEF OrderingGraph
  <2>3. RollbackContainers(g, s) = {}
    BY <2>1, <2>2 DEF RollbackContainers
  <2>. QED
    BY <2>3 DEF s
<1>. QED
  BY <1>1, <1>2, <1>3, <1>4, <1>5, <1>6, <1>7

\* So a node is in at most one rollback.
LEMMA OneRollback ==
  ASSUME NEW g, OrderingGraph(g), NEW n \in DOMAIN g,
         NEW r \in RollbackContainers(g, n), NEW s \in RollbackContainers(g, n)
  PROVE  r = s
<1>1. n \in Paths
  BY InTree
<1>2. ASSUME NEW a \in RollbackContainers(g, n), NEW b \in RollbackContainers(g, n), Len(a) < Len(b)
      PROVE  FALSE
  <2>1. a \in Paths /\ Leads(a, n) /\ g[a].kind = "rollback" /\ Len(a) \in Nat
    BY RollbackIs
  <2>2. /\ b \in Paths /\ Leads(b, n) /\ Len(b) \in Nat /\ Parent(b) \in Paths /\ Leads(Parent(b), b)
        /\ Len(Parent(b)) = Len(b) - 1 /\ RollbackContainers(g, Parent(b)) = {}
    BY RollbackIs
  <2>3. Leads(Parent(b), n) /\ Len(a) <= Len(Parent(b))
    BY <1>1, <1>2, <2>1, <2>2, LeadsTransitive
  <2>4. Leads(a, Parent(b))
    BY <1>1, <2>1, <2>2, <2>3, LeadsNested
  <2>5. a \in Chain(Parent(b))
    BY <2>1, <2>2, <2>4, ChainIs
  <2>. QED
    BY <2>1, <2>2, <2>5 DEF RollbackContainers
<1>3. /\ r \in Paths /\ s \in Paths /\ Leads(r, n) /\ Leads(s, n) /\ Len(r) \in Nat /\ Len(s) \in Nat
  BY RollbackIs
<1>4. Len(r) = Len(s)
  BY <1>2, <1>3
<1>. QED
  BY <1>1, <1>3, <1>4, LeadsNested, LeadsSame

\* What the document compares is in the same rollback.
LEMMA BeforeSameRollback ==
  ASSUME NEW g, OrderingGraph(g), NEW x \in DOMAIN g, NEW y \in DOMAIN g, Before(g, x, y)
  PROVE  RollbackContainers(g, x) = RollbackContainers(g, y)
<1>1. x \in Paths /\ y \in Paths
  BY InTree
<1>2. PICK c \in Paths : BeforeIn(g, c, x, y)
  BY <1>1, BeforeIs
<1>3. /\ Leads(c, x) /\ Leads(c, y) /\ Len(c) \in Nat
      /\ \A k \in Len(c) + 1..Len(x) : x[k] > 0
      /\ \A k \in Len(c) + 1..Len(y) : y[k] > 0
  BY <1>2, LenProperties DEF BeforeIn, ForwardFrom, Paths
<1>4. ASSUME NEW a \in {x, y}, NEW b \in {x, y}, NEW r \in RollbackContainers(g, a)
      PROVE  r \in RollbackContainers(g, b)
  <2>1. /\ a \in Paths /\ b \in Paths /\ a \in DOMAIN g /\ Leads(c, a) /\ Leads(c, b) /\ Len(a) \in Nat
        /\ \A k \in Len(c) + 1..Len(a) : a[k] > 0
    BY <1>1, <1>3, LenProperties DEF Paths
  <2>2. r \in Paths /\ Leads(r, a) /\ g[r].kind = "rollback" /\ Len(r) \in Nat \ {0} /\ a[Len(r)] = 0
    BY <2>1, RollbackIs
  <2>3. Len(r) <= Len(c)
    BY <1>3, <2>1, <2>2 DEF Leads
  <2>4. Leads(r, b)
    BY <2>1, <2>2, <2>3, LeadsNested, LeadsTransitive
  <2>5. r \in Chain(b)
    BY <2>1, <2>2, <2>4, ChainIs
  <2>. QED
    BY <2>2, <2>5 DEF RollbackContainers
<1>. QED
  BY <1>4

LEMMA RolledBackForward ==
  ASSUME NEW g, OrderingGraph(g), NEW y \in DOMAIN g, NEW z \in RolledBack(g, y)
  PROVE  z \in Units(g) /\ z \in DOMAIN g /\ RollbackContainers(g, z) = {}
<1>1. z \in Units(g) /\ z \in DOMAIN g /\ z \in Paths
  BY InTree DEF RolledBack, Units, Nodes
<1>2. PICK r \in RollbackContainers(g, y) : Under(Parent(r), z) /\ ForwardFrom(Parent(r), z)
  BY DEF RolledBack
<1>. DEFINE s == Parent(r)
<1>3. s \in DOMAIN g /\ s \in Paths /\ RollbackContainers(g, s) = {}
  BY RollbackIs
<1>4. Under(s, z) /\ ForwardFrom(s, z)
  BY <1>2
<1>. HIDE DEF s
<1>5. Leads(s, z) /\ Len(s) \in Nat /\ Len(z) \in Nat
  BY <1>1, <1>3, <1>4, UnderIs, LenProperties DEF Paths
<1>6. ASSUME NEW i \in 1..Len(z) PROVE z[i] > 0
  <2>1. CASE i <= Len(s)
    <3>1. i \in 1..Len(s)
      BY <1>5, <2>1
    <3>2. s[i] > 0
      BY <1>3, <3>1, RollbackFree
    <3>. QED
      BY <1>5, <3>1, <3>2 DEF Leads
  <2>2. CASE i > Len(s)
    BY <1>4, <1>5, <2>2 DEF ForwardFrom
  <2>. QED
    BY <1>5, <2>1, <2>2
<1>. QED
  BY <1>1, <1>6, RollbackFree

\* At the entry of a rollback climb finds the forward steps of the stage.
LEMMA ClimbAtEntry ==
  ASSUME NEW g, OrderingGraph(g), NEW n \in DOMAIN g, AtRollbackEntry(g, n)
  PROVE  Climb(g, n) = RolledBack(g, n) /\ RollbackContainers(g, n) # {}
<1>. DEFINE e == Entrance(g, n)
<1>1. n \in Paths /\ e \in Chain(n) /\ g[e].kind = "rollback"
  BY InTree, EntranceIs DEF AtRollbackEntry
<1>2. e \in RollbackContainers(g, n)
  BY <1>1 DEF RollbackContainers
<1>3. e # <<>>
  BY <1>2, RollbackIs
<1>4. Climb(g, n) = ForwardLeaves(g, Parent(e))
  BY <1>1, <1>3 DEF Climb
<1>. HIDE DEF e
<1>5. RollbackContainers(g, n) = {e}
  BY <1>2, OneRollback
<1>6. Len(Parent(e)) \in Nat
  <2>1. Parent(e) \in Paths
    BY <1>2, RollbackIs
  <2>. QED
    BY <2>1, LenProperties DEF Paths
<1>7. RolledBack(g, n) = {x \in Units(g) : g[x].kind = "step" /\ Under(Parent(e), x) /\ ForwardFrom(Parent(e), x)}
  BY <1>5 DEF RolledBack
<1>8. \A x : x \in Units(g) /\ g[x].kind = "step" <=> x \in DOMAIN g /\ g[x].kind = "step"
  BY DEF Units, Nodes, Leaf
<1>9. \A x : ForwardFrom(Parent(e), x) <=> \A k \in Len(Parent(e)) + 1..Len(x) : x[k] > 0
  BY DEF ForwardFrom
<1>10. ForwardLeaves(g, Parent(e)) = {x \in DOMAIN g : Under(Parent(e), x) /\ g[x].kind = "step" /\ ForwardFrom(Parent(e), x)}
  BY <1>9 DEF ForwardLeaves
<1>11. ForwardLeaves(g, Parent(e)) = RolledBack(g, n)
  BY <1>7, <1>8, <1>10
<1>. QED
  BY <1>2, <1>4, <1>11

(* The walk only meets what the document puts before the step or, for the  *)
(* step of a rollback, what the rollback is for and what comes before that.*)
LEMMA VisitedPrecursors ==
  ASSUME NEW g, OrderingGraph(g), NEW t, NEW y \in DOMAIN g
  PROVE  Visited(g, t, y) \subseteq Precursors(g, y)
<1>. DEFINE T == Precursors(g, y)
            next == [p \in DOMAIN g |-> IF SteppedOver(g, t, p) THEN Climb(g, p) ELSE {}]
<1>1. \A x \in T : x \in Units(g) /\ x \in DOMAIN g /\ x \in Paths
  BY InTree DEF Precursors, RolledBack, Units, Nodes
<1>2. Climb(g, y) \subseteq T
  <2>1. CASE AtRollbackEntry(g, y)
    BY <2>1, ClimbAtEntry DEF Precursors
  <2>2. CASE ~ AtRollbackEntry(g, y)
    BY <2>2, ClimbBefore DEF Precursors
  <2>. QED
    BY <2>1, <2>2
<1>3. ASSUME NEW p \in T PROVE Climb(g, p) \subseteq T
  <2>1. p \in DOMAIN g /\ p \in Paths
    BY <1>1
  <2>2. \/ p \in RolledBack(g, y)
        \/ \E z \in RolledBack(g, y) : Before(g, p, z)
        \/ Before(g, p, y)
    BY DEF Precursors
  <2>3. CASE AtRollbackEntry(g, p)
    <3>1. Climb(g, p) = RolledBack(g, p) /\ RollbackContainers(g, p) # {}
      BY <2>1, <2>3, ClimbAtEntry
    <3>2. ~ (p \in RolledBack(g, y)) /\ ~ \E z \in RolledBack(g, y) : Before(g, p, z)
      BY <2>1, <3>1, RolledBackForward, BeforeSameRollback
    <3>3. RollbackContainers(g, p) = RollbackContainers(g, y)
      BY <2>1, <2>2, <3>2, BeforeSameRollback
    <3>4. RolledBack(g, p) = RolledBack(g, y)
      BY <3>3 DEF RolledBack
    <3>. QED
      BY <3>1, <3>4 DEF Precursors
  <2>4. CASE ~ AtRollbackEntry(g, p)
    <3>. SUFFICES ASSUME NEW x \in Climb(g, p) PROVE x \in T
      OBVIOUS
    <3>1. x \in Units(g) /\ Before(g, x, p)
      BY <2>1, <2>4, ClimbBefore
    <3>2. x \in Paths /\ y \in Paths /\ \A z \in RolledBack(g, y) : z \in Paths
      BY <3>1, InTree, RolledBackForward DEF Units, Nodes
    <3>3. \E z \in RolledBack(g, y) \cup {y} : Before(g, x, z)
      BY <2>1, <2>2, <3>1, <3>2, BeforeTransitive
    <3>. QED
      BY <3>1, <3>3 DEF Precursors
  <2>. QED
    BY <2>3, <2>4
<1>4. ASSUME NEW p \in T PROVE next[p] \subseteq T
  BY <1>1, <1>3
<1>5. IsFiniteSet(DOMAIN g) /\ Visited(g, t, y) = Reached(next, Climb(g, y), DOMAIN g)
  BY DEF OrderingGraph, Visited
<1>. HIDE DEF T, next
<1>6. Reached(next, Climb(g, y), DOMAIN g) \subseteq T
  BY <1>2, <1>4, <1>5, ReachedWithin
<1>. QED
  BY <1>5, <1>6 DEF T

(* The walk over the predecessors of a step outside all rollbacks, which   *)
(* steps over those that never run, only meets units before the step.      *)
LEMMA VisitedBefore ==
  ASSUME NEW g, OrderingGraph(g), NEW t, NEW n \in DOMAIN g, RollbackContainers(g, n) = {}
  PROVE  Visited(g, t, n) \subseteq {x \in Units(g) : Before(g, x, n)}
<1>1. RolledBack(g, n) = {}
  BY DEF RolledBack
<1>2. Precursors(g, n) = {x \in Units(g) : Before(g, x, n)}
  BY <1>1 DEF Precursors
<1>. QED
  BY <1>2, VisitedPrecursors

\* Of what precedes a step, what comes after something before it is before it.
LEMMA Apart ==
  ASSUME NEW g, OrderingGraph(g), NEW y \in DOMAIN g, NEW b \in Precursors(g, y), NEW n \in DOMAIN g,
         Before(g, n, y), Before(g, n, b)
  PROVE  Before(g, b, y)
<1>1. b \in DOMAIN g
  BY DEF Precursors, RolledBack, Units, Nodes
<1>2. RollbackContainers(g, b) = RollbackContainers(g, y)
  BY <1>1, BeforeSameRollback
<1>3. ASSUME NEW z \in RolledBack(g, y), b = z \/ Before(g, b, z) PROVE FALSE
  <2>1. RollbackContainers(g, b) = {}
    BY <1>1, <1>3, RolledBackForward, BeforeSameRollback
  <2>. QED
    BY <1>2, <2>1 DEF RolledBack
<1>. QED
  BY <1>3 DEF Precursors

-----------------------------------------------------------------------------
(* What is due before a step, and what the walk leaves of it.              *)

LEMMA UnitsFinite ==
  ASSUME NEW g, OrderingGraph(g)
  PROVE  IsFiniteSet(Units(g)) /\ Units(g) \subseteq Nodes(g) /\ Nodes(g) \subseteq DOMAIN g /\ DOMAIN g \subseteq Paths
<1>1. Units(g) \subseteq Nodes(g) /\ Nodes(g) \subseteq DOMAIN g
  BY DEF Units, Nodes
<1>2. IsFiniteSet(DOMAIN g) /\ DOMAIN g \subseteq Paths
  BY DEF OrderingGraph, Paths
<1>. QED
  BY <1>1, <1>2, FS_Subset

\* The walk back of DueBefore; it is the same from every step that runs or
\* waits for all its predecessors.
Waits(g, t) ==
  [n \in Nodes(g) |-> IF OnAnyOutcome(g, n) /\ Runs(g, t, n) THEN {} ELSE Immediately(g, n)]
Back(g, t, y) == Reached(Waits(g, t), Waits(g, t)[y], Units(g))

LEMMA DueIs ==
  ASSUME NEW g, OrderingGraph(g), NEW t, NEW y \in Nodes(g), Runs(g, t, y) \/ ~ OnAnyOutcome(g, y)
  PROVE  /\ DueBefore(g, t, y) = {x \in Back(g, t, y) : Runs(g, t, x)}
         /\ Waits(g, t)[y] \subseteq Back(g, t, y) /\ Back(g, t, y) \subseteq Units(g)
         /\ \A n \in Back(g, t, y) : Waits(g, t)[n] \subseteq Back(g, t, y)
<1>. DEFINE W == Waits(g, t)
            V == [n \in Nodes(g) |->
                    IF OnAnyOutcome(g, n) /\ (n = y \/ Runs(g, t, n)) THEN {} ELSE Immediately(g, n)]
<1>1. V = W
  BY DEF Waits
<1>2. DueBefore(g, t, y) = {x \in Reached(V, V[y], Units(g)) : Runs(g, t, x)}
  BY DEF DueBefore
<1>3. \A n \in Nodes(g) : W[n] \subseteq Units(g)
  BY DEF Waits, Immediately
<1>4. W[y] \in SUBSET Units(g) /\ \A n \in Units(g) : W[n] \subseteq Units(g)
  BY <1>3, UnitsFinite
<1>5. IsFiniteSet(Units(g))
  BY UnitsFinite
<1>6. Back(g, t, y) = Reached(W, W[y], Units(g))
  BY DEF Back
<1>. HIDE DEF V, W
<1>7. LET R == Reached(W, W[y], Units(g))
      IN  W[y] \subseteq R /\ R \subseteq Units(g) /\ \A n \in R : W[n] \subseteq R
  BY <1>4, <1>5, ReachedClosed
<1>. QED
  BY <1>1, <1>2, <1>6, <1>7 DEF W

\* Where any of several units will do, none is due.
LEMMA DueNone ==
  ASSUME NEW g, OrderingGraph(g), NEW t, NEW y \in Nodes(g), OrJoined(g, y)
  PROVE  DueBefore(g, t, y) = {}
<1>. DEFINE V == [n \in Nodes(g) |->
                    IF OnAnyOutcome(g, n) /\ (n = y \/ Runs(g, t, n)) THEN {} ELSE Immediately(g, n)]
<1>1. V[y] = {}
  <2>1. CASE OnAnyOutcome(g, y)
    BY <2>1
  <2>2. CASE ~ OnAnyOutcome(g, y)
    <3>1. AtRollbackEntry(g, y)
      BY <2>2 DEF OrJoined, OnAnyOutcome
    <3>2. \A x \in Units(g) : ~ Before(g, x, y)
      BY <3>1, EntryFirst, UnitsFinite
    <3>3. Immediately(g, y) = {}
      BY <3>2 DEF Immediately
    <3>. QED
      BY <2>2, <3>3
  <2>. QED
    BY <2>1, <2>2
<1>2. DueBefore(g, t, y) = {x \in Reached(V, V[y], Units(g)) : Runs(g, t, x)}
  BY DEF DueBefore
<1>3. IsFiniteSet(Units(g))
  BY UnitsFinite
<1>. HIDE DEF V
<1>4. Reached(V, V[y], Units(g)) \subseteq {}
  <2>. DEFINE T == {}
  <2>1. V[y] \subseteq T /\ \A n \in T : V[n] \subseteq T
    BY <1>1
  <2>. HIDE DEF T
  <2>2. Reached(V, V[y], Units(g)) \subseteq T
    BY <1>3, <2>1, ReachedWithin
  <2>. QED
    BY <2>2 DEF T
<1>. QED
  BY <1>2, <1>4

LEMMA DueWithin ==
  ASSUME NEW g, OrderingGraph(g), NEW t, NEW y \in Nodes(g), NEW x \in DueBefore(g, t, y)
  PROVE  x \in Units(g) /\ x \in Nodes(g) /\ Runs(g, t, x) /\ Before(g, x, y)
<1>. DEFINE V == [n \in Nodes(g) |->
                    IF OnAnyOutcome(g, n) /\ (n = y \/ Runs(g, t, n)) THEN {} ELSE Immediately(g, n)]
            T == {z \in Units(g) : Before(g, z, y)}
<1>1. DueBefore(g, t, y) = {z \in Reached(V, V[y], Units(g)) : Runs(g, t, z)}
  BY DEF DueBefore
<1>2. V[y] \subseteq T
  BY DEF Immediately
<1>3. ASSUME NEW n \in T PROVE V[n] \subseteq T
  <2>1. n \in Nodes(g) /\ n \in Paths /\ y \in Paths /\ Before(g, n, y)
    BY UnitsFinite
  <2>2. V[n] \subseteq {z \in Units(g) : Before(g, z, n)}
    BY <2>1 DEF Immediately
  <2>. HIDE DEF V
  <2>. QED
    BY <2>1, <2>2, BeforeTransitive, UnitsFinite
<1>4. IsFiniteSet(Units(g))
  BY UnitsFinite
<1>. HIDE DEF V, T
<1>5. Reached(V, V[y], Units(g)) \subseteq T
  BY <1>2, <1>3, <1>4, ReachedWithin
<1>. QED
  BY <1>1, <1>5, UnitsFinite DEF T

\* A unit the walk visits is stepped over, waited for because it runs, or not
\* decided.
LEMMA VisitedIs ==
  ASSUME NEW g, OrderingGraph(g), NEW t, Decides(t, g), NEW y \in DOMAIN g, NEW p \in Visited(g, t, y)
  PROVE  /\ p \in Units(g) /\ p \in Nodes(g) /\ p \in DOMAIN g /\ p \in Paths
         /\ p \in LiveNodes(g, t, y) <=> Runs(g, t, p)
         /\ p \in UnknownNodes(g, t, y) \/ Runs(g, t, p) \/ SteppedOver(g, t, p)
<1>1. p \in Units(g) /\ p \in Nodes(g) /\ p \in DOMAIN g /\ p \in Paths
  BY VisitedPrecursors, UnitsFinite DEF Precursors, RolledBack
<1>2. Chain(p) \subseteq DOMAIN g
  BY <1>1, InTree
<1>. DEFINE truths == {t[c] : c \in {d \in Chain(p) : g[d].when # NoWhen}}
<1>3. truths \subseteq {"holds", "fails", "unknown"}
  BY <1>2 DEF Decides
<1>4. GuardSkip(g, t, p) = IF "fails" \in truths THEN "skipped"
                           ELSE IF "unknown" \in truths THEN "unknown" ELSE "live"
  BY DEF GuardSkip
<1>5. (\A c \in Chain(p) : g[c].when # NoWhen => t[c] = "holds") <=> \A v \in truths : v = "holds"
  OBVIOUS
<1>. HIDE DEF truths
<1>6. GuardSkip(g, t, p) = "live" <=> \A v \in truths : v = "holds"
  BY <1>3, <1>4
<1>7. GuardSkip(g, t, p) \in {"skipped", "unknown", "live"}
  BY <1>4
<1>8. Runs(g, t, p) <=> ~ StrategyExcluded(g, p) /\ GuardSkip(g, t, p) = "live"
  BY <1>5, <1>6 DEF Runs
<1>. QED
  BY <1>1, <1>7, <1>8 DEF LiveNodes, UnknownNodes, SteppedOver

LEMMA VisitedClosed ==
  ASSUME NEW g, OrderingGraph(g), NEW t, NEW y \in DOMAIN g
  PROVE  /\ Climb(g, y) \subseteq Visited(g, t, y)
         /\ \A p \in Visited(g, t, y) : SteppedOver(g, t, p) => Climb(g, p) \subseteq Visited(g, t, y)
<1>. DEFINE next == [p \in DOMAIN g |-> IF SteppedOver(g, t, p) THEN Climb(g, p) ELSE {}]
<1>1. \A n \in DOMAIN g : Climb(g, n) \subseteq DOMAIN g
  BY DEF Climb, TerminalLeaves, ForwardLeaves
<1>2. Climb(g, y) \in SUBSET DOMAIN g /\ \A n \in DOMAIN g : next[n] \subseteq DOMAIN g
  BY <1>1
<1>3. IsFiniteSet(DOMAIN g) /\ Visited(g, t, y) = Reached(next, Climb(g, y), DOMAIN g)
  BY DEF OrderingGraph, Visited
<1>4. \A p \in DOMAIN g : SteppedOver(g, t, p) => next[p] = Climb(g, p)
  OBVIOUS
<1>. HIDE DEF next
<1>5. LET R == Reached(next, Climb(g, y), DOMAIN g)
      IN  Climb(g, y) \subseteq R /\ R \subseteq DOMAIN g /\ \A n \in R : next[n] \subseteq R
  BY <1>2, <1>3, ReachedClosed
<1>6. /\ Climb(g, y) \subseteq Visited(g, t, y) /\ Visited(g, t, y) \subseteq DOMAIN g
      /\ \A n \in Visited(g, t, y) : next[n] \subseteq Visited(g, t, y)
  BY <1>3, <1>5
<1>. QED
  BY <1>4, <1>6

\* Whatever is due before a step is one of the units the walk ends on or is
\* due before one of them.
LEMMA DueLive ==
  ASSUME NEW g, OrderingGraph(g), NEW t, Decides(t, g), NEW y \in Nodes(g), ~ OrJoined(g, y),
         UnknownNodes(g, t, y) = {}, NEW x \in DueBefore(g, t, y)
  PROVE  \E n \in LiveNodes(g, t, y) : Before(g, n, y) /\ (x = n \/ x \in DueBefore(g, t, n))
<1>. DEFINE W == Waits(g, t)
            L == LiveNodes(g, t, y)
            T == {z \in Units(g) : /\ Before(g, z, y)
                                   /\ \/ z \in Visited(g, t, y)
                                      \/ \E n \in L : Before(g, n, y) /\ z \in Back(g, t, n)}
<1>1. y \in DOMAIN g /\ ~ OnAnyOutcome(g, y) /\ ~ AtRollbackEntry(g, y)
  BY UnitsFinite DEF OrJoined, OnAnyOutcome
<1>2. \A n \in Nodes(g) : W[n] \subseteq Immediately(g, n)
  BY DEF Waits
<1>3. W[y] \subseteq T
  <2>1. W[y] \subseteq Immediately(g, y) /\ Climb(g, y) = Immediately(g, y)
    BY <1>1, <1>2, ClimbImmediate
  <2>2. Climb(g, y) \subseteq Visited(g, t, y)
    BY <1>1, VisitedClosed
  <2>. HIDE DEF W
  <2>. QED
    BY <2>1, <2>2 DEF Immediately
<1>4. ASSUME NEW n \in L
      PROVE  /\ n \in Nodes(g) /\ n \in Visited(g, t, y) /\ Runs(g, t, n)
             /\ DueBefore(g, t, n) = {z \in Back(g, t, n) : Runs(g, t, z)}
             /\ W[n] \subseteq Back(g, t, n)
             /\ \A m \in Back(g, t, n) : W[m] \subseteq Back(g, t, n)
  <2>1. n \in Visited(g, t, y)
    BY DEF LiveNodes
  <2>2. n \in Nodes(g) /\ Runs(g, t, n)
    BY <1>1, <2>1, VisitedIs
  <2>. QED
    BY <2>1, <2>2, DueIs
<1>5. ASSUME NEW z \in T PROVE W[z] \subseteq T
  <2>1. z \in Nodes(g) /\ z \in DOMAIN g /\ z \in Paths /\ y \in Paths /\ Before(g, z, y)
    BY UnitsFinite
  <2>. SUFFICES ASSUME NEW v \in W[z] PROVE v \in T
    OBVIOUS
  <2>2. v \in Immediately(g, z)
    BY <1>2, <2>1
  <2>3. v \in Units(g) /\ v \in Paths /\ Before(g, v, z)
    BY <2>2, UnitsFinite DEF Immediately
  <2>4. Before(g, v, y)
    BY <2>1, <2>3, BeforeTransitive
  <2>5. CASE z \in Visited(g, t, y)
    <3>1. Runs(g, t, z) \/ SteppedOver(g, t, z)
      BY <1>1, <2>5, VisitedIs
    <3>2. CASE Runs(g, t, z)
      <4>1. z \in L
        BY <1>1, <2>5, <3>2, VisitedIs
      <4>2. v \in Back(g, t, z)
        BY <1>4, <4>1
      <4>. QED
        BY <2>1, <2>3, <2>4, <4>1, <4>2
    <3>3. CASE SteppedOver(g, t, z)
      <4>1. ~ AtRollbackEntry(g, z)
        BY <2>1, <2>3, EntryFirst
      <4>2. v \in Climb(g, z)
        BY <2>1, <2>2, <4>1, ClimbImmediate
      <4>3. v \in Visited(g, t, y)
        BY <1>1, <2>5, <3>3, <4>2, VisitedClosed
      <4>. QED
        BY <2>3, <2>4, <4>3
    <3>. QED
      BY <3>1, <3>2, <3>3
  <2>6. CASE \E n \in L : Before(g, n, y) /\ z \in Back(g, t, n)
    <3>1. PICK n \in L : Before(g, n, y) /\ z \in Back(g, t, n)
      BY <2>6
    <3>2. v \in Back(g, t, n)
      BY <1>4, <3>1
    <3>. QED
      BY <2>3, <2>4, <3>1, <3>2
  <2>. QED
    BY <2>5, <2>6
<1>6. IsFiniteSet(Units(g)) /\ Back(g, t, y) = Reached(W, W[y], Units(g))
  BY UnitsFinite DEF Back
<1>7. x \in Back(g, t, y) /\ Runs(g, t, x)
  BY <1>1, DueIs
<1>. HIDE DEF W, T
<1>8. Reached(W, W[y], Units(g)) \subseteq T
  BY <1>3, <1>5, <1>6, ReachedWithin
<1>9. x \in T
  BY <1>6, <1>7, <1>8
<1>10. CASE x \in Visited(g, t, y)
  <2>1. x \in L
    BY <1>1, <1>7, <1>10, VisitedIs
  <2>. QED
    BY <1>9, <2>1 DEF T
<1>11. CASE \E n \in L : Before(g, n, y) /\ x \in Back(g, t, n)
  <2>1. PICK n \in L : Before(g, n, y) /\ x \in Back(g, t, n)
    BY <1>11
  <2>2. x \in DueBefore(g, t, n)
    BY <1>4, <1>7, <2>1
  <2>. QED
    BY <2>1, <2>2
<1>. QED
  BY <1>9, <1>10, <1>11 DEF T

\* The walk back from a step that waits for all its predecessors meets nothing
\* but what DueBefore goes through, unless it leaves a rollback by its entry.
LEMMA VisitedDue ==
  ASSUME NEW g, OrderingGraph(g), NEW t, NEW y \in Nodes(g), ~ OrJoined(g, y),
         \A x \in Units(g) : Before(g, x, y) /\ AtRollbackEntry(g, x) => Runs(g, t, x)
  PROVE  \A p \in Visited(g, t, y) : p \in Back(g, t, y) /\ Before(g, p, y)
<1>. DEFINE next == [p \in DOMAIN g |-> IF SteppedOver(g, t, p) THEN Climb(g, p) ELSE {}]
            T == {z \in Back(g, t, y) : Before(g, z, y)}
<1>1. y \in DOMAIN g /\ ~ OnAnyOutcome(g, y) /\ ~ AtRollbackEntry(g, y)
  BY UnitsFinite DEF OrJoined, OnAnyOutcome
<1>2. Waits(g, t)[y] \subseteq Back(g, t, y) /\ \A n \in Back(g, t, y) : Waits(g, t)[n] \subseteq Back(g, t, y)
  BY <1>1, DueIs
<1>3. Back(g, t, y) \subseteq Units(g)
  BY <1>1, DueIs
<1>4. Climb(g, y) \subseteq T
  <2>1. Climb(g, y) = Immediately(g, y) /\ Waits(g, t)[y] = Immediately(g, y)
    BY <1>1, ClimbImmediate DEF Waits
  <2>. QED
    BY <1>2, <2>1 DEF Immediately
<1>5. ASSUME NEW z \in T PROVE next[z] \subseteq T
  <2>. SUFFICES ASSUME SteppedOver(g, t, z), z \in DOMAIN g PROVE Climb(g, z) \subseteq T
    BY <1>3, UnitsFinite
  <2>1. z \in Units(g) /\ z \in Nodes(g) /\ z \in DOMAIN g /\ z \in Paths /\ y \in Paths /\ Before(g, z, y)
    BY <1>1, <1>3, UnitsFinite
  <2>2. ~ Runs(g, t, z)
    <3>1. CASE StrategyExcluded(g, z)
      BY <3>1 DEF Runs
    <3>2. CASE GuardSkip(g, t, z) = "skipped"
      BY <3>2 DEF GuardSkip, Runs
    <3>. QED
      BY <3>1, <3>2 DEF SteppedOver
  <2>3. ~ AtRollbackEntry(g, z)
    BY <2>1, <2>2
  <2>4. Climb(g, z) = Immediately(g, z) /\ Waits(g, t)[z] = Immediately(g, z)
    BY <2>1, <2>2, <2>3, ClimbImmediate DEF Waits
  <2>5. ASSUME NEW v \in Immediately(g, z) PROVE Before(g, v, y)
    <3>1. v \in Paths /\ Before(g, v, z)
      BY UnitsFinite DEF Immediately
    <3>. QED
      BY <2>1, <3>1, BeforeTransitive
  <2>. QED
    BY <1>2, <2>4, <2>5
<1>6. IsFiniteSet(DOMAIN g) /\ Visited(g, t, y) = Reached(next, Climb(g, y), DOMAIN g)
  BY DEF OrderingGraph, Visited
<1>7. Reached(next, Climb(g, y), DOMAIN g) \subseteq T
  <2>. HIDE DEF next, T
  <2>. QED
    BY <1>4, <1>5, <1>6, ReachedWithin
<1>. QED
  BY <1>6, <1>7

\* A unit that another one implies is due before it, with all that is due
\* before the first.
LEMMA ViaDue ==
  ASSUME NEW g, OrderingGraph(g), NEW t, NEW n \in Nodes(g), NEW b \in Nodes(g),
         Runs(g, t, n), Runs(g, t, b), PrecedesVia(g, n, b)
  PROVE  Before(g, n, b) /\ n \in DueBefore(g, t, b) /\ DueBefore(g, t, n) \subseteq DueBefore(g, t, b)
<1>. DEFINE W == Waits(g, t)
            back == [m \in DOMAIN g |-> IF OrJoined(g, m) THEN {} ELSE Climb(g, m)]
            B == Back(g, t, b)
<1>1. n \in DOMAIN g /\ b \in DOMAIN g
  BY UnitsFinite
<1>2. /\ DueBefore(g, t, b) = {x \in B : Runs(g, t, x)} /\ W[b] \subseteq B /\ B \subseteq Units(g)
      /\ \A m \in B : W[m] \subseteq B
  BY DueIs
<1>3. ASSUME NEW m \in Nodes(g) PROVE back[m] \subseteq W[m]
  <2>1. CASE OrJoined(g, m)
    BY <2>1, UnitsFinite
  <2>2. CASE ~ OrJoined(g, m)
    <3>1. ~ OnAnyOutcome(g, m) /\ ~ AtRollbackEntry(g, m) /\ m \in DOMAIN g
      BY <2>2, UnitsFinite DEF OrJoined, OnAnyOutcome
    <3>2. W[m] = Immediately(g, m) /\ back[m] = Climb(g, m)
      BY <2>2, <3>1 DEF Waits
    <3>. QED
      BY <3>1, <3>2, ClimbImmediate
  <2>. QED
    BY <2>1, <2>2
<1>4. n \in Reached(back, back[b], DOMAIN g)
  BY DEF PrecedesVia
<1>5. IsFiniteSet(DOMAIN g) /\ IsFiniteSet(Units(g))
  BY UnitsFinite DEF OrderingGraph
<1>6. back[b] \subseteq B /\ \A m \in B : back[m] \subseteq B
  BY <1>2, <1>3, UnitsFinite
<1>. HIDE DEF W, back, B
<1>7. n \in B
  BY <1>4, <1>5, <1>6, ReachedWithin
<1>8. n \in DueBefore(g, t, b)
  BY <1>2, <1>7
<1>9. DueBefore(g, t, n) = {x \in Back(g, t, n) : Runs(g, t, x)} /\ Back(g, t, n) = Reached(W, W[n], Units(g))
  BY DueIs DEF Back, W
<1>10. Reached(W, W[n], Units(g)) \subseteq B
  BY <1>2, <1>5, <1>7, ReachedWithin
<1>. QED
  BY <1>2, <1>8, <1>9, <1>10, DueWithin

(* Whatever is due before a step that waits for all its predecessors is one*)
(* of the units its gate names or is due before one of them: what is       *)
(* stepped over passes the walk on, and what is dropped is implied.        *)
LEMMA Covering ==
  ASSUME NEW g, OrderingGraph(g), NEW t, Decides(t, g), NEW y \in Nodes(g), ~ OrJoined(g, y),
         UnknownNodes(g, t, y) = {}, NEW x \in DueBefore(g, t, y)
  PROVE  \E b \in LiveAncestors(g, t, y) : Before(g, b, y) /\ (x = b \/ x \in DueBefore(g, t, b))
<1>. DEFINE L == LiveNodes(g, t, y)
            S == {b \in L : Before(g, b, y) /\ (x = b \/ x \in DueBefore(g, t, b))}
<1>1. y \in DOMAIN g
  BY UnitsFinite
<1>2. \A b \in L : /\ b \in Visited(g, t, y) /\ Runs(g, t, b) /\ b \in Nodes(g) /\ b \in DOMAIN g /\ b \in Paths
                   /\ b \in Precursors(g, y)
  <2>1. \A b \in L : b \in Visited(g, t, y)
    BY DEF LiveNodes
  <2>. QED
    BY <1>1, <2>1, VisitedIs, VisitedPrecursors
<1>3. S # {}
  BY DueLive
<1>4. S \subseteq DOMAIN g /\ S \subseteq Paths
  BY <1>2
<1>5. IsFiniteSet(S)
  BY <1>4, FS_Subset DEF OrderingGraph
<1>6. PICK b \in S : \A c \in S : ~ Before(g, b, c)
  <2>. HIDE DEF S
  <2>. QED
    BY <1>3, <1>4, <1>5, Latest
<1>7. b \in L /\ Before(g, b, y) /\ (x = b \/ x \in DueBefore(g, t, b))
  OBVIOUS
<1>8. ASSUME NEW c \in L \ {b}, PrecedesVia(g, b, c) PROVE FALSE
  <2>1. Before(g, b, c) /\ b \in DueBefore(g, t, c) /\ DueBefore(g, t, b) \subseteq DueBefore(g, t, c)
    BY <1>2, <1>7, <1>8, ViaDue
  <2>2. Before(g, c, y)
    BY <1>1, <1>2, <1>7, <1>8, <2>1, Apart
  <2>3. c \in S
    BY <1>7, <1>8, <2>1, <2>2
  <2>. QED
    BY <1>6, <2>1, <2>3
<1>9. b \in LiveAncestors(g, t, y)
  BY <1>7, <1>8 DEF LiveAncestors, CoveredByAnother
<1>. QED
  BY <1>7, <1>9

\* Where the walk steps over all that it visits before m, it visits all that is
\* before m.
LEMMA SteppedThrough ==
  ASSUME NEW g, OrderingGraph(g), NEW t, NEW y \in DOMAIN g, NEW m \in DOMAIN g,
         Climb(g, m) \subseteq Visited(g, t, y),
         \A n \in Visited(g, t, y) : Before(g, n, m) => SteppedOver(g, t, n),
         NEW u \in Units(g), Before(g, u, m)
  PROVE  u \in Visited(g, t, y)
<1>. DEFINE V == Visited(g, t, y)
            M == {m} \cup {n \in V \cap DOMAIN g : Before(g, n, m)}
            later == {k \in M : Before(g, u, k)}
<1>1. ASSUME NEW k \in M PROVE k \in DOMAIN g /\ k \in Paths /\ Climb(g, k) \subseteq V
  BY VisitedClosed, UnitsFinite
<1>2. IsFiniteSet(DOMAIN g) /\ Units(g) \subseteq DOMAIN g /\ DOMAIN g \subseteq Paths /\ u \in Paths /\ m \in Paths
  BY UnitsFinite DEF OrderingGraph
<1>3. later # {} /\ later \subseteq DOMAIN g
  BY <1>1
<1>4. IsFiniteSet(later)
  BY <1>2, <1>3, FS_Subset
<1>5. PICK k \in later : \A z \in later : ~ Before(g, z, k)
  <2>. HIDE DEF later
  <2>. QED
    BY <1>2, <1>3, <1>4, Earliest
<1>6. k \in M /\ Before(g, u, k) /\ k \in DOMAIN g /\ k \in Paths /\ Climb(g, k) \subseteq V
  BY <1>1
<1>7. ~ AtRollbackEntry(g, k)
  BY <1>2, <1>6, EntryFirst
<1>. DEFINE between == {z \in Units(g) : Before(g, z, k) /\ (u = z \/ Before(g, u, z))}
<1>8. u \in between /\ between \subseteq DOMAIN g /\ between \subseteq Paths
  BY <1>2, <1>6
<1>9. IsFiniteSet(between)
  BY <1>2, <1>8, FS_Subset
<1>10. PICK z \in between : \A v \in between : ~ Before(g, z, v)
  <2>. HIDE DEF between
  <2>. QED
    BY <1>2, <1>8, <1>9, Latest
<1>11. z \in Units(g) /\ z \in DOMAIN g /\ z \in Paths /\ Before(g, z, k) /\ (u = z \/ Before(g, u, z))
  BY <1>8
<1>12. ASSUME NEW v \in Units(g), Before(g, v, k), Before(g, z, v) PROVE FALSE
  <2>1. v \in Paths
    BY <1>2
  <2>2. Before(g, u, v)
    BY <1>2, <1>11, <1>12, <2>1, BeforeTransitive
  <2>3. v \in between
    BY <1>12, <2>2
  <2>. QED
    BY <1>10, <1>12, <2>3
<1>13. z \in Immediately(g, k)
  BY <1>11, <1>12 DEF Immediately
<1>14. z \in V
  BY <1>6, <1>7, <1>13, ClimbImmediate
<1>15. ~ Before(g, u, z)
  <2>. SUFFICES ASSUME Before(g, u, z) PROVE FALSE
    OBVIOUS
  <2>1. k = m \/ Before(g, k, m)
    BY <1>6
  <2>2. Before(g, z, m)
    BY <1>2, <1>6, <1>11, <2>1, BeforeTransitive
  <2>3. z \in later
    BY <1>11, <1>14, <2>2
  <2>. QED
    BY <1>5, <1>11, <2>3
<1>. QED
  BY <1>11, <1>14, <1>15

\* The walk out of a rollback goes through its entry.
LEMMA RollbackReached ==
  ASSUME NEW g, OrderingGraph(g), NEW t, NEW y \in DOMAIN g,
         \A n \in Visited(g, t, y) : Before(g, n, y) => SteppedOver(g, t, n)
  PROVE  RolledBack(g, y) \subseteq Visited(g, t, y)
<1>. DEFINE V == Visited(g, t, y)
            S == {y} \cup {u \in Units(g) : Before(g, u, y)}
<1>. SUFFICES ASSUME RollbackContainers(g, y) # {} PROVE RolledBack(g, y) \subseteq V
  BY DEF RolledBack
<1>1. y \in Paths /\ IsFiniteSet(DOMAIN g) /\ Units(g) \subseteq DOMAIN g /\ DOMAIN g \subseteq Paths
  BY UnitsFinite DEF OrderingGraph
<1>2. Climb(g, y) \subseteq V /\ \A n \in V : SteppedOver(g, t, n) => Climb(g, n) \subseteq V
  BY VisitedClosed
<1>3. \A u \in Units(g) : Before(g, u, y) => u \in V /\ Climb(g, u) \subseteq V
  BY <1>2, SteppedThrough
<1>4. S \subseteq DOMAIN g /\ IsFiniteSet(S) /\ S # {}
  BY <1>1, FS_Subset
<1>5. PICK e \in S : \A u \in S : ~ Before(g, u, e)
  <2>. HIDE DEF S
  <2>. QED
    BY <1>1, <1>4, Earliest
<1>6. e \in DOMAIN g /\ e \in Paths /\ Climb(g, e) \subseteq V
  BY <1>1, <1>2, <1>3, <1>4
<1>7. RollbackContainers(g, e) = RollbackContainers(g, y)
  BY <1>6, BeforeSameRollback
<1>8. AtRollbackEntry(g, e)
  <2>. SUFFICES ASSUME ~ AtRollbackEntry(g, e) PROVE FALSE
    OBVIOUS
  <2>1. PICK r \in RollbackContainers(g, e) : TRUE
    BY <1>7
  <2>2. r \in Chain(e) /\ Stops(g, r) /\ Len(r) \in Nat \ {0}
    BY <1>6, RollbackIs DEF RollbackContainers, Stops
  <2>3. Len(r) <= Len(Entrance(g, e)) /\ Entrance(g, e) \in Paths
    BY <1>6, <2>2, EntranceIs, ChainIs
  <2>4. Entrance(g, e) # <<>>
    BY <2>2, <2>3, EmptySeq
  <2>5. PICK p, s : ClimbsTo(g, e, Entrance(g, e), p, s)
    BY <1>6, <2>4, ClimbSplits
  <2>6. Climb(g, e) = TerminalLeaves(g, s) /\ s \in DOMAIN g /\ s # <<>>
    BY <2>5 DEF ClimbsTo
  <2>7. PICK u \in Climb(g, e) : TRUE
    BY <2>6, TerminalExists
  <2>8. u \in Units(g) /\ u \in Paths /\ Before(g, u, e)
    BY <1>1, <1>6, <2>7, ClimbBefore
  <2>9. Before(g, u, y)
    BY <1>1, <1>6, <2>8, BeforeTransitive
  <2>10. u \in S
    BY <2>8, <2>9
  <2>. QED
    BY <1>5, <2>8, <2>10
<1>9. Climb(g, e) = RolledBack(g, e) /\ RolledBack(g, e) = RolledBack(g, y)
  BY <1>6, <1>7, <1>8, ClimbAtEntry DEF RolledBack
<1>. QED
  BY <1>6, <1>9

(* The walk back from a step ends on something that runs, when anything it *)
(* may be allowed after does.                                              *)
LEMMA LiveNonempty ==
  ASSUME NEW g, OrderingGraph(g), NEW t, Decides(t, g), NEW y \in Nodes(g),
         UnknownNodes(g, t, y) = {}, NEW x \in Precursors(g, y), Runs(g, t, x)
  PROVE  LiveNodes(g, t, y) # {}
<1>. SUFFICES ASSUME LiveNodes(g, t, y) = {} PROVE FALSE
  OBVIOUS
<1>. DEFINE V == Visited(g, t, y)
            M == {y} \cup V
<1>1. y \in DOMAIN g /\ y \in Paths
  BY UnitsFinite
<1>2. ASSUME NEW m \in V
      PROVE  m \in Units(g) /\ m \in DOMAIN g /\ m \in Paths /\ SteppedOver(g, t, m) /\ ~ Runs(g, t, m)
  BY <1>1, VisitedIs
<1>3. ASSUME NEW m \in M PROVE m \in DOMAIN g /\ m \in Paths /\ Climb(g, m) \subseteq V
  BY <1>1, <1>2, VisitedClosed
<1>4. RolledBack(g, y) \subseteq V
  BY <1>1, <1>2, RollbackReached
<1>5. ASSUME NEW m \in M, NEW u \in Units(g), Before(g, u, m) PROVE u \in V
  BY <1>1, <1>2, <1>3, <1>5, SteppedThrough
<1>6. x \in V
  <2>1. CASE x \in RolledBack(g, y)
    BY <1>4, <2>1
  <2>2. CASE x \in Units(g) /\ \E z \in RolledBack(g, y) \cup {y} : Before(g, x, z)
    BY <1>4, <1>5, <2>2 DEF M
  <2>. QED
    BY <2>1, <2>2 DEF Precursors
<1>. QED
  BY <1>2, <1>6

-----------------------------------------------------------------------------
(* The names of runs.                                                      *)

FQNs == Seq(Seq(NameTokens))

\* A suffix for each of the fans, and the name fqn takes with them.
Picks(g, fans) ==
  {p \in [fans -> UNION {g[c].strat.suffixes : c \in fans}] :
     \A c \in fans : p[c] \in g[c].strat.suffixes}
Marks(g, fans, p, k) == UNION {{p[c]} : c \in {d \in fans : Len(g[d].fqn) = k}}
Fanned(g, fqn, fans, p) ==
  [k \in DOMAIN fqn |-> IF Marks(g, fans, p, k) = {} THEN fqn[k]
                        ELSE fqn[k] \o (CHOOSE s \in Marks(g, fans, p, k) : TRUE)]

LEMMA FanOverIs ==
  ASSUME NEW g, NEW fqn, NEW fans
  PROVE  FanOver(g, fqn, fans) = {Fanned(g, fqn, fans, p) : p \in Picks(g, fans)}
  BY DEF FanOver, Fanned, Picks, Marks

\* The FQN of a unit or a rollback container begins with those of the
\* containers around it.
LEMMA NamesNest ==
  ASSUME NEW g, OrderingGraph(g), NEW n \in DOMAIN g, g[n].kind \notin {"pipeline", "parallel"},
         NEW c \in Chain(n), c # n
  PROVE  /\ c \in DOMAIN g /\ c \in Paths
         /\ g[c].fqn \in FQNs /\ g[n].fqn \in FQNs
         /\ Len(g[c].fqn) \in Nat /\ Len(g[n].fqn) \in Nat
         /\ Len(g[c].fqn) < Len(g[n].fqn)
         /\ SubSeq(g[n].fqn, 1, Len(g[c].fqn)) = g[c].fqn
         /\ \A k \in 1..Len(g[c].fqn) : g[c].fqn[k] = g[n].fqn[k]
<1>. DEFINE q == g[c].fqn
            r == g[n].fqn
<1>1. n \in DOMAIN g /\ c \in DOMAIN g /\ c \in Paths
  BY InTree
<1>2. q \in FQNs /\ r \in FQNs /\ Len(q) < Len(r) /\ SubSeq(r, 1, Len(q)) = q
  BY <1>1 DEF OrderingGraph, FQNs
<1>. HIDE DEF q, r
<1>3. Len(q) \in Nat /\ Len(r) \in Nat
  BY <1>2, LenProperties DEF FQNs
<1>4. ASSUME NEW k \in 1..Len(q) PROVE q[k] = r[k]
  <2>1. SubSeq(r, 1, Len(q))[k] = r[1 + k - 1]
    <3>1. \A i \in 1..Len(q) : r[i] \in Seq(NameTokens)
      BY <1>2, <1>3, ElementOfSeq DEF FQNs
    <3>2. \A i \in 1..Len(q) - 1 + 1 : SubSeq(r, 1, Len(q))[i] = r[1 + i - 1]
      BY <1>3, <3>1, SubSeqProperties
    <3>. QED
      BY <1>3, <3>2
  <2>. QED
    BY <1>2, <1>3, <2>1
<1>. QED
  BY <1>1, <1>2, <1>3, <1>4 DEF q, r

LEMMA ChainNests ==
  ASSUME NEW g, OrderingGraph(g), NEW n \in Nodes(g), NEW c \in Chain(n), c # n
  PROVE  /\ c \in DOMAIN g /\ c \in Paths
         /\ g[c].fqn \in FQNs /\ g[n].fqn \in FQNs
         /\ Len(g[c].fqn) \in Nat /\ Len(g[n].fqn) \in Nat
         /\ Len(g[c].fqn) < Len(g[n].fqn)
         /\ SubSeq(g[n].fqn, 1, Len(g[c].fqn)) = g[c].fqn
         /\ \A k \in 1..Len(g[c].fqn) : g[c].fqn[k] = g[n].fqn[k]
  BY NamesNest DEF Nodes

LEMMA FansIs ==
  ASSUME NEW g, OrderingGraph(g), NEW n \in DOMAIN g, NEW d \in Fans(g, n)
  PROVE  /\ d \in Chain(n) /\ d \in Nodes(g) /\ d \in Paths /\ Leads(d, n)
         /\ g[d].fqn \in FQNs /\ Len(g[d].fqn) \in Nat
         /\ g[d].strat.suffixes \subseteq Seq(NameTokens)
         /\ g[d].strat.known => g[d].strat.suffixes # {}
<1>1. d \in Chain(n) /\ g[d].strat.present
  BY DEF Fans
<1>2. n \in Paths /\ d \in DOMAIN g
  BY <1>1, InTree
<1>3. d \in Paths /\ Leads(d, n)
  BY <1>1, <1>2, ChainIs
<1>4. /\ d \in Nodes(g) /\ g[d].fqn \in FQNs /\ g[d].strat.suffixes \subseteq Seq(NameTokens)
      /\ g[d].strat.known => g[d].strat.suffixes # {}
  BY <1>1, <1>2 DEF OrderingGraph, FQNs
<1>5. Len(g[d].fqn) \in Nat
  BY <1>4, LenProperties DEF FQNs
<1>. QED
  BY <1>1, <1>3, <1>4, <1>5

\* The fans of one chain stand at different depths of the name.
LEMMA FansApart ==
  ASSUME NEW g, OrderingGraph(g), NEW n \in DOMAIN g, NEW d \in Fans(g, n), NEW e \in Fans(g, n),
         Len(g[d].fqn) = Len(g[e].fqn)
  PROVE  d = e
<1>1. /\ d \in Nodes(g) /\ d \in Paths /\ Leads(d, n)
      /\ e \in Nodes(g) /\ e \in Paths /\ Leads(e, n)
  BY FansIs
<1>2. n \in Paths
  BY InTree
<1>3. Len(d) \in Nat /\ Len(e) \in Nat
  BY <1>1, LenProperties DEF Paths
<1>4. ASSUME Len(d) < Len(e) PROVE FALSE
  <2>1. Leads(d, e)
    BY <1>1, <1>2, <1>3, <1>4, LeadsNested
  <2>2. d \in Chain(e) /\ d # e
    BY <1>1, <1>3, <1>4, <2>1, ChainIs
  <2>3. Len(g[d].fqn) < Len(g[e].fqn) /\ Len(g[d].fqn) \in Nat
    BY <1>1, <2>2, ChainNests
  <2>. QED
    BY <2>3
<1>5. ASSUME Len(e) < Len(d) PROVE FALSE
  <2>1. Leads(e, d)
    BY <1>1, <1>2, <1>3, <1>5, LeadsNested
  <2>2. e \in Chain(d) /\ d # e
    BY <1>1, <1>3, <1>5, <2>1, ChainIs
  <2>3. Len(g[e].fqn) < Len(g[d].fqn) /\ Len(g[d].fqn) \in Nat
    BY <1>1, <2>2, ChainNests
  <2>. QED
    BY <2>3
<1>6. Len(d) <= Len(e) /\ Len(e) <= Len(d)
  BY <1>3, <1>4, <1>5
<1>7. Leads(d, e)
  BY <1>1, <1>2, <1>6, LeadsNested
<1>. QED
  BY <1>1, <1>6, <1>7, LeadsSame

\* The segment in which the name of d ends.
Depth(g, d) == Len(g[d].fqn)

Suffixed(segment, suffix) == segment \o suffix

\* A run is named by its unit, with a suffix in the segment of every fan.
LEMMA FannedAt ==
  ASSUME NEW g, NEW fqn \in FQNs, NEW fans, NEW p, NEW d \in fans,
         Depth(g, d) \in 1..Len(fqn), \A e \in fans : Depth(g, e) = Depth(g, d) => e = d
  PROVE  Fanned(g, fqn, fans, p)[Depth(g, d)] = Suffixed(fqn[Depth(g, d)], p[d])
<1>. DEFINE h == Fanned(g, fqn, fans, p)
            k == Depth(g, d)
            tail == Marks(g, fans, p, k)
<1>1. DOMAIN fqn = 1..Len(fqn)
  BY LenProperties DEF FQNs
<1>2. h[k] = IF tail = {} THEN fqn[k] ELSE fqn[k] \o (CHOOSE s \in tail : TRUE)
  BY <1>1 DEF Fanned
<1>3. tail = {p[d]}
  BY DEF Marks, Depth
<1>4. (CHOOSE s \in tail : TRUE) = p[d] /\ tail # {}
  BY <1>3
<1>. HIDE DEF h, k, tail
<1>5. h[k] = fqn[k] \o p[d]
  BY <1>2, <1>4
<1>. QED
  BY <1>5 DEF h, k, Suffixed

LEMMA FannedElsewhere ==
  ASSUME NEW g, NEW fqn \in FQNs, NEW fans, NEW p, NEW k \in 1..Len(fqn),
         \A d \in fans : Depth(g, d) # k
  PROVE  Fanned(g, fqn, fans, p)[k] = fqn[k]
<1>1. DOMAIN fqn = 1..Len(fqn)
  BY LenProperties DEF FQNs
<1>2. Marks(g, fans, p, k) = {}
  BY DEF Marks, Depth
<1>. QED
  BY <1>1, <1>2 DEF Fanned

LEMMA FannedIs ==
  ASSUME NEW g, OrderingGraph(g), NEW n \in DOMAIN g, NEW fqn \in FQNs,
         NEW fans \in SUBSET Fans(g, n), NEW p \in Picks(g, fans)
  PROVE  LET h == Fanned(g, fqn, fans, p)
         IN  h \in FQNs /\ Len(h) = Len(fqn) /\ Len(h) \in Nat
<1>. DEFINE h == Fanned(g, fqn, fans, p)
<1>1. Len(fqn) \in Nat /\ DOMAIN fqn = 1..Len(fqn) /\ \A k \in 1..Len(fqn) : fqn[k] \in Seq(NameTokens)
  BY LenProperties, ElementOfSeq DEF FQNs
<1>2. \A d \in fans : p[d] \in Seq(NameTokens)
  BY FansIs DEF Picks
<1>3. ASSUME NEW k \in 1..Len(fqn) PROVE h[k] \in Seq(NameTokens)
  <2>1. CASE \E d \in fans : Depth(g, d) = k
    <3>1. PICK d \in fans : Depth(g, d) = k
      BY <2>1
    <3>2. h[k] = fqn[k] \o p[d]
      <4>1. Depth(g, d) = k /\ Depth(g, d) \in 1..Len(fqn)
        BY <3>1
      <4>2. \A e \in fans : Depth(g, e) = Depth(g, d) => e = d
        BY FansApart DEF Depth
      <4>3. h[Depth(g, d)] = Suffixed(fqn[Depth(g, d)], p[d])
        BY <4>1, <4>2, FannedAt
      <4>. QED
        BY <4>1, <4>3 DEF Suffixed
    <3>. HIDE DEF h
    <3>3. fqn[k] \in Seq(NameTokens) /\ p[d] \in Seq(NameTokens)
      BY <1>1, <1>2
    <3>4. fqn[k] \o p[d] \in Seq(NameTokens)
      BY <3>3, ConcatProperties
    <3>. QED
      BY <3>2, <3>4
  <2>2. CASE \A d \in fans : Depth(g, d) # k
    BY <1>1, <2>2, FannedElsewhere
  <2>. QED
    BY <2>1, <2>2
<1>4. h = [k \in 1..Len(fqn) |-> h[k]]
  BY <1>1 DEF Fanned
<1>. HIDE DEF h
<1>5. h \in FQNs /\ Len(h) = Len(fqn)
  <2>. DEFINE l == Len(fqn)
              T == Seq(NameTokens)
  <2>1. h \in [1..l -> T] /\ l \in Nat
    BY <1>1, <1>3, <1>4
  <2>. HIDE DEF l, T
  <2>2. h \in Seq(T)
    BY <2>1
  <2>3. Len(h) = l
    BY <2>1, <2>2, LenProperties
  <2>. QED
    BY <2>2, <2>3 DEF FQNs, l, T
<1>. QED
  BY <1>1, <1>5 DEF h

LEMMA FanOverNotEmpty ==
  ASSUME NEW g, OrderingGraph(g), NEW n \in DOMAIN g, NEW fqn,
         NEW fans \in SUBSET Fans(g, n), \A d \in fans : g[d].strat.known
  PROVE  FanOver(g, fqn, fans) # {}
<1>. DEFINE p == [d \in fans |-> CHOOSE s \in g[d].strat.suffixes : TRUE]
<1>1. \A d \in fans : p[d] \in g[d].strat.suffixes
  BY FansIs
<1>2. p \in Picks(g, fans)
  <2>1. p \in [fans -> UNION {g[d].strat.suffixes : d \in fans}]
    BY <1>1
  <2>. HIDE DEF p
  <2>. QED
    BY <1>1, <2>1 DEF Picks
<1>. HIDE DEF p
<1>. QED
  BY <1>2, FanOverIs

-----------------------------------------------------------------------------
(* What a step waits for.                                                  *)

\* x and y part in an ordered container.
Splits(g, x, y) ==
  LET c == Shared(x, y)
  IN  c # x /\ c # y /\ g[c].kind # "parallel"

\* What that says of the fan-outs around them.
LEMMA SharedUnit ==
  ASSUME NEW g, OrderingGraph(g), NEW y \in Nodes(g), NEW p \in Nodes(g), Splits(g, p, y)
  PROVE  LET c == Shared(p, y)
         IN  /\ c \in Chain(y) /\ c # y /\ c \in Chain(p) /\ c # p
             /\ c \in DOMAIN g /\ c \in Paths
             /\ c # <<>> => g[c].kind \notin {"pipeline", "parallel"}
             /\ \A n \in {p, y} : \A d \in Fans(g, n) :
                  /\ d \notin Fans(g, c) => Under(c, d) /\ Len(g[c].fqn) < Len(g[d].fqn)
                  /\ d \in Fans(g, c) => ~ Under(c, d) /\ Len(g[d].fqn) <= Len(g[c].fqn)
             /\ Fans(g, c) \subseteq Fans(g, p) /\ Fans(g, c) \subseteq Fans(g, y)
<1>. DEFINE c == Shared(p, y)
<1>1. p \in DOMAIN g /\ y \in DOMAIN g /\ p \in Paths /\ y \in Paths
  BY InTree DEF Nodes
<1>2. /\ c \in Paths /\ Leads(c, p) /\ Leads(c, y) /\ Len(c) < Len(p) /\ Len(c) < Len(y)
      /\ g[c].kind # "parallel"
  BY <1>1, SharedLeads DEF Splits
<1>. HIDE DEF c
<1>3. Len(c) \in Nat /\ Len(p) \in Nat /\ Len(y) \in Nat
  BY <1>1, <1>2, LenProperties DEF Paths
<1>4. c \in Chain(y) /\ c # y /\ c \in Chain(p) /\ c # p
  BY <1>1, <1>2, <1>3, ChainIs
<1>5. c \in DOMAIN g
  BY <1>1, <1>4, InTree
<1>6. /\ c = <<>> => Fans(g, c) = {}
      /\ c # <<>> => g[c].kind \notin {"pipeline", "parallel"}
  <2>1. CASE c = <<>>
    <3>1. <<>> \in Paths /\ Len(<<>>) = 0 /\ \A d \in Paths : Len(d) \in Nat
      BY EmptySeq, LenProperties DEF Paths
    <3>2. \A d \in Chain(c) : d = c
      BY <1>2, <2>1, <3>1, ChainIs, LeadsSame DEF Leads
    <3>3. c \notin Nodes(g)
      BY <2>1 DEF OrderingGraph, Nodes
    <3>4. ~ g[c].strat.present
      BY <1>5, <3>3 DEF OrderingGraph
    <3>. QED
      BY <2>1, <3>2, <3>4 DEF Fans
  <2>2. CASE c # <<>>
    BY <1>2, <1>5, <2>2 DEF OrderingGraph
  <2>. QED
    BY <2>1, <2>2
<1>7. ASSUME NEW n \in {p, y}, NEW d \in Fans(g, n)
      PROVE  /\ d \notin Fans(g, c) => Under(c, d) /\ Len(g[c].fqn) < Len(g[d].fqn)
             /\ d \in Fans(g, c) => ~ Under(c, d) /\ Len(g[d].fqn) <= Len(g[c].fqn)
  <2>1. n \in Nodes(g) /\ n \in DOMAIN g /\ n \in Paths /\ c \in Chain(n) /\ Leads(c, n)
    BY <1>1, <1>4, ChainIs
  <2>2. d \in Paths /\ Leads(d, n) /\ d \in Nodes(g) /\ g[d].strat.present /\ Len(d) \in Nat
    BY <2>1, FansIs, LenProperties DEF Fans, Paths
  <2>3. ASSUME d \notin Fans(g, c) PROVE Under(c, d) /\ Len(g[c].fqn) < Len(g[d].fqn)
    <3>1. ~ Leads(d, c)
      BY <1>2, <2>2, <2>3, ChainIs DEF Fans
    <3>2. Len(c) < Len(d)
      BY <1>2, <1>3, <2>1, <2>2, <3>1, LeadsNested
    <3>3. Leads(c, d)
      BY <1>2, <1>3, <2>1, <2>2, <3>2, LeadsNested
    <3>4. c \in Chain(d) /\ c # d
      BY <1>2, <2>2, <3>2, <3>3, ChainIs
    <3>. QED
      BY <1>2, <2>2, <3>2, <3>3, <3>4, UnderIs, ChainNests
  <2>4. ASSUME d \in Fans(g, c) PROVE ~ Under(c, d) /\ Len(g[d].fqn) <= Len(g[c].fqn)
    <3>1. g[c].kind \notin {"pipeline", "parallel"} /\ d \in Chain(c)
      BY <1>6, <2>4 DEF Fans
    <3>2. Leads(d, c)
      BY <1>2, <3>1, ChainIs
    <3>3. ~ Under(c, d)
      BY <1>2, <1>3, <2>2, <3>2, UnderIs DEF Leads
    <3>4. CASE d = c
      <4>1. Len(g[c].fqn) \in Nat
        BY <2>1, <1>4, ChainNests
      <4>. QED
        BY <3>3, <3>4, <4>1
    <3>5. CASE d # c
      <4>1. Len(g[d].fqn) < Len(g[c].fqn) /\ Len(g[d].fqn) \in Nat /\ Len(g[c].fqn) \in Nat
        BY <1>5, <3>1, <3>5, NamesNest
      <4>. QED
        BY <3>3, <4>1
    <3>. QED
      BY <3>4, <3>5
  <2>. QED
    BY <2>3, <2>4
<1>8. Fans(g, c) \subseteq Fans(g, p) /\ Fans(g, c) \subseteq Fans(g, y)
  <2>1. ASSUME NEW d \in Chain(c) PROVE d \in Chain(p) /\ d \in Chain(y)
    <3>1. d \in Paths /\ Leads(d, c) /\ Leads(c, p) /\ Leads(c, y)
      BY <1>2, ChainIs
    <3>. QED
      BY <1>1, <1>2, <3>1, LeadsTransitive, ChainIs
  <2>. QED
    BY <2>1 DEF Fans
<1>. QED
  BY <1>1, <1>2, <1>4, <1>5, <1>6, <1>7, <1>8 DEF c

LEMMA RunIs ==
  ASSUME NEW g, OrderingGraph(g), NEW y \in Nodes(g), NEW f, RunOf(g, y, f)
  PROVE  /\ f \in FQNs /\ Len(f) = Len(g[y].fqn) /\ Len(f) \in Nat
         /\ f = g[y].fqn \/ \E p \in Picks(g, Fans(g, y)) : f = Fanned(g, g[y].fqn, Fans(g, y), p)
<1>1. y \in DOMAIN g /\ g[y].fqn \in FQNs
  BY DEF Nodes, OrderingGraph, FQNs
<1>2. CASE f = g[y].fqn
  BY <1>1, <1>2, LenProperties DEF FQNs
<1>3. CASE f # g[y].fqn
  <2>1. f \in InstanceFQNs(g, y).fqns
    BY <1>3 DEF RunOf
  <2>2. f \in FanOver(g, g[y].fqn, Fans(g, y))
    BY <2>1 DEF InstanceFQNs, NotStatic, Static
  <2>3. PICK p \in Picks(g, Fans(g, y)) : f = Fanned(g, g[y].fqn, Fans(g, y), p)
    BY <2>2, FanOverIs
  <2>. DEFINE q == g[y].fqn
              fans == Fans(g, y)
              h == Fanned(g, q, fans, p)
  <2>4. q \in FQNs /\ fans \in SUBSET Fans(g, y) /\ p \in Picks(g, fans) /\ y \in DOMAIN g
    BY <1>1, <2>3
  <2>. HIDE DEF q, fans
  <2>5. h \in FQNs /\ Len(h) = Len(q) /\ Len(h) \in Nat
    BY <2>4, FannedIs
  <2>. QED
    BY <2>3, <2>4, <2>5 DEF q, fans
<1>. QED
  BY <1>2, <1>3

\* A run is in the branch its name begins with: that of its own fan-outs.
LEMMA BranchIs ==
  ASSUME NEW g, OrderingGraph(g), NEW y \in Nodes(g), NEW c \in Chain(y), c # y, Fans(g, c) = {},
         \A d \in Fans(g, y) : d \notin Fans(g, c) => Len(g[c].fqn) < Len(g[d].fqn),
         NEW f, RunOf(g, y, f)
  PROVE  SubSeq(f, 1, Len(g[c].fqn)) = g[c].fqn
<1>. DEFINE q == g[y].fqn
            w == Len(g[c].fqn)
<1>1. /\ g[c].fqn \in FQNs /\ q \in FQNs /\ w \in Nat /\ Len(q) \in Nat /\ w < Len(q)
      /\ SubSeq(q, 1, w) = g[c].fqn /\ \A k \in 1..w : g[c].fqn[k] = q[k]
  BY ChainNests
<1>2. /\ f \in FQNs /\ Len(f) = Len(q)
      /\ f = q \/ \E p \in Picks(g, Fans(g, y)) : f = Fanned(g, q, Fans(g, y), p)
  BY RunIs
<1>3. ASSUME NEW k \in 1..w PROVE f[k] = q[k]
  <2>1. k \in 1..Len(q) /\ \A d \in Fans(g, y) : Len(g[d].fqn) # k
    <3>1. \A d \in Fans(g, y) : w < Len(g[d].fqn)
      OBVIOUS
    <3>2. y \in DOMAIN g /\ \A d \in Fans(g, y) : Len(g[d].fqn) \in Nat
      BY FansIs DEF Nodes
    <3>. HIDE DEF q, w
    <3>. QED
      BY <1>1, <3>1, <3>2 DEF w
  <2>2. ASSUME NEW p \in Picks(g, Fans(g, y)), f = Fanned(g, q, Fans(g, y), p) PROVE f[k] = q[k]
    <3>. DEFINE fans == Fans(g, y)
    <3>1. /\ y \in DOMAIN g /\ q \in FQNs /\ fans \in SUBSET Fans(g, y) /\ p \in Picks(g, fans)
          /\ f = Fanned(g, q, fans, p) /\ k \in 1..Len(q) /\ \A d \in fans : Depth(g, d) # k
      BY <1>1, <2>1, <2>2 DEF Nodes, Depth
    <3>. HIDE DEF q, fans
    <3>2. Fanned(g, q, fans, p)[k] = q[k]
      BY <3>1, FannedElsewhere
    <3>. QED
      BY <3>1, <3>2
  <2>. QED
    BY <1>2, <2>2
<1>. DEFINE h == SubSeq(f, 1, w)
<1>4. h \in FQNs /\ Len(h) = w /\ \A k \in 1..w : h[k] = f[k]
  <2>. HIDE DEF q, w
  <2>1. \A i \in 1..w : f[i] \in Seq(NameTokens)
    <3>1. \A i \in 1..w : i \in 1..Len(f)
      BY <1>1, <1>2
    <3>. QED
      BY <1>2, <3>1, ElementOfSeq DEF FQNs
  <2>2. /\ h \in FQNs /\ Len(h) = IF 1 <= w THEN w - 1 + 1 ELSE 0
        /\ \A i \in 1..w - 1 + 1 : h[i] = f[1 + i - 1]
    BY <1>1, <2>1, SubSeqProperties DEF FQNs
  <2>. HIDE DEF h
  <2>3. w \in Nat
    BY <1>1
  <2>4. w - 1 + 1 = w /\ (1 <= w \/ w = 0)
    BY <2>3
  <2>5. \A i \in 1..w : 1 + i - 1 = i
    BY <2>3
  <2>. QED
    BY <2>2, <2>4, <2>5
<1>. HIDE DEF h
<1>5. h = g[c].fqn
  BY <1>1, <1>3, <1>4, SeqEqual DEF FQNs
<1>. QED
  BY <1>5 DEF h

LEMMA FannedChain ==
  ASSUME NEW g, OrderingGraph(g), NEW n \in DOMAIN g, NEW fqn \in FQNs, NEW fans \in SUBSET Fans(g, n),
         NEW p, NEW d \in fans, Depth(g, d) \in 1..Len(fqn)
  PROVE  Fanned(g, fqn, fans, p)[Depth(g, d)] = Suffixed(fqn[Depth(g, d)], p[d])
<1>1. \A e \in fans : Depth(g, e) = Depth(g, d) => e = d
  BY FansApart DEF Depth
<1>. QED
  BY <1>1, FannedAt

\* h in the branch that f begins with.
Splice(f, h, w) == SubSeq(f, 1, w) \o SubSeq(h, w + 1, Len(h))

LEMMA Spliced ==
  ASSUME NEW f \in FQNs, NEW h \in FQNs, NEW w \in Nat, w <= Len(f), w <= Len(h)
  PROVE  LET i == Splice(f, h, w)
         IN  /\ i \in FQNs /\ Len(i) = Len(h) /\ SubSeq(i, 1, w) = SubSeq(f, 1, w)
             /\ \A k \in 1..w : i[k] = f[k]
             /\ \A k \in w + 1..Len(h) : i[k] = h[k]
<1>. DEFINE T == Seq(NameTokens)
            m == Len(h)
            a == SubSeq(f, 1, w)
            b == SubSeq(h, w + 1, m)
            i == a \o b
<1>1. /\ Len(f) \in Nat /\ m \in Nat
      /\ \A k \in 1..Len(f) : f[k] \in T
      /\ \A k \in 1..m : h[k] \in T
  BY LenProperties, ElementOfSeq DEF FQNs
<1>. HIDE DEF T, m
<1>2. w <= m
  BY DEF m
<1>3. a \in Seq(T) /\ Len(a) = w /\ \A k \in 1..w : a[k] = f[k]
  <2>1. \A k \in 1..w : f[k] \in T
    BY <1>1
  <2>2. /\ a \in Seq(T) /\ Len(a) = IF 1 <= w THEN w - 1 + 1 ELSE 0
        /\ \A k \in 1..w - 1 + 1 : a[k] = f[1 + k - 1]
    BY <2>1, SubSeqProperties
  <2>. HIDE DEF a
  <2>. QED
    BY <2>2
<1>4. b \in Seq(T) /\ Len(b) = m - w /\ \A k \in 1..m - w : b[k] = h[w + k]
  <2>1. w + 1 \in Int /\ m \in Int /\ \A k \in w + 1..m : h[k] \in T
    BY <1>1
  <2>2. /\ b \in Seq(T) /\ Len(b) = IF w + 1 <= m THEN m - (w + 1) + 1 ELSE 0
        /\ \A k \in 1..m - (w + 1) + 1 : b[k] = h[w + 1 + k - 1]
    BY <2>1, SubSeqProperties
  <2>. HIDE DEF b
  <2>. QED
    BY <1>1, <1>2, <2>2
<1>. HIDE DEF a, b
<1>5. /\ i \in Seq(T) /\ Len(i) = m
      /\ \A k \in 1..m : i[k] = IF k <= w THEN a[k] ELSE b[k - w]
  <2>1. a \in Seq(T) /\ b \in Seq(T)
    BY <1>3, <1>4
  <2>2. i \in Seq(T) /\ Len(i) = Len(a) + Len(b)
    BY <2>1, ConcatProperties
  <2>3. \A k \in 1..Len(a) + Len(b) : i[k] = IF k <= Len(a) THEN a[k] ELSE b[k - Len(a)]
    BY <2>1, ConcatProperties
  <2>4. Len(a) + Len(b) = m
    BY <1>1, <1>3, <1>4
  <2>. HIDE DEF i
  <2>. QED
    BY <1>3, <2>2, <2>3, <2>4
<1>. HIDE DEF i
<1>6. \A k \in 1..w : i[k] = f[k]
  BY <1>1, <1>2, <1>3, <1>5
<1>7. \A k \in w + 1..m : i[k] = h[k]
  <2>. SUFFICES ASSUME NEW k \in w + 1..m PROVE i[k] = h[k]
    OBVIOUS
  <2>1. i[k] = b[k - w] /\ k - w \in 1..m - w /\ w + (k - w) = k
    BY <1>1, <1>2, <1>5
  <2>2. b[k - w] = h[w + (k - w)]
    BY <1>4, <2>1
  <2>. QED
    BY <2>1, <2>2
<1>8. SubSeq(i, 1, w) = a
  <2>. DEFINE r == SubSeq(i, 1, w)
  <2>1. \A k \in 1..w : i[k] \in T
    BY <1>1, <1>6
  <2>2. /\ r \in Seq(T) /\ Len(r) = IF 1 <= w THEN w - 1 + 1 ELSE 0
        /\ \A k \in 1..w - 1 + 1 : r[k] = i[1 + k - 1]
    BY <2>1, SubSeqProperties
  <2>. HIDE DEF r
  <2>3. Len(r) = w /\ \A k \in 1..w : r[k] = a[k]
    BY <1>3, <1>6, <2>2
  <2>4. r = a
    BY <1>3, <2>2, <2>3, SeqEqual
  <2>. QED
    BY <2>4 DEF r
<1>. QED
  BY <1>5, <1>6, <1>7, <1>8 DEF i, a, b, m, T, FQNs, Splice

\* The fan-outs of p that are not around y.
OwnFans(g, p, y) == {d \in Fans(g, p) : Under(Shared(p, y), d)}

\* A run of p pinned to the branch of the run f of y is one of p's runs.
LEMMA Pinned ==
  ASSUME NEW g, OrderingGraph(g), NEW y \in Nodes(g), NEW p \in Nodes(g), Splits(g, p, y),
         NEW pf \in Picks(g, Fans(g, y)), NEW ph \in Picks(g, OwnFans(g, p, y))
  PROVE  LET w == Len(g[Shared(p, y)].fqn)
             f == Fanned(g, g[y].fqn, Fans(g, y), pf)
             h == Fanned(g, g[p].fqn, OwnFans(g, p, y), ph)
             i == Splice(f, h, w)
         IN  i \in FanOver(g, g[p].fqn, Fans(g, p)) /\ SubSeq(i, 1, w) = SubSeq(f, 1, w)
<1>. DEFINE c == Shared(p, y)
            w == Len(g[c].fqn)
            a == g[p].fqn
            b == g[y].fqn
            own == OwnFans(g, p, y)
            f == Fanned(g, b, Fans(g, y), pf)
            h == Fanned(g, a, own, ph)
            fans == Fans(g, p)
            shared == Fans(g, c)
            i == Splice(f, h, w)
            q == [d \in fans |-> IF d \in shared THEN pf[d] ELSE ph[d]]
            j == Fanned(g, a, fans, q)
<1>1. /\ c \in Chain(y) /\ c # y /\ c \in Chain(p) /\ c # p
      /\ \A n \in {p, y} : \A d \in Fans(g, n) :
           /\ d \notin shared => Under(c, d) /\ w < Depth(g, d)
           /\ d \in shared => ~ Under(c, d) /\ Depth(g, d) <= w
      /\ shared \subseteq fans /\ shared \subseteq Fans(g, y)
  BY SharedUnit DEF Depth
<1>2. p \in DOMAIN g /\ y \in DOMAIN g
  BY <1>1 DEF Nodes
<1>3. /\ a \in FQNs /\ b \in FQNs /\ w \in Nat /\ Len(a) \in Nat /\ Len(b) \in Nat
      /\ w < Len(a) /\ w < Len(b) /\ \A k \in 1..w : a[k] = b[k]
  BY <1>1, ChainNests
<1>4. /\ own \in SUBSET fans /\ fans \in SUBSET Fans(g, p) /\ \A d \in fans : d \in own <=> d \notin shared
      /\ ph \in Picks(g, own)
  BY <1>1 DEF OwnFans
<1>. HIDE DEF own
<1>5. q \in Picks(g, fans)
  <2>1. \A d \in fans : q[d] \in g[d].strat.suffixes
    BY <1>1, <1>4 DEF Picks
  <2>2. q \in [fans -> UNION {g[d].strat.suffixes : d \in fans}]
    BY <2>1
  <2>. HIDE DEF q, fans
  <2>. QED
    BY <2>1, <2>2 DEF Picks
<1>6. \A d \in fans : q[d] = IF d \in shared THEN pf[d] ELSE ph[d]
  OBVIOUS
<1>7. \A d \in fans \cup Fans(g, y) : Depth(g, d) \in Nat
  BY <1>2, FansIs DEF Depth
<1>8. own \in SUBSET Fans(g, p) /\ Fans(g, y) \in SUBSET Fans(g, y)
  BY <1>4
<1>9. f \in FQNs /\ Len(f) = Len(b)
  BY <1>2, <1>3, <1>8, FannedIs
<1>10. h \in FQNs /\ Len(h) = Len(a)
  BY <1>2, <1>3, <1>4, <1>8, FannedIs
<1>11. j \in FQNs /\ Len(j) = Len(a)
  BY <1>2, <1>3, <1>4, <1>5, FannedIs
<1>12. /\ i \in FQNs /\ Len(i) = Len(h) /\ SubSeq(i, 1, w) = SubSeq(f, 1, w)
       /\ \A k \in 1..w : i[k] = f[k]
       /\ \A k \in w + 1..Len(h) : i[k] = h[k]
  <2>1. w <= Len(f) /\ w <= Len(h)
    BY <1>3, <1>9, <1>10
  <2>2. f \in FQNs /\ h \in FQNs /\ w \in Nat
    BY <1>3, <1>9, <1>10
  <2>. HIDE DEF f, h, w
  <2>. QED
    BY <2>1, <2>2, Spliced
<1>13. f = Fanned(g, b, Fans(g, y), pf) /\ h = Fanned(g, a, own, ph)
  OBVIOUS
<1>14. j = Fanned(g, a, fans, q) /\ fans = Fans(g, p)
  OBVIOUS
<1>. HIDE DEF a, b, c, f, h, w, fans, shared, i, q, j
<1>15. ASSUME NEW k \in 1..Len(a) PROVE i[k] = j[k]
  <2>1. CASE k <= w
    <3>1. k \in 1..w /\ k \in 1..Len(b) /\ a[k] = b[k] /\ i[k] = f[k]
      BY <1>3, <1>12, <2>1
    <3>2. CASE \E d \in fans : Depth(g, d) = k
      <4>1. PICK d \in fans : Depth(g, d) = k
        BY <3>2
      <4>2. d \in shared /\ d \in Fans(g, y) /\ q[d] = pf[d]
        BY <1>1, <1>3, <1>6, <1>14, <2>1, <4>1
      <4>3. f[k] = Suffixed(b[k], pf[d])
        <5>1. f[Depth(g, d)] = Suffixed(b[Depth(g, d)], pf[d])
          BY <1>2, <1>3, <1>8, <1>13, <3>1, <4>1, <4>2, FannedChain
        <5>. QED
          BY <4>1, <5>1
      <4>4. j[k] = Suffixed(a[k], q[d])
        <5>1. j[Depth(g, d)] = Suffixed(a[Depth(g, d)], q[d])
          BY <1>2, <1>3, <1>4, <1>14, <4>1, FannedChain
        <5>. QED
          BY <4>1, <5>1
      <4>. QED
        BY <3>1, <4>2, <4>3, <4>4
    <3>3. CASE \A d \in fans : Depth(g, d) # k
      <4>1. \A d \in Fans(g, y) : Depth(g, d) # k
        BY <1>1, <1>3, <1>7, <2>1, <3>3
      <4>2. f[k] = b[k]
        BY <1>3, <1>13, <3>1, <4>1, FannedElsewhere
      <4>3. j[k] = a[k]
        BY <1>3, <1>14, <3>3, FannedElsewhere
      <4>. QED
        BY <3>1, <4>2, <4>3
    <3>. QED
      BY <3>2, <3>3
  <2>2. CASE k > w
    <3>1. i[k] = h[k]
      BY <1>3, <1>10, <1>12, <2>2
    <3>2. CASE \E d \in fans : Depth(g, d) = k
      <4>1. PICK d \in fans : Depth(g, d) = k
        BY <3>2
      <4>2. d \in own /\ q[d] = ph[d]
        BY <1>1, <1>3, <1>4, <1>6, <1>14, <2>2, <4>1
      <4>3. h[k] = Suffixed(a[k], ph[d])
        <5>1. h[Depth(g, d)] = Suffixed(a[Depth(g, d)], ph[d])
          BY <1>2, <1>3, <1>8, <1>13, <4>1, <4>2, FannedChain
        <5>. QED
          BY <4>1, <5>1
      <4>4. j[k] = Suffixed(a[k], q[d])
        <5>1. j[Depth(g, d)] = Suffixed(a[Depth(g, d)], q[d])
          BY <1>2, <1>3, <1>4, <1>14, <4>1, FannedChain
        <5>. QED
          BY <4>1, <5>1
      <4>. QED
        BY <3>1, <4>2, <4>3, <4>4
    <3>3. CASE \A d \in fans : Depth(g, d) # k
      <4>1. \A d \in own : Depth(g, d) # k
        BY <1>4, <3>3
      <4>2. h[k] = a[k]
        BY <1>3, <1>13, <4>1, FannedElsewhere
      <4>3. j[k] = a[k]
        BY <1>3, <1>14, <3>3, FannedElsewhere
      <4>. QED
        BY <3>1, <4>2, <4>3
    <3>. QED
      BY <3>2, <3>3
  <2>. QED
    BY <1>3, <2>1, <2>2
<1>16. i = j
  BY <1>10, <1>11, <1>12, <1>15, SeqEqual DEF FQNs
<1>17. j \in FanOver(g, a, fans)
  BY <1>5, <1>14, FanOverIs
<1>. QED
  BY <1>12, <1>16, <1>17 DEF i, a, b, c, f, h, w, fans, own

\* Two names begin alike when their first segments are the same.
LEMMA HeadIs ==
  ASSUME NEW f \in FQNs, NEW w \in Nat, w <= Len(f)
  PROVE  /\ SubSeq(f, 1, w) \in FQNs /\ Len(SubSeq(f, 1, w)) = w
         /\ \A k \in 1..w : SubSeq(f, 1, w)[k] = f[k]
<1>. DEFINE T == Seq(NameTokens)
            a == SubSeq(f, 1, w)
<1>1. Len(f) \in Nat /\ \A k \in 1..Len(f) : f[k] \in T
  BY LenProperties, ElementOfSeq DEF FQNs
<1>. HIDE DEF T
<1>2. \A k \in 1..w : f[k] \in T
  BY <1>1
<1>3. /\ a \in Seq(T) /\ Len(a) = IF 1 <= w THEN w - 1 + 1 ELSE 0
      /\ \A k \in 1..w - 1 + 1 : a[k] = f[1 + k - 1]
  BY <1>2, SubSeqProperties
<1>. HIDE DEF a
<1>4. a \in Seq(T) /\ Len(a) = w /\ \A k \in 1..w : a[k] = f[k]
  BY <1>3
<1>. QED
  BY <1>4 DEF a, T, FQNs

LEMMA HeadSame ==
  ASSUME NEW f \in FQNs, NEW i \in FQNs, NEW w \in Nat, w <= Len(f), w <= Len(i)
  PROVE  SubSeq(f, 1, w) = SubSeq(i, 1, w) <=> \A k \in 1..w : f[k] = i[k]
<1>. DEFINE a == SubSeq(f, 1, w)
            b == SubSeq(i, 1, w)
<1>1. /\ a \in FQNs /\ Len(a) = w /\ \A k \in 1..w : a[k] = f[k]
      /\ b \in FQNs /\ Len(b) = w /\ \A k \in 1..w : b[k] = i[k]
  BY HeadIs
<1>. HIDE DEF a, b
<1>2. a = b => \A k \in 1..w : f[k] = i[k]
  BY <1>1
<1>3. (\A k \in 1..w : f[k] = i[k]) => a = b
  BY <1>1, SeqEqual DEF FQNs
<1>. QED
  BY <1>2, <1>3 DEF a, b

LEMMA HeadWithin ==
  ASSUME NEW f \in FQNs, NEW i \in FQNs, NEW w \in Nat, w <= Len(f), w <= Len(i),
         NEW v \in Nat, v <= w, SubSeq(f, 1, w) = SubSeq(i, 1, w)
  PROVE  SubSeq(f, 1, v) = SubSeq(i, 1, v)
<1>1. Len(f) \in Nat /\ Len(i) \in Nat
  BY LenProperties DEF FQNs
<1>2. \A k \in 1..w : f[k] = i[k]
  BY HeadSame
<1>3. v <= Len(f) /\ v <= Len(i) /\ \A k \in 1..v : f[k] = i[k]
  BY <1>1, <1>2
<1>. QED
  BY <1>3, HeadSame

\* Every run of p in a branch is one that AncestorInstances splices.
LEMMA PinnedAll ==
  ASSUME NEW g, OrderingGraph(g), NEW y \in Nodes(g), NEW p \in Nodes(g), Splits(g, p, y),
         NEW f \in FQNs, Len(g[Shared(p, y)].fqn) <= Len(f),
         NEW i \in FanOver(g, g[p].fqn, Fans(g, p)),
         SubSeq(i, 1, Len(g[Shared(p, y)].fqn)) = SubSeq(f, 1, Len(g[Shared(p, y)].fqn))
  PROVE  \E h \in FanOver(g, g[p].fqn, OwnFans(g, p, y)) : i = Splice(f, h, Len(g[Shared(p, y)].fqn))
<1>. DEFINE c == Shared(p, y)
            w == Len(g[c].fqn)
            a == g[p].fqn
            own == OwnFans(g, p, y)
            fans == Fans(g, p)
            shared == Fans(g, c)
<1>1. PICK pi \in Picks(g, fans) : i = Fanned(g, a, fans, pi)
  BY FanOverIs
<1>. DEFINE ph == [d \in own |-> pi[d]]
            h == Fanned(g, a, own, ph)
            j == Splice(f, h, w)
<1>2. /\ c \in Chain(y) /\ c # y /\ c \in Chain(p) /\ c # p
      /\ \A d \in fans :
           /\ d \notin shared => Under(c, d) /\ w < Depth(g, d)
           /\ d \in shared => ~ Under(c, d) /\ Depth(g, d) <= w
  BY SharedUnit DEF Depth
<1>3. p \in DOMAIN g
  BY <1>2 DEF Nodes
<1>4. a \in FQNs /\ w \in Nat /\ Len(a) \in Nat /\ w < Len(a)
  BY <1>2, ChainNests
<1>5. /\ own \in SUBSET Fans(g, p) /\ fans \in SUBSET Fans(g, p)
      /\ \A d \in fans : d \in own <=> w < Depth(g, d)
  <2>1. \A d \in fans : Depth(g, d) \in Nat
    BY <1>3, FansIs DEF Depth
  <2>2. /\ own \in SUBSET Fans(g, p) /\ fans \in SUBSET Fans(g, p)
        /\ \A d \in fans : d \in own <=> Under(c, d)
    BY DEF OwnFans
  <2>. HIDE DEF c, w, own, fans, shared
  <2>3. \A d \in fans : Under(c, d) <=> w < Depth(g, d)
    BY <1>2, <1>4, <2>1
  <2>. QED
    BY <2>2, <2>3
<1>. HIDE DEF own
<1>6. ph \in Picks(g, own) /\ \A d \in own : ph[d] = pi[d]
  <2>1. \A d \in own : ph[d] \in g[d].strat.suffixes
    BY <1>5 DEF Picks
  <2>2. ph \in [own -> UNION {g[d].strat.suffixes : d \in own}]
    BY <2>1
  <2>3. \A d \in own : ph[d] = pi[d]
    OBVIOUS
  <2>. HIDE DEF ph
  <2>. QED
    BY <2>1, <2>2, <2>3 DEF Picks
<1>7. h = Fanned(g, a, own, ph) /\ fans = Fans(g, p)
  OBVIOUS
<1>8. w <= Len(f) /\ SubSeq(i, 1, w) = SubSeq(f, 1, w)
  OBVIOUS
<1>. HIDE DEF ph, h
<1>9. h \in FanOver(g, a, own)
  BY <1>6, <1>7, FanOverIs
<1>10. j = Splice(f, h, w)
  OBVIOUS
<1>. HIDE DEF a, c, w, fans, shared, j
<1>11. h \in FQNs /\ Len(h) = Len(a)
  BY <1>3, <1>4, <1>5, <1>6, <1>7, FannedIs
<1>12. i \in FQNs /\ Len(i) = Len(a)
  BY <1>1, <1>3, <1>4, <1>5, FannedIs
<1>13. /\ j \in FQNs /\ Len(j) = Len(h)
       /\ \A k \in 1..w : j[k] = f[k]
       /\ \A k \in w + 1..Len(h) : j[k] = h[k]
  <2>1. w <= Len(h)
    BY <1>4, <1>11
  <2>. QED
    BY <1>4, <1>8, <1>10, <1>11, <2>1, Spliced
<1>14. ASSUME NEW k \in 1..Len(a) PROVE i[k] = j[k]
  <2>1. CASE k <= w
    <3>1. \A l \in 1..w : i[l] = f[l]
      <4>1. w <= Len(i)
        BY <1>4, <1>12
      <4>. QED
        BY <1>4, <1>8, <1>12, <4>1, HeadSame
    <3>2. k \in 1..w
      BY <1>4, <2>1
    <3>. QED
      BY <1>13, <3>1, <3>2
  <2>2. CASE k > w
    <3>1. j[k] = h[k]
      BY <1>4, <1>11, <1>13, <2>2
    <3>2. CASE \E d \in fans : Depth(g, d) = k
      <4>1. PICK d \in fans : Depth(g, d) = k
        BY <3>2
      <4>2. d \in own /\ ph[d] = pi[d]
        BY <1>4, <1>5, <1>6, <2>2, <4>1
      <4>3. h[k] = Suffixed(a[k], ph[d])
        <5>1. h[Depth(g, d)] = Suffixed(a[Depth(g, d)], ph[d])
          BY <1>3, <1>4, <1>5, <1>7, <4>1, <4>2, FannedChain
        <5>. QED
          BY <4>1, <5>1
      <4>4. i[k] = Suffixed(a[k], pi[d])
        <5>1. i[Depth(g, d)] = Suffixed(a[Depth(g, d)], pi[d])
          BY <1>1, <1>3, <1>4, <1>5, <4>1, FannedChain
        <5>. QED
          BY <4>1, <5>1
      <4>. QED
        BY <3>1, <4>2, <4>3, <4>4
    <3>3. CASE \A d \in fans : Depth(g, d) # k
      <4>1. \A d \in own : Depth(g, d) # k
        BY <1>5, <1>7, <3>3
      <4>2. h[k] = a[k]
        BY <1>4, <1>7, <4>1, FannedElsewhere
      <4>3. i[k] = a[k]
        BY <1>1, <1>4, <3>3, FannedElsewhere
      <4>. QED
        BY <3>1, <4>2, <4>3
    <3>. QED
      BY <3>2, <3>3
  <2>. QED
    BY <1>4, <2>1, <2>2
<1>15. i = j
  BY <1>11, <1>12, <1>13, <1>14, SeqEqual DEF FQNs
<1>. QED
  BY <1>9, <1>10, <1>15 DEF a, c, w, own

(* What a run of a step asks the run-state about, of a unit before the     *)
(* step whose runs are known, are the runs of that unit that it comes after. *)
LEMMA WaitedFor ==
  ASSUME NEW g, OrderingGraph(g), NEW y \in Nodes(g), NEW f, RunOf(g, y, f), NEW p \in Nodes(g),
         Splits(g, p, y), StaticRuns(g, p)
  PROVE  ~ RuntimeFanout(g, p, y, f) /\ AncestorFQNs(g, p, y, f) = RunsBefore(g, p, y, f)
<1>. DEFINE c == Shared(p, y)
            q == g[c].fqn
            w == Len(q)
            fans == Fans(g, p)
            shared == Fans(g, c)
            own == OwnFans(g, p, y)
            a == g[p].fqn
            pin == SubSeq(f, 1, w)
            fanned == FanOver(g, a, own)
            inst == AncestorInstances(g, p, y, f)
            all == FanOver(g, a, fans)
            branch(h) == SubSeq(h, 1, w)
<1>1. /\ c \in Chain(y) /\ c # y /\ c \in Chain(p) /\ c # p
      /\ \A n \in {p, y} : \A d \in Fans(g, n) :
           /\ d \notin shared => Under(c, d) /\ w < Len(g[d].fqn)
           /\ d \in shared => ~ Under(c, d) /\ Len(g[d].fqn) <= w
      /\ shared \subseteq fans /\ shared \subseteq Fans(g, y)
  BY SharedUnit
<1>2. p \in DOMAIN g /\ y \in DOMAIN g
  BY <1>1 DEF Nodes
<1>3. own \in SUBSET Fans(g, p) /\ fans \in SUBSET Fans(g, p) /\ \A d \in fans : d \in own <=> d \notin shared
  BY <1>1 DEF OwnFans
<1>4. /\ Len(f) = Len(g[y].fqn) /\ SubSeq(g[y].fqn, 1, w) = q
      /\ f = g[y].fqn \/ \E pf \in Picks(g, Fans(g, y)) : f = Fanned(g, g[y].fqn, Fans(g, y), pf)
  BY <1>1, RunIs, ChainNests
<1>5. fans # {} => /\ \A d \in fans : g[d].strat.known
                   /\ InstanceFQNs(g, p) = Static(all)
  BY DEF StaticRuns, HasStrategyInChain, InstanceFQNs, NotStatic
<1>6. shared = {} => pin = q
  <2>1. \A d \in Fans(g, y) : d \notin Fans(g, c) => Len(g[c].fqn) < Len(g[d].fqn)
    BY <1>1
  <2>. QED
    BY <1>1, <2>1, BranchIs
<1>7. \A S : Static(S).fqns = S
  BY DEF Static
\* The runs of p that f comes after.
<1>8. /\ fans # {} /\ pin = q => RunsBefore(g, p, y, f) = all
      /\ fans = {} /\ pin = q => RunsBefore(g, p, y, f) = {a}
      /\ fans # {} /\ pin # q => RunsBefore(g, p, y, f) = {i \in all : branch(i) = pin}
  BY <1>5, <1>7 DEF RunsBefore, HasStrategyInChain
<1>9. CASE fans = {}
  <2>1. own = {} /\ shared = {}
    BY <1>1, <1>3, <1>9
  <2>2. inst = NotStatic
    BY <2>1 DEF AncestorInstances, Shared, OwnFans
  <2>3. AncestorFQNs(g, p, y, f) = {a}
    BY <2>2 DEF AncestorFQNs, NotStatic
  <2>. QED
    BY <1>6, <1>8, <1>9, <2>1, <2>3 DEF RuntimeFanout, HasStrategyInChain
<1>10. CASE fans # {} /\ shared = {}
  <2>1. own = fans /\ own # {} /\ \A d \in own : g[d].strat.known
    BY <1>3, <1>5, <1>10
  <2>2. inst = Static(fanned)
    BY <1>10, <2>1 DEF AncestorInstances, Shared, OwnFans
  <2>3. inst.fqns = all
    BY <1>7, <2>1, <2>2
  <2>4. all # {}
    BY <1>2, <1>3, <1>5, <1>10, FanOverNotEmpty
  <2>5. AncestorFQNs(g, p, y, f) = all /\ ~ RuntimeFanout(g, p, y, f)
    BY <2>3, <2>4 DEF AncestorFQNs, RuntimeFanout
  <2>. QED
    BY <1>6, <1>8, <1>10, <2>5
<1>11. CASE shared # {}
  <2>1. fans # {} /\ (\A d \in own : g[d].strat.known)
    BY <1>1, <1>3, <1>5, <1>11
  <2>2. inst = IF pin = q THEN InstanceFQNs(g, p)
               ELSE Static({pin \o SubSeq(h, w + 1, Len(h)) : h \in fanned})
    BY <1>4, <1>11, <2>1 DEF AncestorInstances, Shared, OwnFans
  <2>3. CASE pin = q
    <3>1. inst.fqns = all
      BY <1>5, <1>7, <2>1, <2>2, <2>3
    <3>2. all # {}
      BY <1>2, <1>3, <1>5, <2>1, FanOverNotEmpty
    <3>3. AncestorFQNs(g, p, y, f) = all /\ ~ RuntimeFanout(g, p, y, f)
      BY <3>1, <3>2 DEF AncestorFQNs, RuntimeFanout
    <3>. QED
      BY <1>8, <2>1, <2>3, <3>3
  <2>4. CASE pin # q
    <3>1. inst.fqns = {pin \o SubSeq(h, w + 1, Len(h)) : h \in fanned}
      BY <1>7, <2>2, <2>4
    <3>2. fanned # {}
      BY <1>2, <1>3, <2>1, FanOverNotEmpty
    <3>3. PICK pf \in Picks(g, Fans(g, y)) : f = Fanned(g, g[y].fqn, Fans(g, y), pf)
      BY <1>4, <2>4
    <3>4. ASSUME NEW i \in inst.fqns PROVE i \in all /\ branch(i) = pin
      <4>1. PICK h \in fanned : i = pin \o SubSeq(h, w + 1, Len(h))
        BY <3>1
      <4>2. PICK ph \in Picks(g, own) : h = Fanned(g, a, own, ph)
        BY FanOverIs
      <4>3. i = Splice(Fanned(g, g[y].fqn, Fans(g, y), pf), Fanned(g, a, own, ph), w)
        BY <3>3, <4>1, <4>2 DEF Splice
      <4>. QED
        BY <3>3, <4>2, <4>3, Pinned
    <3>7. ASSUME NEW i \in all, branch(i) = pin PROVE i \in inst.fqns
      <4>1. f \in FQNs /\ w <= Len(f)
        BY <1>1, RunIs, ChainNests
      <4>2. SubSeq(i, 1, w) = SubSeq(f, 1, w)
        BY <3>7
      <4>3. \E h \in FanOver(g, g[p].fqn, OwnFans(g, p, y)) : i = Splice(f, h, w)
        BY <4>1, <4>2, PinnedAll
      <4>. QED
        BY <3>1, <4>3 DEF Splice
    <3>5. inst.fqns # {}
      BY <3>1, <3>2
    <3>6. AncestorFQNs(g, p, y, f) = inst.fqns /\ ~ RuntimeFanout(g, p, y, f)
      BY <3>5 DEF AncestorFQNs, RuntimeFanout
    <3>. HIDE DEF inst
    <3>. QED
      BY <1>8, <2>1, <2>4, <3>4, <3>6, <3>7
  <2>. QED
    BY <2>3, <2>4
<1>. QED
  BY <1>9, <1>10, <1>11

\* Without fans the name stays as it is.
LEMMA FannedNowhere ==
  ASSUME NEW g, OrderingGraph(g), NEW x \in Nodes(g), Fans(g, x) = {}, NEW p \in Picks(g, Fans(g, x))
  PROVE  Fanned(g, g[x].fqn, Fans(g, x), p) = g[x].fqn
<1>. DEFINE q == g[x].fqn
            fans == Fans(g, x)
            h == Fanned(g, q, fans, p)
<1>1. x \in DOMAIN g /\ q \in FQNs /\ fans \in SUBSET Fans(g, x) /\ \A d \in fans : FALSE
  BY DEF Nodes, OrderingGraph, FQNs
<1>. HIDE DEF q, fans
<1>2. p \in Picks(g, fans)
  BY DEF fans
<1>3. h \in FQNs /\ Len(h) = Len(q)
  BY <1>1, <1>2, FannedIs
<1>4. \A k \in 1..Len(q) : h[k] = q[k]
  BY <1>1, FannedElsewhere
<1>. HIDE DEF h
<1>5. h = q
  BY <1>1, <1>3, <1>4, SeqEqual DEF FQNs
<1>. QED
  BY <1>5 DEF h, q, fans

\* The runs of x.
RunsOf(g, x) == IF HasStrategyInChain(g, x) THEN InstanceFQNs(g, x).fqns ELSE {g[x].fqn}

LEMMA RunsOfIs ==
  ASSUME NEW g, OrderingGraph(g), NEW x \in Nodes(g), StaticRuns(g, x)
  PROVE  RunsOf(g, x) = FanOver(g, g[x].fqn, Fans(g, x))
<1>. DEFINE q == g[x].fqn
            fans == Fans(g, x)
<1>1. CASE fans # {}
  BY <1>1 DEF RunsOf, StaticRuns, HasStrategyInChain, InstanceFQNs, NotStatic, Static
<1>2. CASE fans = {}
  <2>1. \A d \in fans : g[d].strat.known
    BY <1>2
  <2>2. x \in DOMAIN g /\ fans \in SUBSET Fans(g, x)
    BY DEF Nodes
  <2>3. FanOver(g, q, fans) # {}
    <3>. HIDE DEF q, fans
    <3>. QED
      BY <2>1, <2>2, FanOverNotEmpty
  <2>4. \A p \in Picks(g, fans) : Fanned(g, q, fans, p) = q
    BY <1>2, FannedNowhere
  <2>5. FanOver(g, q, fans) = {q}
    BY <2>3, <2>4, FanOverIs
  <2>. QED
    BY <1>2, <2>5 DEF RunsOf, HasStrategyInChain
<1>. QED
  BY <1>1, <1>2

LEMMA RunOfIs ==
  ASSUME NEW g, OrderingGraph(g), NEW x \in Nodes(g), NEW i \in RunsOf(g, x)
  PROVE  i \in FQNs /\ Len(i) = Len(g[x].fqn) /\ Len(i) \in Nat /\ RunOf(g, x, i)
<1>1. RunOf(g, x, i)
  BY DEF RunsOf, RunOf
<1>. QED
  BY <1>1, RunIs

LEMMA RunsBeforeIs ==
  ASSUME NEW g, NEW x, NEW y, NEW f, NEW i
  PROVE  LET w == Len(g[Shared(x, y)].fqn)
         IN  i \in RunsBefore(g, x, y, f) <=>
               /\ i \in RunsOf(g, x)
               /\ SubSeq(f, 1, w) = g[Shared(x, y)].fqn \/ SubSeq(i, 1, w) = SubSeq(f, 1, w)
  BY DEF RunsBefore, RunsOf

\* A run of x has a run of b in its own branch.
LEMMA RunBeside ==
  ASSUME NEW g, OrderingGraph(g), NEW x \in Nodes(g), NEW b \in Nodes(g), Splits(g, b, x),
         StaticRuns(g, b), NEW px \in Picks(g, Fans(g, x))
  PROVE  LET w == Len(g[Shared(b, x)].fqn)
         IN  \E h \in RunsOf(g, b) : SubSeq(h, 1, w) = SubSeq(Fanned(g, g[x].fqn, Fans(g, x), px), 1, w)
<1>. DEFINE c == Shared(b, x)
            own == OwnFans(g, b, x)
            w == Len(g[c].fqn)
            i == Fanned(g, g[x].fqn, Fans(g, x), px)
<1>1. b \in DOMAIN g /\ own \in SUBSET Fans(g, b)
  BY DEF Nodes, OwnFans
<1>2. Fans(g, b) # {} => \A d \in Fans(g, b) : g[d].strat.known
  BY DEF StaticRuns, HasStrategyInChain, InstanceFQNs, NotStatic
<1>3. \A d \in own : g[d].strat.known
  BY <1>1, <1>2
<1>. HIDE DEF own
<1>5. FanOver(g, g[b].fqn, own) # {}
  BY <1>1, <1>3, FanOverNotEmpty
<1>6. PICK ph \in Picks(g, own) : TRUE
  BY <1>5, FanOverIs
<1>. DEFINE h == Splice(i, Fanned(g, g[b].fqn, own, ph), w)
<1>7. h \in FanOver(g, g[b].fqn, Fans(g, b)) /\ SubSeq(h, 1, w) = SubSeq(i, 1, w)
  BY <1>6, Pinned DEF own
<1>. HIDE DEF h
<1>8. h \in RunsOf(g, b)
  BY <1>7, RunsOfIs
<1>. QED
  BY <1>7, <1>8

LEMMA SharedSymmetric ==
  ASSUME NEW x, NEW y
  PROVE  Shared(x, y) = Shared(y, x)
<1>1. Chain(x) \cap Chain(y) = Chain(y) \cap Chain(x)
  OBVIOUS
<1>. QED
  BY <1>1 DEF Shared, LowestCommonAncestor

\* Whatever run of x the run f of y comes after, with b between them: f comes
\* after a run of b that comes after the run of x.
LEMMA RunCovered ==
  ASSUME NEW g, OrderingGraph(g), NEW x \in Nodes(g), NEW b \in Nodes(g), NEW y \in Nodes(g),
         StaticRuns(g, x), StaticRuns(g, b), NEW f, RunOf(g, y, f),
         Before(g, x, b), Before(g, b, y), NEW i \in RunsBefore(g, x, y, f)
  PROVE  \E h \in RunsBefore(g, b, y, f) : i \in RunsBefore(g, x, b, h)
<1>. DEFINE c == Shared(x, b)
            d == Shared(b, y)
            v == Len(g[c].fqn)
            w == Len(g[d].fqn)
            u == Len(g[Shared(x, y)].fqn)
<1>1. /\ x \in Paths /\ b \in Paths /\ y \in Paths
      /\ x \in DOMAIN g /\ b \in DOMAIN g /\ y \in DOMAIN g
  BY InTree DEF Nodes
<1>2. /\ c = Shared(b, x) /\ Splits(g, b, x) /\ Splits(g, x, b) /\ Splits(g, b, y)
  BY SharedSymmetric DEF Before, Splits
<1>3. /\ c \in Paths /\ c \in DOMAIN g /\ c \in Chain(x) /\ c # x /\ c \in Chain(b) /\ c # b
      /\ d \in Paths /\ d \in DOMAIN g /\ d \in Chain(b) /\ d # b /\ d \in Chain(y) /\ d # y
      /\ c # <<>> => g[c].kind \notin {"pipeline", "parallel"}
      /\ d # <<>> => g[d].kind \notin {"pipeline", "parallel"}
  BY <1>2, SharedUnit
<1>4. /\ v \in Nat /\ w \in Nat
      /\ v < Len(g[x].fqn) /\ v < Len(g[b].fqn) /\ w < Len(g[b].fqn) /\ w < Len(g[y].fqn)
      /\ \A n \in {x, b, y} : Len(g[n].fqn) \in Nat
  BY <1>3, ChainNests
<1>5. \/ v <= w /\ Shared(x, y) = c
      \/ w <= v /\ Shared(x, y) = d
  <2>1. ASSUME NEW m \in {c, d}, NEW n \in {c, d}, Leads(m, n) PROVE Len(g[m].fqn) <= Len(g[n].fqn)
    <3>1. m \in Paths /\ n \in Paths /\ n \in DOMAIN g /\ Len(m) \in Nat /\ Len(n) \in Nat
      BY <1>3, LenProperties DEF Paths
    <3>2. CASE m = n
      BY <1>4, <3>2
    <3>3. CASE m # n
      <4>1. Len(m) < Len(n)
        BY <2>1, <3>1, <3>3, LeadsSame
      <4>2. n # <<>>
        BY <3>1, <4>1, EmptySeq
      <4>3. g[n].kind \notin {"pipeline", "parallel"}
        BY <1>3, <4>2
      <4>4. m \in Chain(n)
        BY <2>1, <3>1, ChainIs
      <4>5. Len(g[m].fqn) < Len(g[n].fqn) /\ Len(g[m].fqn) \in Nat /\ Len(g[n].fqn) \in Nat
        BY <3>1, <3>3, <4>3, <4>4, NamesNest
      <4>. QED
        BY <4>5
    <3>. QED
      BY <3>2, <3>3
  <2>2. BeforeIn(g, c, x, b) /\ BeforeIn(g, d, b, y)
    BY <1>1, BeforeIs
  <2>3. \/ Leads(c, d) /\ BeforeIn(g, c, x, y)
        \/ Leads(d, c) /\ BeforeIn(g, d, x, y)
    BY <1>1, <1>3, <2>2, BeforeNested
  <2>4. CASE Leads(c, d) /\ BeforeIn(g, c, x, y)
    BY <1>1, <1>3, <2>1, <2>4, BeforeIs
  <2>5. CASE Leads(d, c) /\ BeforeIn(g, d, x, y)
    BY <1>1, <1>3, <2>1, <2>5, BeforeIs
  <2>. QED
    BY <2>3, <2>4, <2>5
<1>6. /\ i \in RunsOf(g, x) /\ i \in FQNs /\ Len(i) = Len(g[x].fqn)
      /\ SubSeq(f, 1, u) = g[Shared(x, y)].fqn \/ SubSeq(i, 1, u) = SubSeq(f, 1, u)
  BY RunsBeforeIs, RunOfIs
<1>7. f \in FQNs /\ Len(f) = Len(g[y].fqn)
  BY RunIs
<1>8. \A h : /\ h \in RunsBefore(g, b, y, f) <=>
                  /\ h \in RunsOf(g, b)
                  /\ SubSeq(f, 1, w) = g[d].fqn \/ SubSeq(h, 1, w) = SubSeq(f, 1, w)
             /\ i \in RunsBefore(g, x, b, h) <=>
                  SubSeq(h, 1, v) = g[c].fqn \/ SubSeq(i, 1, v) = SubSeq(h, 1, v)
  BY <1>6, RunsBeforeIs
<1>9. \A h \in RunsOf(g, b) : h \in FQNs /\ v <= Len(h) /\ w <= Len(h)
  <2>1. \A h \in RunsOf(g, b) : h \in FQNs /\ Len(h) = Len(g[b].fqn)
    BY RunOfIs
  <2>. QED
    BY <1>4, <2>1
\* A run of b beside the run of x.
<1>10. \E h \in RunsOf(g, b) : SubSeq(h, 1, v) = SubSeq(i, 1, v)
  <2>1. PICK px \in Picks(g, Fans(g, x)) : i = Fanned(g, g[x].fqn, Fans(g, x), px)
    BY <1>6, RunsOfIs, FanOverIs
  <2>. QED
    BY <1>2, <2>1, RunBeside
\* A run of b beside f, when f names a branch.
<1>11. ASSUME SubSeq(f, 1, w) # g[d].fqn
       PROVE  \E h \in RunsOf(g, b) : SubSeq(h, 1, w) = SubSeq(f, 1, w)
  <2>1. f # g[y].fqn
    BY <1>3, <1>11, ChainNests
  <2>2. PICK py \in Picks(g, Fans(g, y)) : f = Fanned(g, g[y].fqn, Fans(g, y), py)
    BY <2>1, RunIs
  <2>. QED
    BY <1>2, <2>2, RunBeside
<1>12. w <= Len(f)
  BY <1>4, <1>7
<1>13. v <= Len(i)
  BY <1>4, <1>6
<1>14. CASE v <= w /\ Shared(x, y) = c
  <2>1. SubSeq(f, 1, v) = g[c].fqn \/ SubSeq(i, 1, v) = SubSeq(f, 1, v)
    BY <1>6, <1>14
  <2>2. CASE SubSeq(f, 1, w) = g[d].fqn
    BY <1>8, <1>10, <2>2
  <2>3. CASE SubSeq(f, 1, w) # g[d].fqn
    <3>1. PICK h \in RunsOf(g, b) : SubSeq(h, 1, w) = SubSeq(f, 1, w)
      BY <1>11, <2>3
    <3>2. SubSeq(h, 1, v) = SubSeq(f, 1, v)
      <4>1. w <= Len(f) /\ w <= Len(h) /\ h \in FQNs /\ v <= w
        BY <1>9, <1>12, <1>14
      <4>. HIDE DEF v, w
      <4>. QED
        BY <1>4, <1>7, <3>1, <4>1, HeadWithin
    <3>. QED
      BY <1>8, <2>1, <3>1, <3>2
  <2>. QED
    BY <2>2, <2>3
<1>15. CASE w <= v /\ Shared(x, y) = d
  <2>1. SubSeq(f, 1, w) = g[d].fqn \/ SubSeq(i, 1, w) = SubSeq(f, 1, w)
    BY <1>6, <1>15
  <2>2. PICK h \in RunsOf(g, b) : SubSeq(h, 1, v) = SubSeq(i, 1, v)
    BY <1>10
  <2>3. SubSeq(h, 1, w) = SubSeq(i, 1, w)
    <3>1. v <= Len(i) /\ v <= Len(h) /\ h \in FQNs /\ w <= v
      BY <1>9, <1>13, <1>15
    <3>. HIDE DEF v, w
    <3>. QED
      BY <1>4, <1>6, <2>2, <3>1, HeadWithin
  <2>. QED
    BY <1>8, <2>1, <2>2, <2>3
<1>. QED
  BY <1>5, <1>14, <1>15

\* A step that rolls back, and what it may follow, part in an ordered container.
LEMMA PrecursorSplits ==
  ASSUME NEW g, OrderingGraph(g), NEW y \in DOMAIN g, NEW b \in Precursors(g, y)
  PROVE  b \in Nodes(g) /\ Splits(g, b, y)
<1>1. y \in Paths /\ Len(y) \in Nat
  BY InTree, LenProperties DEF Paths
<1>2. \A z \in RolledBack(g, y) : z \in DOMAIN g
  BY RolledBackForward
<1>3. b \in Units(g) /\ b \in Nodes(g) /\ b \in DOMAIN g
  BY RolledBackForward DEF Precursors, Units, Nodes
<1>4. b \in Paths /\ Len(b) \in Nat /\ \A k \in 1..Len(b) : b[k] \in Nat
  BY <1>3, InTree, LenProperties, ElementOfSeq DEF Paths
<1>5. ASSUME NEW c \in Paths, Leads(c, b), Leads(c, y), Len(c) < Len(b), Len(c) < Len(y),
             b[Len(c) + 1] # y[Len(c) + 1], g[c].kind # "parallel"
      PROVE  Splits(g, b, y)
  <2>1. Shared(b, y) = c
    BY <1>1, <1>4, <1>5, SharedIs
  <2>2. c # b /\ c # y
    BY <1>1, <1>4, <1>5
  <2>. QED
    BY <1>5, <2>1, <2>2 DEF Splits
<1>6. CASE Before(g, b, y)
  BY <1>3, <1>6 DEF Before, Splits
<1>7. ASSUME NEW z \in RolledBack(g, y), z = b \/ Before(g, b, z) PROVE Splits(g, b, y)
  <2>1. PICK r \in RollbackContainers(g, y) : Under(Parent(r), z) /\ ForwardFrom(Parent(r), z)
    BY DEF RolledBack
  <2>. DEFINE s == Parent(r)
  <2>2. /\ s \in Paths /\ s \in DOMAIN g /\ Leads(s, r) /\ Leads(r, y) /\ r \in Paths
        /\ Len(r) \in Nat \ {0} /\ Len(s) = Len(r) - 1 /\ y[Len(r)] = 0 /\ Len(r) <= Len(y)
        /\ g[s].kind = "stage"
    <3>1. r \in DOMAIN g /\ r # <<>> /\ g[r].kind = "rollback"
      BY RollbackIs
    <3>2. g[s].kind = "stage"
      BY <3>1 DEF OrderingGraph
    <3>. HIDE DEF s
    <3>3. /\ Parent(r) \in Paths /\ Parent(r) \in DOMAIN g /\ Leads(Parent(r), r) /\ Leads(r, y)
          /\ r \in Paths /\ Len(r) \in Nat \ {0} /\ Len(Parent(r)) = Len(r) - 1 /\ y[Len(r)] = 0
      BY RollbackIs
    <3>. QED
      BY <3>2, <3>3 DEF Leads, s
  <2>3. z \in Paths /\ Len(z) \in Nat /\ \A k \in 1..Len(z) : z[k] \in Nat
    BY <1>2, InTree, LenProperties, ElementOfSeq DEF Paths
  <2>4. Under(s, z) /\ ForwardFrom(s, z)
    BY <2>1
  <2>. HIDE DEF s
  <2>5. Len(s) \in Nat /\ Leads(s, z) /\ Len(s) < Len(z) /\ z[Len(s) + 1] > 0
    <3>1. Leads(s, z) /\ Len(s) < Len(z)
      BY <2>2, <2>3, <2>4, UnderIs
    <3>. QED
      BY <2>2, <2>3, <2>4, <3>1 DEF ForwardFrom
  <2>6. Leads(s, y) /\ Len(s) < Len(y) /\ y[Len(s) + 1] = 0
    <3>1. Leads(s, y)
      BY <1>1, <2>2, LeadsTransitive
    <3>. QED
      BY <1>1, <2>2, <3>1
  \* b forward in the stage.
  <2>7. ASSUME Leads(s, b), Len(s) < Len(b), b[Len(s) + 1] > 0 PROVE Splits(g, b, y)
    <3>1. b[Len(s) + 1] # y[Len(s) + 1]
      BY <2>6, <2>7
    <3>. QED
      BY <1>5, <2>2, <2>6, <2>7, <3>1
  <2>8. CASE z = b
    BY <2>5, <2>7, <2>8
  <2>9. CASE Before(g, b, z)
    <3>. DEFINE c == Shared(b, z)
    <3>1. c \in Paths /\ BeforeIn(g, c, b, z)
      BY <1>4, <2>3, <2>9, BeforeIs
    <3>. HIDE DEF c
    <3>2. /\ Leads(c, b) /\ Leads(c, z) /\ Len(c) < Len(b) /\ Len(c) < Len(z) /\ Len(c) \in Nat
          /\ g[c].kind # "parallel" /\ ForwardFrom(c, b) /\ b[Len(c) + 1] < z[Len(c) + 1]
      BY <3>1, LenProperties DEF BeforeIn, Paths
    <3>3. CASE Len(c) < Len(s)
      <4>1. Leads(c, s)
        BY <2>2, <2>3, <2>5, <3>1, <3>2, <3>3, LeadsNested
      <4>2. Leads(c, y) /\ Len(c) < Len(y)
        BY <1>1, <2>2, <2>5, <2>6, <3>1, <3>2, <3>3, <4>1, LeadsTransitive
      <4>3. y[Len(c) + 1] = z[Len(c) + 1]
        <5>1. Len(c) + 1 \in 1..Len(s)
          BY <2>5, <3>2, <3>3
        <5>. QED
          BY <2>5, <2>6, <5>1 DEF Leads
      <4>4. b[Len(c) + 1] \in Nat /\ z[Len(c) + 1] \in Nat
        BY <1>4, <2>3, <3>2
      <4>5. b[Len(c) + 1] # y[Len(c) + 1]
        BY <3>2, <4>3, <4>4
      <4>. QED
        BY <1>5, <3>1, <3>2, <4>2, <4>5
    <3>4. CASE Len(s) <= Len(c)
      <4>1. Leads(s, c)
        BY <2>2, <2>3, <2>5, <3>1, <3>2, <3>4, LeadsNested
      <4>2. Leads(s, b) /\ Len(s) < Len(b)
        BY <1>4, <2>2, <2>5, <3>1, <3>2, <3>4, <4>1, LeadsTransitive
      <4>3. b[Len(s) + 1] > 0
        <5>1. CASE Len(s) = Len(c)
          <6>1. Len(s) + 1 \in Len(c) + 1..Len(b)
            BY <1>4, <2>5, <3>2, <5>1
          <6>. QED
            BY <3>2, <6>1 DEF ForwardFrom
        <5>2. CASE Len(s) < Len(c)
          <6>1. Len(s) + 1 \in 1..Len(c)
            BY <2>5, <3>2, <5>2
          <6>2. b[Len(s) + 1] = z[Len(s) + 1]
            BY <3>2, <6>1 DEF Leads
          <6>. QED
            BY <2>5, <6>2
        <5>. QED
          BY <2>5, <3>2, <3>4, <5>1, <5>2
      <4>. QED
        BY <2>7, <4>2, <4>3
    <3>. QED
      BY <2>5, <3>2, <3>3, <3>4
  <2>. QED
    BY <1>7, <2>8, <2>9
<1>8. \/ b \in RolledBack(g, y)
      \/ Before(g, b, y)
      \/ \E z \in RolledBack(g, y) : Before(g, b, z)
  BY DEF Precursors
<1>9. Splits(g, b, y)
  BY <1>6, <1>7, <1>8
<1>. QED
  BY <1>3, <1>9

\* A unit whose runs are not known is a fan-out of its own to any other.
LEMMA RuntimeIs ==
  ASSUME NEW g, OrderingGraph(g), NEW y \in Nodes(g), StaticRuns(g, y), NEW p \in Nodes(g),
         Splits(g, p, y), ~ StaticRuns(g, p), NEW f
  PROVE  RuntimeFanout(g, p, y, f)
<1>. DEFINE c == Shared(p, y)
<1>1. HasStrategyInChain(g, p) /\ Fans(g, p) # {}
  BY DEF StaticRuns, HasStrategyInChain
<1>2. PICK d \in Fans(g, p) : ~ g[d].strat.known
  BY <1>1 DEF StaticRuns, InstanceFQNs, Static
<1>3. d \notin Fans(g, y)
  BY <1>2 DEF StaticRuns, HasStrategyInChain, InstanceFQNs, NotStatic
<1>4. Under(c, d)
  BY <1>3, SharedUnit
<1>5. AncestorInstances(g, p, y, f) = NotStatic
  <2>1. \E e \in {n \in Fans(g, p) : Under(c, n)} : ~ g[e].strat.known
    BY <1>2, <1>4
  <2>. QED
    BY <2>1 DEF AncestorInstances, Shared
<1>. QED
  BY <1>1, <1>5 DEF RuntimeFanout, NotStatic

-----------------------------------------------------------------------------
(* The gate of a step.                                                     *)

\* A name stands for at most one step.
LEMMA LookupOne ==
  ASSUME NEW g, OrderingGraph(g), NEW f, NEW y \in Lookup(g, f)
  PROVE  y \in Nodes(g) /\ Lookup(g, f) = {y}
<1>1. \A q : \A n, m \in Named(g, q) : n = m
  BY DEF Named, OrderingGraph
<1>2. \A q : Named(g, q) \subseteq Nodes(g)
  BY DEF Named
<1>3. ASSUME y \in Indexed(g, f) PROVE y \in Nodes(g) /\ Indexed(g, f) = {y}
  <2>. DEFINE S == Claimants(g, f)
  <2>1. S \subseteq Nodes(g) /\ S \subseteq DOMAIN g
    BY DEF Claimants, Nodes
  <2>2. Indexed(g, f) = S /\ Cardinality(S) = 1 /\ y \in S
    BY <1>3 DEF Indexed
  <2>3. IsFiniteSet(DOMAIN g)
    BY DEF OrderingGraph
  <2>. HIDE DEF S
  <2>4. IsFiniteSet(S)
    BY <2>1, <2>3, FS_Subset
  <2>5. S \ {y} = {}
    <3>1. IsFiniteSet(S \ {y}) /\ Cardinality(S \ {y}) = Cardinality(S) - 1
      BY <2>2, <2>4, FS_RemoveElement
    <3>. QED
      BY <2>2, <3>1, FS_EmptySet
  <2>. QED
    BY <2>1, <2>2, <2>5
<1>4. CASE Named(g, f) # {}
  <2>1. Lookup(g, f) = Named(g, f)
    BY <1>4 DEF Lookup
  <2>. QED
    BY <1>1, <1>2, <2>1
<1>5. CASE Named(g, f) = {} /\ Indexed(g, f) # {}
  <2>1. Lookup(g, f) = Indexed(g, f)
    BY <1>5 DEF Lookup
  <2>. QED
    BY <1>3, <2>1
<1>6. CASE Named(g, f) = {} /\ Indexed(g, f) = {}
  <2>1. \E q : Lookup(g, f) = Named(g, q)
    BY <1>6 DEF Lookup, Walk
  <2>. QED
    BY <1>1, <1>2, <2>1
<1>. QED
  BY <1>4, <1>5, <1>6

\* The name of a run stands for its unit.
LEMMA LookupRun ==
  ASSUME NEW g, OrderingGraph(g), DistinctNames(g), NEW b \in Nodes(g), NEW h \in RunsOf(g, b)
  PROVE  Lookup(g, h) = {b} /\ RunOf(g, b, h)
<1>1. RunOf(g, b, h)
  BY DEF RunsOf, RunOf
<1>2. CASE h = g[b].fqn
  <2>1. b \in Named(g, h) /\ b \in Lookup(g, h)
    BY <1>2 DEF Named, Lookup
  <2>. QED
    BY <1>1, <2>1, LookupOne
<1>3. CASE h \in InstanceFQNs(g, b).fqns
  <2>1. Named(g, h) = {}
    BY <1>3 DEF Named, DistinctNames
  <2>2. Claimants(g, h) = {b}
    BY <1>3 DEF Claimants, DistinctNames
  <2>3. Cardinality({b}) = 1
    BY FS_Singleton
  <2>. QED
    BY <1>1, <2>1, <2>2, <2>3 DEF Indexed, Lookup
<1>. QED
  BY <1>1, <1>2, <1>3 DEF RunOf

\* A step that runs, with known runs, has no violation of its own.
LEMMA OwnNone ==
  ASSUME NEW g, NEW t, NEW y, Runs(g, t, y), StaticRuns(g, y)
  PROVE  OwnViolations(g, t, y) = {}
<1>1. ~ StrategyExcluded(g, y) /\ \A c \in EntryGuards(g, y) : t[c] = "holds"
  BY DEF Runs, EntryGuards
<1>2. \A v \in {t[c] : c \in EntryGuards(g, y)} : v = "holds"
  BY <1>1
<1>3. HasStrategyInChain(g, y) => InstanceFQNs(g, y).ok
  BY DEF StaticRuns
<1>. QED
  BY <1>1, <1>2, <1>3 DEF OwnViolations

\* With every guard decided the walk meets what runs and what it steps over.
LEMMA NothingUnknown ==
  ASSUME NEW g, OrderingGraph(g), NEW t, Decided(t, g), NEW y \in Nodes(g)
  PROVE  /\ Decides(t, g) /\ UnknownNodes(g, t, y) = {}
         /\ \A p \in Visited(g, t, y) :
              /\ p \in LiveNodes(g, t, y) <=> Runs(g, t, p)
              /\ Runs(g, t, p) \/ SteppedOver(g, t, p)
<1>1. Decides(t, g) /\ y \in DOMAIN g
  BY UnitsFinite DEF Decided, Decides
<1>2. UnknownNodes(g, t, y) = {}
  <2>. SUFFICES ASSUME NEW p \in UnknownNodes(g, t, y) PROVE FALSE
    OBVIOUS
  <2>1. p \in Visited(g, t, y) /\ GuardSkip(g, t, p) = "unknown"
    BY DEF UnknownNodes
  <2>2. Chain(p) \subseteq DOMAIN g
    BY <1>1, <2>1, VisitedIs, InTree
  <2>3. \A v \in {t[c] : c \in {d \in Chain(p) : g[d].when # NoWhen}} : v # "unknown"
    BY <2>2 DEF Decided
  <2>. QED
    BY <2>1, <2>3 DEF GuardSkip
<1>. QED
  BY <1>1, <1>2, VisitedIs

(* When every unit before a step has run in full, or never runs, the gate  *)
(* of the step has no violation and needs nothing that did not run.        *)
LEMMA GateOpens ==
  ASSUME NEW g, OrderingGraph(g), NEW t, NEW f, NEW y \in Lookup(g, f), RunOf(g, y, f),
         Runs(g, t, y), StaticRuns(g, y), RollbackContainers(g, y) = {}, NEW ran,
         \A x \in {u \in Units(g) : Before(g, u, y)} :
           \/ Runs(g, t, x) /\ StaticRuns(g, x) /\ RunsBefore(g, x, y, f) \subseteq ran
           \/ StrategyExcluded(g, x)
           \/ \E c \in Chain(x) : g[c].when # NoWhen /\ t[c] = "fails"
  PROVE  LET gate == EvaluateStep(g, t, t, f)
         IN  gate.violations = {} /\ gate.needs \subseteq ran /\ ~ gate.fanout
<1>. DEFINE gate == EvaluateStep(g, t, t, f)
            live == LiveAncestors(g, t, y)
            runtime == {p \in live : RuntimeFanout(g, p, y, f)}
<1>1. y \in Nodes(g) /\ Lookup(g, f) = {y} /\ y \in DOMAIN g /\ y \in Paths
  BY LookupOne, InTree DEF Nodes
<1>2. ~ SeparatePlanRollback(g, y)
  BY <1>1, EntranceIs DEF SeparatePlanRollback, AtRollbackEntry, RollbackContainers
<1>3. gate = AncestorGate(g, t, t, y, f)
  <2>1. (CHOOSE m \in Lookup(g, f) : TRUE) = y /\ Lookup(g, f) # {}
    BY <1>1
  <2>. QED
    BY <1>2, <2>1 DEF EvaluateStep
<1>4. OwnViolations(g, t, y) = {}
  BY OwnNone
<1>5. ASSUME NEW p \in Visited(g, t, y), ~ StrategyExcluded(g, p), GuardSkip(g, t, p) # "skipped"
      PROVE  /\ p \in Units(g) /\ Before(g, p, y)
             /\ Runs(g, t, p) /\ StaticRuns(g, p) /\ RunsBefore(g, p, y, f) \subseteq ran
  <2>1. p \in Units(g) /\ Before(g, p, y)
    BY <1>1, VisitedBefore
  <2>2. ~ \E c \in Chain(p) : g[c].when # NoWhen /\ t[c] = "fails"
    BY <1>5 DEF GuardSkip
  <2>. QED
    BY <1>5, <2>1, <2>2
<1>6. UnknownNodes(g, t, y) = {}
  <2>. SUFFICES ASSUME NEW p \in UnknownNodes(g, t, y) PROVE FALSE
    OBVIOUS
  <2>1. p \in Visited(g, t, y) /\ ~ StrategyExcluded(g, p) /\ GuardSkip(g, t, p) = "unknown"
    BY DEF UnknownNodes
  <2>2. Runs(g, t, p)
    BY <1>5, <2>1
  <2>3. \A v \in {t[c] : c \in {d \in Chain(p) : g[d].when # NoWhen}} : v = "holds"
    BY <2>2 DEF Runs
  <2>. QED
    BY <2>1, <2>3 DEF GuardSkip
<1>7. ASSUME NEW p \in live
      PROVE  ~ RuntimeFanout(g, p, y, f) /\ AncestorFQNs(g, p, y, f) \subseteq ran
  <2>1. p \in Visited(g, t, y) /\ ~ StrategyExcluded(g, p) /\ GuardSkip(g, t, p) = "live"
    BY DEF LiveAncestors, LiveNodes
  <2>2. p \in Units(g) /\ Before(g, p, y) /\ StaticRuns(g, p) /\ RunsBefore(g, p, y, f) \subseteq ran
    BY <1>5, <2>1
  <2>3. p \in Nodes(g) /\ Splits(g, p, y)
    BY <2>2 DEF Units, Before, Splits
  <2>4. ~ RuntimeFanout(g, p, y, f) /\ AncestorFQNs(g, p, y, f) \subseteq RunsBefore(g, p, y, f)
    BY <1>1, <2>2, <2>3, WaitedFor
  <2>. QED
    BY <2>2, <2>4
<1>. HIDE DEF live
<1>8. runtime = {}
  BY <1>7
<1>9. UNION {AncestorFQNs(g, p, y, f) : p \in live \ runtime} \subseteq ran
  BY <1>7
<1>10. {"conditionUnknown" : p \in UnknownNodes(g, t, y)} = {}
  BY <1>6
<1>11. /\ gate.violations = OwnViolations(g, t, y) \cup {"conditionUnknown" : p \in UnknownNodes(g, t, y)}
       /\ gate.needs = UNION {AncestorFQNs(g, p, y, f) : p \in live \ runtime}
       /\ gate.fanout = (runtime # {})
  BY <1>3 DEF AncestorGate, Gate, live
<1>. HIDE DEF gate, runtime
<1>12. gate.violations = {} /\ gate.needs \subseteq ran /\ ~ gate.fanout
  BY <1>4, <1>8, <1>9, <1>10, <1>11
<1>. QED
  BY <1>12 DEF gate

\* The gate of a name that stands for a step is the gate of the step.
LEMMA GateIs ==
  ASSUME NEW g, OrderingGraph(g), NEW t, NEW f
  PROVE  LET gate == EvaluateStep(g, t, t, f)
         IN  /\ Lookup(g, f) = {} => gate.fqn = f /\ gate.outcome = "notFound"
             /\ \A y \in Lookup(g, f) :
                  /\ gate.fqn = g[y].fqn /\ gate.outcome = "evaluated"
                  /\ ~ SeparatePlanRollback(g, y) =>
                       /\ gate.violations \subseteq {"condition", "conditionUnknown", "runtimeFanout"}
                       /\ gate.join = IF OrJoined(g, y) THEN "OR" ELSE "AND"
<1>1. Lookup(g, f) = {} => EvaluateStep(g, t, t, f) = NoGate("notFound", f)
  BY DEF EvaluateStep
<1>2. ASSUME NEW y \in Lookup(g, f)
      PROVE  EvaluateStep(g, t, t, f) = IF SeparatePlanRollback(g, y) THEN RollbackGate(g, t, y)
                                        ELSE AncestorGate(g, t, t, y, f)
  <2>1. (CHOOSE m \in Lookup(g, f) : TRUE) = y /\ Lookup(g, f) # {}
    BY LookupOne
  <2>. QED
    BY <2>1 DEF EvaluateStep
<1>3. \A n : OwnViolations(g, t, n) \subseteq {"condition", "conditionUnknown", "runtimeFanout"}
  BY DEF OwnViolations
<1>. QED
  BY <1>1, <1>2, <1>3 DEF NoGate, RollbackGate, AncestorGate, Gate

(* What an AND-joined step with known runs cannot be allowed without, for  *)
(* each unit x due before it: the runs of a unit b that is x or comes      *)
(* after x.                                                                *)
LEMMA GateCovers ==
  ASSUME NEW g, OrderingGraph(g), NEW t, Decides(t, g), NEW f, NEW y \in Lookup(g, f),
         RunOf(g, y, f), StaticRuns(g, y), ~ OrJoined(g, y),
         EvaluateStep(g, t, t, f).violations = {}, ~ EvaluateStep(g, t, t, f).fanout,
         NEW x \in DueBefore(g, t, y)
  PROVE  \E b \in Nodes(g) :
           /\ StaticRuns(g, b) /\ RunsBefore(g, b, y, f) \subseteq EvaluateStep(g, t, t, f).needs
           /\ RunsBefore(g, b, y, f) # {} /\ Before(g, b, y)
           /\ x = b \/ x \in DueBefore(g, t, b)
<1>. DEFINE gate == EvaluateStep(g, t, t, f)
            live == LiveAncestors(g, t, y)
            runtime == {p \in live : RuntimeFanout(g, p, y, f)}
<1>1. y \in Nodes(g) /\ Lookup(g, f) = {y} /\ y \in DOMAIN g
  BY LookupOne DEF Nodes
<1>2. gate = AncestorGate(g, t, t, y, f)
  <2>1. (CHOOSE m \in Lookup(g, f) : TRUE) = y /\ Lookup(g, f) # {} /\ ~ SeparatePlanRollback(g, y)
    BY <1>1 DEF OrJoined, SeparatePlanRollback
  <2>. QED
    BY <2>1 DEF EvaluateStep
<1>3. /\ gate.violations = OwnViolations(g, t, y) \cup {"conditionUnknown" : p \in UnknownNodes(g, t, y)}
      /\ gate.needs = UNION {AncestorFQNs(g, p, y, f) : p \in live \ runtime}
      /\ gate.fanout = (runtime # {})
  BY <1>2 DEF AncestorGate, Gate
<1>4. UnknownNodes(g, t, y) = {}
  BY <1>3
<1>5. PICK b \in live : Before(g, b, y) /\ (x = b \/ x \in DueBefore(g, t, b))
  BY <1>1, <1>4, Covering
<1>6. b \notin runtime
  BY <1>3
<1>7. b \in Nodes(g) /\ Splits(g, b, y)
  <2>1. b \in Visited(g, t, y)
    BY DEF LiveAncestors, LiveNodes
  <2>. QED
    BY <1>1, <2>1, VisitedPrecursors, PrecursorSplits
<1>8. StaticRuns(g, b)
  BY <1>1, <1>6, <1>7, RuntimeIs
<1>9. AncestorFQNs(g, b, y, f) = RunsBefore(g, b, y, f)
  BY <1>1, <1>7, <1>8, WaitedFor
<1>10. AncestorFQNs(g, b, y, f) # {}
  BY DEF AncestorFQNs
<1>11. AncestorFQNs(g, b, y, f) \subseteq gate.needs
  BY <1>3, <1>6
<1>. HIDE DEF gate
<1>12. RunsBefore(g, b, y, f) \subseteq gate.needs
  BY <1>9, <1>11
<1>. QED
  BY <1>5, <1>7, <1>8, <1>9, <1>10, <1>12 DEF gate

(* What the gate of a step with known runs asks for are runs of units the  *)
(* step may follow; and when one of those runs, there is something to ask  *)
(* for, unless its fan-out is not known.                                   *)
LEMMA GateFollows ==
  ASSUME NEW g, OrderingGraph(g), NEW t, Decides(t, g), NEW f, NEW y \in Lookup(g, f),
         RunOf(g, y, f), StaticRuns(g, y), ~ SeparatePlanRollback(g, y),
         "conditionUnknown" \notin EvaluateStep(g, t, t, f).violations,
         NEW x \in Precursors(g, y), Runs(g, t, x)
  PROVE  LET gate == EvaluateStep(g, t, t, f)
         IN  /\ \A h \in gate.needs : \E b \in Precursors(g, y) : b \in Nodes(g) /\ h \in RunsOf(g, b)
             /\ OrJoined(g, y) => ~ gate.vacuous /\ (gate.fanout \/ gate.needs # {})
<1>. DEFINE gate == EvaluateStep(g, t, t, f)
            live == LiveAncestors(g, t, y)
            runtime == {p \in live : RuntimeFanout(g, p, y, f)}
<1>1. y \in Nodes(g) /\ Lookup(g, f) = {y} /\ y \in DOMAIN g
  BY LookupOne DEF Nodes
<1>2. gate = AncestorGate(g, t, t, y, f)
  <2>1. (CHOOSE m \in Lookup(g, f) : TRUE) = y /\ Lookup(g, f) # {}
    BY <1>1
  <2>. QED
    BY <2>1 DEF EvaluateStep
<1>3. /\ gate.violations = OwnViolations(g, t, y) \cup {"conditionUnknown" : p \in UnknownNodes(g, t, y)}
      /\ gate.needs = UNION {AncestorFQNs(g, p, y, f) : p \in live \ runtime}
      /\ gate.fanout = (runtime # {}) /\ gate.vacuous = (live = {})
  BY <1>2 DEF AncestorGate, Gate
<1>4. UnknownNodes(g, t, y) = {}
  BY <1>3
<1>5. ASSUME NEW h \in gate.needs PROVE \E b \in Precursors(g, y) : b \in Nodes(g) /\ h \in RunsOf(g, b)
  <2>1. PICK b \in live \ runtime : h \in AncestorFQNs(g, b, y, f)
    BY <1>3
  <2>2. b \in Precursors(g, y) /\ b \in Nodes(g) /\ Splits(g, b, y)
    <3>1. b \in Visited(g, t, y)
      BY DEF LiveAncestors, LiveNodes
    <3>. QED
      BY <1>1, <3>1, VisitedPrecursors, PrecursorSplits
  <2>3. StaticRuns(g, b)
    BY <1>1, <2>1, <2>2, RuntimeIs
  <2>4. h \in RunsBefore(g, b, y, f)
    BY <1>1, <2>1, <2>2, <2>3, WaitedFor
  <2>. QED
    BY <2>2, <2>4, RunsBeforeIs
<1>6. ASSUME OrJoined(g, y) PROVE ~ gate.vacuous /\ (gate.fanout \/ gate.needs # {})
  <2>1. live # {}
    BY <1>1, <1>4, <1>6, LiveNonempty DEF LiveAncestors
  <2>2. \A p : AncestorFQNs(g, p, y, f) # {}
    BY DEF AncestorFQNs
  <2>. HIDE DEF gate
  <2>3. ~ gate.vacuous
    BY <1>3, <2>1
  <2>4. ASSUME runtime = {} PROVE gate.needs # {}
    <3>1. PICK p \in live : p \in live \ runtime
      BY <2>1, <2>4
    <3>2. AncestorFQNs(g, p, y, f) \subseteq gate.needs
      BY <1>3, <3>1
    <3>. QED
      BY <2>2, <3>2
  <2>. QED
    BY <1>3, <2>3, <2>4
<1>. QED
  BY <1>5, <1>6 DEF gate

\* The runs due before f are those that the unit it stands for comes after.
LEMMA DueRuns ==
  ASSUME NEW g, NEW t, NEW f, NEW b, Lookup(g, f) = {b}, NEW i
  PROVE  i \in RunsDue(g, t, f) <=> \E x \in DueBefore(g, t, b) : i \in RunsBefore(g, x, b, f)
<1>. DEFINE pairs == UNION {DueBefore(g, t, y) \X {y} : y \in Lookup(g, f)}
<1>1. pairs = DueBefore(g, t, b) \X {b}
  OBVIOUS
<1>2. \A x \in DueBefore(g, t, b) : <<x, b>> \in pairs /\ <<x, b>>[1] = x /\ <<x, b>>[2] = b
  BY <1>1
<1>3. \A p \in pairs : p[1] \in DueBefore(g, t, b) /\ p[2] = b
  BY <1>1
<1>4. RunsDue(g, t, f) = UNION {RunsBefore(g, p[1], p[2], f) : p \in pairs}
  BY DEF RunsDue
<1>. HIDE DEF pairs
<1>5. ASSUME i \in RunsDue(g, t, f) PROVE \E x \in DueBefore(g, t, b) : i \in RunsBefore(g, x, b, f)
  <2>1. PICK p \in pairs : i \in RunsBefore(g, p[1], p[2], f)
    BY <1>4, <1>5
  <2>. QED
    BY <1>3, <2>1
<1>6. ASSUME NEW x \in DueBefore(g, t, b), i \in RunsBefore(g, x, b, f) PROVE i \in RunsDue(g, t, f)
  <2>. DEFINE w == <<x, b>>
  <2>1. w \in pairs /\ w[1] = x /\ w[2] = b
    BY <1>2
  <2>. HIDE DEF w
  <2>2. i \in RunsBefore(g, w[1], w[2], f)
    BY <1>6, <2>1
  <2>. QED
    BY <1>4, <2>1, <2>2
<1>. QED
  BY <1>5, <1>6

(* An AND-joined step that runs needs nothing but runs that are due before *)
(* it, when all guards are decided and no skipped entry of a rollback is   *)
(* before it.                                                              *)
LEMMA GateAwaits ==
  ASSUME NEW g, OrderingGraph(g), NEW t, Decided(t, g), NEW f, NEW y \in Lookup(g, f),
         RunOf(g, y, f), Runs(g, t, y), StaticRuns(g, y), ~ OrJoined(g, y),
         \A x \in Units(g) : Before(g, x, y) /\ Runs(g, t, x) => StaticRuns(g, x),
         \A x \in Units(g) : Before(g, x, y) /\ AtRollbackEntry(g, x) => Runs(g, t, x)
  PROVE  LET gate == EvaluateStep(g, t, t, f)
         IN  /\ gate.violations = {} /\ ~ gate.fanout
             /\ \A h \in gate.needs : h \in RunsDue(g, t, f) /\
                  \E x \in Units(g) : Before(g, x, y) /\ Runs(g, t, x) /\ h \in RunsBefore(g, x, y, f)
<1>. DEFINE gate == EvaluateStep(g, t, t, f)
            live == LiveAncestors(g, t, y)
            runtime == {p \in live : RuntimeFanout(g, p, y, f)}
<1>1. y \in Nodes(g) /\ Lookup(g, f) = {y} /\ y \in DOMAIN g
  BY LookupOne DEF Nodes
<1>2. gate = AncestorGate(g, t, t, y, f)
  <2>1. (CHOOSE m \in Lookup(g, f) : TRUE) = y /\ Lookup(g, f) # {} /\ ~ SeparatePlanRollback(g, y)
    BY <1>1 DEF OrJoined, SeparatePlanRollback
  <2>. QED
    BY <2>1 DEF EvaluateStep
<1>3. /\ gate.violations = OwnViolations(g, t, y) \cup {"conditionUnknown" : p \in UnknownNodes(g, t, y)}
      /\ gate.needs = UNION {AncestorFQNs(g, p, y, f) : p \in live \ runtime}
      /\ gate.fanout = (runtime # {})
  BY <1>2 DEF AncestorGate, Gate
<1>4. OwnViolations(g, t, y) = {} /\ {"conditionUnknown" : p \in UnknownNodes(g, t, y)} = {}
  BY <1>1, OwnNone, NothingUnknown
<1>5. ASSUME NEW p \in live
      PROVE  /\ p \in Units(g) /\ Before(g, p, y) /\ Runs(g, t, p) /\ p \in DueBefore(g, t, y)
             /\ ~ RuntimeFanout(g, p, y, f) /\ AncestorFQNs(g, p, y, f) = RunsBefore(g, p, y, f)
  <2>1. p \in Visited(g, t, y) /\ p \in LiveNodes(g, t, y)
    BY DEF LiveAncestors, LiveNodes
  <2>2. p \in Back(g, t, y) /\ Before(g, p, y) /\ Runs(g, t, p)
    BY <1>1, <2>1, VisitedDue, NothingUnknown
  <2>3. ~ OnAnyOutcome(g, y)
    BY DEF OrJoined, OnAnyOutcome
  <2>4. p \in DueBefore(g, t, y) /\ p \in Units(g)
    BY <1>1, <2>2, <2>3, DueIs
  <2>5. p \in Nodes(g) /\ Splits(g, p, y)
    BY <1>1, <2>1, VisitedPrecursors, PrecursorSplits
  <2>. QED
    BY <1>1, <2>2, <2>4, <2>5, WaitedFor
<1>. HIDE DEF gate, live
<1>6. ASSUME NEW h \in gate.needs
      PROVE  h \in RunsDue(g, t, f) /\
             \E x \in Units(g) : Before(g, x, y) /\ Runs(g, t, x) /\ h \in RunsBefore(g, x, y, f)
  <2>1. PICK p \in live : h \in AncestorFQNs(g, p, y, f)
    BY <1>3
  <2>. QED
    BY <1>1, <1>5, <2>1, DueRuns
<1>7. runtime = {}
  BY <1>5
<1>8. gate.violations = {} /\ ~ gate.fanout
  BY <1>3, <1>4, <1>7
<1>. QED
  BY <1>6, <1>8 DEF gate

(* A step inside a rollback for which any of several units will do, with   *)
(* all guards decided: it needs a run of each forward step that runs of    *)
(* its stage, or one of a unit before it that runs.                        *)
LEMMA GateAwaitsAny ==
  ASSUME NEW g, OrderingGraph(g), NEW t, Decided(t, g), NEW f, NEW y \in Lookup(g, f),
         RunOf(g, y, f), Runs(g, t, y), StaticRuns(g, y), ~ SeparatePlanRollback(g, y), OrJoined(g, y),
         \A x \in Units(g) : Before(g, x, y) /\ Runs(g, t, x) => StaticRuns(g, x),
         NEW z \in RolledBack(g, y), Runs(g, t, z), NEW i \in RunsBefore(g, z, y, f)
  PROVE  LET gate == EvaluateStep(g, t, t, f)
         IN  /\ gate.violations = {} /\ gate.join = "OR"
             /\ \E h \in gate.needs :
                  \/ h = i
                  \/ \E x \in Units(g) : Before(g, x, y) /\ Runs(g, t, x) /\ h \in RunsBefore(g, x, y, f)
<1>. DEFINE gate == EvaluateStep(g, t, t, f)
            live == LiveAncestors(g, t, y)
            runtime == {p \in live : RuntimeFanout(g, p, y, f)}
<1>1. y \in Nodes(g) /\ Lookup(g, f) = {y} /\ y \in DOMAIN g
  BY LookupOne DEF Nodes
<1>2. gate = AncestorGate(g, t, t, y, f)
  <2>1. (CHOOSE m \in Lookup(g, f) : TRUE) = y /\ Lookup(g, f) # {}
    BY <1>1
  <2>. QED
    BY <2>1 DEF EvaluateStep
<1>3. /\ gate.violations = OwnViolations(g, t, y) \cup {"conditionUnknown" : p \in UnknownNodes(g, t, y)}
      /\ gate.needs = UNION {AncestorFQNs(g, p, y, f) : p \in live \ runtime}
      /\ gate.join = "OR"
  BY <1>2 DEF AncestorGate, Gate
<1>4. OwnViolations(g, t, y) = {} /\ {"conditionUnknown" : p \in UnknownNodes(g, t, y)} = {}
  BY <1>1, OwnNone, NothingUnknown
\* What the walk meets and runs is one of the needs, under the runs before f.
<1>5. ASSUME NEW p \in Visited(g, t, y), Runs(g, t, p), StaticRuns(g, p)
      PROVE  p \in live /\ p \notin runtime /\ AncestorFQNs(g, p, y, f) = RunsBefore(g, p, y, f)
  <2>1. p \in LiveNodes(g, t, y)
    BY <1>1, <1>5, NothingUnknown
  <2>2. p \in Nodes(g) /\ Splits(g, p, y)
    BY <1>1, VisitedPrecursors, PrecursorSplits
  <2>3. ~ RuntimeFanout(g, p, y, f) /\ AncestorFQNs(g, p, y, f) = RunsBefore(g, p, y, f)
    BY <1>1, <1>5, <2>2, WaitedFor
  <2>. QED
    BY <2>1, <2>3 DEF LiveAncestors
<1>. HIDE DEF gate, live
<1>6. CASE \E p \in Visited(g, t, y) : Before(g, p, y) /\ Runs(g, t, p)
  <2>1. PICK p \in Visited(g, t, y) : Before(g, p, y) /\ Runs(g, t, p)
    BY <1>6
  <2>2. p \in Units(g)
    BY <1>1, NothingUnknown, VisitedIs
  <2>3. p \in live \ runtime /\ AncestorFQNs(g, p, y, f) = RunsBefore(g, p, y, f)
    BY <1>5, <2>1, <2>2
  <2>4. AncestorFQNs(g, p, y, f) # {}
    BY DEF AncestorFQNs
  <2>5. PICK h \in gate.needs : h \in RunsBefore(g, p, y, f)
    BY <1>3, <2>3, <2>4
  <2>. QED
    BY <1>3, <1>4, <2>1, <2>2, <2>5 DEF gate
<1>7. CASE ~ \E p \in Visited(g, t, y) : Before(g, p, y) /\ Runs(g, t, p)
  <2>1. \A p \in Visited(g, t, y) : Before(g, p, y) => SteppedOver(g, t, p)
    BY <1>1, <1>7, NothingUnknown
  <2>2. z \in Visited(g, t, y)
    BY <1>1, <2>1, RollbackReached
  <2>3. StaticRuns(g, z)
    BY DEF RunsBefore, StaticRuns, HasStrategyInChain, InstanceFQNs, Static, NotStatic
  <2>4. i \in gate.needs
    BY <1>3, <1>5, <2>2, <2>3
  <2>. QED
    BY <1>3, <1>4, <2>4 DEF gate
<1>. QED
  BY <1>6, <1>7

(* A step whose own fan-out is not known is never allowed without a policy *)
(* that accepts it.                                                        *)
LEMMA GateRefuses ==
  ASSUME NEW g, OrderingGraph(g), NEW t, NEW f, NEW y \in Lookup(g, f), ~ StaticRuns(g, y)
  PROVE  EvaluateStep(g, t, t, f).violations \cap {"condition", "runtimeFanout"} # {}
<1>1. (CHOOSE m \in Lookup(g, f) : TRUE) = y /\ Lookup(g, f) # {}
  BY LookupOne
<1>2. OwnViolations(g, t, y) \cap {"condition", "runtimeFanout"} # {}
  BY DEF OwnViolations, StaticRuns
<1>3. OwnViolations(g, t, y) \subseteq EvaluateStep(g, t, t, f).violations
  BY <1>1 DEF EvaluateStep, RollbackGate, AncestorGate, Gate
<1>. QED
  BY <1>2, <1>3

\* Only the runs of b fold to a name that a run of b has.
LEMMA NodeOfRun ==
  ASSUME NEW g, OrderingGraph(g), DistinctNames(g), NEW b \in Nodes(g), NEW h \in RunsOf(g, b),
         NEW n \in Nodes(g), g[n].fqn = h
  PROVE  n = b /\ ~ HasStrategyInChain(g, b)
<1>1. h \notin InstanceFQNs(g, b).fqns
  BY DEF DistinctNames
<1>. QED
  BY <1>1 DEF RunsOf, OrderingGraph

-----------------------------------------------------------------------------
(* The graph of a document.                                                *)

\* g concatenates the first sequences of s, up to the n-th.
Concatenates(g, s, n) == g = [i \in 1..n |-> IF i = 1 THEN s[i] ELSE g[i - 1] \o s[i]]

LEMMA ConcatenationExists ==
  ASSUME NEW s, NEW n \in Nat
  PROVE  \E g : Concatenates(g, s, n)
<1>. DEFINE T == {m \in Nat : ~ \E g : Concatenates(g, s, m)}
<1>. SUFFICES ASSUME T # {} PROVE FALSE
  OBVIOUS
<1>1. PICK m \in T : \A k \in T : m <= k
  BY Least
<1>2. CASE m = 0
  <2>. DEFINE g == [i \in 1..0 |-> s[i]]
  <2>1. Concatenates(g, s, m)
    BY <1>2 DEF Concatenates
  <2>. QED
    BY <2>1
<1>3. CASE m # 0
  <2>1. m - 1 \in Nat /\ m - 1 \notin T /\ m \in Nat
    BY <1>1, <1>3
  <2>2. PICK h : Concatenates(h, s, m - 1)
    BY <2>1
  <2>. DEFINE g == [i \in 1..m |-> IF i = m THEN IF i = 1 THEN s[i] ELSE h[i - 1] \o s[i] ELSE h[i]]
  <2>3. ASSUME NEW i \in 1..m PROVE g[i] = IF i = 1 THEN s[i] ELSE g[i - 1] \o s[i]
    <3>1. CASE i = m
      <4>1. i # 1 => i - 1 \in 1..m /\ i - 1 # m
        BY <2>1
      <4>. QED
        BY <3>1, <4>1
    <3>2. CASE i # m
      <4>1. i \in 1..m - 1 /\ (i # 1 => i - 1 \in 1..m /\ i - 1 # m)
        BY <2>1, <3>2
      <4>2. h[i] = IF i = 1 THEN s[i] ELSE h[i - 1] \o s[i]
        BY <2>2, <4>1 DEF Concatenates
      <4>. QED
        BY <3>2, <4>1, <4>2
    <3>. QED
      BY <3>1, <3>2
  <2>4. g = [i \in 1..m |-> IF i = 1 THEN s[i] ELSE g[i - 1] \o s[i]]
    <3>1. DOMAIN g = 1..m /\ g = [i \in 1..m |-> g[i]]
      OBVIOUS
    <3>. HIDE DEF g
    <3>. QED
      BY <2>3, <3>1
  <2>. QED
    BY <2>4 DEF Concatenates
<1>. QED
  BY <1>2, <1>3

LEMMA FlattenConcatenates ==
  ASSUME NEW s, Len(s) \in Nat, Len(s) # 0
  PROVE  \E g : Concatenates(g, s, Len(s)) /\ FlattenSeq(s) = g[Len(s)]
<1>. DEFINE g == CHOOSE h : Concatenates(h, s, Len(s))
<1>1. Concatenates(g, s, Len(s))
  BY ConcatenationExists
<1>2. FlattenSeq(s) = g[Len(s)]
  BY DEF FlattenSeq, Concatenates
<1>. QED
  BY <1>1, <1>2

\* Concatenations of sequences that begin alike begin alike.
LEMMA ConcatenationsAgree ==
  ASSUME NEW s, NEW t, NEW n \in Nat, NEW m \in 0..n, \A i \in 1..m : s[i] = t[i],
         NEW g, Concatenates(g, s, n), NEW h, Concatenates(h, t, m)
  PROVE  \A i \in 1..m : g[i] = h[i]
<1>. DEFINE T == {i \in 1..m : g[i] # h[i]}
<1>. SUFFICES ASSUME T # {} PROVE FALSE
  OBVIOUS
<1>1. T \in SUBSET Nat
  OBVIOUS
<1>2. PICK i \in T : \A k \in T : i <= k
  BY <1>1, Least
<1>3. i \in 1..m /\ i \in 1..n /\ i \in Nat /\ s[i] = t[i] /\ g[i] # h[i]
  BY <1>2
<1>4. g[i] = IF i = 1 THEN s[i] ELSE g[i - 1] \o s[i]
  BY <1>3 DEF Concatenates
<1>5. h[i] = IF i = 1 THEN t[i] ELSE h[i - 1] \o t[i]
  BY <1>3 DEF Concatenates
<1>6. i # 1 /\ i - 1 \in 1..m /\ i - 1 \notin T
  BY <1>2, <1>3, <1>4, <1>5
<1>7. g[i - 1] = h[i - 1]
  BY <1>6
<1>. QED
  BY <1>3, <1>4, <1>5, <1>6, <1>7

\* What is concatenated first stays at the beginning.
LEMMA ConcatenationGrows ==
  ASSUME NEW X, NEW s \in Seq(Seq(X)), NEW n \in 1..Len(s), NEW g, Concatenates(g, s, n), NEW j \in 1..n
  PROVE  g[j] \in Seq(X) /\ \A i \in j..n : Leads(g[j], g[i])
<1>0. Len(s) \in Nat /\ n \in Nat /\ \A i \in 1..n : s[i] \in Seq(X)
  BY LenProperties, ElementOfSeq
<1>1. ASSUME NEW i \in 1..n
      PROVE  g[i] = IF i = 1 THEN s[i] ELSE g[i - 1] \o s[i]
  BY DEF Concatenates
<1>2. ASSUME NEW i \in 1..n PROVE g[i] \in Seq(X)
  <2>. DEFINE T == {k \in 1..n : g[k] \notin Seq(X)}
  <2>. SUFFICES ASSUME T # {} PROVE FALSE
    OBVIOUS
  <2>1. T \in SUBSET Nat
    OBVIOUS
  <2>2. PICK k \in T : \A l \in T : k <= l
    BY <2>1, Least
  <2>3. k \in 1..n /\ k \in Nat /\ g[k] \notin Seq(X)
    BY <2>2
  <2>4. k # 1
    BY <1>0, <1>1, <2>3
  <2>5. k - 1 \in 1..n /\ k - 1 \notin T
    BY <2>2, <2>3, <2>4
  <2>6. g[k] = g[k - 1] \o s[k] /\ g[k - 1] \in Seq(X) /\ s[k] \in Seq(X)
    BY <1>0, <1>1, <2>3, <2>4, <2>5
  <2>. QED
    BY <2>3, <2>6, ConcatProperties
<1>3. ASSUME NEW m \in j..n PROVE Leads(g[j], g[m])
  <2>. DEFINE T == {k \in j..n : ~ Leads(g[j], g[k])}
  <2>. SUFFICES ASSUME T # {} PROVE FALSE
    OBVIOUS
  <2>1. T \in SUBSET Nat
    OBVIOUS
  <2>2. PICK k \in T : \A l \in T : k <= l
    BY <2>1, Least
  <2>3. k \in j..n /\ k \in 1..n /\ k \in Nat /\ ~ Leads(g[j], g[k])
    BY <2>2
  <2>4. Len(g[j]) \in Nat
    BY <1>2, LenProperties
  <2>5. k # j
    BY <2>3, <2>4 DEF Leads
  <2>6. k - 1 \in j..n /\ k - 1 \in 1..n /\ k - 1 \notin T /\ k # 1
    BY <2>2, <2>3, <2>5
  <2>7. Leads(g[j], g[k - 1])
    BY <2>6
  <2>. DEFINE a == g[k - 1]
              b == s[k]
              r == a \o b
  <2>8. a \in Seq(X) /\ b \in Seq(X) /\ g[k] = r
    BY <1>0, <1>1, <1>2, <2>3, <2>6
  <2>. HIDE DEF a, b
  <2>9. Len(a) \in Nat /\ Len(b) \in Nat /\ Len(r) = Len(a) + Len(b)
    BY <2>8, LenProperties, ConcatProperties
  <2>10. \A i \in 1..Len(a) + Len(b) : r[i] = IF i <= Len(a) THEN a[i] ELSE b[i - Len(a)]
    BY <2>8, ConcatProperties
  <2>. HIDE DEF r
  <2>11. Leads(g[j], r)
    <3>. DEFINE c == g[j]
    <3>1. Len(c) \in Nat /\ Len(c) <= Len(a) /\ \A i \in 1..Len(c) : c[i] = a[i]
      BY <2>4, <2>7 DEF Leads, a
    <3>. HIDE DEF c
    <3>2. Len(c) <= Len(r)
      BY <2>9, <3>1
    <3>3. ASSUME NEW i \in 1..Len(c) PROVE c[i] = r[i]
      <4>1. i \in 1..Len(a) + Len(b) /\ i <= Len(a)
        BY <2>9, <3>1
      <4>2. r[i] = a[i]
        BY <2>10, <4>1
      <4>. QED
        BY <3>1, <4>2
    <3>4. Leads(c, r)
      BY <3>2, <3>3 DEF Leads
    <3>. QED
      BY <3>4 DEF c
  <2>. QED
    BY <2>3, <2>8, <2>11
<1>. QED
  BY <1>0, <1>2, <1>3

\* The segments along the path of a node.
Segments(doc, n) == [k \in DOMAIN n |-> Segment(doc, SubSeq(n, 1, k))]

LEMMA DocumentTree ==
  ASSUME NEW doc, Document(doc), NEW n \in DOMAIN doc
  PROVE  /\ n \in Paths /\ Chain(n) \subseteq DOMAIN doc
         /\ \A k \in 1..Len(n) : SubSeq(n, 1, k) \in DOMAIN doc
<1>1. DOMAIN doc \subseteq Paths /\ \A d \in DOMAIN doc \ {<<>>} : Parent(d) \in DOMAIN doc
  BY DEF Document, Paths
<1>2. n \in Paths /\ Chain(n) \subseteq DOMAIN doc
  BY <1>1, ChainInTree
<1>3. ASSUME NEW k \in 1..Len(n) PROVE SubSeq(n, 1, k) \in Chain(n)
  BY <1>2, LenProperties DEF Chain, Prefixes, Paths
<1>. QED
  BY <1>2, <1>3

LEMMA RollbackTyped == RollbackSegment \in Seq(NameTokens)
<1>. DEFINE word == "rollbackSteps"
<1>1. word \in NameTokens
  BY DEF NameTokens
<1>. HIDE DEF word
<1>2. <<word>> \in Seq(NameTokens)
  BY <1>1
<1>. QED
  BY <1>2 DEF RollbackSegment, word

LEMMA SegmentsTyped ==
  ASSUME NEW doc, Document(doc), NEW n \in DOMAIN doc
  PROVE  Segments(doc, n) \in Seq(FQNs) /\ Len(Segments(doc, n)) = Len(n) /\ Len(n) \in Nat
<1>1. n \in Paths /\ Len(n) \in Nat /\ DOMAIN n = 1..Len(n)
  BY DocumentTree, LenProperties DEF Paths
<1>2. ASSUME NEW d \in DOMAIN doc PROVE Segment(doc, d) \in FQNs
  <2>1. doc[d].id \in Seq(NameTokens)
    BY DEF Document
  <2>2. RollbackSegment \in Seq(NameTokens)
    BY RollbackTyped
  <2>. DEFINE T == Seq(NameTokens)
              id == doc[d].id
  <2>. HIDE DEF T, id
  <2>3. <<id>> \in Seq(T) /\ <<RollbackSegment>> \in Seq(T) /\ <<>> \in Seq(T)
    BY <2>1, <2>2 DEF T, id
  <2>4. Segment(doc, d) \in {<<>>, <<RollbackSegment>>, <<id>>}
    BY DEF Segment, id
  <2>. QED
    BY <2>3, <2>4 DEF FQNs, T
<1>. DEFINE l == Len(n)
            s == Segments(doc, n)
<1>3. s \in [1..l -> FQNs]
  BY <1>1, <1>2, DocumentTree DEF Segments
<1>. HIDE DEF l, s
<1>4. l \in Nat
  BY <1>1 DEF l
<1>5. s \in Seq(FQNs)
  BY <1>3, <1>4
<1>6. Len(s) = l
  BY <1>3, <1>4, <1>5, LenProperties
<1>. QED
  BY <1>1, <1>5, <1>6 DEF l, s

LEMMA FQNIs ==
  ASSUME NEW doc, Document(doc), NEW n \in DOMAIN doc
  PROVE  /\ FQN(doc, n) \in FQNs
         /\ n = <<>> \/ doc[n].kind = "parallel" => FQN(doc, n) = <<>>
         /\ n # <<>> /\ doc[n].kind # "parallel" =>
              \E h : /\ Concatenates(h, Segments(doc, n), Len(n)) /\ FQN(doc, n) = h[Len(n)]
                     /\ \A j \in 1..Len(n) : h[j] \in FQNs /\ \A i \in j..Len(n) : Leads(h[j], h[i])
<1>. DEFINE s == Segments(doc, n)
            T == Seq(NameTokens)
<1>1. s \in Seq(Seq(T)) /\ Len(s) = Len(n) /\ Len(n) \in Nat /\ n \in Paths
  BY SegmentsTyped, DocumentTree DEF FQNs
<1>2. CASE n = <<>> \/ doc[n].kind = "parallel"
  <2>1. FQN(doc, n) = <<>>
    BY <1>2 DEF FQN
  <2>2. <<>> \in Seq(T)
    BY EmptySeq
  <2>. QED
    BY <1>2, <2>1, <2>2 DEF FQNs
<1>3. CASE n # <<>> /\ doc[n].kind # "parallel"
  <2>1. Len(n) # 0
    BY <1>1, <1>3, EmptySeq DEF Paths
  <2>2. FQN(doc, n) = FlattenSeq(s)
    BY <1>3 DEF FQN, Segments
  <2>. HIDE DEF s, T
  <2>3. PICK h : Concatenates(h, s, Len(s)) /\ FlattenSeq(s) = h[Len(s)]
    BY <1>1, <2>1, FlattenConcatenates
  <2>4. Len(s) \in 1..Len(s)
    BY <1>1, <2>1
  <2>5. \A j \in 1..Len(s) : h[j] \in Seq(T) /\ \A i \in j..Len(s) : Leads(h[j], h[i])
    BY <1>1, <2>3, <2>4, ConcatenationGrows
  <2>. QED
    BY <1>1, <1>3, <2>1, <2>2, <2>3, <2>4, <2>5 DEF FQNs, s, T
<1>. QED
  BY <1>2, <1>3

\* The FQN of a container begins, and is shorter than, those of the units and
\* rollback containers in it.
LEMMA FQNNests ==
  ASSUME NEW doc, Document(doc), NEW n \in DOMAIN doc, doc[n].kind \notin {"pipeline", "parallel"},
         NEW c \in Chain(n), c # n
  PROVE  Leads(FQN(doc, c), FQN(doc, n)) /\ Len(FQN(doc, c)) < Len(FQN(doc, n))
<1>. DEFINE q == FQN(doc, n)
            r == FQN(doc, c)
            s == Segments(doc, n)
            l == Len(n)
            id == IF doc[n].kind = "rollback" THEN RollbackSegment ELSE doc[n].id
<1>1. /\ n \in DOMAIN doc /\ c \in DOMAIN doc /\ n \in Paths /\ l \in Nat /\ n # <<>>
      /\ doc[n].kind # "parallel"
  BY DocumentTree, LenProperties DEF Document, Paths
<1>2. c \in Paths /\ Leads(c, n)
  BY <1>1, ChainIs
<1>3. Len(c) \in Nat /\ Len(c) < l /\ l # 0
  BY <1>1, <1>2, LeadsSame, LenProperties DEF Leads, Paths
<1>4. PICK g : /\ Concatenates(g, s, l) /\ q = g[l]
               /\ \A j \in 1..l : g[j] \in FQNs /\ \A i \in j..l : Leads(g[j], g[i])
  BY <1>1, FQNIs
<1>5. q \in FQNs /\ r \in FQNs /\ Len(q) \in Nat /\ Len(r) \in Nat
  BY <1>1, FQNIs, LenProperties DEF FQNs
<1>6. s[l] = <<id>>
  <2>1. l \in 1..l /\ DOMAIN n = 1..l /\ SubSeq(n, 1, l) = n
    BY <1>1, <1>3, SubSeqFull, LenProperties DEF Paths
  <2>2. Segment(doc, n) = <<id>>
    BY <1>1 DEF Segment
  <2>. QED
    BY <2>1, <2>2 DEF Segments
<1>7. id \in Seq(NameTokens)
  BY <1>1, RollbackTyped DEF Document
<1>. HIDE DEF id
<1>8. CASE l = 1
  <2>1. c = <<>>
    BY <1>2, <1>3, <1>8, EmptySeq DEF Paths
  <2>2. r = <<>>
    BY <1>1, <2>1, FQNIs
  <2>3. q = <<id>>
    BY <1>4, <1>6, <1>8 DEF Concatenates
  <2>. HIDE DEF q, r
  <2>. QED
    BY <2>2, <2>3 DEF Leads, q, r
<1>9. CASE l # 1
  <2>. DEFINE k == l - 1
              a == g[k]
              T == Seq(NameTokens)
  <2>1. k \in 1..l /\ l \in 1..l
    <3>1. l \in Nat /\ l # 0 /\ l # 1
      BY <1>1, <1>3, <1>9
    <3>. HIDE DEF l
    <3>. QED
      BY <3>1
  <2>2. q = a \o <<id>>
    BY <1>4, <1>6, <1>9, <2>1 DEF Concatenates
  <2>3. a \in FQNs
    BY <1>4, <2>1
  <2>. HIDE DEF a, q, T
  <2>4. id \in T
    BY <1>7 DEF T
  <2>5. a \in Seq(T) /\ <<id>> \in Seq(T) /\ Len(<<id>>) = 1
    BY <2>3, <2>4 DEF FQNs, T
  <2>6. Len(a) \in Nat /\ Len(q) = Len(a) + 1
    BY <2>2, <2>5, ConcatProperties, LenProperties
  <2>7. CASE c = <<>> \/ doc[c].kind = "parallel"
    <3>1. r = <<>>
      BY <1>1, <2>7, FQNIs
    <3>2. Len(r) = 0
      BY <3>1
    <3>. HIDE DEF r
    <3>. QED
      BY <2>6, <3>2 DEF Leads, q, r
  <2>8. CASE c # <<>> /\ doc[c].kind # "parallel"
    <3>. DEFINE m == Len(c)
                u == Segments(doc, c)
    <3>1. PICK h : Concatenates(h, u, m) /\ r = h[m]
      BY <1>1, <2>8, FQNIs
    <3>2. m # 0 /\ m \in 0..l /\ m \in 1..l /\ m \in 1..m
      BY <1>2, <1>3, <2>8, EmptySeq DEF Paths
    <3>3. ASSUME NEW i \in 1..m PROVE s[i] = u[i]
      <4>1. DOMAIN n = 1..l /\ DOMAIN c = 1..m /\ i \in 1..l /\ i \in 0..l /\ i \in 0..m
        BY <1>1, <1>2, <1>3, LenProperties DEF Paths
      <4>. DEFINE x == SubSeq(n, 1, i)
                  z == SubSeq(c, 1, i)
      <4>2. x \in Paths /\ Len(x) = i /\ \A j \in 1..i : x[j] = n[j]
        BY <1>1, <4>1, Cut
      <4>3. z \in Paths /\ Len(z) = i /\ \A j \in 1..i : z[j] = c[j]
        BY <1>2, <4>1, Cut
      <4>4. \A j \in 1..i : c[j] = n[j]
        BY <1>2, <1>3 DEF Leads
      <4>. HIDE DEF x, z
      <4>5. x = z
        <5>1. x \in Seq(Nat) /\ z \in Seq(Nat) /\ Len(x) = Len(z)
          BY <4>2, <4>3 DEF Paths
        <5>2. \A j \in 1..Len(x) : x[j] = z[j]
          BY <4>2, <4>3, <4>4
        <5>. QED
          BY <5>1, <5>2, SeqEqual
      <4>6. s[i] = Segment(doc, x)
        <5>1. i \in DOMAIN n
          BY <4>1
        <5>. QED
          BY <5>1 DEF Segments, x
      <4>7. u[i] = Segment(doc, z)
        <5>1. i \in DOMAIN c
          BY <4>1
        <5>. QED
          BY <5>1 DEF Segments, z
      <4>. QED
        BY <4>5, <4>6, <4>7
    <3>. HIDE DEF s, u, l, m
    <3>4. l \in Nat /\ m \in 0..l /\ \A i \in 1..m : s[i] = u[i]
      BY <1>1, <3>2, <3>3
    <3>5. \A i \in 1..m : g[i] = h[i]
      <4>1. Concatenates(g, s, l) /\ Concatenates(h, u, m)
        BY <1>4, <3>1
      <4>. HIDE DEF k
      <4>. QED
        BY <3>4, <4>1, ConcatenationsAgree
    <3>6. r = g[m]
      BY <3>1, <3>2, <3>5
    <3>7. l \in m..l /\ k \in m..l
      BY <1>1, <1>3, <3>2 DEF l, m
    <3>8. Leads(r, q) /\ Leads(r, a)
      BY <1>4, <3>2, <3>6, <3>7 DEF a, q
    <3>9. Len(r) <= Len(a)
      BY <3>8 DEF Leads
    <3>10. Leads(r, q) /\ Len(r) < Len(q)
      BY <1>5, <2>6, <3>8, <3>9
    <3>. QED
      BY <3>10 DEF q
  <2>. QED
    BY <2>7, <2>8
<1>. QED
  BY <1>8, <1>9

\* A sequence that another begins with is its first part.
LEMMA BeginsWith ==
  ASSUME NEW X, NEW r \in Seq(X), NEW q \in Seq(X), Leads(r, q)
  PROVE  SubSeq(q, 1, Len(r)) = r
<1>. DEFINE m == Len(r)
            d == SubSeq(q, 1, m)
<1>1. m \in Nat /\ Len(q) \in Nat /\ m <= Len(q) /\ \A i \in 1..m : r[i] = q[i]
  BY LenProperties DEF Leads
<1>2. \A i \in 1..m : q[i] \in X
  BY <1>1, ElementOfSeq
<1>. HIDE DEF m
<1>3. /\ d \in Seq(X) /\ Len(d) = IF 1 <= m THEN m - 1 + 1 ELSE 0
      /\ \A i \in 1..m - 1 + 1 : d[i] = q[1 + i - 1]
  BY <1>1, <1>2, SubSeqProperties
<1>. HIDE DEF d
<1>4. Len(d) = m /\ \A i \in 1..m : d[i] = r[i]
  BY <1>1, <1>3
<1>5. Len(d) = Len(r)
  BY <1>4 DEF m
<1>6. d = r
  BY <1>3, <1>4, <1>5, SeqEqual DEF m
<1>. QED
  BY <1>6 DEF d, m

\* The forward children of a node are numbered from 1 without gaps.
LEMMA KidsNumbered ==
  ASSUME NEW doc, Document(doc), NEW n \in DOMAIN doc
  PROVE  {Last(x) : x \in Kids(doc, n)} = 1..Cardinality(Kids(doc, n))
<1>. DEFINE K == Kids(doc, n)
            T == {Last(x) : x \in K}
            N == Cardinality(K)
<1>1. n \in Paths /\ Len(n) \in Nat /\ IsFiniteSet(K)
  <2>1. K \subseteq DOMAIN doc /\ IsFiniteSet(DOMAIN doc)
    BY DEF Kids, Document
  <2>. QED
    BY <2>1, DocumentTree, FS_Subset, LenProperties DEF Paths
<1>2. ASSUME NEW x \in K
      PROVE  /\ x \in Paths /\ x \in DOMAIN doc /\ x # <<>> /\ Len(x) = Len(n) + 1 /\ Leads(n, x)
             /\ Last(x) = x[Len(n) + 1] /\ Last(x) \in Nat \ {0} /\ Parent(x) = n
  <2>1. x \in DOMAIN doc /\ Len(x) = Len(n) + 1 /\ Under(n, x) /\ Last(x) > 0
    BY DEF Kids
  <2>2. x \in Paths
    BY <2>1, DocumentTree
  <2>3. Leads(n, x) /\ x # <<>>
    BY <1>1, <2>1, <2>2, UnderIs, EmptySeq DEF Paths
  <2>4. Last(x) = x[Len(n) + 1] /\ Last(x) \in Nat
    BY <1>1, <2>1, <2>2, ElementOfSeq DEF Last, Paths
  <2>5. Parent(x) = n
    <3>1. Parent(x) \in Paths /\ Leads(Parent(x), x) /\ Len(Parent(x)) = Len(n)
      BY <1>1, <2>1, <2>2, <2>3, ParentIs
    <3>2. Leads(n, Parent(x))
      BY <1>1, <2>2, <2>3, <3>1, LeadsNested
    <3>. QED
      BY <1>1, <3>1, <3>2, LeadsSame
  <2>. QED
    BY <2>1, <2>2, <2>3, <2>4, <2>5
<1>3. T \subseteq Nat \ {0}
  BY <1>2
\* A child is told by its number.
<1>4. \A x, z \in K : Last(x) = Last(z) => x = z
  <2>. SUFFICES ASSUME NEW x \in K, NEW z \in K, Last(x) = Last(z) PROVE x = z
    OBVIOUS
  <2>1. \A i \in 1..Len(n) + 1 : x[i] = z[i]
    BY <1>1, <1>2 DEF Leads
  <2>. QED
    BY <1>2, <2>1, SeqEqual DEF Paths
<1>5. IsFiniteSet(T) /\ Cardinality(T) = N
  <2>. DEFINE f == [x \in K |-> Last(x)]
  <2>1. f \in Bijection(K, T)
    BY <1>4 DEF Bijection, Injection, Surjection, IsInjective
  <2>2. ExistsBijection(K, T)
    BY <2>1 DEF ExistsBijection
  <2>. HIDE DEF K, T
  <2>. QED
    BY <1>1, <2>2, FS_Bijection, FS_SameCardinalityBij
\* A child but the first has one before it.
<1>6. ASSUME NEW m \in T, m > 1 PROVE m - 1 \in T
  <2>1. PICK x \in K : m = Last(x)
    OBVIOUS
  <2>. DEFINE z == Append(n, m - 1)
  <2>2. z \in DOMAIN doc
    BY <1>2, <1>6, <2>1 DEF Document
  <2>3. m \in Nat /\ m - 1 \in Nat \ {0}
    BY <1>3, <1>6
  <2>4. z \in Paths /\ Len(z) = Len(n) + 1 /\ Leads(n, z) /\ Last(z) = m - 1
    BY <1>1, <2>3, AppendProperties DEF Paths, Leads, Last
  <2>. HIDE DEF z
  <2>5. Under(n, z)
    BY <1>1, <2>4, UnderIs
  <2>6. z \in K
    <3>1. Last(z) > 0
      BY <2>3, <2>4
    <3>. QED
      BY <2>2, <2>4, <2>5, <3>1 DEF Kids
  <2>. QED
    BY <2>4, <2>6
<1>. HIDE DEF K, T, N
<1>7. ASSUME NEW m \in T, NEW i \in 1..m PROVE i \in T
  <2>. DEFINE bad == {j \in Nat : m - j >= 1 /\ m - j \notin T}
  <2>. SUFFICES ASSUME i \notin T PROVE FALSE
    OBVIOUS
  <2>1. m \in Nat \ {0} /\ m - i \in bad
    BY <1>3
  <2>2. PICK j \in bad : \A k \in bad : j <= k
    <3>. HIDE DEF bad
    <3>1. bad \in SUBSET Nat /\ bad # {}
      BY <2>1 DEF bad
    <3>. QED
      BY <3>1, Least
  <2>3. j # 0 /\ j \in Nat
    BY <2>1
  <2>4. j - 1 \in Nat /\ j - 1 \notin bad
    BY <2>2, <2>3
  <2>5. m - (j - 1) \in T /\ m - (j - 1) > 1
    BY <2>1, <2>3, <2>4
  <2>6. (m - (j - 1)) - 1 \in T
    BY <1>6, <2>5
  <2>7. (m - (j - 1)) - 1 = m - j
    BY <2>1, <2>3
  <2>. QED
    BY <2>2, <2>6, <2>7
<1>8. N \in Nat
  BY <1>5, FS_CardinalityType
<1>9. T \subseteq 1..N
  <2>. SUFFICES ASSUME NEW m \in T PROVE m \in 1..N
    OBVIOUS
  <2>1. 1..m \subseteq T /\ m \in Nat \ {0}
    BY <1>3, <1>7
  <2>2. IsFiniteSet(1..m) /\ Cardinality(1..m) = m
    <3>1. 1 \in Int /\ m \in Int
      BY <2>1
    <3>2. Cardinality(1..m) = IF 1 > m THEN 0 ELSE m - 1 + 1
      BY <3>1, FS_Interval
    <3>. QED
      BY <2>1, <3>1, <3>2, FS_Interval
  <2>3. m <= N
    BY <1>5, <2>1, <2>2, FS_Subset
  <2>. QED
    BY <1>8, <2>1, <2>3
<1>10. T = 1..N
  <2>1. IsFiniteSet(1..N) /\ Cardinality(1..N) = N
    <3>1. Cardinality(1..N) = IF 1 > N THEN 0 ELSE N - 1 + 1
      BY <1>8, FS_Interval
    <3>. QED
      BY <1>8, <3>1, FS_Interval
  <2>. QED
    BY <1>5, <1>9, <2>1, FS_Subset
<1>. QED
  BY <1>10 DEF K, T, N

(* BuildGraph makes of every document it accepts a graph in which the FQN  *)
(* of a unit is its own and begins with those of its containers.           *)
THEOREM GraphOfDocument ==
  ASSUME NEW doc, Document(doc), BuildErrors(doc) = {}
  PROVE  OrderingGraph(BuildGraph(doc))
<1>. DEFINE g == BuildGraph(doc)
<1>1. /\ DOMAIN g = DOMAIN doc
      /\ \A n \in DOMAIN doc : /\ g[n].kind = doc[n].kind /\ g[n].strat = doc[n].strat
                               /\ g[n].fqn = FQN(doc, n) /\ g[n].kids = Cardinality(Kids(doc, n))
  BY DEF BuildGraph
<1>. HIDE DEF g
<1>2. Nodes(g) = Registered(doc)
  BY <1>1 DEF Nodes, Registered
<1>3. \A n \in DOMAIN doc : Cardinality(Kids(doc, n)) \in Nat /\ (Kids(doc, n) # {} => Cardinality(Kids(doc, n)) # 0)
  <2>. SUFFICES ASSUME NEW n \in DOMAIN doc
                PROVE  /\ Cardinality(Kids(doc, n)) \in Nat
                       /\ Kids(doc, n) # {} => Cardinality(Kids(doc, n)) # 0
    OBVIOUS
  <2>1. IsFiniteSet(Kids(doc, n))
    <3>1. Kids(doc, n) \subseteq DOMAIN doc /\ IsFiniteSet(DOMAIN doc)
      BY DEF Kids, Document
    <3>. QED
      BY <3>1, FS_Subset
  <2>. QED
    BY <2>1, FS_CardinalityType, FS_EmptySet
<1>4. \A n, m \in Registered(doc) : FQN(doc, n) = FQN(doc, m) => n = m
  <2>. SUFFICES ASSUME NEW n \in Registered(doc), NEW m \in Registered(doc), FQN(doc, n) = FQN(doc, m), n # m
                PROVE  FALSE
    OBVIOUS
  <2>1. "invalid" \in BuildErrors(doc)
    BY DEF BuildErrors
  <2>. QED
    BY <2>1
<1>5. ASSUME NEW n \in DOMAIN doc, doc[n].kind \notin {"pipeline", "parallel"}, NEW c \in Chain(n), c # n
      PROVE  /\ c \in DOMAIN doc /\ n \in DOMAIN doc
             /\ Len(FQN(doc, c)) < Len(FQN(doc, n))
             /\ SubSeq(FQN(doc, n), 1, Len(FQN(doc, c))) = FQN(doc, c)
  <2>1. n \in DOMAIN doc /\ c \in DOMAIN doc
    BY DocumentTree
  <2>. DEFINE q == FQN(doc, n)
              r == FQN(doc, c)
  <2>2. q \in FQNs /\ r \in FQNs
    BY <2>1, FQNIs
  <2>3. Leads(r, q) /\ Len(r) < Len(q)
    BY <1>5, FQNNests
  <2>. HIDE DEF q, r
  <2>4. SubSeq(q, 1, Len(r)) = r
    BY <2>2, <2>3, BeginsWith DEF FQNs
  <2>. QED
    BY <2>1, <2>3, <2>4 DEF q, r
<1>6. \A n \in DOMAIN doc : FQN(doc, n) \in Seq(Seq(NameTokens))
  BY FQNIs DEF FQNs
<1>7. /\ IsFiniteSet(DOMAIN g) /\ DOMAIN g \subseteq Seq(Nat)
      /\ <<>> \in DOMAIN g /\ g[<<>>].kind = "pipeline"
  BY <1>1 DEF Document
<1>8. \A n \in DOMAIN g \ {<<>>} :
        /\ Parent(n) \in DOMAIN g /\ g[Parent(n)].kind # "step"
        /\ g[n].kind \in {"stage", "stepGroup", "step", "parallel", "rollback"}
        /\ g[n].kind = "rollback" <=> Last(n) = 0
        /\ g[n].kind = "rollback" => g[Parent(n)].kind = "stage"
        /\ g[n].kind = "stage" => \A c \in Chain(n) \ {n} : g[c].kind \in {"pipeline", "parallel"}
  <2>. SUFFICES ASSUME NEW n \in DOMAIN doc \ {<<>>}
                PROVE  /\ Parent(n) \in DOMAIN g /\ g[Parent(n)].kind # "step"
                       /\ g[n].kind \in {"stage", "stepGroup", "step", "parallel", "rollback"}
                       /\ g[n].kind = "rollback" <=> Last(n) = 0
                       /\ g[n].kind = "rollback" => g[Parent(n)].kind = "stage"
                       /\ g[n].kind = "stage" => \A c \in Chain(n) \ {n} : g[c].kind \in {"pipeline", "parallel"}
    BY <1>1
  <2>1. Chain(n) \subseteq DOMAIN doc
    BY DocumentTree
  <2>2. g[n].kind = "stage" => \A c \in Chain(n) \ {n} : g[c].kind \in {"pipeline", "parallel"}
    BY <1>1, <2>1 DEF Document
  <2>3. /\ Parent(n) \in DOMAIN doc /\ doc[Parent(n)].kind # "step"
        /\ doc[n].kind \in {"stage", "stepGroup", "step", "parallel", "rollback"}
        /\ doc[n].kind = "rollback" <=> Last(n) = 0
        /\ doc[n].kind = "rollback" => doc[Parent(n)].kind = "stage"
    BY DEF Document
  <2>4. g[n].kind = doc[n].kind /\ g[Parent(n)].kind = doc[Parent(n)].kind
    BY <1>1, <2>3
  <2>. QED
    BY <1>1, <2>2, <2>3, <2>4
<1>9. \A n \in DOMAIN g :
        /\ g[n].fqn \in Seq(Seq(NameTokens)) /\ g[n].strat.suffixes \subseteq Seq(NameTokens)
        /\ g[n].kids \in Nat /\ {Last(x) : x \in Kids(g, n)} = 1..g[n].kids
        /\ g[n].kind = "parallel" => g[n].kids # 0
        /\ g[n].strat.present => n \in Nodes(g)
        /\ g[n].strat.known => g[n].strat.suffixes # {}
  <2>. SUFFICES ASSUME NEW n \in DOMAIN doc
                PROVE  /\ g[n].fqn \in Seq(Seq(NameTokens)) /\ g[n].strat.suffixes \subseteq Seq(NameTokens)
                       /\ g[n].kids \in Nat /\ {Last(x) : x \in Kids(g, n)} = 1..g[n].kids
                       /\ g[n].kind = "parallel" => g[n].kids # 0
                       /\ g[n].strat.present => n \in Nodes(g)
                       /\ g[n].strat.known => g[n].strat.suffixes # {}
    BY <1>1
  <2>1. /\ doc[n].strat.suffixes \subseteq Seq(NameTokens)
        /\ doc[n].kind = "parallel" => Kids(doc, n) # {}
        /\ doc[n].strat.present => doc[n].kind \in {"stage", "stepGroup", "step"}
        /\ doc[n].strat.known => doc[n].strat.suffixes # {}
    BY DEF Document
  <2>2. doc[n].strat.present => n \in Nodes(g)
    BY <1>1, <2>1 DEF Nodes
  <2>3. {Last(x) : x \in Kids(g, n)} = 1..Cardinality(Kids(doc, n))
    <3>1. Kids(g, n) = Kids(doc, n)
      BY <1>1 DEF Kids
    <3>. QED
      BY <3>1, KidsNumbered
  <2>. QED
    BY <1>1, <1>3, <1>6, <2>1, <2>2, <2>3
<1>10. \A n, m \in Nodes(g) : g[n].fqn = g[m].fqn => n = m
  BY <1>1, <1>2, <1>4 DEF Registered
<1>11. \A n \in {m \in DOMAIN g : g[m].kind \notin {"pipeline", "parallel"}} : \A c \in Chain(n) \ {n} :
         /\ Len(g[c].fqn) < Len(g[n].fqn)
         /\ SubSeq(g[n].fqn, 1, Len(g[c].fqn)) = g[c].fqn
  <2>. SUFFICES ASSUME NEW n \in DOMAIN g, g[n].kind \notin {"pipeline", "parallel"}, NEW c \in Chain(n) \ {n}
                PROVE  /\ Len(g[c].fqn) < Len(g[n].fqn)
                       /\ SubSeq(g[n].fqn, 1, Len(g[c].fqn)) = g[c].fqn
    OBVIOUS
  <2>1. n \in DOMAIN doc /\ doc[n].kind \notin {"pipeline", "parallel"} /\ c \in Chain(n) /\ c # n
    BY <1>1
  <2>2. /\ c \in DOMAIN doc /\ n \in DOMAIN doc
        /\ Len(FQN(doc, c)) < Len(FQN(doc, n))
        /\ SubSeq(FQN(doc, n), 1, Len(FQN(doc, c))) = FQN(doc, c)
    BY <1>5, <2>1
  <2>3. g[c].fqn = FQN(doc, c) /\ g[n].fqn = FQN(doc, n)
    BY <1>1, <2>2
  <2>. QED
    BY <2>2, <2>3
<1>12. OrderingGraph(g)
  BY <1>7, <1>8, <1>9, <1>10, <1>11 DEF OrderingGraph
<1>. QED
  BY <1>12 DEF g

=============================================================================
