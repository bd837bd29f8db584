------------------------ MODULE HypothesisStackProofs ------------------------
(* Theorems about HypothesisStackNormal, for any hypotheses, any stack size,  *)
(* diversity, beam and n-best size, and any order of arrival: who owns a      *)
(* hypothesis, which of those that recombine wins, and what pruning keeps.    *)
(* The lemmas speak of a stack s and of the hypotheses C it was offered.      *)
EXTENDS HypothesisStackNormal, FiniteSetTheorems, WellFoundedInduction, TLAPS

Losers(s) == {arc[2] : arc \in s.m_arcList}

(***************************************************************************)
(* Each hypothesis offered so far is on the stack, in an arc list or freed,   *)
(* and in no two of these; a loser is in one arc list, that of a hypothesis   *)
(* of the stack.                                                             *)
(***************************************************************************)
Ownership(s, C) ==
    /\ C = s.m_hypos \cup Losers(s) \cup s.freed
    /\ s.m_hypos \cap Losers(s) = {}
    /\ s.m_hypos \cap s.freed = {}
    /\ Losers(s) \cap s.freed = {}
    /\ \A arc \in s.m_arcList : arc[1] \in s.m_hypos
    /\ \A arc, other \in s.m_arcList : arc[2] = other[2] => arc = other

\* WinnersWin, without what Ownership says.
Winners(s) ==
    /\ \A g, h \in s.m_hypos : Recombine(g, h) => g = h
    /\ \A arc \in s.m_arcList :
          Recombine(arc[1], arc[2]) /\ arc[1].score >= arc[2].score

Stacks ==
    [m_hypos : SUBSET Hypothesis, m_bestScore : Int, m_worstScore : Int,
     m_diversityWorstScore : [Covers -> Int],
     m_arcList : SUBSET (Hypothesis \X Hypothesis), freed : SUBSET Hypothesis]

Class(h) == <<h.cover, h.state>>
Classes(hypos) == {Class(h) : h \in hypos}
Reaching(hypos, score) == {h \in hypos : h.score >= score}
CoveredIn(classes, c) == {class \in classes : class[1] = c}

\* The rivals of h among the hypotheses C.
RivalsIn(C, h) == Classes(Reaching(C, h.score)) \ {Class(h)}

Stands(s, h) == \E g \in s.m_hypos : Recombine(g, h) /\ g.score >= h.score

\* m_bestScore is what it says, as far as hypotheses have arrived.
BestKnown(s, C) ==
    /\ \A h \in C : h.score <= s.m_bestScore
    /\ C # {} => \E h \in C : h.score = s.m_bestScore
    /\ C = {} => s.m_bestScore < 0
    /\ s.m_worstScore <= s.m_bestScore

\* What is below m_worstScore is outside the beam, or enough others are better.
WorstJustified(s, C) ==
    m_minHypoStackDiversity = 0 =>
        \/ s.m_worstScore < 0
        \/ s.m_worstScore <= s.m_bestScore + m_beamWidth
        \/ Cardinality(Classes(Reaching(C, s.m_worstScore))) >= m_maxHypoStackSize

\* The same for the hypotheses of one coverage.
DiversityJustified(s, C) ==
    \A c \in Covers :
        \/ s.m_diversityWorstScore[c] < 0
        \/ Cardinality(CoveredIn(Classes(Reaching(C, s.m_diversityWorstScore[c])), c))
              >= m_minHypoStackDiversity

TopKept(s, C) ==
    \A h \in C :
        /\ m_minHypoStackDiversity = 0
        /\ h.score > s.m_bestScore + m_beamWidth
        /\ Cardinality(RivalsIn(C, h)) < m_maxHypoStackSize
        => Stands(s, h)

CoversKept(s, C) ==
    \A h \in C :
        Cardinality(CoveredIn(RivalsIn(C, h), h.cover)) < m_minHypoStackDiversity
        => Stands(s, h)

Pruning(s, C) ==
    /\ BestKnown(s, C) /\ WorstJustified(s, C) /\ DiversityJustified(s, C)
    /\ TopKept(s, C) /\ CoversKept(s, C)

Owned(s, C) == Ownership(s, C) /\ Winners(s)

Good(s, C) == s \in Stacks /\ Owned(s, C) /\ Pruning(s, C)

StackInv ==
    /\ setup \in DOMAIN Setups
    /\ created \subseteq Hypothesis /\ IsFiniteSet(created)
    /\ Good(stack, created)

-----------------------------------------------------------------------------
(* Counting                                                                  *)

\* Hypotheses recombine when they are of the same class.
LEMMA RecombineIsClass ==
    ASSUME NEW g, NEW h PROVE Recombine(g, h) <=> Class(g) = Class(h)
BY DEF Recombine, Class

\* Finitely many hypotheses are of finitely many classes.
LEMMA ClassesFinite ==
    ASSUME NEW S, IsFiniteSet(S) PROVE IsFiniteSet(Classes(S))
<1> DEFINE f == [x \in S |-> Class(x)]
<1>1. f \in Surjection(S, Classes(S))
  BY DEF Surjection, Classes
<1> QED BY <1>1, FS_Surjection, Zenon

\* Hypotheses of different classes are no more than those classes.
LEMMA ClassesCount ==
    ASSUME NEW X, NEW Y, IsFiniteSet(Y), Classes(X) \subseteq Y,
           \A x, y \in X : Class(x) = Class(y) => x = y
    PROVE  IsFiniteSet(X) /\ Cardinality(X) <= Cardinality(Y)
<1> DEFINE f == [x \in X |-> Class(x)]
<1>1. f \in Injection(X, Y)
  BY DEF Injection, IsInjective, Classes
<1> QED BY <1>1, FS_Injection, Zenon

\* A part of a finite set is finite and no larger.
LEMMA PartOfFinite ==
    ASSUME NEW S, NEW T, IsFiniteSet(S), T \subseteq S
    PROVE  /\ IsFiniteSet(T) /\ Cardinality(T) \in Nat /\ Cardinality(S) \in Nat
           /\ Cardinality(T) <= Cardinality(S)
<1>1. T \in SUBSET S
  OBVIOUS
<1>2. IsFiniteSet(T) /\ Cardinality(T) <= Cardinality(S)
  BY <1>1, FS_Subset
<1> QED BY <1>2, FS_CardinalityType

\* One more element makes a finite set larger by one at most.
LEMMA OneMore ==
    ASSUME NEW S, IsFiniteSet(S), NEW x
    PROVE  /\ IsFiniteSet(S \cup {x}) /\ Cardinality(S \cup {x}) \in Nat
           /\ Cardinality(S) \in Nat /\ Cardinality(S \cup {x}) <= Cardinality(S) + 1
<1>1. /\ IsFiniteSet(S \cup {x})
      /\ Cardinality(S \cup {x}) = IF x \in S THEN Cardinality(S) ELSE Cardinality(S) + 1
  BY FS_AddElement
<1>2. Cardinality(S) \in Nat
  BY FS_CardinalityType
<1> QED BY <1>1, <1>2

\* WorstOf is the lowest score there is.
LEMMA WorstOfCorrect ==
    ASSUME NEW X, X # {}, \A h \in X : h.score \in Nat
    PROVE  /\ \E h \in X : h.score = WorstOf(X)
           /\ \A h \in X : WorstOf(X) <= h.score
<1> DEFINE S == {h.score : h \in X}
<1>1. S \subseteq Nat /\ S # {}
  OBVIOUS
<1>2. PICK m \in S : \A y \in S : ~(<<y, m>> \in OpToRel(<, Nat))
  BY <1>1, NatLessThanWellFounded, WFMin, Zenon
<1> HIDE DEF S
<1>3. ASSUME NEW y \in S PROVE m <= y
  <2>1. y \in Nat /\ m \in Nat
    BY <1>1
  <2>2. ~(y < m)
    BY <1>2, <2>1 DEF OpToRel
  <2> QED BY <2>1, <2>2
<1>4. Min(S) \in S /\ \A y \in S : Min(S) <= y
  BY <1>3 DEF Min
<1> QED BY <1>4 DEF WorstOf, S

\* The larger of two numbers.
LEMMA LargerOfTwo ==
    ASSUME NEW i \in Int, NEW j \in Int
    PROVE  Max({i, j}) \in {i, j} /\ i <= Max({i, j}) /\ j <= Max({i, j})
<1>1. \E x \in {i, j} : \A y \in {i, j} : x >= y
  OBVIOUS
<1>2. Max({i, j}) \in {i, j} /\ \A y \in {i, j} : Max({i, j}) >= y
  BY <1>1 DEF Max
<1> QED BY <1>2

-----------------------------------------------------------------------------
(* The n best                                                                *)

\* Whatever way ties are sorted, what stays is part of what there was.
LEMMA BestIsPart ==
    ASSUME NEW X, NEW n, NEW B \in Best(X, n) PROVE B \subseteq X
BY DEF Best, kSubset

\* What is among the n best even if it loses every tie stays.
LEMMA BestKeeps ==
    ASSUME NEW X, NEW n, NEW B \in Best(X, n), NEW x \in X,
           Cardinality(Reaching(X, x.score)) <= n
    PROVE  x \in B
BY DEF Best, kSubset, Reaching

\* The none best are none.
LEMMA BestOfNone ==
    ASSUME NEW X, IsFiniteSet(X), NEW B \in Best(X, 0), \A h \in X : h.score \in Int
    PROVE  B = {}
<1>1. CASE Cardinality(X) <= 0
  <2>1. B = X
    BY <1>1 DEF Best
  <2>2. Cardinality(X) \in Nat
    BY FS_CardinalityType
  <2> QED BY <1>1, <2>1, <2>2, FS_EmptySet
<1>2. CASE ~(Cardinality(X) <= 0)
  <2> DEFINE sure == {h \in X : Cardinality({g \in X : g.score >= h.score}) <= 0}
  <2>1. sure = {}
    <3> SUFFICES ASSUME NEW h \in X, Cardinality({g \in X : g.score >= h.score}) <= 0
                 PROVE  FALSE
      OBVIOUS
    <3> DEFINE Y == {g \in X : g.score >= h.score}
    <3>1. IsFiniteSet(Y) /\ Cardinality(Y) \in Nat
      BY PartOfFinite
    <3>2. Y = {}
      BY <3>1, FS_EmptySet
    <3> QED BY <3>2
  <2>2. PICK top : /\ B = sure \cup top
                   /\ Cardinality(top) = 0 - Cardinality(sure) /\ top \subseteq X
    BY <1>2 DEF Best, kSubset
  <2> HIDE DEF sure
  <2>3. Cardinality(top) = 0
    BY <2>1, <2>2, FS_EmptySet
  <2>4. top = {}
    BY <2>2, <2>3, PartOfFinite, FS_EmptySet
  <2> QED BY <2>1, <2>2, <2>4
<1> QED BY <1>1, <1>2

-----------------------------------------------------------------------------
(* Ownership                                                                 *)

\* t is s without the hypotheses D of it, which are freed with their arc lists.
Dropped(s, t, D) ==
    /\ t.m_hypos = s.m_hypos \ D
    /\ t.m_arcList = {arc \in s.m_arcList : arc[1] \notin D}
    /\ t.freed = s.freed \cup D \cup UNION {Arcs(s, h) : h \in D}

\* Dropping hypotheses frees each of them, and each of their arcs, once.
LEMMA DropOwned ==
    ASSUME NEW s, NEW t, NEW C, NEW D, D \subseteq s.m_hypos,
           Owned(s, C), Dropped(s, t, D)
    PROVE  Owned(t, C)
<1> USE DEF Owned
<1> DEFINE F == UNION {Arcs(s, h) : h \in D}
<1>1. Losers(s) = Losers(t) \cup F
  BY DEF Losers, Arcs, Dropped, Ownership
<1>2. Losers(t) \cap F = {}
  <2> SUFFICES ASSUME NEW x \in Losers(t), x \in F PROVE FALSE
    OBVIOUS
  <2>1. PICK a \in s.m_arcList : a[1] \notin D /\ x = a[2]
    BY DEF Losers, Dropped
  <2>2. PICK b \in s.m_arcList : b[1] \in D /\ x = b[2]
    BY DEF Arcs
  <2> QED BY <2>1, <2>2 DEF Ownership
<1> HIDE DEF F
<1>3. C = t.m_hypos \cup Losers(t) \cup t.freed
  BY <1>1 DEF Ownership, Dropped, F
<1>4. /\ t.m_hypos \cap Losers(t) = {}
      /\ t.m_hypos \cap t.freed = {}
      /\ Losers(t) \cap t.freed = {}
  BY <1>1, <1>2 DEF Ownership, Dropped, F
<1>5. \A arc \in t.m_arcList : arc[1] \in t.m_hypos
  BY DEF Ownership, Dropped
<1>6. \A arc, other \in t.m_arcList : arc[2] = other[2] => arc = other
  BY DEF Ownership, Dropped
<1>7. Winners(t)
  BY DEF Winners, Dropped
<1> QED BY <1>3, <1>4, <1>5, <1>6, <1>7 DEF Ownership

\* A new hypothesis that recombines with none becomes one of the stack.
LEMMA InsertOwned ==
    ASSUME NEW s, NEW t, NEW C, NEW h, h \notin C, Owned(s, C),
           \A g \in s.m_hypos : ~Recombine(g, h),
           t.m_hypos = s.m_hypos \cup {h},
           t.m_arcList = s.m_arcList, t.freed = s.freed
    PROVE  Owned(t, C \cup {h})
<1>1. Ownership(t, C \cup {h})
  BY DEF Owned, Ownership, Losers
<1>2. Winners(t)
  BY DEF Owned, Winners, Recombine
<1> QED BY <1>1, <1>2 DEF Owned

\* The better of two that recombine takes over the arcs of the other.
LEMMA ReplaceOwned ==
    ASSUME NEW s, NEW t, NEW C, NEW h, NEW g, h \notin C, Owned(s, C),
           g \in s.m_hypos, Recombine(g, h), h.score > g.score,
           g.score \in Int, h.score \in Int,
           \A arc \in s.m_arcList : arc[2].score \in Int,
           t.m_hypos = (s.m_hypos \ {g}) \cup {h},
           t.m_arcList = {arc \in s.m_arcList : arc[1] # g}
                            \cup {<<h, x>> : x \in Arcs(s, g) \cup {g}},
           t.freed = s.freed
    PROVE  Owned(t, C \cup {h})
<1> USE DEF Owned
<1>1. Losers(t) = Losers(s) \cup {g}
  <2>1. \A x \in Losers(t) : x \in Losers(s) \cup {g}
    BY DEF Losers, Arcs
  <2>2. ASSUME NEW x \in Losers(s) PROVE x \in Losers(t)
    <3>1. PICK arc \in s.m_arcList : x = arc[2]
      BY DEF Losers
    <3>2. CASE arc[1] # g
      BY <3>1, <3>2 DEF Losers
    <3>3. CASE arc[1] = g
      <4>1. x \in Arcs(s, g)
        BY <3>1, <3>3 DEF Arcs
      <4>2. <<h, x>> \in t.m_arcList
        BY <4>1
      <4> QED BY <4>2 DEF Losers
    <3> QED BY <3>2, <3>3
  <2>3. g \in Losers(t)
    <3>1. <<h, g>> \in t.m_arcList
      OBVIOUS
    <3> QED BY <3>1 DEF Losers
  <2> QED BY <2>1, <2>2, <2>3
<1>2. h \notin s.m_hypos /\ h \notin Losers(s) /\ h \notin s.freed
  BY DEF Ownership
<1>3. /\ C \cup {h} = t.m_hypos \cup Losers(t) \cup t.freed
      /\ t.m_hypos \cap Losers(t) = {}
      /\ t.m_hypos \cap t.freed = {}
      /\ Losers(t) \cap t.freed = {}
  BY <1>1, <1>2 DEF Ownership
<1>4. \A arc \in t.m_arcList : arc[1] \in t.m_hypos
  BY DEF Ownership
<1>5. ASSUME NEW x \in Arcs(s, g) \cup {g}, NEW arc \in s.m_arcList, arc[1] # g
      PROVE  arc[2] # x
  BY <1>5 DEF Ownership, Arcs, Losers
<1>6. \A arc, other \in t.m_arcList : arc[2] = other[2] => arc = other
  <2> SUFFICES ASSUME NEW arc \in t.m_arcList, NEW other \in t.m_arcList,
                      arc[2] = other[2]
               PROVE  arc = other
    OBVIOUS
  <2> DEFINE kept(a) == a \in s.m_arcList /\ a[1] # g
             moved(a) == \E x \in Arcs(s, g) \cup {g} : a = <<h, x>>
  <2>1. (kept(arc) \/ moved(arc)) /\ (kept(other) \/ moved(other))
    OBVIOUS
  <2>2. CASE kept(arc) /\ kept(other)
    BY <2>2 DEF Ownership
  <2>3. CASE moved(arc) /\ moved(other)
    BY <2>3
  <2>4. CASE kept(arc) /\ moved(other)
    BY <1>5, <2>4
  <2>5. CASE moved(arc) /\ kept(other)
    BY <1>5, <2>5
  <2> QED BY <2>1, <2>2, <2>3, <2>4, <2>5
<1>7. Winners(t)
  <2>1. \A x, y \in t.m_hypos : Recombine(x, y) => x = y
    BY DEF Winners, Recombine
  <2>2. ASSUME NEW x \in Arcs(s, g) PROVE Recombine(h, x) /\ h.score >= x.score
    <3>1. PICK arc \in s.m_arcList : arc[1] = g /\ arc[2] = x
      BY DEF Arcs
    <3>2. Recombine(g, x) /\ g.score >= x.score /\ x.score \in Int
      BY <3>1 DEF Winners
    <3> QED BY <3>2 DEF Recombine
  <2>3. Recombine(h, g) /\ h.score >= g.score
    BY DEF Recombine
  <2>4. \A arc \in t.m_arcList :
           Recombine(arc[1], arc[2]) /\ arc[1].score >= arc[2].score
    BY <2>2, <2>3 DEF Winners
  <2> QED BY <2>1, <2>4 DEF Winners
<1> QED BY <1>3, <1>4, <1>6, <1>7 DEF Ownership

\* The worse of two that recombine becomes an arc of the other.
LEMMA LoseOwned ==
    ASSUME NEW s, NEW t, NEW C, NEW h, NEW g, h \notin C, Owned(s, C),
           g \in s.m_hypos, Recombine(g, h), ~(h.score > g.score),
           g.score \in Int, h.score \in Int,
           t.m_hypos = s.m_hypos,
           t.m_arcList = {arc \in s.m_arcList : arc[1] # h}
                            \cup {<<g, x>> : x \in Arcs(s, h) \cup {h}},
           t.freed = s.freed
    PROVE  Owned(t, C \cup {h})
<1> USE DEF Owned
<1>1. h \notin s.m_hypos /\ h \notin Losers(s) /\ h \notin s.freed
  BY DEF Ownership
<1>2. Arcs(s, h) = {} /\ {arc \in s.m_arcList : arc[1] # h} = s.m_arcList
  BY <1>1 DEF Arcs, Ownership
<1>3. t.m_arcList = s.m_arcList \cup {<<g, h>>}
  BY <1>2
<1>4. Losers(t) = Losers(s) \cup {h}
  <2>1. \A x \in Losers(t) : x \in Losers(s) \cup {h}
    BY <1>3 DEF Losers
  <2>2. \A x \in Losers(s) : x \in Losers(t)
    BY <1>3 DEF Losers
  <2>3. h \in Losers(t)
    <3>1. <<g, h>> \in t.m_arcList
      BY <1>3
    <3> QED BY <3>1 DEF Losers
  <2> QED BY <2>1, <2>2, <2>3
<1>5. Ownership(t, C \cup {h})
  BY <1>1, <1>3, <1>4 DEF Ownership, Losers
<1>6. Winners(t)
  BY <1>3 DEF Winners
<1> QED BY <1>5, <1>6

\* A new hypothesis that is not wanted is freed; it has no arcs.
LEMMA DiscardOwned ==
    ASSUME NEW s, NEW t, NEW C, NEW h, h \notin C, Owned(s, C),
           t.m_hypos = s.m_hypos,
           t.m_arcList = {arc \in s.m_arcList : arc[1] \notin {h}},
           t.freed = s.freed \cup {h} \cup UNION {Arcs(s, x) : x \in {h}}
    PROVE  Owned(t, C \cup {h})
<1> USE DEF Owned
<1>1. h \notin s.m_hypos /\ h \notin Losers(s) /\ h \notin s.freed
  BY DEF Ownership
<1>2. Arcs(s, h) = {} /\ t.m_arcList = s.m_arcList
  BY <1>1 DEF Arcs, Ownership
<1>3. Losers(t) = Losers(s) /\ t.freed = s.freed \cup {h}
  BY <1>2 DEF Losers
<1>4. Ownership(t, C \cup {h})
  BY <1>1, <1>2, <1>3 DEF Ownership
<1>5. Winners(t)
  BY <1>2 DEF Winners
<1> QED BY <1>4, <1>5

\* Cutting the arc lists frees what is cut off: losers have no arcs of their own.
LEMMA CutOwned ==
    ASSUME NEW s, NEW t, NEW C, NEW keep, keep \subseteq s.m_arcList, Owned(s, C),
           t.m_hypos = s.m_hypos, t.m_arcList = keep,
           t.freed = s.freed \cup {arc[2] : arc \in s.m_arcList \ keep}
                        \cup UNION {Arcs(s, x) : x \in {arc[2] : arc \in s.m_arcList \ keep}}
    PROVE  Owned(t, C)
<1> USE DEF Owned
<1> DEFINE cut == {arc[2] : arc \in s.m_arcList \ keep}
<1>1. \A x \in cut : Arcs(s, x) = {}
  BY DEF Arcs, Ownership, Losers
<1>2. t.freed = s.freed \cup cut
  BY <1>1
<1>3. Losers(s) = Losers(t) \cup cut
  BY DEF Losers
<1>4. Losers(t) \cap cut = {}
  BY DEF Losers, Ownership
<1> HIDE DEF cut
<1>5. Ownership(t, C)
  BY <1>2, <1>3, <1>4 DEF Ownership
<1>6. Winners(t)
  BY DEF Winners
<1> QED BY <1>5, <1>6

-----------------------------------------------------------------------------
(* What pruning keeps                                                        *)

\* The command line is in range.
LEMMA OptionsTyped ==
    ASSUME setup \in DOMAIN Setups
    PROVE  /\ m_maxHypoStackSize \in Nat /\ m_maxHypoStackSize > 0
           /\ m_minHypoStackDiversity \in Nat
           /\ m_beamWidth \in Int /\ m_beamWidth <= 0
           /\ NegInfinity \in Int /\ NegInfinity < 0
<1>1. Options \in SetupType
  BY StackAssumption DEF Options
<1>2. Options.beamWidth \in Nat
  BY <1>1 DEF SetupType
<1>3. Options.maxHypoStackSize \in Nat \ {0} /\ Options.minHypoStackDiversity \in Nat
  BY <1>1 DEF SetupType
<1> QED BY <1>2, <1>3 DEF m_maxHypoStackSize, m_minHypoStackDiversity, m_beamWidth, NegInfinity

\* Hypotheses have a coverage and a score that is not negative.
LEMMA HypothesisTyped ==
    ASSUME NEW h \in Hypothesis PROVE h.cover \in Covers /\ h.score \in Nat
BY StackAssumption DEF Hypothesis

\* With more hypotheses offered, a score is reached by no fewer classes.
LEMMA MoreReach ==
    ASSUME NEW C, NEW D, C \subseteq D, IsFiniteSet(D), NEW n, NEW c
    PROVE  /\ Cardinality(Classes(Reaching(C, n))) \in Nat
           /\ Cardinality(Classes(Reaching(D, n))) \in Nat
           /\ Cardinality(Classes(Reaching(C, n))) <= Cardinality(Classes(Reaching(D, n)))
           /\ Cardinality(CoveredIn(Classes(Reaching(C, n)), c)) \in Nat
           /\ Cardinality(CoveredIn(Classes(Reaching(D, n)), c)) \in Nat
           /\ Cardinality(CoveredIn(Classes(Reaching(C, n)), c))
                 <= Cardinality(CoveredIn(Classes(Reaching(D, n)), c))
<1> DEFINE P == Classes(Reaching(C, n))
           Q == Classes(Reaching(D, n))
<1>1. IsFiniteSet(Q)
  <2>1. IsFiniteSet(Reaching(D, n))
    BY PartOfFinite DEF Reaching
  <2> QED BY <2>1, ClassesFinite
<1>2. P \subseteq Q
  BY DEF Classes, Reaching
<1> HIDE DEF P, Q
<1>3. CoveredIn(P, c) \subseteq CoveredIn(Q, c) /\ CoveredIn(Q, c) \subseteq Q
  BY <1>2 DEF CoveredIn
<1>4. IsFiniteSet(CoveredIn(Q, c))
  BY <1>1, <1>3, PartOfFinite
<1>5. /\ Cardinality(P) \in Nat /\ Cardinality(Q) \in Nat /\ Cardinality(P) <= Cardinality(Q)
  BY <1>1, <1>2, PartOfFinite
<1>6. /\ Cardinality(CoveredIn(P, c)) \in Nat /\ Cardinality(CoveredIn(Q, c)) \in Nat
      /\ Cardinality(CoveredIn(P, c)) <= Cardinality(CoveredIn(Q, c))
  BY <1>3, <1>4, PartOfFinite
<1> QED BY <1>5, <1>6 DEF P, Q

\* One of a class, offered with more others, has no fewer rivals than a better
\* one of its class had.
LEMMA MoreRivals ==
    ASSUME NEW C, NEW D, C \subseteq D, IsFiniteSet(D), NEW x, NEW y, NEW c,
           Class(x) = Class(y), x.score \in Int, y.score \in Int, x.score >= y.score,
           \A z \in D : z.score \in Int
    PROVE  /\ IsFiniteSet(RivalsIn(D, y)) /\ IsFiniteSet(CoveredIn(RivalsIn(D, y), c))
           /\ Cardinality(RivalsIn(C, x)) \in Nat
           /\ Cardinality(RivalsIn(D, y)) \in Nat
           /\ Cardinality(RivalsIn(C, x)) <= Cardinality(RivalsIn(D, y))
           /\ Cardinality(CoveredIn(RivalsIn(C, x), c)) \in Nat
           /\ Cardinality(CoveredIn(RivalsIn(D, y), c)) \in Nat
           /\ Cardinality(CoveredIn(RivalsIn(C, x), c))
                 <= Cardinality(CoveredIn(RivalsIn(D, y), c))
<1>1. IsFiniteSet(RivalsIn(D, y))
  <2>1. IsFiniteSet(Reaching(D, y.score))
    BY PartOfFinite DEF Reaching
  <2>2. IsFiniteSet(Classes(Reaching(D, y.score)))
    BY <2>1, ClassesFinite
  <2> QED BY <2>2, PartOfFinite DEF RivalsIn
<1>2. RivalsIn(C, x) \subseteq RivalsIn(D, y)
  <2>1. Reaching(C, x.score) \subseteq Reaching(D, y.score)
    BY DEF Reaching
  <2>2. Classes(Reaching(C, x.score)) \subseteq Classes(Reaching(D, y.score))
    BY <2>1 DEF Classes
  <2> QED BY <2>2 DEF RivalsIn
<1> DEFINE P == RivalsIn(C, x)
           Q == RivalsIn(D, y)
<1> HIDE DEF P, Q
<1>3. CoveredIn(P, c) \subseteq CoveredIn(Q, c) /\ CoveredIn(Q, c) \subseteq Q
  BY <1>2 DEF CoveredIn, P, Q
<1>4. IsFiniteSet(CoveredIn(Q, c))
  BY <1>1, <1>3, PartOfFinite DEF Q
<1>5. /\ Cardinality(P) \in Nat /\ Cardinality(Q) \in Nat /\ Cardinality(P) <= Cardinality(Q)
  BY <1>1, <1>2, PartOfFinite DEF P, Q
<1>6. /\ Cardinality(CoveredIn(P, c)) \in Nat /\ Cardinality(CoveredIn(Q, c)) \in Nat
      /\ Cardinality(CoveredIn(P, c)) <= Cardinality(CoveredIn(Q, c))
  BY <1>3, <1>4, PartOfFinite
<1> QED BY <1>1, <1>4, <1>5, <1>6 DEF P, Q

\* A hypothesis that was let in stands for itself; nothing else changes for the
\* others, whose rivals can only have become more.
LEMMA AcceptPruning ==
    ASSUME setup \in DOMAIN Setups,
           NEW s \in Stacks, NEW t \in Stacks, NEW C \in SUBSET Hypothesis,
           IsFiniteSet(C), NEW h \in Hypothesis, Pruning(s, C),
           \A x \in C : Stands(s, x) => Stands(t, x),
           Stands(t, h),
           \/ /\ h.score <= s.m_bestScore
              /\ t.m_bestScore = s.m_bestScore /\ t.m_worstScore = s.m_worstScore
           \/ /\ h.score > s.m_bestScore
              /\ t.m_bestScore = h.score
              /\ t.m_worstScore = Max({s.m_worstScore, h.score + m_beamWidth}),
           \A c \in Covers :
              \/ t.m_diversityWorstScore[c] = s.m_diversityWorstScore[c]
              \/ /\ m_minHypoStackDiversity = 1 /\ c = h.cover
                 /\ t.m_diversityWorstScore[c] = h.score
    PROVE  Pruning(t, C \cup {h})
<1> DEFINE D == C \cup {h}
<1>1. IsFiniteSet(D) /\ C \subseteq D /\ D \subseteq Hypothesis
  BY FS_AddElement
<1>2. /\ m_maxHypoStackSize \in Nat /\ m_minHypoStackDiversity \in Nat
      /\ m_beamWidth \in Int /\ m_beamWidth <= 0
  BY OptionsTyped
<1>3. /\ s.m_bestScore \in Int /\ s.m_worstScore \in Int
      /\ t.m_bestScore \in Int /\ t.m_worstScore \in Int
      /\ \A c \in Covers :
            s.m_diversityWorstScore[c] \in Int /\ t.m_diversityWorstScore[c] \in Int
  BY DEF Stacks
<1>4. \A x \in D : x.score \in Nat /\ x.cover \in Covers
  BY <1>1, HypothesisTyped
<1>5. h.score \in Nat /\ h.score + m_beamWidth \in Int
  BY <1>2, <1>4
<1> HIDE DEF D
<1>6. BestKnown(t, D)
  <2>1. CASE h.score <= s.m_bestScore
    <3>1. t.m_bestScore = s.m_bestScore /\ t.m_worstScore = s.m_worstScore
      BY <1>3, <1>5, <2>1
    <3>2. C # {}
      BY <1>3, <1>5, <2>1 DEF Pruning, BestKnown
    <3> QED BY <2>1, <3>1, <3>2 DEF Pruning, BestKnown, D
  <2>2. CASE h.score > s.m_bestScore
    <3>1. /\ t.m_bestScore = h.score
          /\ t.m_worstScore = Max({s.m_worstScore, h.score + m_beamWidth})
      BY <1>3, <1>5, <2>2
    <3>2. t.m_worstScore \in {s.m_worstScore, h.score + m_beamWidth}
      BY <1>3, <1>5, <3>1, LargerOfTwo
    <3>3. t.m_worstScore <= t.m_bestScore
      BY <1>2, <1>3, <1>5, <2>2, <3>1, <3>2 DEF Pruning, BestKnown
    <3>4. \A x \in C : x.score <= t.m_bestScore
      BY <1>1, <1>3, <1>4, <1>5, <2>2, <3>1 DEF Pruning, BestKnown
    <3> QED BY <1>5, <3>1, <3>3, <3>4 DEF BestKnown, D
  <2> QED BY <1>3, <1>5, <2>1, <2>2
<1>7. s.m_bestScore <= t.m_bestScore
  BY <1>3, <1>5
<1>8. WorstJustified(t, D)
  <2>1. CASE h.score <= s.m_bestScore
    <3>1. t.m_bestScore = s.m_bestScore /\ t.m_worstScore = s.m_worstScore
      BY <1>3, <1>5, <2>1
    <3>2. /\ Cardinality(Classes(Reaching(C, s.m_worstScore))) \in Nat
          /\ Cardinality(Classes(Reaching(D, s.m_worstScore))) \in Nat
          /\ Cardinality(Classes(Reaching(C, s.m_worstScore)))
                <= Cardinality(Classes(Reaching(D, s.m_worstScore)))
      BY <1>1, MoreReach
    <3> QED BY <1>2, <3>1, <3>2 DEF Pruning, WorstJustified
  <2>2. CASE h.score > s.m_bestScore
    <3>0. /\ t.m_bestScore = h.score
          /\ t.m_worstScore = Max({s.m_worstScore, h.score + m_beamWidth})
      BY <1>3, <1>5, <2>2
    <3>1. /\ t.m_bestScore = h.score
          /\ t.m_worstScore \in {s.m_worstScore, h.score + m_beamWidth}
      BY <1>3, <1>5, <3>0, LargerOfTwo
    <3>2. CASE t.m_worstScore = s.m_worstScore
      <4>1. /\ Cardinality(Classes(Reaching(C, s.m_worstScore))) \in Nat
            /\ Cardinality(Classes(Reaching(D, s.m_worstScore))) \in Nat
            /\ Cardinality(Classes(Reaching(C, s.m_worstScore)))
                  <= Cardinality(Classes(Reaching(D, s.m_worstScore)))
        BY <1>1, MoreReach
      <4> QED BY <1>2, <1>3, <1>7, <3>2, <4>1 DEF Pruning, WorstJustified
    <3>3. CASE t.m_worstScore = h.score + m_beamWidth
      BY <1>2, <1>5, <3>1, <3>3 DEF WorstJustified
    <3> QED BY <3>1, <3>2, <3>3
  <2> QED BY <1>3, <1>5, <2>1, <2>2
<1>9. DiversityJustified(t, D)
  <2> SUFFICES ASSUME NEW c \in Covers
               PROVE  \/ t.m_diversityWorstScore[c] < 0
                      \/ Cardinality(CoveredIn(
                            Classes(Reaching(D, t.m_diversityWorstScore[c])), c))
                            >= m_minHypoStackDiversity
    BY DEF DiversityJustified
  <2>1. CASE t.m_diversityWorstScore[c] = s.m_diversityWorstScore[c]
    <3> DEFINE n == s.m_diversityWorstScore[c]
    <3>1. /\ Cardinality(CoveredIn(Classes(Reaching(C, n)), c)) \in Nat
          /\ Cardinality(CoveredIn(Classes(Reaching(D, n)), c)) \in Nat
          /\ Cardinality(CoveredIn(Classes(Reaching(C, n)), c))
                <= Cardinality(CoveredIn(Classes(Reaching(D, n)), c))
      BY <1>1, MoreReach
    <3>2. \/ n < 0
          \/ Cardinality(CoveredIn(Classes(Reaching(C, n)), c)) >= m_minHypoStackDiversity
      BY DEF Pruning, DiversityJustified
    <3> QED BY <1>2, <2>1, <3>1, <3>2
  <2>2. CASE /\ m_minHypoStackDiversity = 1 /\ c = h.cover
             /\ t.m_diversityWorstScore[c] = h.score
    <3> DEFINE L == Classes(Reaching(D, h.score))
               K == CoveredIn(L, c)
    <3>1. Class(h) \in K
      BY <1>5, <2>2 DEF CoveredIn, Classes, Reaching, Class, D
    <3>2. IsFiniteSet(K)
      <4>1. IsFiniteSet(Reaching(D, h.score))
        BY <1>1, PartOfFinite DEF Reaching
      <4>2. IsFiniteSet(L)
        BY <4>1, ClassesFinite
      <4> HIDE DEF L
      <4>3. K \subseteq L
        BY DEF CoveredIn
      <4> QED BY <4>2, <4>3, PartOfFinite
    <3> HIDE DEF K
    <3>3. Cardinality(K) \in Nat /\ Cardinality(K) # 0
      BY <3>1, <3>2, FS_EmptySet, FS_CardinalityType
    <3> QED BY <2>2, <3>3 DEF K
  <2> QED BY <2>1, <2>2
<1>10. ASSUME NEW x \in C, NEW c
       PROVE  /\ Cardinality(RivalsIn(C, x)) \in Nat
              /\ Cardinality(RivalsIn(D, x)) \in Nat
              /\ Cardinality(RivalsIn(C, x)) <= Cardinality(RivalsIn(D, x))
              /\ Cardinality(CoveredIn(RivalsIn(C, x), c)) \in Nat
              /\ Cardinality(CoveredIn(RivalsIn(D, x), c)) \in Nat
              /\ Cardinality(CoveredIn(RivalsIn(C, x), c))
                    <= Cardinality(CoveredIn(RivalsIn(D, x), c))
  <2>1. x.score \in Int /\ x.score >= x.score /\ \A z \in D : z.score \in Int
    BY <1>1, <1>4
  <2> QED BY <1>1, <2>1, MoreRivals
<1>11. TopKept(t, D)
  <2> SUFFICES ASSUME NEW x \in D, m_minHypoStackDiversity = 0,
                      x.score > t.m_bestScore + m_beamWidth,
                      Cardinality(RivalsIn(D, x)) < m_maxHypoStackSize
               PROVE  Stands(t, x)
    BY DEF TopKept
  <2>1. CASE x \in C
    <3>1. Cardinality(RivalsIn(C, x)) < m_maxHypoStackSize
      BY <1>2, <1>10, <2>1
    <3>2. x.score > s.m_bestScore + m_beamWidth
      BY <1>2, <1>3, <1>4, <1>7
    <3> QED BY <2>1, <3>1, <3>2 DEF Pruning, TopKept
  <2> QED BY <2>1 DEF D
<1>12. CoversKept(t, D)
  <2> SUFFICES ASSUME NEW x \in D,
                      Cardinality(CoveredIn(RivalsIn(D, x), x.cover))
                         < m_minHypoStackDiversity
               PROVE  Stands(t, x)
    BY DEF CoversKept
  <2>1. CASE x \in C
    <3>1. Cardinality(CoveredIn(RivalsIn(C, x), x.cover)) < m_minHypoStackDiversity
      BY <1>2, <1>10, <2>1
    <3> QED BY <2>1, <3>1 DEF Pruning, CoversKept
  <2> QED BY <2>1 DEF D
<1> QED BY <1>6, <1>8, <1>9, <1>11, <1>12 DEF Pruning, D

\* If the classes K, all among those that reach h's score, leave too few for h to
\* have so many rivals, its own class is among them.
LEMMA OwnClass ==
    ASSUME NEW K, NEW R, NEW class, IsFiniteSet(R), NEW n \in Nat,
           K \ {class} \subseteq R, Cardinality(R) < n, Cardinality(K) >= n
    PROVE  class \in K
<1> SUFFICES ASSUME class \notin K PROVE FALSE
  OBVIOUS
<1>1. K \subseteq R
  OBVIOUS
<1>2. Cardinality(K) <= Cardinality(R) /\ Cardinality(K) \in Nat /\ Cardinality(R) \in Nat
  BY <1>1, PartOfFinite
<1> QED BY <1>2

\* A hypothesis that was discarded is outside the beam, or has its rivals, or is
\* represented by a better one of its class.
LEMMA DiscardPruning ==
    ASSUME setup \in DOMAIN Setups,
           NEW s \in Stacks, NEW t \in Stacks, NEW C \in SUBSET Hypothesis,
           IsFiniteSet(C), NEW h \in Hypothesis, Pruning(s, C), TooBad(s, h),
           t.m_hypos = s.m_hypos, t.m_bestScore = s.m_bestScore,
           t.m_worstScore = s.m_worstScore,
           t.m_diversityWorstScore = s.m_diversityWorstScore
    PROVE  Pruning(t, C \cup {h})
<1> DEFINE D == C \cup {h}
<1>1. IsFiniteSet(D) /\ C \subseteq D /\ D \subseteq Hypothesis
  BY FS_AddElement
<1>2. /\ m_maxHypoStackSize \in Nat /\ m_minHypoStackDiversity \in Nat
      /\ m_beamWidth \in Int /\ m_beamWidth <= 0
  BY OptionsTyped
<1>3. /\ s.m_bestScore \in Int /\ s.m_worstScore \in Int
      /\ \A c \in Covers : s.m_diversityWorstScore[c] \in Int
  BY DEF Stacks
<1>4. \A x \in D : x.score \in Nat /\ x.cover \in Covers
  BY <1>1, HypothesisTyped
<1>5. h \in D /\ h.score \in Nat /\ h.cover \in Covers
  BY <1>4
<1>6. h.score < s.m_worstScore
  BY DEF TooBad
<1> HIDE DEF D
<1>7. BestKnown(t, D)
  <2>1. h.score <= s.m_bestScore /\ C # {}
    BY <1>3, <1>5, <1>6 DEF Pruning, BestKnown
  <2> QED BY <2>1 DEF Pruning, BestKnown, D
<1>8. ASSUME NEW n, NEW c
      PROVE  /\ Cardinality(Classes(Reaching(C, n))) \in Nat
             /\ Cardinality(Classes(Reaching(D, n))) \in Nat
             /\ Cardinality(Classes(Reaching(C, n))) <= Cardinality(Classes(Reaching(D, n)))
             /\ Cardinality(CoveredIn(Classes(Reaching(C, n)), c)) \in Nat
             /\ Cardinality(CoveredIn(Classes(Reaching(D, n)), c)) \in Nat
             /\ Cardinality(CoveredIn(Classes(Reaching(C, n)), c))
                   <= Cardinality(CoveredIn(Classes(Reaching(D, n)), c))
  BY <1>1, MoreReach
<1>9. WorstJustified(t, D)
  BY <1>2, <1>8 DEF Pruning, WorstJustified
<1>10. DiversityJustified(t, D)
  BY <1>2, <1>8 DEF Pruning, DiversityJustified
<1>11. ASSUME NEW x \in C, NEW y \in D, NEW c, Class(x) = Class(y), x.score >= y.score
       PROVE  /\ Cardinality(RivalsIn(C, x)) \in Nat
              /\ Cardinality(RivalsIn(D, y)) \in Nat
              /\ Cardinality(RivalsIn(C, x)) <= Cardinality(RivalsIn(D, y))
              /\ Cardinality(CoveredIn(RivalsIn(C, x), c)) \in Nat
              /\ Cardinality(CoveredIn(RivalsIn(D, y), c)) \in Nat
              /\ Cardinality(CoveredIn(RivalsIn(C, x), c))
                    <= Cardinality(CoveredIn(RivalsIn(D, y), c))
  <2>1. x.score \in Int /\ y.score \in Int /\ \A z \in D : z.score \in Int
    BY <1>1, <1>4
  <2> QED BY <1>1, <1>11, <2>1, MoreRivals
<1>12. ASSUME NEW n \in Int, h.score < n
       PROVE  /\ Classes(Reaching(C, n)) \ {Class(h)} \subseteq RivalsIn(D, h)
              /\ IsFiniteSet(RivalsIn(D, h))
  <2>1. Reaching(C, n) \subseteq Reaching(D, h.score)
    BY <1>1, <1>4, <1>5, <1>12 DEF Reaching
  <2>2. h.score >= h.score /\ \A z \in D : z.score \in Int
    BY <1>4, <1>5
  <2>3. IsFiniteSet(RivalsIn(D, h))
    BY <1>1, <1>5, <2>2, MoreRivals
  <2> QED BY <2>1, <2>3 DEF RivalsIn, Classes
<1>13. ASSUME NEW n \in Int, h.score < n, Class(h) \in Classes(Reaching(C, n))
       PROVE  \E f \in C : Class(f) = Class(h) /\ f.score >= h.score /\ f.score >= n
  <2>1. PICK f \in C : f.score >= n /\ Class(f) = Class(h)
    BY <1>13 DEF Classes, Reaching
  <2> QED BY <1>1, <1>4, <1>5, <1>13, <2>1
<1>14. ASSUME NEW f \in C, Class(f) = Class(h), f.score >= h.score, Stands(s, f)
       PROVE  Stands(t, h)
  <2>1. PICK g \in s.m_hypos : Recombine(g, f) /\ g.score >= f.score
    BY <1>14 DEF Stands
  <2>2. g.score \in Int /\ f.score \in Int
    BY <1>1, <1>4, HypothesisTyped DEF Stacks
  <2>3. Recombine(g, h)
    BY <1>14, <2>1, RecombineIsClass
  <2> QED BY <1>5, <1>14, <2>1, <2>2, <2>3 DEF Stands
<1>15. TopKept(t, D)
  <2> SUFFICES ASSUME NEW x \in D, m_minHypoStackDiversity = 0,
                      x.score > s.m_bestScore + m_beamWidth,
                      Cardinality(RivalsIn(D, x)) < m_maxHypoStackSize
               PROVE  Stands(t, x)
    BY DEF TopKept
  <2>1. CASE x \in C
    <3>1. x.score >= x.score
      BY <1>4
    <3>2. Cardinality(RivalsIn(C, x)) < m_maxHypoStackSize
      BY <1>2, <1>11, <2>1, <3>1
    <3>3. Stands(s, x)
      BY <2>1, <3>2 DEF Pruning, TopKept
    <3> QED BY <3>3 DEF Stands
  <2>2. CASE x = h
    <3> DEFINE n == s.m_worstScore
    <3>1. Cardinality(Classes(Reaching(C, n))) >= m_maxHypoStackSize
      <4>1. ~(n < 0) /\ ~(n <= s.m_bestScore + m_beamWidth)
        BY <1>2, <1>3, <1>5, <1>6, <2>2
      <4> QED BY <4>1 DEF Pruning, WorstJustified
    <3>2. Class(h) \in Classes(Reaching(C, n))
      BY <1>2, <1>3, <1>6, <1>12, <2>2, <3>1, OwnClass
    <3>3. PICK f \in C : Class(f) = Class(h) /\ f.score >= h.score /\ f.score >= n
      BY <1>3, <1>6, <1>13, <3>2
    <3>4. f.score > s.m_bestScore + m_beamWidth
      BY <1>1, <1>2, <1>3, <1>4, <1>5, <2>2, <3>3
    <3>5. Cardinality(RivalsIn(C, f)) < m_maxHypoStackSize
      BY <1>2, <1>5, <1>11, <2>2, <3>3
    <3>6. Stands(s, f)
      BY <3>4, <3>5 DEF Pruning, TopKept
    <3> QED BY <1>14, <2>2, <3>3, <3>6
  <2> QED BY <2>1, <2>2 DEF D
<1>16. CoversKept(t, D)
  <2> SUFFICES ASSUME NEW x \in D,
                      Cardinality(CoveredIn(RivalsIn(D, x), x.cover))
                         < m_minHypoStackDiversity
               PROVE  Stands(t, x)
    BY DEF CoversKept
  <2>1. CASE x \in C
    <3>1. x.score >= x.score
      BY <1>4
    <3>2. Cardinality(CoveredIn(RivalsIn(C, x), x.cover)) < m_minHypoStackDiversity
      BY <1>2, <1>11, <2>1, <3>1
    <3>3. Stands(s, x)
      BY <2>1, <3>2 DEF Pruning, CoversKept
    <3> QED BY <3>3 DEF Stands
  <2>2. CASE x = h
    <3> DEFINE c == h.cover
               n == s.m_diversityWorstScore[c]
    <3>0. n \in Int
      BY <1>3, <1>5
    <3>1. h.score < n
      <4>1. m_minHypoStackDiversity > 0
        <5>1. h.score >= h.score /\ h.score \in Int /\ \A z \in D : z.score \in Int
          BY <1>4, <1>5
        <5>2. Cardinality(CoveredIn(RivalsIn(D, h), c)) \in Nat
          BY <1>1, <1>5, <5>1, MoreRivals
        <5> QED BY <1>2, <2>2, <5>2
      <4> QED BY <1>5, <3>0, <4>1 DEF TooBad
    <3>2. Cardinality(CoveredIn(Classes(Reaching(C, n)), c)) >= m_minHypoStackDiversity
      <4>1. ~(n < 0)
        BY <1>5, <3>0, <3>1
      <4> QED BY <1>5, <4>1 DEF Pruning, DiversityJustified
    <3>3. Class(h) \in CoveredIn(Classes(Reaching(C, n)), c)
      <4>1. /\ CoveredIn(Classes(Reaching(C, n)), c) \ {Class(h)}
                  \subseteq CoveredIn(RivalsIn(D, h), c)
            /\ IsFiniteSet(CoveredIn(RivalsIn(D, h), c))
        <5>1. /\ Classes(Reaching(C, n)) \ {Class(h)} \subseteq RivalsIn(D, h)
              /\ IsFiniteSet(RivalsIn(D, h))
          BY <1>12, <3>0, <3>1
        <5>2. CoveredIn(RivalsIn(D, h), c) \subseteq RivalsIn(D, h)
          BY DEF CoveredIn
        <5>3. IsFiniteSet(CoveredIn(RivalsIn(D, h), c))
          BY <5>1, <5>2, PartOfFinite
        <5> QED BY <5>1, <5>3 DEF CoveredIn
      <4> QED BY <1>2, <2>2, <3>2, <4>1, OwnClass
    <3>4. PICK f \in C : Class(f) = Class(h) /\ f.score >= h.score /\ f.score >= n
      BY <1>13, <3>0, <3>1, <3>3 DEF CoveredIn
    <3>5. Cardinality(CoveredIn(RivalsIn(C, f), f.cover)) < m_minHypoStackDiversity
      <4>1. f.cover = h.cover
        BY <3>4 DEF Class
      <4> QED BY <1>2, <1>5, <1>11, <2>2, <3>4, <4>1
    <3>6. Stands(s, f)
      BY <3>5 DEF Pruning, CoversKept
    <3> QED BY <1>14, <2>2, <3>4, <3>6
  <2> QED BY <2>1, <2>2 DEF D
<1> QED BY <1>7, <1>9, <1>10, <1>15, <1>16 DEF Pruning, D

\* Hypotheses of a stack are of different classes, all of them offered ones'.
LEMMA StackClasses ==
    ASSUME NEW s, NEW C, IsFiniteSet(C), s.m_hypos \subseteq C, Winners(s),
           NEW X \in SUBSET s.m_hypos, NEW n, \A x \in X : x.score >= n
    PROVE  /\ IsFiniteSet(X) /\ Cardinality(X) \in Nat
           /\ Cardinality(X) <= Cardinality(Classes(Reaching(C, n)))
           /\ \A c : (\A x \in X : x.cover = c) =>
                 Cardinality(X) <= Cardinality(CoveredIn(Classes(Reaching(C, n)), c))
<1>1. \A x, y \in X : Class(x) = Class(y) => x = y
  BY RecombineIsClass DEF Winners
<1> DEFINE L == Classes(Reaching(C, n))
<1>2. Classes(X) \subseteq L
  BY DEF Classes, Reaching
<1>3. ASSUME NEW c, \A x \in X : x.cover = c PROVE Classes(X) \subseteq CoveredIn(L, c)
  BY <1>2, <1>3 DEF Classes, Class, CoveredIn
<1>4. IsFiniteSet(L)
  <2>1. IsFiniteSet(Reaching(C, n))
    BY PartOfFinite DEF Reaching
  <2> QED BY <2>1, ClassesFinite
<1> HIDE DEF L
<1>5. ASSUME NEW c PROVE IsFiniteSet(CoveredIn(L, c))
  BY <1>4, PartOfFinite DEF CoveredIn
<1>6. IsFiniteSet(X) /\ Cardinality(X) <= Cardinality(L)
  BY <1>1, <1>2, <1>4, ClassesCount
<1>7. ASSUME NEW c, \A x \in X : x.cover = c
      PROVE  Cardinality(X) <= Cardinality(CoveredIn(L, c))
  BY <1>1, <1>3, <1>5, <1>7, ClassesCount
<1>8. Cardinality(X) \in Nat
  BY <1>6, FS_CardinalityType
<1> QED BY <1>6, <1>7, <1>8 DEF L

\* Those of a stack that are as good as x, whatever X they are sought among, are
\* x's rivals and the one that stands for x.
LEMMA RankOfStanding ==
    ASSUME NEW C, IsFiniteSet(C), C \subseteq Hypothesis, NEW s, s.m_hypos \subseteq C,
           Winners(s), NEW x \in C, NEW g \in s.m_hypos, Recombine(g, x),
           g.score >= x.score, NEW X \in SUBSET s.m_hypos
    PROVE  /\ Cardinality(Reaching(X, g.score)) \in Nat
           /\ Cardinality(RivalsIn(C, x)) \in Nat
           /\ Cardinality(Reaching(X, g.score)) <= Cardinality(RivalsIn(C, x)) + 1
           /\ Cardinality(CoveredIn(RivalsIn(C, x), x.cover)) \in Nat
           /\ (\A y \in X : y.cover = x.cover) =>
                 Cardinality(Reaching(X, g.score))
                    <= Cardinality(CoveredIn(RivalsIn(C, x), x.cover)) + 1
<1>1. \A z \in C : z.score \in Int /\ z.score >= z.score
  BY HypothesisTyped
<1> DEFINE R == RivalsIn(C, x)
           K == CoveredIn(R, x.cover)
           Y == Reaching(X, g.score)
<1>2. IsFiniteSet(R) /\ IsFiniteSet(K) /\ Cardinality(R) \in Nat /\ Cardinality(K) \in Nat
  BY <1>1, MoreRivals
<1>3. \A y, z \in Y : Class(y) = Class(z) => y = z
  BY RecombineIsClass DEF Winners, Reaching
<1>4. Classes(Y) \subseteq R \cup {Class(x)}
  <2> SUFFICES ASSUME NEW y \in Y PROVE Class(y) \in R \cup {Class(x)}
    BY DEF Classes
  <2>1. y \in C /\ y.score >= x.score
    BY <1>1 DEF Reaching
  <2> QED BY <2>1 DEF RivalsIn, Classes, Reaching
<1>5. ASSUME \A y \in X : y.cover = x.cover PROVE Classes(Y) \subseteq K \cup {Class(x)}
  BY <1>4, <1>5 DEF CoveredIn, Class, Classes, Reaching
<1> HIDE DEF R, K, Y
<1>6. /\ IsFiniteSet(R \cup {Class(x)}) /\ IsFiniteSet(K \cup {Class(x)})
      /\ Cardinality(R \cup {Class(x)}) <= Cardinality(R) + 1
      /\ Cardinality(K \cup {Class(x)}) <= Cardinality(K) + 1
      /\ Cardinality(R \cup {Class(x)}) \in Nat /\ Cardinality(K \cup {Class(x)}) \in Nat
  BY <1>2, OneMore
<1>7. IsFiniteSet(Y) /\ Cardinality(Y) <= Cardinality(R \cup {Class(x)})
  BY <1>3, <1>4, <1>6, ClassesCount
<1>8. Cardinality(Y) \in Nat
  BY <1>7, FS_CardinalityType
<1>9. ASSUME \A y \in X : y.cover = x.cover
      PROVE  Cardinality(Y) <= Cardinality(K \cup {Class(x)})
  BY <1>3, <1>5, <1>6, <1>9, ClassesCount
<1>10. /\ Cardinality(Y) <= Cardinality(R) + 1
       /\ (\A y \in X : y.cover = x.cover) => Cardinality(Y) <= Cardinality(K) + 1
  <2>1. Cardinality(Y) <= Cardinality(R) + 1
    BY <1>2, <1>6, <1>7, <1>8
  <2>2. ASSUME \A y \in X : y.cover = x.cover PROVE Cardinality(Y) <= Cardinality(K) + 1
    BY <1>2, <1>6, <1>8, <1>9, <2>2
  <2> QED BY <2>1, <2>2
<1> QED BY <1>2, <1>8, <1>10 DEF R, K, Y

\* Freeing, member by member.
LEMMA FreeFields ==
    ASSUME NEW s \in Stacks, NEW D
    PROVE  LET t == Free(s, D)
           IN  /\ t.m_hypos = s.m_hypos /\ t.m_bestScore = s.m_bestScore
               /\ t.m_worstScore = s.m_worstScore
               /\ t.m_diversityWorstScore = s.m_diversityWorstScore
               /\ t.m_arcList = {arc \in s.m_arcList : arc[1] \notin D}
               /\ t.freed = s.freed \cup D \cup UNION {Arcs(s, h) : h \in D}
<1> DEFINE freed == s.freed \cup D \cup UNION {Arcs(s, h) : h \in D}
           arcs == {arc \in s.m_arcList : arc[1] \notin D}
<1>1. Free(s, D) = [s EXCEPT !.freed = freed, !.m_arcList = arcs]
  BY DEF Free, Stacks
<1> HIDE DEF freed, arcs
<1> QED BY <1>1 DEF Stacks, freed, arcs

\* The losers of a stack are hypotheses.
LEMMA ArcsTyped ==
    ASSUME NEW s \in Stacks, NEW h
    PROVE  /\ Arcs(s, h) \subseteq Hypothesis
           /\ \A arc \in s.m_arcList :
                 arc = <<arc[1], arc[2]>> /\ arc[1] \in Hypothesis /\ arc[2] \in Hypothesis
<1>1. s.m_arcList \subseteq Hypothesis \X Hypothesis
  BY DEF Stacks
<1> QED BY <1>1 DEF Arcs

\* What is freed of a stack are hypotheses, if those one deletes are.
LEMMA FreeTyped ==
    ASSUME NEW s \in Stacks, NEW D \in SUBSET Hypothesis
    PROVE  Free(s, D) \in Stacks
<1> DEFINE t == Free(s, D)
<1>1. \A h : Arcs(s, h) \subseteq Hypothesis
  BY ArcsTyped
<1>2. UNION {Arcs(s, h) : h \in D} \subseteq Hypothesis
  BY <1>1
<1>3. t.freed \subseteq Hypothesis /\ t.m_arcList \subseteq Hypothesis \X Hypothesis
  BY <1>2, FreeFields DEF Stacks
<1>4. t = [s EXCEPT !.freed = t.freed, !.m_arcList = t.m_arcList]
  <2> DEFINE freed == s.freed \cup D \cup UNION {Arcs(s, h) : h \in D}
             arcs == {arc \in s.m_arcList : arc[1] \notin D}
  <2>1. t = [s EXCEPT !.freed = freed, !.m_arcList = arcs]
    BY DEF Free, Stacks
  <2> HIDE DEF freed, arcs, t
  <2> QED BY <2>1 DEF Stacks
<1> HIDE DEF t
<1> QED BY <1>3, <1>4 DEF Stacks, t

\* p is s after pruning, member by member: those for diversity d and the best of
\* the rest f stay, the others are dropped.
IsPruned(s, d, f, p) ==
    /\ p \in Stacks
    /\ Dropped(s, p, s.m_hypos \ (d \cup f))
    /\ p.m_hypos = d \cup f
    /\ p.m_bestScore = s.m_bestScore
    /\ p.m_worstScore = IF f # {} /\ Cardinality(d \cup f) = m_maxHypoStackSize
                        THEN WorstOf(f) ELSE s.m_worstScore
    /\ \A c \in Covers :
          p.m_diversityWorstScore[c] =
             IF /\ m_minHypoStackDiversity > 0
                /\ Cardinality(Covering(d, c)) = m_minHypoStackDiversity
             THEN WorstOf(Covering(d, c)) ELSE s.m_diversityWorstScore[c]

\* Pruned does that.
LEMMA PrunedFields ==
    ASSUME NEW s \in Stacks, NEW d \in SUBSET s.m_hypos, NEW f \in SUBSET s.m_hypos,
           setup \in DOMAIN Setups
    PROVE  IsPruned(s, d, f, Pruned(s, d, f, m_maxHypoStackSize))
<1> DEFINE n == m_maxHypoStackSize
<1> DEFINE gone == s.m_hypos \ (d \cup f)
           t == Free(s, gone)
           p == Pruned(s, d, f, n)
<1>1. s.m_hypos \subseteq Hypothesis
  BY DEF Stacks
<1>2. t \in Stacks
  BY <1>1, FreeTyped
<1>3. /\ t.m_hypos = s.m_hypos /\ t.m_bestScore = s.m_bestScore
      /\ t.m_worstScore = s.m_worstScore
      /\ t.m_diversityWorstScore = s.m_diversityWorstScore
      /\ t.m_arcList = {arc \in s.m_arcList : arc[1] \notin gone}
      /\ t.freed = s.freed \cup gone \cup UNION {Arcs(s, h) : h \in gone}
  BY FreeFields
<1> DEFINE worst == IF f # {} /\ Cardinality(d \cup f) = n THEN WorstOf(f) ELSE s.m_worstScore
           div == [c \in Covers |->
                     IF /\ m_minHypoStackDiversity > 0
                        /\ Cardinality(Covering(d, c)) = m_minHypoStackDiversity
                     THEN WorstOf(Covering(d, c)) ELSE s.m_diversityWorstScore[c]]
<1>4. p = [t EXCEPT !.m_hypos = d \cup f, !.m_worstScore = worst,
                    !.m_diversityWorstScore = div]
  BY <1>3 DEF Pruned
<1> HIDE DEF t, p
<1>5. /\ p.m_hypos = d \cup f /\ p.m_bestScore = s.m_bestScore
      /\ p.m_worstScore = worst /\ p.m_diversityWorstScore = div
      /\ p.m_arcList = {arc \in s.m_arcList : arc[1] \notin gone}
      /\ p.freed = s.freed \cup gone \cup UNION {Arcs(s, h) : h \in gone}
  <2> HIDE DEF worst, div, gone
  <2> QED BY <1>2, <1>3, <1>4 DEF Stacks
<1>6. worst \in Int
  <2>1. CASE f # {} /\ Cardinality(d \cup f) = n
    <3>1. \A h \in f : h.score \in Nat
      BY <1>1, HypothesisTyped
    <3>2. \E h \in f : h.score = WorstOf(f)
      BY <2>1, <3>1, WorstOfCorrect
    <3> QED BY <2>1, <3>1, <3>2
  <2>2. CASE ~(f # {} /\ Cardinality(d \cup f) = n)
    BY <2>2 DEF Stacks
  <2> QED BY <2>1, <2>2
<1>7. div \in [Covers -> Int]
  <2> SUFFICES ASSUME NEW c \in Covers, m_minHypoStackDiversity > 0,
                      Cardinality(Covering(d, c)) = m_minHypoStackDiversity
               PROVE  WorstOf(Covering(d, c)) \in Int
    BY DEF Stacks
  <2> DEFINE X == Covering(d, c)
  <2>1. \A h \in X : h.score \in Nat
    BY <1>1, HypothesisTyped DEF Covering
  <2> HIDE DEF X
  <2>2. X # {}
    BY FS_EmptySet, OptionsTyped DEF X
  <2>3. \E h \in X : h.score = WorstOf(X)
    BY <2>1, <2>2, WorstOfCorrect
  <2> QED BY <2>1, <2>3 DEF X
<1>8. p \in Stacks
  <2> HIDE DEF worst, div, gone
  <2>1. d \cup f \subseteq Hypothesis
    BY <1>1
  <2> QED BY <1>2, <1>4, <1>6, <1>7, <2>1 DEF Stacks
<1>9. s.m_hypos \ gone = d \cup f
  OBVIOUS
<1>10. Dropped(s, p, gone)
  BY <1>5, <1>9 DEF Dropped
<1> HIDE DEF gone
<1> QED BY <1>5, <1>8, <1>10 DEF gone, p, IsPruned

\* One of every coverage is among those kept for diversity only if it is one of
\* the best of its coverage.
LEMMA DiverseChoice ==
    ASSUME NEW hypos, NEW d \in Diverse(hypos)
    PROVE  /\ d \subseteq hypos
           /\ \A h \in hypos :
                 Covering(d, h.cover) \in Best(Covering(hypos, h.cover), m_minHypoStackDiversity)
BY DEF Diverse, CoversOf

\* Fill takes what is within the beam, the best of it.
LEMMA FillChoice ==
    ASSUME NEW s, NEW d, NEW n, NEW f \in Fill(s, d, n)
    PROVE  /\ f \subseteq s.m_hypos
           /\ ~(Cardinality(d) >= n) =>
                 f \in Best({h \in s.m_hypos \ d : h.score > s.m_bestScore + m_beamWidth},
                            n - Cardinality(d))
<1> DEFINE X == {h \in s.m_hypos \ d : h.score > s.m_bestScore + m_beamWidth}
<1>1. CASE Cardinality(d) >= n
  BY <1>1 DEF Fill
<1>2. CASE ~(Cardinality(d) >= n)
  <2>1. f \in Best(X, n - Cardinality(d))
    BY <1>2 DEF Fill
  <2>2. X \subseteq s.m_hypos
    OBVIOUS
  <2> HIDE DEF X
  <2>3. f \subseteq X
    BY <2>1, BestIsPart
  <2> QED BY <2>1, <2>2, <2>3 DEF X
<1> QED BY <1>1, <1>2

\* Without diversity no hypothesis is kept for it.
LEMMA NoneForDiversity ==
    ASSUME NEW hypos, IsFiniteSet(hypos), \A h \in hypos : h.score \in Int,
           m_minHypoStackDiversity = 0, NEW d \in Diverse(hypos)
    PROVE  d = {}
<1> SUFFICES ASSUME NEW h \in d PROVE FALSE
  OBVIOUS
<1>1. h \in hypos /\ Covering(d, h.cover) \in Best(Covering(hypos, h.cover), 0)
  BY DiverseChoice
<1> DEFINE X == Covering(hypos, h.cover)
           B == Covering(d, h.cover)
<1>2. IsFiniteSet(X) /\ (\A x \in X : x.score \in Int) /\ h \in B
  BY PartOfFinite DEF Covering
<1> HIDE DEF X, B
<1>3. B \in Best(X, 0)
  BY <1>1 DEF X, B
<1>4. B = {}
  BY <1>2, <1>3, BestOfNone
<1> QED BY <1>2, <1>4

\* Pruning to the size of the stack keeps what must be kept, and the thresholds
\* it sets are those of a full stack.
LEMMA PrunePruning ==
    ASSUME setup \in DOMAIN Setups,
           NEW s \in Stacks, NEW C \in SUBSET Hypothesis, IsFiniteSet(C),
           s.m_hypos \subseteq C, Winners(s), Pruning(s, C),
           NEW d \in Diverse(s.m_hypos),
           NEW f \in Fill(s, d, m_maxHypoStackSize), NEW p, IsPruned(s, d, f, p)
    PROVE  Pruning(p, C)
<1> DEFINE N == m_maxHypoStackSize
<1>1. /\ N \in Nat /\ N > 0 /\ m_minHypoStackDiversity \in Nat
      /\ m_beamWidth \in Int /\ m_beamWidth <= 0
  BY OptionsTyped
<1>2. d \subseteq s.m_hypos /\ f \subseteq s.m_hypos
  BY DiverseChoice, FillChoice
<1>3. /\ p \in Stacks
      /\ p.m_hypos = d \cup f
      /\ p.m_bestScore = s.m_bestScore
      /\ p.m_worstScore = IF f # {} /\ Cardinality(d \cup f) = N
                          THEN WorstOf(f) ELSE s.m_worstScore
      /\ \A c \in Covers :
            p.m_diversityWorstScore[c] =
               IF /\ m_minHypoStackDiversity > 0
                  /\ Cardinality(Covering(d, c)) = m_minHypoStackDiversity
               THEN WorstOf(Covering(d, c)) ELSE s.m_diversityWorstScore[c]
  BY DEF IsPruned
<1>4. /\ s.m_bestScore \in Int /\ s.m_worstScore \in Int
      /\ \A c \in Covers : s.m_diversityWorstScore[c] \in Int
  BY DEF Stacks
<1>5. \A x \in C : x.score \in Nat /\ x.cover \in Covers
  BY HypothesisTyped
<1>6. IsFiniteSet(s.m_hypos)
  BY PartOfFinite
<1>7. ASSUME f # {} PROVE (\E h \in f : h.score = WorstOf(f)) /\ \A h \in f : WorstOf(f) <= h.score
  <2>1. \A h \in f : h.score \in Nat
    BY <1>2, <1>5
  <2> QED BY <1>7, <2>1, WorstOfCorrect
<1>8. ASSUME m_minHypoStackDiversity = 0
      PROVE  /\ d = {}
             /\ f \in Best({h \in s.m_hypos : h.score > s.m_bestScore + m_beamWidth}, N)
  <2>1. d = {}
    BY <1>2, <1>5, <1>6, <1>8, NoneForDiversity
  <2>2. Cardinality(d) = 0
    BY <2>1, FS_EmptySet
  <2>3. f \in Best({h \in s.m_hypos \ d : h.score > s.m_bestScore + m_beamWidth}, N - Cardinality(d))
    <3>1. ~(Cardinality(d) >= N)
      BY <1>1, <2>2
    <3> QED BY <3>1, FillChoice, Zenon
  <2>4. s.m_hypos \ d = s.m_hypos /\ N - Cardinality(d) = N
    BY <1>1, <2>1, <2>2
  <2> QED BY <2>1, <2>3, <2>4
<1>9. BestKnown(p, C)
  <2>1. p.m_worstScore <= s.m_bestScore
    <3>1. CASE f # {} /\ Cardinality(d \cup f) = N
      <4>1. PICK h \in f : h.score = WorstOf(f)
        BY <1>7, <3>1
      <4>2. h \in C
        BY <1>2
      <4>3. h.score <= s.m_bestScore
        BY <4>2 DEF Pruning, BestKnown
      <4> QED BY <1>3, <3>1, <4>1, <4>3
    <3>2. CASE ~(f # {} /\ Cardinality(d \cup f) = N)
      BY <1>3, <3>2 DEF Pruning, BestKnown
    <3> QED BY <3>1, <3>2
  <2> QED BY <1>3, <2>1 DEF Pruning, BestKnown
<1>10. WorstJustified(p, C)
  <2> SUFFICES ASSUME m_minHypoStackDiversity = 0
               PROVE  \/ p.m_worstScore < 0
                      \/ p.m_worstScore <= s.m_bestScore + m_beamWidth
                      \/ Cardinality(Classes(Reaching(C, p.m_worstScore))) >= N
    BY <1>3 DEF WorstJustified
  <2>1. CASE f # {} /\ Cardinality(d \cup f) = N
    <3>1. p.m_worstScore = WorstOf(f)
      BY <1>3, <2>1
    <3>2. \A h \in f : h.score >= p.m_worstScore
      BY <1>2, <1>5, <1>7, <2>1, <3>1
    <3>3. Cardinality(f) <= Cardinality(Classes(Reaching(C, p.m_worstScore)))
      BY <1>2, <3>2, StackClasses
    <3>4. d \cup f = f
      BY <1>8
    <3>5. /\ Cardinality(Classes(Reaching(C, p.m_worstScore))) \in Nat
      BY MoreReach
    <3> QED BY <1>1, <2>1, <3>3, <3>4, <3>5
  <2>2. CASE ~(f # {} /\ Cardinality(d \cup f) = N)
    <3>1. p.m_worstScore = s.m_worstScore
      BY <1>3, <2>2
    <3> QED BY <3>1 DEF Pruning, WorstJustified
  <2> QED BY <2>1, <2>2
<1>11. DiversityJustified(p, C)
  <2> SUFFICES ASSUME NEW c \in Covers
               PROVE  \/ p.m_diversityWorstScore[c] < 0
                      \/ Cardinality(CoveredIn(
                            Classes(Reaching(C, p.m_diversityWorstScore[c])), c))
                            >= m_minHypoStackDiversity
    BY DEF DiversityJustified
  <2> DEFINE X == Covering(d, c)
  <2>1. CASE m_minHypoStackDiversity > 0 /\ Cardinality(X) = m_minHypoStackDiversity
    <3>1. p.m_diversityWorstScore[c] = WorstOf(X)
      BY <1>3, <2>1
    <3>2. X \subseteq s.m_hypos /\ \A x \in X : x.cover = c
      BY <1>2 DEF Covering
    <3> HIDE DEF X
    <3>3. X # {}
      BY <1>1, <2>1, FS_EmptySet
    <3>4. \A h \in X : h.score \in Nat
      BY <1>5, <3>2
    <3>5. \A h \in X : h.score >= WorstOf(X)
      BY <3>3, <3>4, WorstOfCorrect
    <3>6. Cardinality(X) <= Cardinality(CoveredIn(Classes(Reaching(C, WorstOf(X))), c))
      BY <3>2, <3>5, StackClasses
    <3>7. Cardinality(CoveredIn(Classes(Reaching(C, WorstOf(X))), c)) \in Nat
      BY MoreReach
    <3> QED BY <1>1, <2>1, <3>1, <3>6, <3>7
  <2>2. CASE ~(m_minHypoStackDiversity > 0 /\ Cardinality(X) = m_minHypoStackDiversity)
    <3>1. p.m_diversityWorstScore[c] = s.m_diversityWorstScore[c]
      BY <1>3, <2>2
    <3> QED BY <3>1 DEF Pruning, DiversityJustified
  <2> QED BY <2>1, <2>2
<1>12. TopKept(p, C)
  <2> SUFFICES ASSUME NEW x \in C, m_minHypoStackDiversity = 0,
                      x.score > s.m_bestScore + m_beamWidth,
                      Cardinality(RivalsIn(C, x)) < N
               PROVE  Stands(p, x)
    BY <1>3 DEF TopKept
  <2>1. PICK g \in s.m_hypos : Recombine(g, x) /\ g.score >= x.score
    BY DEF Pruning, TopKept, Stands
  <2> DEFINE X == {h \in s.m_hypos : h.score > s.m_bestScore + m_beamWidth}
  <2>2. g \in X /\ X \subseteq s.m_hypos
    BY <1>1, <1>4, <1>5, <2>1
  <2>3. f \in Best(X, N)
    BY <1>8
  <2> HIDE DEF X
  <2>4. /\ Cardinality(Reaching(X, g.score)) <= Cardinality(RivalsIn(C, x)) + 1
        /\ Cardinality(Reaching(X, g.score)) \in Nat
        /\ Cardinality(RivalsIn(C, x)) \in Nat
    BY <2>1, <2>2, RankOfStanding
  <2>5. Cardinality(Reaching(X, g.score)) <= N
    BY <1>1, <2>4
  <2>6. g \in f
    BY <2>2, <2>3, <2>5, BestKeeps
  <2> QED BY <1>3, <2>1, <2>6 DEF Stands
<1>13. CoversKept(p, C)
  <2> SUFFICES ASSUME NEW x \in C,
                      Cardinality(CoveredIn(RivalsIn(C, x), x.cover))
                         < m_minHypoStackDiversity
               PROVE  Stands(p, x)
    BY DEF CoversKept
  <2>1. PICK g \in s.m_hypos : Recombine(g, x) /\ g.score >= x.score
    BY DEF Pruning, CoversKept, Stands
  <2> DEFINE X == Covering(s.m_hypos, g.cover)
             B == Covering(d, g.cover)
  <2>2. /\ g \in X /\ X \subseteq s.m_hypos /\ \A y \in X : y.cover = x.cover
        /\ B \subseteq d
    BY <2>1 DEF Covering, Recombine
  <2>3. B \in Best(X, m_minHypoStackDiversity)
    BY DiverseChoice
  <2> HIDE DEF X, B
  <2>4. /\ Cardinality(Reaching(X, g.score))
              <= Cardinality(CoveredIn(RivalsIn(C, x), x.cover)) + 1
        /\ Cardinality(Reaching(X, g.score)) \in Nat
        /\ Cardinality(CoveredIn(RivalsIn(C, x), x.cover)) \in Nat
    BY <2>1, <2>2, RankOfStanding
  <2>5. Cardinality(Reaching(X, g.score)) <= m_minHypoStackDiversity
    BY <1>1, <2>4
  <2>6. g \in B
    BY <2>2, <2>3, <2>5, BestKeeps
  <2> QED BY <1>3, <2>1, <2>2, <2>6 DEF Stands
<1> QED BY <1>9, <1>10, <1>11, <1>12, <1>13 DEF Pruning

-----------------------------------------------------------------------------
(* The operations of the stack                                               *)

\* The stack after h was inserted into r, before it is pruned.
Added(r, h) == NewBestOfCover(NewBest([r EXCEPT !.m_hypos = @ \cup {h}], h), h)

\* Inserting, member by member.
LEMMA AddedFields ==
    ASSUME setup \in DOMAIN Setups, NEW r \in Stacks, NEW h \in Hypothesis,
           NEW t, t = Added(r, h)
    PROVE  /\ t \in Stacks
           /\ t.m_hypos = r.m_hypos \cup {h}
           /\ t.m_arcList = r.m_arcList /\ t.freed = r.freed
           /\ \/ /\ h.score <= r.m_bestScore
                 /\ t.m_bestScore = r.m_bestScore /\ t.m_worstScore = r.m_worstScore
              \/ /\ h.score > r.m_bestScore
                 /\ t.m_bestScore = h.score
                 /\ t.m_worstScore = Max({r.m_worstScore, h.score + m_beamWidth})
           /\ \A c \in Covers :
                 \/ t.m_diversityWorstScore[c] = r.m_diversityWorstScore[c]
                 \/ /\ m_minHypoStackDiversity = 1 /\ c = h.cover
                    /\ t.m_diversityWorstScore[c] = h.score
<1> DEFINE q == [r EXCEPT !.m_hypos = @ \cup {h}]
           u == NewBest(q, h)
<1>1. h.score \in Int /\ h.cover \in Covers /\ m_beamWidth \in Int
  BY HypothesisTyped, OptionsTyped
<1>2. /\ q \in Stacks /\ q.m_hypos = r.m_hypos \cup {h}
      /\ q.m_arcList = r.m_arcList /\ q.freed = r.freed
      /\ q.m_bestScore = r.m_bestScore /\ q.m_worstScore = r.m_worstScore
      /\ q.m_diversityWorstScore = r.m_diversityWorstScore
  BY DEF Stacks
<1> HIDE DEF q
<1>3. /\ u \in Stacks /\ u.m_hypos = q.m_hypos
      /\ u.m_arcList = q.m_arcList /\ u.freed = q.freed
      /\ u.m_diversityWorstScore = q.m_diversityWorstScore
      /\ \/ /\ h.score <= q.m_bestScore
            /\ u.m_bestScore = q.m_bestScore /\ u.m_worstScore = q.m_worstScore
         \/ /\ h.score > q.m_bestScore
            /\ u.m_bestScore = h.score
            /\ u.m_worstScore = Max({q.m_worstScore, h.score + m_beamWidth})
  <2>1. CASE h.score <= q.m_bestScore
    <3>1. u = q
      BY <2>1 DEF NewBest
    <3> QED BY <1>2, <2>1, <3>1
  <2>2. CASE ~(h.score <= q.m_bestScore)
    <3> DEFINE worst == Max({q.m_worstScore, h.score + m_beamWidth})
    <3>1. q.m_bestScore \in Int /\ q.m_worstScore \in Int /\ h.score + m_beamWidth \in Int
      BY <1>1, <1>2 DEF Stacks
    <3>2. worst \in Int
      BY <3>1, LargerOfTwo
    <3>3. u = [q EXCEPT !.m_bestScore = h.score, !.m_worstScore = worst]
      BY <1>2, <2>2 DEF NewBest, Stacks
    <3>4. h.score > q.m_bestScore
      BY <1>1, <2>2, <3>1
    <3> HIDE DEF worst, u
    <3>5. /\ u \in Stacks /\ u.m_hypos = q.m_hypos
          /\ u.m_arcList = q.m_arcList /\ u.freed = q.freed
          /\ u.m_diversityWorstScore = q.m_diversityWorstScore
          /\ u.m_bestScore = h.score /\ u.m_worstScore = worst
      BY <1>1, <1>2, <3>2, <3>3 DEF Stacks
    <3> QED BY <3>4, <3>5 DEF worst
  <2> QED BY <2>1, <2>2
<1>4. t = NewBestOfCover(u, h)
  BY DEF Added, q
<1> HIDE DEF u
<1>5. /\ t \in Stacks /\ t.m_hypos = u.m_hypos
      /\ t.m_arcList = u.m_arcList /\ t.freed = u.freed
      /\ t.m_bestScore = u.m_bestScore /\ t.m_worstScore = u.m_worstScore
      /\ \A c \in Covers :
            \/ t.m_diversityWorstScore[c] = u.m_diversityWorstScore[c]
            \/ /\ m_minHypoStackDiversity = 1 /\ c = h.cover
               /\ t.m_diversityWorstScore[c] = h.score
  <2>1. CASE m_minHypoStackDiversity = 1 /\ h.score > u.m_diversityWorstScore[h.cover]
    <3>1. t = [u EXCEPT !.m_diversityWorstScore[h.cover] = h.score]
      BY <1>4, <2>1 DEF NewBestOfCover
    <3> QED BY <1>1, <1>3, <2>1, <3>1 DEF Stacks
  <2>2. CASE ~(m_minHypoStackDiversity = 1 /\ h.score > u.m_diversityWorstScore[h.cover])
    <3>1. t = u
      BY <1>4, <2>2 DEF NewBestOfCover
    <3> QED BY <1>3, <3>1
  <2> QED BY <2>1, <2>2
<1>6. /\ t.m_hypos = r.m_hypos \cup {h}
      /\ t.m_arcList = r.m_arcList /\ t.freed = r.freed
  BY <1>2, <1>3, <1>5
<1>7. \/ /\ h.score <= r.m_bestScore
         /\ t.m_bestScore = r.m_bestScore /\ t.m_worstScore = r.m_worstScore
      \/ /\ h.score > r.m_bestScore
         /\ t.m_bestScore = h.score
         /\ t.m_worstScore = Max({r.m_worstScore, h.score + m_beamWidth})
  BY <1>2, <1>3, <1>5
<1> QED BY <1>2, <1>3, <1>5, <1>6, <1>7

\* A stack that is pruned has lost nothing it should have kept.
LEMMA PruneGood ==
    ASSUME setup \in DOMAIN Setups, NEW C \in SUBSET Hypothesis, IsFiniteSet(C),
           NEW s, Good(s, C), NEW p \in PruneToSize(s, m_maxHypoStackSize)
    PROVE  Good(p, C)
<1>1. CASE Cardinality(s.m_hypos) <= m_maxHypoStackSize
  BY <1>1 DEF PruneToSize
<1>2. CASE ~(Cardinality(s.m_hypos) <= m_maxHypoStackSize)
  <2>0. PICK d \in Diverse(s.m_hypos) :
           p \in {Pruned(s, d, f, m_maxHypoStackSize) : f \in Fill(s, d, m_maxHypoStackSize)}
    BY <1>2 DEF PruneToSize
  <2>1. PICK f \in Fill(s, d, m_maxHypoStackSize) : p = Pruned(s, d, f, m_maxHypoStackSize)
    BY <2>0
  <2>2. d \in SUBSET s.m_hypos /\ f \in SUBSET s.m_hypos
    BY DiverseChoice, FillChoice
  <2>3. IsPruned(s, d, f, p)
    BY <2>1, <2>2, PrunedFields DEF Good
  <2>4. s.m_hypos \subseteq C /\ Winners(s)
    BY DEF Good, Owned, Ownership
  <2>5. Pruning(p, C)
    BY <2>3, <2>4, PrunePruning DEF Good
  <2>6. Owned(p, C)
    <3> DEFINE gone == s.m_hypos \ (d \cup f)
    <3>1. gone \subseteq s.m_hypos
      OBVIOUS
    <3>2. Dropped(s, p, gone)
      BY <2>3 DEF IsPruned
    <3> HIDE DEF gone
    <3> QED BY <3>1, <3>2, DropOwned DEF Good
  <2> QED BY <2>3, <2>5, <2>6 DEF Good, IsPruned
<1> QED BY <1>1, <1>2

\* Inserting may prune; what it leaves is as good as what it pruned.
LEMMA AddGood ==
    ASSUME setup \in DOMAIN Setups, NEW C \in SUBSET Hypothesis, IsFiniteSet(C),
           NEW r, NEW h, Good(Added(r, h), C), NEW t \in Add(r, h)
    PROVE  Good(t, C)
<1> DEFINE a == Added(r, h)
<1>1. t \in (IF Cardinality(a.m_hypos) > ToleratedSize
             THEN PruneToSize(a, m_maxHypoStackSize) ELSE {a})
  BY DEF Add, Added
<1> HIDE DEF a
<1>2. CASE Cardinality(a.m_hypos) > ToleratedSize
  BY <1>1, <1>2, PruneGood DEF a
<1>3. CASE ~(Cardinality(a.m_hypos) > ToleratedSize)
  BY <1>1, <1>3 DEF a
<1> QED BY <1>2, <1>3

\* Adding an arc, member by member.
LEMMA AddArcFields ==
    ASSUME NEW r \in Stacks, NEW w \in Hypothesis, NEW l \in Hypothesis,
           NEW t, t = AddArc(r, w, l)
    PROVE  /\ t \in Stacks /\ t.m_hypos = r.m_hypos /\ t.freed = r.freed
           /\ t.m_bestScore = r.m_bestScore /\ t.m_worstScore = r.m_worstScore
           /\ t.m_diversityWorstScore = r.m_diversityWorstScore
           /\ t.m_arcList = {arc \in r.m_arcList : arc[1] # l}
                               \cup {<<w, x>> : x \in Arcs(r, l) \cup {l}}
<1> DEFINE arcs == {arc \in r.m_arcList : arc[1] # l}
                      \cup {<<w, x>> : x \in Arcs(r, l) \cup {l}}
<1>1. t = [r EXCEPT !.m_arcList = arcs]
  BY DEF AddArc, Stacks
<1>2. arcs \in SUBSET (Hypothesis \X Hypothesis)
  BY ArcsTyped DEF Stacks
<1> HIDE DEF arcs
<1> QED BY <1>1, <1>2 DEF Stacks, arcs

\* The stack without a hypothesis, member by member.
LEMMA WithoutFields ==
    ASSUME NEW s \in Stacks, NEW g, NEW r, r = [s EXCEPT !.m_hypos = @ \ {g}]
    PROVE  /\ r \in Stacks /\ r.m_hypos = s.m_hypos \ {g} /\ r.freed = s.freed
           /\ r.m_bestScore = s.m_bestScore /\ r.m_worstScore = s.m_worstScore
           /\ r.m_diversityWorstScore = s.m_diversityWorstScore
           /\ r.m_arcList = s.m_arcList
BY DEF Stacks

\* A hypothesis that recombines with none is inserted.
LEMMA InsertGood ==
    ASSUME setup \in DOMAIN Setups, NEW C \in SUBSET Hypothesis, IsFiniteSet(C),
           NEW s, Good(s, C), NEW h \in Hypothesis, h \notin C,
           Existing(s, h) = {}, NEW t \in Add(s, h)
    PROVE  Good(t, C \cup {h})
<1> DEFINE a == Added(s, h)
<1> HIDE DEF a
<1>1. s \in Stacks /\ a = Added(s, h)
  BY DEF Good, a
<1>2. /\ a \in Stacks
      /\ a.m_hypos = s.m_hypos \cup {h}
      /\ a.m_arcList = s.m_arcList /\ a.freed = s.freed
      /\ \/ /\ h.score <= s.m_bestScore
            /\ a.m_bestScore = s.m_bestScore /\ a.m_worstScore = s.m_worstScore
         \/ /\ h.score > s.m_bestScore
            /\ a.m_bestScore = h.score
            /\ a.m_worstScore = Max({s.m_worstScore, h.score + m_beamWidth})
      /\ \A c \in Covers :
            \/ a.m_diversityWorstScore[c] = s.m_diversityWorstScore[c]
            \/ /\ m_minHypoStackDiversity = 1 /\ c = h.cover
               /\ a.m_diversityWorstScore[c] = h.score
  BY <1>1, AddedFields
<1>3. \A g \in s.m_hypos : ~Recombine(g, h)
  BY DEF Existing
<1>4. Owned(a, C \cup {h})
  BY <1>2, <1>3, InsertOwned DEF Good
<1>5. Pruning(a, C \cup {h})
  <2>1. \A x \in C : Stands(s, x) => Stands(a, x)
    BY <1>2 DEF Stands
  <2>2. Stands(a, h)
    <3>1. h.score >= h.score /\ h \in a.m_hypos
      BY <1>2, HypothesisTyped
    <3> QED BY <3>1 DEF Stands, Recombine
  <2>3. Pruning(s, C)
    BY DEF Good
  <2> QED BY <1>1, <1>2, <2>1, <2>2, <2>3, AcceptPruning
<1>6. Good(a, C \cup {h}) /\ IsFiniteSet(C \cup {h}) /\ C \cup {h} \in SUBSET Hypothesis
  BY <1>2, <1>4, <1>5, FS_AddElement DEF Good
<1> QED BY <1>1, <1>6, AddGood

\* A hypothesis that is better than the one it recombines with takes its place.
LEMMA ReplaceGood ==
    ASSUME setup \in DOMAIN Setups, NEW C \in SUBSET Hypothesis, IsFiniteSet(C),
           NEW s, Good(s, C), NEW h \in Hypothesis, h \notin C,
           NEW g \in Existing(s, h), h.score > g.score, NEW t \in Replace(s, h, g)
    PROVE  Good(t, C \cup {h})
<1>1. /\ s \in Stacks /\ Pruning(s, C) /\ Owned(s, C)
      /\ g \in s.m_hypos /\ Recombine(g, h) /\ g \in C
  BY DEF Good, Existing, Owned, Ownership
<1>2. g \in Hypothesis /\ g.score \in Int /\ h.score \in Int
  BY <1>1, HypothesisTyped
<1> DEFINE without == [s EXCEPT !.m_hypos = @ \ {g}]
           r == IF m_nBestIsEnabled THEN AddArc(without, h, g) ELSE Free(without, {g})
           a == Added(r, h)
<1> HIDE DEF without
<1>3. /\ without \in Stacks /\ without.m_hypos = s.m_hypos \ {g}
      /\ without.freed = s.freed /\ without.m_arcList = s.m_arcList
      /\ without.m_bestScore = s.m_bestScore /\ without.m_worstScore = s.m_worstScore
      /\ without.m_diversityWorstScore = s.m_diversityWorstScore
  BY <1>1, WithoutFields DEF without
<1>4. \A x : Arcs(without, x) = Arcs(s, x)
  BY <1>3 DEF Arcs
<1>5. /\ r \in Stacks /\ r.m_hypos = s.m_hypos \ {g}
      /\ r.m_bestScore = s.m_bestScore /\ r.m_worstScore = s.m_worstScore
      /\ r.m_diversityWorstScore = s.m_diversityWorstScore
  <2>1. CASE m_nBestIsEnabled
    <3>1. r = AddArc(without, h, g)
      BY <2>1
    <3> HIDE DEF r
    <3>2. without \in Stacks
      BY <1>3
    <3>3. /\ r \in Stacks /\ r.m_hypos = without.m_hypos
          /\ r.m_bestScore = without.m_bestScore /\ r.m_worstScore = without.m_worstScore
          /\ r.m_diversityWorstScore = without.m_diversityWorstScore
      BY <1>2, <3>1, <3>2, AddArcFields, SMT
    <3> QED BY <1>3, <3>3
  <2>2. CASE ~m_nBestIsEnabled
    <3>1. r = Free(without, {g})
      BY <2>2
    <3>2. {g} \in SUBSET Hypothesis
      BY <1>2
    <3> HIDE DEF r
    <3>3. r \in Stacks
      BY <1>3, <3>1, <3>2, FreeTyped
    <3> QED BY <1>3, <3>1, <3>3, FreeFields
  <2> QED BY <2>1, <2>2
<1> HIDE DEF r, a
<1>6. /\ a \in Stacks
      /\ a.m_hypos = r.m_hypos \cup {h}
      /\ a.m_arcList = r.m_arcList /\ a.freed = r.freed
      /\ \/ /\ h.score <= r.m_bestScore
            /\ a.m_bestScore = r.m_bestScore /\ a.m_worstScore = r.m_worstScore
         \/ /\ h.score > r.m_bestScore
            /\ a.m_bestScore = h.score
            /\ a.m_worstScore = Max({r.m_worstScore, h.score + m_beamWidth})
      /\ \A c \in Covers :
            \/ a.m_diversityWorstScore[c] = r.m_diversityWorstScore[c]
            \/ /\ m_minHypoStackDiversity = 1 /\ c = h.cover
               /\ a.m_diversityWorstScore[c] = h.score
  BY <1>5, AddedFields DEF a
<1>7. Owned(a, C \cup {h})
  <2>1. CASE m_nBestIsEnabled
    <3>1. r = AddArc(without, h, g)
      BY <2>1 DEF r
    <3>2. /\ r.m_arcList = {arc \in s.m_arcList : arc[1] # g}
                              \cup {<<h, x>> : x \in Arcs(s, g) \cup {g}}
          /\ r.freed = s.freed
      BY <1>2, <1>3, <1>4, <3>1, AddArcFields
    <3>3. \A arc \in s.m_arcList : arc[2].score \in Int
      BY <1>1, ArcsTyped, HypothesisTyped
    <3>4. a.m_hypos = (s.m_hypos \ {g}) \cup {h}
      BY <1>5, <1>6
    <3> QED BY <1>1, <1>2, <1>6, <3>2, <3>3, <3>4, ReplaceOwned
  <2>2. CASE ~m_nBestIsEnabled
    <3>1. r = Free(without, {g})
      BY <2>2 DEF r
    <3>2. Dropped(s, r, {g})
      BY <1>3, <1>4, <1>5, <3>1, FreeFields DEF Dropped
    <3>3. Owned(r, C)
      <4>1. {g} \subseteq s.m_hypos
        BY <1>1
      <4> QED BY <1>1, <3>2, <4>1, DropOwned
    <3>4. \A x \in r.m_hypos : ~Recombine(x, h)
      BY <1>1, <1>5 DEF Owned, Winners, Recombine
    <3> QED BY <1>6, <3>3, <3>4, InsertOwned
  <2> QED BY <2>1, <2>2
<1>8. Pruning(a, C \cup {h})
  <2>1. ASSUME NEW x \in C, Stands(s, x) PROVE Stands(a, x)
    <3>1. PICK y \in s.m_hypos : Recombine(y, x) /\ y.score >= x.score
      BY <2>1 DEF Stands
    <3>2. CASE y = g
      <4>1. Recombine(h, x)
        BY <1>1, <3>1, <3>2 DEF Recombine
      <4>2. h.score >= x.score
        BY <1>2, <3>1, <3>2, HypothesisTyped
      <4> QED BY <1>6, <4>1, <4>2 DEF Stands
    <3>3. CASE y # g
      BY <1>5, <1>6, <3>1, <3>3 DEF Stands
    <3> QED BY <3>2, <3>3
  <2>2. Stands(a, h)
    <3>1. h.score >= h.score /\ h \in a.m_hypos
      BY <1>2, <1>6
    <3> QED BY <3>1 DEF Stands, Recombine
  <2>3. \/ /\ h.score <= s.m_bestScore
           /\ a.m_bestScore = s.m_bestScore /\ a.m_worstScore = s.m_worstScore
        \/ /\ h.score > s.m_bestScore
           /\ a.m_bestScore = h.score
           /\ a.m_worstScore = Max({s.m_worstScore, h.score + m_beamWidth})
    BY <1>5, <1>6
  <2>4. \A c \in Covers :
           \/ a.m_diversityWorstScore[c] = s.m_diversityWorstScore[c]
           \/ /\ m_minHypoStackDiversity = 1 /\ c = h.cover
              /\ a.m_diversityWorstScore[c] = h.score
    BY <1>5, <1>6
  <2> QED BY <1>1, <1>6, <2>1, <2>2, <2>3, <2>4, AcceptPruning
<1>9. Good(a, C \cup {h}) /\ IsFiniteSet(C \cup {h}) /\ C \cup {h} \in SUBSET Hypothesis
  BY <1>6, <1>7, <1>8, FS_AddElement DEF Good
<1>10. t \in Add(r, h)
  BY DEF Replace, r, without
<1> QED BY <1>9, <1>10, AddGood DEF a

\* What a stack keeps depends on its hypotheses and thresholds alone.
LEMMA SamePruning ==
    ASSUME NEW s, NEW t, NEW C, Pruning(s, C), t.m_hypos = s.m_hypos,
           t.m_bestScore = s.m_bestScore, t.m_worstScore = s.m_worstScore,
           t.m_diversityWorstScore = s.m_diversityWorstScore
    PROVE  Pruning(t, C)
<1>1. \A x : Stands(t, x) <=> Stands(s, x)
  BY DEF Stands
<1> QED BY <1>1 DEF Pruning, BestKnown, WorstJustified, DiversityJustified, TopKept, CoversKept

\* A hypothesis no better than the one it recombines with is represented by it.
LEMMA LoseGood ==
    ASSUME setup \in DOMAIN Setups, NEW C \in SUBSET Hypothesis, IsFiniteSet(C),
           NEW s, Good(s, C), NEW h \in Hypothesis, h \notin C,
           NEW g \in Existing(s, h), ~(h.score > g.score), NEW t \in Lose(s, h, g)
    PROVE  Good(t, C \cup {h})
<1>1. /\ s \in Stacks /\ Pruning(s, C) /\ Owned(s, C)
      /\ g \in s.m_hypos /\ Recombine(g, h) /\ g \in C
  BY DEF Good, Existing, Owned, Ownership
<1>2. /\ g \in Hypothesis /\ g.score \in Int /\ h.score \in Int
      /\ s.m_bestScore \in Int
  BY <1>1, HypothesisTyped DEF Stacks
<1>3. /\ t \in Stacks /\ t.m_hypos = s.m_hypos
      /\ t.m_bestScore = s.m_bestScore /\ t.m_worstScore = s.m_worstScore
      /\ t.m_diversityWorstScore = s.m_diversityWorstScore
      /\ Owned(t, C \cup {h})
  <2>1. CASE m_nBestIsEnabled
    <3>1. t = AddArc(s, g, h)
      BY <2>1 DEF Lose
    <3>2. /\ t \in Stacks /\ t.m_hypos = s.m_hypos /\ t.freed = s.freed
          /\ t.m_bestScore = s.m_bestScore /\ t.m_worstScore = s.m_worstScore
          /\ t.m_diversityWorstScore = s.m_diversityWorstScore
          /\ t.m_arcList = {arc \in s.m_arcList : arc[1] # h}
                              \cup {<<g, x>> : x \in Arcs(s, h) \cup {h}}
      BY <1>1, <1>2, <3>1, AddArcFields, SMT
    <3>3. Owned(t, C \cup {h})
      BY <1>1, <1>2, <3>2, LoseOwned
    <3> QED BY <3>2, <3>3
  <2>2. CASE ~m_nBestIsEnabled
    <3>1. t = Free(s, {h})
      BY <2>2 DEF Lose
    <3>2. {h} \in SUBSET Hypothesis
      OBVIOUS
    <3>3. t \in Stacks
      BY <1>1, <3>1, <3>2, FreeTyped
    <3>4. /\ t.m_hypos = s.m_hypos
          /\ t.m_bestScore = s.m_bestScore /\ t.m_worstScore = s.m_worstScore
          /\ t.m_diversityWorstScore = s.m_diversityWorstScore
          /\ t.m_arcList = {arc \in s.m_arcList : arc[1] \notin {h}}
          /\ t.freed = s.freed \cup {h} \cup UNION {Arcs(s, x) : x \in {h}}
      BY <1>1, <3>1, FreeFields
    <3>5. Owned(t, C \cup {h})
      BY <1>1, <3>4, DiscardOwned
    <3> QED BY <3>3, <3>4, <3>5
  <2> QED BY <2>1, <2>2
<1>4. Pruning(t, C \cup {h})
  <2>1. \A x \in C : Stands(s, x) => Stands(t, x)
    BY <1>3 DEF Stands
  <2>2. Stands(t, h)
    BY <1>1, <1>2, <1>3 DEF Stands
  <2>3. h.score <= s.m_bestScore
    <3>1. g.score <= s.m_bestScore
      BY <1>1 DEF Pruning, BestKnown
    <3> QED BY <1>2, <3>1
  <2> QED BY <1>1, <1>3, <2>1, <2>2, <2>3, AcceptPruning
<1> QED BY <1>3, <1>4 DEF Good

\* A hypothesis that is too bad is freed.
LEMMA DiscardGood ==
    ASSUME setup \in DOMAIN Setups, NEW C \in SUBSET Hypothesis, IsFiniteSet(C),
           NEW s, Good(s, C), NEW h \in Hypothesis, h \notin C,
           TooBad(s, h), NEW t, t = Free(s, {h})
    PROVE  Good(t, C \cup {h})
<1>1. s \in Stacks /\ Pruning(s, C) /\ Owned(s, C)
  BY DEF Good
<1>2. {h} \in SUBSET Hypothesis
  OBVIOUS
<1>3. t \in Stacks
  BY <1>1, <1>2, FreeTyped
<1>4. /\ t.m_hypos = s.m_hypos
      /\ t.m_bestScore = s.m_bestScore /\ t.m_worstScore = s.m_worstScore
      /\ t.m_diversityWorstScore = s.m_diversityWorstScore
      /\ t.m_arcList = {arc \in s.m_arcList : arc[1] \notin {h}}
      /\ t.freed = s.freed \cup {h} \cup UNION {Arcs(s, x) : x \in {h}}
  BY <1>1, FreeFields
<1>5. Owned(t, C \cup {h})
  BY <1>1, <1>4, DiscardOwned
<1>6. Pruning(t, C \cup {h})
  BY <1>1, <1>3, <1>4, DiscardPruning
<1> QED BY <1>3, <1>5, <1>6 DEF Good

\* AddPrune keeps what StackInv says of a stack, whatever it does with h.
LEMMA AddPrunedGood ==
    ASSUME setup \in DOMAIN Setups, NEW C \in SUBSET Hypothesis, IsFiniteSet(C),
           NEW s, Good(s, C), NEW h \in Hypothesis, h \notin C,
           NEW t \in AddPruned(s, h)
    PROVE  Good(t, C \cup {h})
<1>1. CASE TooBad(s, h)
  <2>1. t = Free(s, {h})
    BY <1>1 DEF AddPruned
  <2> QED BY <1>1, <2>1, DiscardGood
<1>2. CASE ~TooBad(s, h) /\ Existing(s, h) = {}
  <2>1. t \in Add(s, h)
    BY <1>2 DEF AddPruned
  <2> QED BY <1>2, <2>1, InsertGood
<1>3. CASE ~TooBad(s, h) /\ Existing(s, h) # {}
  <2>1. PICK g \in Existing(s, h) :
           t \in (IF h.score > g.score THEN Replace(s, h, g) ELSE Lose(s, h, g))
    BY <1>3 DEF AddPruned
  <2>2. CASE h.score > g.score
    BY <2>1, <2>2, ReplaceGood
  <2>3. CASE ~(h.score > g.score)
    BY <2>1, <2>3, LoseGood
  <2> QED BY <2>2, <2>3
<1> QED BY <1>1, <1>2, <1>3

\* Cutting arc lists leaves part of the arcs.
LEMMA CleanupGood ==
    ASSUME setup \in DOMAIN Setups, NEW C \in SUBSET Hypothesis, IsFiniteSet(C),
           NEW s, Good(s, C), NEW t \in CleanupArcList(s)
    PROVE  Good(t, C)
<1>1. CASE t = s
  BY <1>1
<1>2. CASE t # s
  <2>1. t \in CutArcLists(s, Options.nBestSize * ArcFactor, Options.nBestSize)
    BY <1>2 DEF CleanupArcList
  <2>2. PICK keep \in TidyArcs(s, Options.nBestSize * ArcFactor, Options.nBestSize) :
           t = [Free(s, {arc[2] : arc \in s.m_arcList \ keep}) EXCEPT !.m_arcList = keep]
    BY <2>1 DEF CutArcLists
  <2>3. keep \subseteq s.m_arcList
    BY DEF TidyArcs
  <2> DEFINE cut == {arc[2] : arc \in s.m_arcList \ keep}
             u == Free(s, cut)
  <2>4. s \in Stacks /\ Owned(s, C) /\ Pruning(s, C)
    BY DEF Good
  <2>5. cut \in SUBSET Hypothesis
    BY <2>4, ArcsTyped
  <2>6. /\ u \in Stacks /\ u.m_hypos = s.m_hypos
        /\ u.m_bestScore = s.m_bestScore /\ u.m_worstScore = s.m_worstScore
        /\ u.m_diversityWorstScore = s.m_diversityWorstScore
        /\ u.freed = s.freed \cup cut \cup UNION {Arcs(s, x) : x \in cut}
    BY <2>4, <2>5, FreeTyped, FreeFields
  <2>7. t = [u EXCEPT !.m_arcList = keep]
    BY <2>2
  <2> HIDE DEF u, cut
  <2>8. /\ t \in Stacks /\ t.m_hypos = s.m_hypos
        /\ t.m_bestScore = s.m_bestScore /\ t.m_worstScore = s.m_worstScore
        /\ t.m_diversityWorstScore = s.m_diversityWorstScore
        /\ t.m_arcList = keep
        /\ t.freed = s.freed \cup cut \cup UNION {Arcs(s, x) : x \in cut}
    BY <2>3, <2>4, <2>6, <2>7 DEF Stacks
  <2>9. Owned(t, C)
    BY <2>3, <2>4, <2>8, CutOwned DEF cut
  <2>10. Pruning(t, C)
    BY <2>4, <2>8, SamePruning
  <2> QED BY <2>8, <2>9, <2>10 DEF Good
<1> QED BY <1>1, <1>2

-----------------------------------------------------------------------------
(* The stack                                                                 *)

\* An empty stack has lost nothing.
LEMMA StackInit == Init => StackInv
<1> SUFFICES ASSUME Init PROVE StackInv
  OBVIOUS
<1>1. setup \in DOMAIN Setups /\ stack = EmptyStack /\ created = {}
  BY DEF Init
<1>2. NegInfinity \in Int /\ NegInfinity < 0
  BY <1>1, OptionsTyped
<1>3. /\ stack \in Stacks /\ stack.m_hypos = {} /\ stack.m_arcList = {} /\ stack.freed = {}
      /\ stack.m_bestScore = NegInfinity /\ stack.m_worstScore = NegInfinity
      /\ \A c \in Covers : stack.m_diversityWorstScore[c] = NegInfinity
  BY <1>1, <1>2 DEF EmptyStack, Stacks
<1>4. Owned(stack, created)
  BY <1>1, <1>3 DEF Owned, Ownership, Winners, Losers
<1>5. Pruning(stack, created)
  BY <1>1, <1>2, <1>3 DEF Pruning, BestKnown, WorstJustified, DiversityJustified,
                          TopKept, CoversKept
<1>6. created \subseteq Hypothesis /\ IsFiniteSet(created)
  BY <1>1, FS_EmptySet
<1> QED BY <1>1, <1>3, <1>4, <1>5, <1>6 DEF StackInv, Good

\* The command line does not change while a stack lives.
LEMMA GoodLater ==
    ASSUME setup' = setup, Good(stack', created')
    PROVE  Good(stack, created)'
BY DEF Good, Owned, Ownership, Winners, Losers, Stacks, Hypothesis, Recombine, Pruning,
       BestKnown, WorstJustified, DiversityJustified, TopKept, CoversKept, Stands,
       RivalsIn, CoveredIn, Classes, Class, Reaching, m_minHypoStackDiversity,
       m_maxHypoStackSize, m_beamWidth, Options

\* What is offered to the stack are hypotheses.
LEMMA HyposTyped ==
    ASSUME setup \in DOMAIN Setups PROVE Hypos \subseteq Hypothesis
BY StackAssumption DEF Hypos, Options, SetupType

\* Each operation of the stack keeps the invariant.
LEMMA StackStep == StackInv /\ [Next]_vars => StackInv'
<1> SUFFICES ASSUME StackInv, [Next]_vars PROVE StackInv'
  OBVIOUS
<1>1. /\ setup \in DOMAIN Setups /\ created \in SUBSET Hypothesis
      /\ IsFiniteSet(created) /\ Good(stack, created)
  BY DEF StackInv
<1>2. ASSUME NEW h \in Hypos \ created, AddPrune(h) PROVE StackInv'
  <2>1. h \in Hypothesis /\ h \notin created
    BY <1>1, HyposTyped
  <2>2. setup' = setup /\ created' = created \cup {h} /\ stack' \in AddPruned(stack, h)
    BY <1>2 DEF AddPrune
  <2>3. Good(stack', created \cup {h})
    BY <1>1, <2>1, <2>2, AddPrunedGood
  <2>4. Good(stack, created)'
    BY <2>2, <2>3, GoodLater
  <2>5. IsFiniteSet(created')
    BY <1>1, <2>2, FS_AddElement
  <2>6. created' \subseteq Hypothesis' /\ setup' \in DOMAIN Setups
    BY <1>1, <2>1, <2>2 DEF Hypothesis
  <2> QED BY <2>4, <2>5, <2>6 DEF StackInv
<1>3. ASSUME Process PROVE StackInv'
  <2>1. setup' = setup /\ created' = created
    BY <1>3 DEF Process
  <2>2. PICK pruned \in PruneToSize(stack, m_maxHypoStackSize) :
           stack' \in CleanupArcList(pruned)
    BY <1>3 DEF Process
  <2>3. Good(pruned, created)
    BY <1>1, PruneGood
  <2>4. Good(stack', created)
    BY <1>1, <2>2, <2>3, CleanupGood
  <2>5. Good(stack, created)'
    BY <2>1, <2>4, GoodLater
  <2> QED BY <1>1, <2>1, <2>5 DEF StackInv, Hypothesis
<1>4. ASSUME UNCHANGED vars PROVE StackInv'
  <2>1. setup' = setup /\ created' = created /\ stack' = stack
    BY <1>4 DEF vars
  <2>2. Good(stack, created)'
    BY <1>1, <2>1, GoodLater
  <2> QED BY <1>1, <2>1, <2>2 DEF StackInv, Hypothesis
<1> QED BY <1>2, <1>3, <1>4 DEF Next, Done

\* The invariant: who owns what, who wins, and what pruning has kept so far.
THEOREM StackInvariant == Spec => []StackInv
<1>1. Init => StackInv
  BY StackInit
<1>2. StackInv /\ [Next]_vars => StackInv'
  BY StackStep
<1> QED BY <1>1, <1>2, PTL DEF Spec

\* No two hypotheses of a stack recombine, and each beats its arcs: AddPrune and
\* AddArc of HypothesisStackNormal.cpp and Hypothesis.cpp, in any order of calls.
THEOREM WinnersAlwaysWin == Spec => []WinnersWin
<1>1. StackInv => WinnersWin
  BY DEF StackInv, Good, Owned, Ownership, Winners, WinnersWin
<1> QED BY <1>1, StackInvariant, PTL

\* A hypothesis has one owner: none leaks, none is deleted twice, none is on a
\* stack and in an arc list, or in two arc lists.
THEOREM OneOwnerEach == Spec => []OneOwner
<1>1. ASSUME StackInv PROVE OneOwner
  <2> SUFFICES ASSUME NEW h \in created
               PROVE  Cardinality({g \in stack.m_hypos : g = h \/ <<g, h>> \in stack.m_arcList})
                         = IF h \in stack.freed THEN 0 ELSE 1
    BY DEF OneOwner
  <2> DEFINE owners == {g \in stack.m_hypos : g = h \/ <<g, h>> \in stack.m_arcList}
  <2>1. stack \in Stacks /\ Ownership(stack, created)
    BY <1>1 DEF StackInv, Good, Owned
  <2>2. ASSUME NEW g, <<g, h>> \in stack.m_arcList PROVE h \in Losers(stack)
    <3>1. <<g, h>>[2] = h
      OBVIOUS
    <3> QED BY <2>2, <3>1 DEF Losers
  <2>3. CASE h \in stack.freed
    <3>1. owners = {}
      BY <2>1, <2>2, <2>3 DEF Ownership
    <3> QED BY <2>3, <3>1, FS_EmptySet
  <2>4. CASE h \in stack.m_hypos
    <3>1. owners = {h}
      BY <2>1, <2>2, <2>4 DEF Ownership
    <3>2. h \notin stack.freed
      BY <2>1, <2>4 DEF Ownership
    <3> QED BY <3>1, <3>2, FS_Singleton
  <2>5. CASE h \in Losers(stack)
    <3>1. PICK arc \in stack.m_arcList : arc[2] = h
      BY <2>5 DEF Losers
    <3>2. arc = <<arc[1], h>> /\ arc[1] \in stack.m_hypos
      BY <2>1, <3>1, ArcsTyped DEF Ownership
    <3>3. h \notin stack.freed /\ h \notin stack.m_hypos
      BY <2>1, <2>5 DEF Ownership
    <3>4. owners = {arc[1]}
      <4>1. arc[1] \in owners
        BY <3>1, <3>2
      <4>2. ASSUME NEW g \in owners PROVE g = arc[1]
        <5>1. <<g, h>> \in stack.m_arcList
          BY <3>3
        <5>2. <<g, h>> = arc
          BY <2>1, <3>1, <5>1 DEF Ownership
        <5> QED BY <5>2
      <4> QED BY <4>1, <4>2
    <3> QED BY <3>3, <3>4, FS_Singleton
  <2> QED BY <2>1, <2>3, <2>4, <2>5 DEF Ownership
<1> QED BY <1>1, StackInvariant, PTL

\* The score the beam is measured from is that of the best hypothesis offered,
\* whether or not it is still on the stack.
LEMMA BestScoreIsBest ==
    ASSUME StackInv, created # {} PROVE stack.m_bestScore = BestCreated
<1> DEFINE S == {h.score : h \in created}
<1>1. BestKnown(stack, created) /\ created \subseteq Hypothesis /\ stack.m_bestScore \in Int
  BY DEF StackInv, Good, Pruning, Stacks
<1>2. stack.m_bestScore \in S /\ \A x \in S : stack.m_bestScore >= x
  BY <1>1, HypothesisTyped DEF BestKnown
<1>3. S \subseteq Int
  BY <1>1, HypothesisTyped
<1> HIDE DEF S
<1>4. Max(S) \in S /\ \A x \in S : Max(S) >= x
  BY <1>2 DEF Max
<1>5. stack.m_bestScore = Max(S)
  <2>1. Max(S) \in Int
    BY <1>3, <1>4
  <2>2. stack.m_bestScore >= Max(S) /\ Max(S) >= stack.m_bestScore
    BY <1>2, <1>4
  <2> QED BY <1>1, <2>1, <2>2
<1> QED BY <1>5 DEF BestCreated, S

\* What belongs on the stack is represented there: discarding, recombination and
\* lazy pruning lose no hypothesis within the beam that has fewer rivals than
\* the stack has room for, in whatever order hypotheses arrive.
THEOREM TopIsKept == Spec => []KeepsTheTop
<1>1. ASSUME StackInv PROVE KeepsTheTop
  <2> SUFFICES ASSUME NEW h \in created, m_minHypoStackDiversity = 0,
                      h.score > BestCreated + m_beamWidth,
                      Cardinality(Rivals(h)) < m_maxHypoStackSize
               PROVE  Represented(h)
    BY DEF KeepsTheTop
  <2>1. stack.m_bestScore = BestCreated
    BY <1>1, BestScoreIsBest
  <2>2. Rivals(h) = RivalsIn(created, h)
    BY DEF Rivals, AsGood, RivalsIn, Classes, Class, Reaching
  <2>3. Stands(stack, h)
    BY <1>1, <2>1, <2>2 DEF StackInv, Good, Pruning, TopKept
  <2> QED BY <2>3 DEF Stands, Represented
<1> QED BY <1>1, StackInvariant, PTL

\* The best hypotheses of each coverage are represented, as many as the
\* command line's diversity asks for, however bad they are.
THEOREM EachCoverIsKept == Spec => []KeepsEachCover
<1>1. ASSUME StackInv PROVE KeepsEachCover
  <2> SUFFICES ASSUME NEW h \in created,
                      Cardinality(RivalsOfCover(h)) < m_minHypoStackDiversity
               PROVE  Represented(h)
    BY DEF KeepsEachCover
  <2>1. RivalsOfCover(h) = CoveredIn(RivalsIn(created, h), h.cover)
    BY DEF RivalsOfCover, Rivals, AsGood, RivalsIn, Classes, Class, Reaching, CoveredIn
  <2>2. Stands(stack, h)
    BY <1>1, <2>1 DEF StackInv, Good, Pruning, CoversKept
  <2> QED BY <2>2 DEF Stands, Represented
<1> QED BY <1>1, StackInvariant, PTL
=============================================================================
