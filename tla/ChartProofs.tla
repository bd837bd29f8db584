----------------------------- MODULE ChartProofs -----------------------------
(* Theorems about the search of ChartSearch, for any sentence, rules, models   *)
(* and command line: what the collections of a cell keep in whatever order     *)
(* hypotheses are popped, and that what the lists of a cell point to is there. *)
EXTENDS ChartSearch, FiniteSetTheorems, WellFoundedInduction, TLAPS

CollectionFields == {"m_hypos", "m_bestScore", "m_hyposOrdered", "m_arcList", "freed"}
IsCollection(c) == c = [f \in CollectionFields |-> c[f]]

States(hypos) == {h.state : h \in hypos}

\* The rivals of h among the hypotheses C, as CellKeepsTheTop counts them.
Rivals(C, h) == States({f \in C : f.score >= h.score /\ f.state # h.state})

Stands(c, h) == \E g \in c.m_hypos : g.state = h.state /\ g.score >= h.score

OneOfState(c) == \A g, h \in c.m_hypos : g.state = h.state => g = h

\* m_bestScore is that of the best hypothesis so far, which the collection has.
BestThere(c) ==
    /\ c.m_bestScore \in Int
    /\ \E h \in c.m_hypos : h.score = c.m_bestScore
    /\ \A h \in Created(c) : h.score <= c.m_bestScore

TopKept(c, size, beam) ==
    \A h \in Created(c) :
        /\ h.score > c.m_bestScore - beam
        /\ Cardinality(Rivals(Created(c), h)) < size
        => Stands(c, h)

\* What a collection under a command line is like as soon as it has a hypothesis.
Good(c, options) ==
    /\ IsCollection(c)
    /\ IsFiniteSet(Created(c)) /\ \A h \in Created(c) : h.score \in Int
    /\ OneOfState(c) /\ BestThere(c)
    /\ TopKept(c, options.maxHypoStackSize, options.beamWidth)

-----------------------------------------------------------------------------
(* Counting                                                                  *)

\* A part of a finite set is finite and no larger.
LEMMA PartOfFinite ==
    ASSUME NEW S, NEW T, IsFiniteSet(S), T \subseteq S
    PROVE  /\ IsFiniteSet(T) /\ Cardinality(T) \in Nat /\ Cardinality(S) \in Nat
           /\ Cardinality(T) <= Cardinality(S)
<1>1. T \in SUBSET S
  OBVIOUS
<1>2. IsFiniteSet(T) /\ Cardinality(T) <= Cardinality(S)
  BY <1>1, FS_Subset
<1> QED BY <1>2, FS_CardinalityType

\* Finitely many hypotheses have finitely many states.
LEMMA StatesFinite ==
    ASSUME NEW S, IsFiniteSet(S) PROVE IsFiniteSet(States(S))
<1> DEFINE f == [x \in S |-> x.state]
<1>1. f \in Surjection(S, States(S))
  BY DEF Surjection, States
<1> QED BY <1>1, FS_Surjection, Zenon

\* Hypotheses of different states are no more than those states.
LEMMA StatesCount ==
    ASSUME NEW X, NEW Y, IsFiniteSet(Y), States(X) \subseteq Y,
           \A x, y \in X : x.state = y.state => x = y
    PROVE  IsFiniteSet(X) /\ Cardinality(X) <= Cardinality(Y)
<1> DEFINE f == [x \in X |-> x.state]
<1>1. f \in Injection(X, Y)
  BY DEF Injection, IsInjective, States
<1> QED BY <1>1, FS_Injection, Zenon

\* One element less makes a finite set smaller by one.
LEMMA OneLess ==
    ASSUME NEW S, IsFiniteSet(S), NEW x \in S
    PROVE  /\ IsFiniteSet(S \ {x}) /\ Cardinality(S) \in Nat
           /\ Cardinality(S \ {x}) = Cardinality(S) - 1
<1>1. IsFiniteSet(S \ {x}) /\ Cardinality(S \ {x}) = Cardinality(S) - 1
  BY FS_RemoveElement
<1> QED BY <1>1, FS_CardinalityType

\* Finitely many integers have a greatest and a least.
LEMMA GreatestExists ==
    ASSUME NEW S \in SUBSET Int, IsFiniteSet(S), S # {}
    PROVE  \E x \in S : \A y \in S : x >= y
<1> DEFINE HasGreatest(T) == \E x \in T : \A y \in T : x >= y
           Sizes == {k \in Nat : \E T \in SUBSET S :
                        T # {} /\ Cardinality(T) = k /\ ~HasGreatest(T)}
<1> SUFFICES ASSUME ~HasGreatest(S) PROVE FALSE
  OBVIOUS
<1>1. Cardinality(S) \in Sizes
  BY FS_CardinalityType
<1>2. PICK k \in Sizes : \A j \in Sizes : ~(<<j, k>> \in OpToRel(<, Nat))
  BY <1>1, NatLessThanWellFounded, WFMin, Zenon
<1>3. \A j \in Sizes : ~(j < k)
  BY <1>2 DEF OpToRel
<1>4. PICK T \in SUBSET S : T # {} /\ Cardinality(T) = k /\ ~HasGreatest(T)
  OBVIOUS
<1>5. IsFiniteSet(T)
  BY FS_Subset
<1>6. PICK x \in T : TRUE
  BY <1>4
<1> DEFINE U == T \ {x}
<1>7. IsFiniteSet(U) /\ Cardinality(U) = k - 1 /\ Cardinality(U) \in Nat
  BY <1>4, <1>5, OneLess, FS_CardinalityType
<1>8. CASE U = {}
  <2>1. x \in Int /\ \A y \in T : y = x
    BY <1>4, <1>8
  <2> QED BY <1>4, <2>1
<1>9. CASE U # {}
  <2>1. HasGreatest(U)
    <3>1. SUFFICES ASSUME ~HasGreatest(U) PROVE FALSE
      OBVIOUS
    <3>2. k - 1 \in Sizes
      BY <1>7, <1>9, <3>1
    <3> QED BY <1>3, <1>7, <3>2
  <2>2. PICK z \in U : \A y \in U : z >= y
    BY <2>1
  <2>3. CASE x >= z
    BY <1>4, <2>2, <2>3
  <2>4. CASE ~(x >= z)
    BY <1>4, <2>2, <2>4
  <2> QED BY <2>3, <2>4
<1> QED BY <1>8, <1>9

\* Of finitely many hypotheses one has the least score.
LEMMA WorstExists ==
    ASSUME NEW X, IsFiniteSet(X), X # {}, \A h \in X : h.score \in Int
    PROVE  \E worst \in X : \A h \in X : worst.score <= h.score
<1> DEFINE f == [h \in X |-> 0 - h.score]
           S == {0 - h.score : h \in X}
<1>1. f \in Surjection(X, S)
  BY DEF Surjection
<1>2. IsFiniteSet(S)
  BY <1>1, FS_Surjection, Zenon
<1>3. S \in SUBSET Int /\ S # {}
  OBVIOUS
<1>4. PICK z \in S : \A y \in S : z >= y
  BY <1>2, <1>3, GreatestExists
<1>5. PICK worst \in X : z = 0 - worst.score
  OBVIOUS
<1>6. ASSUME NEW h \in X PROVE worst.score <= h.score
  <2>1. z >= 0 - h.score
    BY <1>4
  <2> QED BY <1>5, <2>1
<1> QED BY <1>6

\* The collections count as this module does.
LEMMA SameCounts ==
    ASSUME NEW S
    PROVE  /\ Coll!Cardinality(S) = Cardinality(S)
           /\ Coll!Max(S) = Max(S) /\ Coll!Min(S) = Min(S)
BY DEF Coll!Cardinality, Cardinality, Coll!Max, Max, Coll!Min, Min

-----------------------------------------------------------------------------
(* What the operations change                                                *)

\* t has the hypotheses of c and its best score, but for those in D.
Without(c, t, D) ==
    /\ IsCollection(t)
    /\ t.m_hypos = c.m_hypos \ D /\ t.m_bestScore = c.m_bestScore
    /\ Created(t) = Created(c)

\* What is freed was created, and the arcs that go with it.
LEMMA FreeFields ==
    ASSUME NEW c, IsCollection(c), NEW D
    PROVE  LET t == Coll!Free(c, D)
           IN  /\ IsCollection(t)
               /\ t.m_hypos = c.m_hypos /\ t.m_bestScore = c.m_bestScore
               /\ t.m_hyposOrdered = c.m_hyposOrdered
               /\ t.m_arcList = {arc \in c.m_arcList : arc[1] \notin D}
               /\ t.freed = c.freed \cup D \cup UNION {Coll!Arcs(c, h) : h \in D}
               /\ Created(t) = Created(c) \cup D
<1> DEFINE freed == c.freed \cup D \cup UNION {Coll!Arcs(c, h) : h \in D}
           arcs == {arc \in c.m_arcList : arc[1] \notin D}
           t == Coll!Free(c, D)
<1>1. t = [c EXCEPT !.freed = freed, !.m_arcList = arcs]
  BY DEF Coll!Free, IsCollection, CollectionFields
<1> HIDE DEF freed, arcs, t
<1>2. /\ IsCollection(t)
      /\ t.m_hypos = c.m_hypos /\ t.m_bestScore = c.m_bestScore
      /\ t.m_hyposOrdered = c.m_hyposOrdered
      /\ t.m_arcList = arcs /\ t.freed = freed
  BY <1>1 DEF IsCollection, CollectionFields
<1>3. {arc[2] : arc \in c.m_arcList} \cup D
         = {arc[2] : arc \in arcs} \cup D \cup UNION {Coll!Arcs(c, h) : h \in D}
  BY DEF arcs, Coll!Arcs
<1>4. Created(t) = Created(c) \cup D
  <2>1. Created(t) = c.m_hypos \cup {arc[2] : arc \in arcs} \cup freed
    BY <1>2 DEF Created
  <2> QED BY <2>1, <1>3 DEF Created, freed
<1> QED BY <1>2, <1>4 DEF t, freed, arcs

\* Remove keeps account of what it frees.
LEMMA RemoveFields ==
    ASSUME NEW c, IsCollection(c), NEW D, D \subseteq c.m_hypos
    PROVE  LET t == Coll!Remove(c, D)
           IN  Without(c, t, D) /\ t.m_hyposOrdered = c.m_hyposOrdered
<1> DEFINE u == Coll!Free(c, D)
           t == Coll!Remove(c, D)
<1>1. /\ IsCollection(u) /\ u.m_hypos = c.m_hypos /\ u.m_bestScore = c.m_bestScore
      /\ u.m_hyposOrdered = c.m_hyposOrdered
      /\ Created(u) = Created(c) \cup D
  BY FreeFields
<1>2. t = [u EXCEPT !.m_hypos = u.m_hypos \ D]
  BY <1>1 DEF Coll!Remove, IsCollection, CollectionFields
<1>3. D \subseteq u.freed
  BY FreeFields
<1> HIDE DEF u, t
<1>4. /\ IsCollection(t) /\ t.m_hypos = c.m_hypos \ D /\ t.m_bestScore = c.m_bestScore
      /\ t.m_hyposOrdered = c.m_hyposOrdered
      /\ t.m_arcList = u.m_arcList /\ t.freed = u.freed
  BY <1>1, <1>2 DEF IsCollection, CollectionFields
<1>5. Created(t) = Created(c)
  <2>1. Created(c) = Created(u)
    BY <1>1 DEF Created
  <2>2. Created(t) = Created(u)
    BY <1>1, <1>3, <1>4 DEF Created
  <2> QED BY <2>1, <2>2
<1> QED BY <1>4, <1>5 DEF Without, t

\* AddArc hands the arcs of the loser on to the winner.
LEMMA AddArcFields ==
    ASSUME NEW c, IsCollection(c), NEW winner, NEW loser
    PROVE  LET t == Coll!AddArc(c, winner, loser)
           IN  /\ IsCollection(t)
               /\ t.m_hypos = c.m_hypos /\ t.m_bestScore = c.m_bestScore
               /\ t.m_hyposOrdered = c.m_hyposOrdered
               /\ Created(t) = Created(c) \cup {loser}
<1> DEFINE arcs == {arc \in c.m_arcList : arc[1] # loser}
                      \cup {<<winner, g>> : g \in Coll!Arcs(c, loser) \cup {loser}}
           t == Coll!AddArc(c, winner, loser)
<1>1. t = [c EXCEPT !.m_arcList = arcs]
  BY DEF Coll!AddArc, IsCollection, CollectionFields
<1>2. {arc[2] : arc \in arcs} = {arc[2] : arc \in c.m_arcList} \cup {loser}
  <2>1. ASSUME NEW arc \in arcs PROVE arc[2] \in {a[2] : a \in c.m_arcList} \cup {loser}
    BY <2>1 DEF Coll!Arcs
  <2>2. ASSUME NEW arc \in c.m_arcList PROVE \E a \in arcs : a[2] = arc[2]
    <3>1. CASE arc[1] # loser
      BY <3>1
    <3>2. CASE arc[1] = loser
      <4>1. arc[2] \in Coll!Arcs(c, loser)
        BY <3>2 DEF Coll!Arcs
      <4>2. <<winner, arc[2]>> \in arcs
        BY <4>1
      <4> QED BY <4>2
    <3> QED BY <3>1, <3>2
  <2>3. \E a \in arcs : a[2] = loser
    <3>1. <<winner, loser>> \in arcs
      OBVIOUS
    <3> QED BY <3>1
  <2> HIDE DEF arcs
  <2> QED BY <2>1, <2>2, <2>3
<1> HIDE DEF arcs, t
<1>3. /\ IsCollection(t)
      /\ t.m_hypos = c.m_hypos /\ t.m_bestScore = c.m_bestScore
      /\ t.m_hyposOrdered = c.m_hyposOrdered
      /\ t.m_arcList = arcs /\ t.freed = c.freed
  BY <1>1 DEF IsCollection, CollectionFields
<1>4. Created(t) = Created(c) \cup {loser}
  BY <1>2, <1>3 DEF Created
<1> QED BY <1>3, <1>4 DEF t

-----------------------------------------------------------------------------
(* Pruning                                                                   *)

\* The others of the collection that are no worse than g.
NoWorse(c, g) == {f \in c.m_hypos : f.score >= g.score /\ f # g}

\* Pruning may take D away: each is outside the beam or has as many that are no
\* worse as there is room for, and the best is still there.
Expendable(c, D, options) ==
    /\ \A g \in D : \/ ~(g.score > c.m_bestScore - options.beamWidth)
                    \/ ~(Cardinality(NoWorse(c, g)) < options.maxHypoStackSize)
    /\ \E h \in c.m_hypos \ D : h.score = c.m_bestScore

\* A collection may lose what is expendable.
LEMMA PrunesGood ==
    ASSUME setup \in DOMAIN Setups, NEW c, Good(c, Options), NEW D,
           Expendable(c, D, Options), NEW t, Without(c, t, D)
    PROVE  Good(t, Options)
<1> DEFINE size == Options.maxHypoStackSize
           beam == Options.beamWidth
<1>1. size \in Nat /\ beam \in Nat
  BY ChartAssumption DEF Options
<1>2. /\ IsCollection(t) /\ Created(t) = Created(c) /\ t.m_bestScore = c.m_bestScore
      /\ t.m_hypos = c.m_hypos \ D
  BY DEF Without
<1>3. /\ IsFiniteSet(Created(c)) /\ \A h \in Created(c) : h.score \in Int
      /\ OneOfState(c) /\ BestThere(c) /\ TopKept(c, size, beam)
  BY DEF Good
<1>4. c.m_hypos \subseteq Created(c)
  BY DEF Created
<1>5. OneOfState(t) /\ BestThere(t)
  BY <1>2, <1>3 DEF OneOfState, BestThere, Expendable
<1>6. ASSUME NEW h \in Created(c), h.score > c.m_bestScore - beam,
             Cardinality(Rivals(Created(c), h)) < size
      PROVE  Stands(t, h)
  <2>1. PICK g \in c.m_hypos : g.state = h.state /\ g.score >= h.score
    BY <1>3, <1>6 DEF TopKept, Stands
  <2>2. g \in Created(c) /\ g.score \in Int /\ h.score \in Int /\ c.m_bestScore \in Int
    BY <1>3, <1>4 DEF BestThere
  <2>3. CASE g \notin D
    BY <1>2, <2>1, <2>3 DEF Stands
  <2>4. CASE g \in D
    <3>1. g.score > c.m_bestScore - beam
      BY <1>1, <1>6, <2>1, <2>2
    <3>2. ~(Cardinality(NoWorse(c, g)) < size)
      BY <2>4, <3>1 DEF Expendable
    <3>3. \A f \in NoWorse(c, g) : f \in Created(c) /\ f.score >= h.score /\ f.state # h.state
      BY <1>3, <1>4, <2>1, <2>2 DEF NoWorse, OneOfState
    <3>4. States(NoWorse(c, g)) \subseteq Rivals(Created(c), h)
      BY <3>3 DEF States, Rivals
    <3>5. IsFiniteSet(Rivals(Created(c), h))
      <4>1. IsFiniteSet({f \in Created(c) : f.score >= h.score /\ f.state # h.state})
        BY <1>3, PartOfFinite
      <4> QED BY <4>1, StatesFinite DEF Rivals
    <3>6. /\ IsFiniteSet(NoWorse(c, g))
          /\ Cardinality(NoWorse(c, g)) <= Cardinality(Rivals(Created(c), h))
      <4>1. \A x, y \in NoWorse(c, g) : x.state = y.state => x = y
        BY <1>3 DEF NoWorse, OneOfState
      <4> QED BY <3>4, <3>5, <4>1, StatesCount
    <3>7. Cardinality(NoWorse(c, g)) \in Nat /\ Cardinality(Rivals(Created(c), h)) \in Nat
      BY <3>5, <3>6, FS_CardinalityType
    <3> QED BY <1>1, <1>6, <3>2, <3>6, <3>7
  <2> QED BY <2>3, <2>4
<1>7. TopKept(t, size, beam)
  BY <1>2, <1>6 DEF TopKept
<1> QED BY <1>2, <1>3, <1>5, <1>7 DEF Good

\* The threshold is below the best score; what is below it is outside the beam
\* or has at least as many above it as there is room for.
LEMMA ThresholdFacts ==
    ASSUME setup \in DOMAIN Setups, NEW c, Good(c, Options)
    PROVE  /\ Coll!ScoreThreshold(c) \in Int
           /\ Coll!ScoreThreshold(c) <= c.m_bestScore
           /\ \A g \in c.m_hypos : g.score < Coll!ScoreThreshold(c) =>
                 \/ ~(g.score > c.m_bestScore - Options.beamWidth)
                 \/ ~(Cardinality(NoWorse(c, g)) < Options.maxHypoStackSize)
<1> DEFINE size == Options.maxHypoStackSize
           beam == Options.beamWidth
           B == Coll!InBeam(c)
           Above(s) == {f \in B : f.score >= s}
           room == Min({size, Cardinality(B)})
           last == {g \in B : Cardinality(Above(g.score)) >= room}
           S == {h.score : h \in last}
           T == Coll!ScoreThreshold(c)
<1>1. size \in Nat \ {0} /\ beam \in Nat \ {0}
  BY ChartAssumption DEF Options
<1>2. /\ IsFiniteSet(c.m_hypos) /\ \A h \in c.m_hypos : h.score \in Int
      /\ c.m_bestScore \in Int /\ \A h \in c.m_hypos : h.score <= c.m_bestScore
  <2>1. c.m_hypos \subseteq Created(c)
    BY DEF Created
  <2> QED BY <2>1, PartOfFinite DEF Good, BestThere
<1>3. B = {h \in c.m_hypos : h.score > c.m_bestScore - beam}
  BY DEF Coll!InBeam
<1>4. T = Max(S)
  <2> DEFINE collLast ==
                 {g \in B : Coll!Cardinality(Above(g.score))
                               >= Coll!Min({size, Coll!Cardinality(B)})}
  <2>1. T = Coll!Max({h.score : h \in collLast})
    BY DEF Coll!ScoreThreshold
  <2>2. Coll!Min({size, Coll!Cardinality(B)}) = room
    BY SameCounts
  <2>3. \A g \in B : Coll!Cardinality(Above(g.score)) = Cardinality(Above(g.score))
    BY SameCounts
  <2> HIDE DEF T, B, Above, room
  <2>4. collLast = last
    BY <2>2, <2>3
  <2> HIDE DEF collLast, last
  <2> QED BY <2>1, <2>4, SameCounts
<1> HIDE DEF T, B, beam, size
<1>5. B # {} /\ B \subseteq c.m_hypos /\ IsFiniteSet(B)
  <2>1. PICK h \in c.m_hypos : h.score = c.m_bestScore
    BY DEF Good, BestThere
  <2>2. h \in B
    BY <1>1, <1>2, <1>3, <2>1
  <2> QED BY <1>2, <1>3, <2>2, PartOfFinite
<1>6. Cardinality(B) \in Nat
  BY <1>5, FS_CardinalityType
<1>7. room \in {size, Cardinality(B)} /\ room <= Cardinality(B) /\ room \in Int
  <2>1. \E x \in {size, Cardinality(B)} : \A y \in {size, Cardinality(B)} : x <= y
    BY <1>1, <1>6
  <2>2. room \in {size, Cardinality(B)} /\ \A y \in {size, Cardinality(B)} : room <= y
    BY <2>1 DEF Min
  <2> QED BY <1>1, <1>6, <2>2
<1> HIDE DEF room
<1>8. S # {}
  <2>1. PICK worst \in B : \A h \in B : worst.score <= h.score
    BY <1>2, <1>5, WorstExists
  <2>2. Above(worst.score) = B
    BY <1>2, <1>5, <2>1
  <2>3. worst \in last
    BY <1>6, <1>7, <2>2
  <2> QED BY <2>3
<1>9. S \in SUBSET Int /\ IsFiniteSet(S)
  <2>1. S \subseteq {h.score : h \in B}
    OBVIOUS
  <2> DEFINE f == [h \in B |-> h.score]
  <2>2. f \in Surjection(B, {h.score : h \in B})
    BY DEF Surjection
  <2>3. IsFiniteSet({h.score : h \in B})
    BY <1>5, <2>2, FS_Surjection, Zenon
  <2> QED BY <1>2, <1>5, <2>1, <2>3, PartOfFinite
<1>10. T \in S
  <2>1. \E x \in S : \A y \in S : x >= y
    BY <1>8, <1>9, GreatestExists
  <2> HIDE DEF S
  <2> QED BY <1>4, <2>1 DEF Max
<1>11. PICK t \in B : t.score = T /\ Cardinality(Above(T)) >= room
  BY <1>10
<1>12. T \in Int /\ T <= c.m_bestScore
  BY <1>2, <1>5, <1>11
<1>13. ASSUME NEW g \in c.m_hypos, g.score < T, g.score > c.m_bestScore - beam
       PROVE  ~(Cardinality(NoWorse(c, g)) < size)
  <2>1. g \in B /\ g \notin Above(T) /\ g.score \in Int
    BY <1>2, <1>3, <1>12, <1>13
  <2>2. IsFiniteSet(NoWorse(c, g))
    BY <1>2, PartOfFinite DEF NoWorse
  <2>3. Above(T) \subseteq NoWorse(c, g)
    BY <1>2, <1>5, <1>12, <1>13 DEF NoWorse
  <2>4. Above(T) \subseteq B \ {g}
    BY <2>1
  <2>5. /\ IsFiniteSet(B \ {g}) /\ Cardinality(B \ {g}) = Cardinality(B) - 1
    BY <1>5, <2>1, OneLess
  <2> HIDE DEF Above
  <2>6. /\ Cardinality(Above(T)) \in Nat /\ Cardinality(NoWorse(c, g)) \in Nat
        /\ Cardinality(Above(T)) <= Cardinality(NoWorse(c, g))
    BY <2>2, <2>3, PartOfFinite
  <2>7. Cardinality(Above(T)) <= Cardinality(B \ {g})
    BY <2>4, <2>5, PartOfFinite
  <2> QED BY <1>1, <1>6, <1>7, <1>11, <2>5, <2>6, <2>7
<1> QED BY <1>12, <1>13 DEF T, beam, size

\* What is not among the n best has more than n that are no worse.
LEMMA BestKeeps ==
    ASSUME NEW X, NEW n, NEW B \in Coll!Best(X, n), NEW x \in X, x \notin B
    PROVE  ~(Cardinality({g \in X : g.score >= x.score}) <= n)
<1> DEFINE sure == {h \in X : Coll!Cardinality({g \in X : g.score >= h.score}) <= n}
<1>1. sure \subseteq B
  BY DEF Coll!Best
<1>2. Coll!Cardinality({g \in X : g.score >= x.score})
         = Cardinality({g \in X : g.score >= x.score})
  BY SameCounts
<1> QED BY <1>1, <1>2

\* What is among the n best was there.
LEMMA BestIsPart ==
    ASSUME NEW X, NEW n, NEW B \in Coll!Best(X, n) PROVE B \subseteq X
BY DEF Coll!Best, Coll!kSubset

\* Of the best, one is among the n best.
LEMMA BestHasTop ==
    ASSUME NEW X, IsFiniteSet(X), \A h \in X : h.score \in Int, NEW n \in Nat \ {0},
           NEW B \in Coll!Best(X, n), NEW b \in X, \A h \in X : h.score <= b.score
    PROVE  \E h \in B : h.score = b.score
<1> DEFINE Tops == {g \in X : g.score >= b.score}
           sure == {h \in X : Coll!Cardinality({g \in X : g.score >= h.score}) <= n}
           Ahead(h) == {g \in X : g.score > h.score}
<1>1. CASE b \in B
  BY <1>1
<1>2. CASE b \notin B
  <2>1. ~(Cardinality(Tops) <= n)
    BY <1>2, BestKeeps
  <2>2. IsFiniteSet(Tops) /\ Cardinality(Tops) \in Nat
    BY PartOfFinite
  <2>3. PICK top : /\ B = sure \cup top
                   /\ Coll!Cardinality(top) = n - Coll!Cardinality(sure)
                   /\ top \subseteq {h \in X \ sure : Coll!Cardinality(Ahead(h)) < n}
    <3>1. B # X
      BY <1>2
    <3>2. B \in {sure \cup top : top \in Coll!kSubset(n - Coll!Cardinality(sure),
                       {h \in X \ sure : Coll!Cardinality(Ahead(h)) < n})}
      BY <3>1 DEF Coll!Best
    <3> HIDE DEF sure, Ahead
    <3> QED BY <3>2 DEF Coll!kSubset
  <2>4. sure = {}
    <3> SUFFICES ASSUME NEW h \in sure PROVE FALSE
      OBVIOUS
    <3> DEFINE Y == {g \in X : g.score >= h.score}
    <3>1. h \in X /\ Cardinality(Y) <= n
      BY SameCounts
    <3>2. Tops \subseteq Y
      BY <3>1
    <3>3. IsFiniteSet(Y)
      BY PartOfFinite
    <3>4. Cardinality(Tops) <= Cardinality(Y) /\ Cardinality(Y) \in Nat
      BY <3>2, <3>3, PartOfFinite
    <3> HIDE DEF Y, Tops
    <3> QED BY <2>1, <2>2, <3>1, <3>4
  <2>5. Cardinality(top) = n
    <3>1. Coll!Cardinality(sure) = 0
      BY <2>4, SameCounts, FS_EmptySet
    <3> HIDE DEF sure
    <3> QED BY <2>3, <3>1, SameCounts
  <2>6. PICK h \in top : TRUE
    <3>1. top # {}
      BY <2>5, FS_EmptySet
    <3> QED BY <3>1
  <2>7. h \in X /\ h \in B /\ Cardinality(Ahead(h)) < n
    <3>1. h \in B /\ h \in X /\ Coll!Cardinality(Ahead(h)) < n
      BY <2>3
    <3> HIDE DEF Ahead
    <3> QED BY <3>1, SameCounts
  <2>8. h.score = b.score
    <3> SUFFICES ASSUME h.score # b.score PROVE FALSE
      OBVIOUS
    <3>1. Tops \subseteq Ahead(h)
      BY <2>7
    <3>2. IsFiniteSet(Ahead(h))
      BY PartOfFinite
    <3>3. Cardinality(Tops) <= Cardinality(Ahead(h)) /\ Cardinality(Ahead(h)) \in Nat
      BY <3>1, <3>2, PartOfFinite
    <3> HIDE DEF Tops, Ahead
    <3> QED BY <2>1, <2>2, <2>7, <3>3
  <2> QED BY <2>7, <2>8
<1> QED BY <1>1, <1>2

\* Pruning to the size keeps what TopKept promises, whatever order ties are in.
LEMMA PruneGood ==
    ASSUME setup \in DOMAIN Setups, NEW c, Good(c, Options),
           NEW t \in Coll!PruneToSize(c)
    PROVE  Good(t, Options) /\ Created(t) = Created(c) /\ t.m_hypos \subseteq c.m_hypos
<1>1. CASE t = c
  BY <1>1
<1>2. CASE t # c
  <2> DEFINE size == Options.maxHypoStackSize
             T == Coll!ScoreThreshold(c)
             D == {h \in c.m_hypos : h.score < T}
             u == Coll!Remove(c, D)
  <2>1. size \in Nat \ {0}
    BY ChartAssumption DEF Options
  <2>2. t \in Coll!DesperationPruning(u)
    BY <1>2 DEF Coll!PruneToSize
  <2>3. Without(c, u, D)
    BY RemoveFields DEF Good
  <2>4. Expendable(c, D, Options)
    <3>1. \A g \in D : \/ ~(g.score > c.m_bestScore - Options.beamWidth)
                       \/ ~(Cardinality(NoWorse(c, g)) < Options.maxHypoStackSize)
      BY ThresholdFacts
    <3>2. PICK h \in c.m_hypos : h.score = c.m_bestScore
      BY DEF Good, BestThere
    <3>3. T \in Int /\ T <= c.m_bestScore
      BY ThresholdFacts
    <3>4. c.m_bestScore \in Int
      BY DEF Good, BestThere
    <3> HIDE DEF T
    <3>5. ~(h.score < T)
      BY <3>2, <3>3, <3>4
    <3> QED BY <3>1, <3>2, <3>5 DEF Expendable
  <2> HIDE DEF D, u, T
  <2>5. Good(u, Options)
    BY <2>3, <2>4, PrunesGood
  <2>6. PICK top \in Coll!Best(u.m_hypos, 2 * size) : t = Coll!Remove(u, u.m_hypos \ top)
    BY <2>2 DEF Coll!DesperationPruning
  <2> DEFINE E == u.m_hypos \ top
  <2>7. Without(u, t, E)
    BY <2>5, <2>6, RemoveFields DEF Good
  <2>8. /\ IsFiniteSet(u.m_hypos) /\ \A h \in u.m_hypos : h.score \in Int
        /\ \A h \in u.m_hypos : h.score <= u.m_bestScore
    <3>1. u.m_hypos \subseteq Created(u)
      BY DEF Created
    <3> QED BY <2>5, <3>1, PartOfFinite DEF Good, BestThere
  <2>9. ASSUME NEW g \in E PROVE ~(Cardinality(NoWorse(u, g)) < size)
    <3> DEFINE Y == {f \in u.m_hypos : f.score >= g.score}
    <3>1. ~(Cardinality(Y) <= 2 * size)
      BY <2>6, BestKeeps
    <3>2. g \in Y /\ IsFiniteSet(Y)
      BY <2>8, PartOfFinite
    <3>3. NoWorse(u, g) = Y \ {g}
      BY DEF NoWorse
    <3>4. Cardinality(Y) \in Nat /\ Cardinality(NoWorse(u, g)) = Cardinality(Y) - 1
      BY <3>2, <3>3, OneLess
    <3> HIDE DEF Y
    <3> QED BY <2>1, <3>1, <3>4
  <2>10. \E h \in u.m_hypos \ E : h.score = u.m_bestScore
    <3>1. PICK b \in u.m_hypos : b.score = u.m_bestScore
      BY <2>5 DEF Good, BestThere
    <3>2. 2 * size \in Nat \ {0}
      BY <2>1
    <3> HIDE DEF size
    <3>3. PICK h \in top : h.score = b.score
      BY <2>6, <2>8, <3>1, <3>2, BestHasTop
    <3>4. top \subseteq u.m_hypos
      BY <2>6, BestIsPart
    <3> QED BY <3>1, <3>3, <3>4
  <2>11. Expendable(u, E, Options)
    BY <2>9, <2>10 DEF Expendable
  <2>12. Good(t, Options)
    BY <2>5, <2>7, <2>11, PrunesGood
  <2> QED BY <2>3, <2>7, <2>12 DEF Without
<1> QED BY <1>1, <1>2

-----------------------------------------------------------------------------
(* Adding                                                                    *)

\* A collection of this command line, or one that has just been made.
Usable(c, options) == Good(c, options) \/ c = Coll!EmptyCollection

\* A new collection has nothing.
LEMMA EmptyFields ==
    LET c == Coll!EmptyCollection
    IN  /\ IsCollection(c) /\ c.m_hypos = {} /\ c.m_bestScore = NegInfinity
        /\ Created(c) = {}
<1> DEFINE c == Coll!EmptyCollection
<1>1. /\ IsCollection(c) /\ c.m_hypos = {} /\ c.m_bestScore = NegInfinity
      /\ c.m_arcList = {} /\ c.freed = {}
  BY DEF Coll!EmptyCollection, IsCollection, CollectionFields
<1> HIDE DEF c
<1>2. Created(c) = {}
  BY <1>1 DEF Created
<1> QED BY <1>1, <1>2 DEF c

\* What an insertion needs of the collection it is made into.
LEMMA UsableFacts ==
    ASSUME setup \in DOMAIN Setups, NEW c, Usable(c, Options)
    PROVE  /\ IsCollection(c) /\ IsFiniteSet(Created(c))
           /\ \A h \in Created(c) : h.score \in Int
           /\ c.m_hypos \subseteq Created(c) /\ OneOfState(c)
           /\ IF c.m_bestScore = NegInfinity THEN Created(c) = {} ELSE Good(c, Options)
<1>1. CASE Good(c, Options)
  <2>1. c.m_bestScore # NegInfinity
    BY <1>1, ChartAssumption DEF Good, BestThere
  <2>2. c.m_hypos \subseteq Created(c)
    BY DEF Created
  <2> QED BY <1>1, <2>1, <2>2 DEF Good
<1>2. CASE c = Coll!EmptyCollection
  <2>1. /\ IsCollection(c) /\ c.m_hypos = {} /\ c.m_bestScore = NegInfinity
        /\ Created(c) = {}
    BY <1>2, EmptyFields
  <2> QED BY <2>1, FS_EmptySet DEF OneOfState
<1> QED BY <1>1, <1>2 DEF Usable

\* The greater of two numbers.
LEMMA MaxOfTwo ==
    ASSUME NEW x \in Int, NEW y \in Int
    PROVE  /\ Coll!Max({x, y}) \in {x, y} /\ Coll!Max({x, y}) \in Int
           /\ Coll!Max({x, y}) >= x /\ Coll!Max({x, y}) >= y
<1>1. \E z \in {x, y} : \A w \in {x, y} : z >= w
  OBVIOUS
<1>2. Max({x, y}) \in {x, y} /\ \A w \in {x, y} : Max({x, y}) >= w
  BY <1>1 DEF Max
<1> QED BY <1>2, SameCounts

\* More hypotheses have no fewer rivals of one of them.
LEMMA MoreRivals ==
    ASSUME NEW C, NEW D, C \subseteq D, IsFiniteSet(D), NEW x
    PROVE  /\ Cardinality(Rivals(C, x)) \in Nat /\ Cardinality(Rivals(D, x)) \in Nat
           /\ Cardinality(Rivals(C, x)) <= Cardinality(Rivals(D, x))
<1>1. Rivals(C, x) \subseteq Rivals(D, x)
  BY DEF Rivals, States
<1>2. IsFiniteSet({f \in D : f.score >= x.score /\ f.state # x.state})
  BY PartOfFinite
<1>3. IsFiniteSet(Rivals(D, x))
  BY <1>2, StatesFinite DEF Rivals
<1> QED BY <1>1, <1>3, PartOfFinite

\* E is what h recombines with and is not worse than.
Ousted(c, h, E) ==
    /\ \A g \in c.m_hypos : g.state = h.state <=> g \in E
    /\ \A g \in E : g \in c.m_hypos /\ g.score <= h.score

\* A hypothesis takes the place of those it recombines with, E, which are no
\* better than it and go to its arc list or are freed.
LEMMA InsertGood ==
    ASSUME setup \in DOMAIN Setups, NEW c, Usable(c, Options), NEW h, h.score \in Int,
           NEW E, Ousted(c, h, E),
           NEW t, IsCollection(t), t.m_hypos = (c.m_hypos \ E) \cup {h},
           t.m_bestScore = Coll!BestScoreWith(c, h), Created(t) = Created(c) \cup {h}
    PROVE  Good(t, Options)
<1> DEFINE size == Options.maxHypoStackSize
           beam == Options.beamWidth
<1>1. size \in Nat /\ beam \in Nat
  BY ChartAssumption DEF Options
<1>2. /\ IsFiniteSet(Created(c)) /\ \A g \in Created(c) : g.score \in Int
      /\ c.m_hypos \subseteq Created(c) /\ OneOfState(c)
      /\ IF c.m_bestScore = NegInfinity THEN Created(c) = {} ELSE Good(c, Options)
  BY UsableFacts
<1>3. IsFiniteSet(Created(t)) /\ \A g \in Created(t) : g.score \in Int
  BY <1>2, FS_AddElement
<1>4. OneOfState(t)
  BY <1>2 DEF OneOfState, Ousted
<1>5. CASE c.m_bestScore = NegInfinity
  <2>1. Created(t) = {h} /\ t.m_hypos = {h} /\ t.m_bestScore = h.score
    BY <1>2, <1>5 DEF Coll!BestScoreWith
  <2>2. BestThere(t)
    BY <2>1 DEF BestThere
  <2>3. TopKept(t, size, beam)
    BY <2>1 DEF TopKept, Stands
  <2> QED BY <1>3, <1>4, <2>2, <2>3 DEF Good
<1>6. CASE c.m_bestScore # NegInfinity
  <2>1. Good(c, Options) /\ c.m_bestScore \in Int
    BY <1>2, <1>6 DEF Good, BestThere
  <2>2. t.m_bestScore = Coll!Max({c.m_bestScore, h.score})
    BY <1>6 DEF Coll!BestScoreWith
  <2>3. /\ t.m_bestScore \in {c.m_bestScore, h.score} /\ t.m_bestScore \in Int
        /\ t.m_bestScore >= c.m_bestScore /\ t.m_bestScore >= h.score
    BY <2>1, <2>2, MaxOfTwo
  <2>4. \A g \in Created(t) : g.score <= t.m_bestScore
    BY <1>2, <2>1, <2>3 DEF Good, BestThere
  <2>5. \E g \in t.m_hypos : g.score = t.m_bestScore
    <3>1. CASE t.m_bestScore = h.score
      BY <3>1
    <3>2. CASE t.m_bestScore # h.score
      <4>1. PICK g \in c.m_hypos : g.score = c.m_bestScore
        BY <2>1 DEF Good, BestThere
      <4>2. g \notin E
        BY <2>1, <2>3, <3>2, <4>1 DEF Ousted
      <4> QED BY <2>3, <3>2, <4>1, <4>2
    <3> QED BY <3>1, <3>2
  <2>6. BestThere(t)
    BY <2>3, <2>4, <2>5 DEF BestThere
  <2>7. ASSUME NEW x \in Created(c), x.score > t.m_bestScore - beam,
               Cardinality(Rivals(Created(t), x)) < size
        PROVE  Stands(t, x)
    <3>1. x.score > c.m_bestScore - beam
      BY <1>1, <1>2, <2>1, <2>3, <2>7
    <3>2. Cardinality(Rivals(Created(c), x)) < size
      <4>1. /\ Cardinality(Rivals(Created(c), x)) \in Nat
            /\ Cardinality(Rivals(Created(t), x)) \in Nat
            /\ Cardinality(Rivals(Created(c), x)) <= Cardinality(Rivals(Created(t), x))
        BY <1>3, MoreRivals
      <4> QED BY <1>1, <2>7, <4>1
    <3>3. PICK g \in c.m_hypos : g.state = x.state /\ g.score >= x.score
      BY <2>1, <3>1, <3>2 DEF Good, TopKept, Stands
    <3>4. CASE g \in E
      <4>1. g.state = h.state /\ h.score >= g.score
        BY <3>4, <1>2 DEF Ousted
      <4>2. h.score >= x.score
        BY <1>2, <3>3, <3>4, <4>1 DEF Ousted
      <4> QED BY <3>3, <4>1, <4>2 DEF Stands
    <3>5. CASE g \notin E
      BY <3>3, <3>5 DEF Stands
    <3> QED BY <3>4, <3>5
  <2>8. TopKept(t, size, beam)
    <3>1. Stands(t, h)
      BY DEF Stands
    <3> QED BY <2>7, <3>1 DEF TopKept
  <2> QED BY <1>3, <1>4, <2>6, <2>8 DEF Good
<1> QED BY <1>5, <1>6

\* A hypothesis that is discarded, or recombines with one that is no worse,
\* changes nothing but what has been created.
LEMMA KeptOutGood ==
    ASSUME setup \in DOMAIN Setups, NEW c, Good(c, Options), NEW h, h.score \in Int,
           h.score < c.m_bestScore - Options.beamWidth \/ Stands(c, h),
           NEW t, IsCollection(t), t.m_hypos = c.m_hypos,
           t.m_bestScore = c.m_bestScore, Created(t) = Created(c) \cup {h}
    PROVE  Good(t, Options)
<1> DEFINE size == Options.maxHypoStackSize
           beam == Options.beamWidth
<1>1. size \in Nat /\ beam \in Nat
  BY ChartAssumption DEF Options
<1>2. /\ IsFiniteSet(Created(c)) /\ \A g \in Created(c) : g.score \in Int
      /\ OneOfState(c) /\ BestThere(c) /\ TopKept(c, size, beam)
      /\ c.m_bestScore \in Int
  BY DEF Good, BestThere
<1>3. c.m_hypos \subseteq Created(c)
  BY DEF Created
<1>4. IsFiniteSet(Created(t)) /\ \A g \in Created(t) : g.score \in Int
  BY <1>2, FS_AddElement
<1>5. h.score <= c.m_bestScore
  <2>1. CASE Stands(c, h)
    <3>1. PICK g \in c.m_hypos : g.score >= h.score
      BY <2>1 DEF Stands
    <3> QED BY <1>2, <1>3, <3>1 DEF BestThere
  <2>2. CASE h.score < c.m_bestScore - Options.beamWidth
    BY <1>1, <1>2, <2>2
  <2> QED BY <2>1, <2>2
<1>6. OneOfState(t) /\ BestThere(t)
  BY <1>2, <1>5 DEF OneOfState, BestThere
<1>7. ASSUME NEW x \in Created(t), x.score > t.m_bestScore - beam,
             Cardinality(Rivals(Created(t), x)) < size
      PROVE  Stands(t, x)
  <2>1. CASE x = h
    <3>1. ~(h.score < c.m_bestScore - beam)
      BY <1>1, <1>2, <1>7, <2>1
    <3> QED BY <2>1, <3>1 DEF Stands
  <2>2. CASE x \in Created(c)
    <3>1. /\ Cardinality(Rivals(Created(c), x)) \in Nat
          /\ Cardinality(Rivals(Created(t), x)) \in Nat
          /\ Cardinality(Rivals(Created(c), x)) <= Cardinality(Rivals(Created(t), x))
      BY <1>4, MoreRivals
    <3>2. Cardinality(Rivals(Created(c), x)) < size
      BY <1>1, <1>7, <3>1
    <3> QED BY <1>2, <1>7, <2>2, <3>2 DEF TopKept, Stands
  <2> QED BY <2>1, <2>2
<1>8. TopKept(t, size, beam)
  BY <1>7 DEF TopKept
<1> QED BY <1>2, <1>4, <1>6, <1>8 DEF Good

\* Add inserts the hypothesis, and may prune afterwards.
LEMMA AddGood ==
    ASSUME setup \in DOMAIN Setups, NEW c, Usable(c, Options), NEW h, h.score \in Int,
           NEW E, Ousted(c, h, E), NEW b, Without(c, b, E), NEW t \in Coll!Add(b, h)
    PROVE  Good(t, Options) /\ Created(t) = Created(c) \cup {h}
<1>0. /\ IsCollection(b) /\ b.m_hypos = c.m_hypos \ E
      /\ b.m_bestScore = c.m_bestScore /\ Created(b) = Created(c)
  BY DEF Without
<1> DEFINE best == Coll!BestScoreWith(b, h)
           added == [b EXCEPT !.m_hypos = b.m_hypos \cup {h}, !.m_bestScore = best]
<1>1. t = added \/ t \in Coll!PruneToSize(added)
  BY <1>0 DEF Coll!Add, IsCollection, CollectionFields
<1>2. best = Coll!BestScoreWith(c, h)
  BY <1>0 DEF Coll!BestScoreWith
<1> HIDE DEF best
<1>3. /\ IsCollection(added) /\ added.m_hypos = b.m_hypos \cup {h}
      /\ added.m_bestScore = best
      /\ added.m_arcList = b.m_arcList /\ added.freed = b.freed
  BY <1>0 DEF IsCollection, CollectionFields
<1> HIDE DEF added
<1>4. Created(added) = Created(c) \cup {h}
  <2>1. Created(added) = Created(b) \cup {h}
    BY <1>3 DEF Created
  <2> QED BY <1>0, <2>1
<1>5. added.m_hypos = (c.m_hypos \ E) \cup {h}
  BY <1>0, <1>3
<1>6. Good(added, Options)
  BY <1>2, <1>3, <1>4, <1>5, InsertGood
<1>7. CASE t = added
  BY <1>4, <1>6, <1>7
<1>8. CASE t \in Coll!PruneToSize(added)
  BY <1>4, <1>6, <1>8, PruneGood
<1> QED BY <1>1, <1>7, <1>8

\* Whatever AddHypothesis does with a hypothesis, the collection stays good.
LEMMA AddHypothesisGood ==
    ASSUME setup \in DOMAIN Setups, NEW c, Usable(c, Options), NEW h, h.score \in Int,
           NEW t \in Coll!AddHypothesis(c, h)
    PROVE  Good(t, Options) /\ Created(t) = Created(c) \cup {h}
<1>1. /\ IsCollection(c) /\ c.m_hypos \subseteq Created(c) /\ OneOfState(c)
      /\ \A g \in Created(c) : g.score \in Int
      /\ IF c.m_bestScore = NegInfinity THEN Created(c) = {} ELSE Good(c, Options)
  BY UsableFacts
<1>2. ASSUME c.m_bestScore # NegInfinity, h.score < c.m_bestScore - Options.beamWidth,
             t = Coll!Free(c, {h})
      PROVE  Good(t, Options) /\ Created(t) = Created(c) \cup {h}
  <2>1. /\ IsCollection(t) /\ t.m_hypos = c.m_hypos /\ t.m_bestScore = c.m_bestScore
        /\ Created(t) = Created(c) \cup {h}
    BY <1>1, <1>2, FreeFields
  <2> QED BY <1>1, <1>2, <2>1, KeptOutGood
<1>3. ASSUME Coll!Existing(c, h) = {}, t \in Coll!Add(c, h)
      PROVE  Good(t, Options) /\ Created(t) = Created(c) \cup {h}
  <2>1. Ousted(c, h, {})
    BY <1>3 DEF Coll!Existing, Ousted
  <2>2. Without(c, c, {})
    BY <1>1 DEF Without
  <2> QED BY <1>1, <1>3, <2>1, <2>2, AddGood
<1>4. ASSUME NEW g \in Coll!Existing(c, h), h.score > g.score, t \in Coll!Replace(c, h, g)
      PROVE  Good(t, Options) /\ Created(t) = Created(c) \cup {h}
  <2> DEFINE detached == [c EXCEPT !.m_hypos = c.m_hypos \ {g}]
             arced == Coll!AddArc(detached, h, g)
             removed == Coll!Remove(c, {g})
  <2>1. g \in c.m_hypos /\ g.state = h.state /\ g.score \in Int
    BY <1>1 DEF Coll!Existing
  <2>2. t \in Coll!Add(IF Coll!m_nBestIsEnabled THEN arced ELSE removed, h)
    BY <1>1, <1>4 DEF Coll!Replace, IsCollection, CollectionFields
  <2>3. /\ IsCollection(detached) /\ detached.m_hypos = c.m_hypos \ {g}
        /\ detached.m_bestScore = c.m_bestScore
        /\ detached.m_arcList = c.m_arcList /\ detached.freed = c.freed
    BY <1>1 DEF IsCollection, CollectionFields
  <2> HIDE DEF detached
  <2>4. Created(detached) \cup {g} = Created(c)
    BY <2>1, <2>3 DEF Created
  <2>5. /\ IsCollection(arced) /\ arced.m_hypos = detached.m_hypos
        /\ arced.m_bestScore = detached.m_bestScore
        /\ Created(arced) = Created(detached) \cup {g}
    BY <2>3, AddArcFields
  <2>6. Without(c, removed, {g})
    BY <1>1, <2>1, RemoveFields
  <2>7. Ousted(c, h, {g})
    BY <1>1, <1>4, <2>1 DEF OneOfState, Ousted
  <2> HIDE DEF arced, removed
  <2>8. Without(c, arced, {g})
    BY <2>3, <2>4, <2>5 DEF Without
  <2>9. CASE Coll!m_nBestIsEnabled
    <3>1. t \in Coll!Add(arced, h)
      BY <2>2, <2>9
    <3> QED BY <2>7, <2>8, <3>1, AddGood
  <2>10. CASE ~Coll!m_nBestIsEnabled
    <3>1. t \in Coll!Add(removed, h)
      BY <2>2, <2>10
    <3> QED BY <2>6, <2>7, <3>1, AddGood
  <2> QED BY <2>9, <2>10
<1>5. ASSUME NEW g \in Coll!Existing(c, h), ~(h.score > g.score), t \in Coll!Lose(c, h, g)
      PROVE  Good(t, Options) /\ Created(t) = Created(c) \cup {h}
  <2>1. g \in c.m_hypos /\ g.state = h.state /\ g.score \in Int
    BY <1>1 DEF Coll!Existing
  <2>2. t = Coll!AddArc(c, g, h) \/ t = Coll!Free(c, {h})
    BY <1>5 DEF Coll!Lose
  <2>3. /\ IsCollection(t) /\ t.m_hypos = c.m_hypos /\ t.m_bestScore = c.m_bestScore
        /\ Created(t) = Created(c) \cup {h}
    BY <1>1, <2>2, FreeFields, AddArcFields
  <2>4. Good(c, Options)
    <3>1. Created(c) # {}
      BY <1>1, <2>1
    <3> QED BY <1>1, <3>1
  <2>5. Stands(c, h)
    BY <1>5, <2>1 DEF Stands
  <2> QED BY <2>3, <2>4, <2>5, KeptOutGood
<1>6. \/ /\ c.m_bestScore # NegInfinity /\ h.score < c.m_bestScore - Options.beamWidth
         /\ t = Coll!Free(c, {h})
      \/ Coll!Existing(c, h) = {} /\ t \in Coll!Add(c, h)
      \/ \E g \in Coll!Existing(c, h) : h.score > g.score /\ t \in Coll!Replace(c, h, g)
      \/ \E g \in Coll!Existing(c, h) : ~(h.score > g.score) /\ t \in Coll!Lose(c, h, g)
  BY DEF Coll!AddHypothesis
<1> QED BY <1>2, <1>3, <1>4, <1>5, <1>6

\* CleanupArcList frees losers only.
LEMMA CleanupFields ==
    ASSUME NEW c, IsCollection(c), NEW t \in Coll!CleanupArcList(c)
    PROVE  /\ IsCollection(t) /\ t.m_hypos = c.m_hypos
           /\ t.m_bestScore = c.m_bestScore /\ Created(t) = Created(c)
<1>1. CASE t = c
  BY <1>1
<1>2. CASE t # c
  <2>1. t \in Coll!CutArcLists(c, Options.nBestSize, Options.nBestSize)
    BY <1>2 DEF Coll!CleanupArcList
  <2>2. PICK keep \in Coll!TidyArcs(c, Options.nBestSize, Options.nBestSize) :
            t = [Coll!Free(c, {arc[2] : arc \in c.m_arcList \ keep}) EXCEPT !.m_arcList = keep]
    BY <2>1 DEF Coll!CutArcLists
  <2>3. keep \subseteq c.m_arcList
    BY DEF Coll!TidyArcs
  <2> DEFINE D == {arc[2] : arc \in c.m_arcList \ keep}
             u == Coll!Free(c, D)
  <2>4. /\ IsCollection(u) /\ u.m_hypos = c.m_hypos /\ u.m_bestScore = c.m_bestScore
        /\ u.freed = c.freed \cup D \cup UNION {Coll!Arcs(c, h) : h \in D}
        /\ Created(u) = Created(c) \cup D
    BY FreeFields
  <2>5. t = [u EXCEPT !.m_arcList = keep]
    BY <2>2
  <2> HIDE DEF u
  <2>6. /\ IsCollection(t) /\ t.m_hypos = c.m_hypos /\ t.m_bestScore = c.m_bestScore
        /\ t.m_arcList = keep /\ t.freed = u.freed
    BY <2>4, <2>5 DEF IsCollection, CollectionFields
  <2>7. Created(t) = Created(c)
    <3>1. {arc[2] : arc \in keep} \cup D = {arc[2] : arc \in c.m_arcList}
      BY <2>3
    <3>2. \A h \in D : Coll!Arcs(c, h) \subseteq {arc[2] : arc \in c.m_arcList}
      BY DEF Coll!Arcs
    <3>3. UNION {Coll!Arcs(c, h) : h \in D} \subseteq {arc[2] : arc \in c.m_arcList}
      BY <3>2
    <3>4. Created(t) = c.m_hypos \cup {arc[2] : arc \in keep} \cup u.freed
      BY <2>6 DEF Created
    <3> HIDE DEF D
    <3> QED BY <2>4, <3>1, <3>3, <3>4 DEF Created
  <2> QED BY <2>6, <2>7
<1> QED BY <1>1, <1>2

-----------------------------------------------------------------------------
(* Sorting                                                                   *)

\* From 0, step by step, to n.
LEMMA Stepwise ==
    ASSUME NEW n \in Nat, NEW P, 0 \in P, \A k \in 1 .. n : k - 1 \in P => k \in P
    PROVE  0 .. n \subseteq P
<1> DEFINE missing == {k \in 0 .. n : k \notin P}
<1> SUFFICES ASSUME missing # {} PROVE FALSE
  OBVIOUS
<1>1. missing \subseteq Nat
  OBVIOUS
<1>2. PICK k \in missing : \A j \in missing : ~(<<j, k>> \in OpToRel(<, Nat))
  <2> HIDE DEF missing
  <2> QED BY <1>1, NatLessThanWellFounded, WFMin, Zenon
<1>3. k \in 1 .. n /\ k - 1 \in 0 .. n /\ k - 1 \in Nat /\ k \in Nat /\ k - 1 < k
  OBVIOUS
<1>4. k - 1 \notin missing
  BY <1>2, <1>3 DEF OpToRel
<1> QED BY <1>3, <1>4

\* One more hypothesis: any of the best that are left.
SortOn(hypos, seqs, n) ==
    UNION {LET left == hypos \ {s[i] : i \in 1 .. n - 1}
           IN {Append(s, h) : h \in {g \in left :
                   \A f \in left : f.score <= g.score}} : s \in seqs}

SortsTo(hypos, f, n) ==
    f = [k \in 0 .. n |-> IF k = 0 THEN {<<>>} ELSE SortOn(hypos, f[k - 1], k)]

\* Sorted is defined, for any number of hypotheses.
LEMMA SortDefined ==
    ASSUME NEW hypos, NEW n \in Nat PROVE \E f : SortsTo(hypos, f, n)
<1> DEFINE P == {k \in 0 .. n : \E f : SortsTo(hypos, f, k)}
<1>1. 0 \in P
  <2>1. SortsTo(hypos, [k \in 0 .. 0 |-> {<<>>}], 0)
    BY DEF SortsTo
  <2> QED BY <2>1
<1>2. ASSUME NEW k \in 1 .. n, k - 1 \in P PROVE k \in P
  <2>1. PICK f : SortsTo(hypos, f, k - 1)
    BY <1>2
  <2> DEFINE g == [j \in 0 .. k |-> IF j = k THEN SortOn(hypos, f[k - 1], k) ELSE f[j]]
  <2>2. ASSUME NEW j \in 0 .. k
        PROVE  g[j] = IF j = 0 THEN {<<>>} ELSE SortOn(hypos, g[j - 1], j)
    <3>1. CASE j = k
      <4>1. g[k - 1] = f[k - 1]
        OBVIOUS
      <4> QED BY <3>1, <4>1
    <3>2. CASE j # k
      <4>1. j \in 0 .. k - 1 /\ g[j] = f[j]
        BY <3>2
      <4>2. f[j] = IF j = 0 THEN {<<>>} ELSE SortOn(hypos, f[j - 1], j)
        BY <2>1, <4>1 DEF SortsTo
      <4>3. j # 0 => g[j - 1] = f[j - 1]
        BY <4>1
      <4> QED BY <4>1, <4>2, <4>3
    <3> QED BY <3>1, <3>2
  <2>3. SortsTo(hypos, g, k)
    BY <2>2 DEF SortsTo
  <2> QED BY <2>3
<1>3. 0 .. n \subseteq P
  <2> HIDE DEF P
  <2> QED BY <1>1, <1>2, Stepwise
<1>4. n \in P
  BY <1>3
<1> QED BY <1>4

\* The first n of a list that is being sorted: no hypothesis twice, each as good
\* as any that does not come before it.
SortedPart(hypos, s, n) ==
    /\ s \in Seq(hypos) /\ Len(s) = n
    /\ \A i, j \in 1 .. n : s[i] = s[j] => i = j
    /\ \A i \in 1 .. n : \A f \in hypos \ {s[j] : j \in 1 .. i - 1} : f.score <= s[i].score

\* A step of the sort.
LEMMA SortStep ==
    ASSUME NEW hypos, NEW n \in Nat \ {0}, NEW seqs, \A s \in seqs : SortedPart(hypos, s, n - 1),
           NEW t \in SortOn(hypos, seqs, n)
    PROVE  SortedPart(hypos, t, n)
<1> DEFINE left(s) == hypos \ {s[i] : i \in 1 .. n - 1}
<1>0. PICK s \in seqs :
          t \in {Append(s, h) : h \in {g \in left(s) : \A f \in left(s) : f.score <= g.score}}
  BY DEF SortOn
<1>1. PICK h \in left(s) : t = Append(s, h) /\ \A f \in left(s) : f.score <= h.score
  BY <1>0
<1>2. s \in Seq(hypos) /\ Len(s) = n - 1 /\ h \in hypos
  BY <1>1 DEF SortedPart
<1>3. t \in Seq(hypos) /\ Len(t) = n /\ t[n] = h /\ \A i \in 1 .. n - 1 : t[i] = s[i]
  BY <1>1, <1>2
<1>4. \A i \in 1 .. n - 1 : s[i] # h
  BY <1>1
<1>5. \A i, j \in 1 .. n : t[i] = t[j] => i = j
  <2>1. \A i, j \in 1 .. n - 1 : s[i] = s[j] => i = j
    BY DEF SortedPart
  <2> QED BY <1>3, <1>4, <2>1
<1>6. ASSUME NEW i \in 1 .. n, NEW f \in hypos \ {t[j] : j \in 1 .. i - 1}
      PROVE  f.score <= t[i].score
  <2>1. {t[j] : j \in 1 .. i - 1} = {s[j] : j \in 1 .. i - 1}
    BY <1>3
  <2>2. CASE i = n
    BY <1>1, <1>3, <2>1, <2>2
  <2>3. CASE i # n
    <3>1. i \in 1 .. n - 1 /\ t[i] = s[i]
      BY <1>3, <2>3
    <3> QED BY <2>1, <3>1 DEF SortedPart
  <2> QED BY <2>2, <2>3
<1> QED BY <1>3, <1>5, <1>6 DEF SortedPart

\* A sorted list holds each hypothesis once, the better ones first.
LEMMA SortedFacts ==
    ASSUME NEW hypos, IsFiniteSet(hypos), NEW s \in Coll!Sorted(hypos)
    PROVE  SortedPart(hypos, s, Cardinality(hypos)) /\ ToSet(s) = hypos
<1> DEFINE n == Cardinality(hypos)
           upTo == CHOOSE f : SortsTo(hypos, f, n)
           P == {k \in 0 .. n : \A t \in upTo[k] : SortedPart(hypos, t, k)}
<1>1. n \in Nat /\ Coll!Cardinality(hypos) = n
  BY FS_CardinalityType, SameCounts
<1>2. s \in upTo[n]
  <2>1. Coll!Sorted(hypos) = upTo[n]
    BY <1>1 DEF Coll!Sorted, SortsTo, SortOn
  <2> QED BY <2>1
<1>3. SortsTo(hypos, upTo, n)
  <2>1. \E f : SortsTo(hypos, f, n)
    BY <1>1, SortDefined
  <2> QED BY <2>1, Zenon
<1> HIDE DEF upTo
<1>4. 0 \in P
  <2>1. upTo[0] = {<<>>}
    BY <1>1, <1>3 DEF SortsTo
  <2>2. SortedPart(hypos, <<>>, 0)
    BY DEF SortedPart
  <2> QED BY <1>1, <2>1, <2>2
<1>5. ASSUME NEW k \in 1 .. n, k - 1 \in P PROVE k \in P
  <2>1. upTo[k] = SortOn(hypos, upTo[k - 1], k)
    <3>1. k \in 0 .. n /\ k # 0
      BY <1>1
    <3> HIDE DEF n
    <3> QED BY <1>3, <3>1 DEF SortsTo
  <2>2. \A t \in upTo[k - 1] : SortedPart(hypos, t, k - 1)
    BY <1>5
  <2>3. k \in Nat \ {0}
    BY <1>1
  <2>4. \A t \in SortOn(hypos, upTo[k - 1], k) : SortedPart(hypos, t, k)
    BY <2>2, <2>3, SortStep
  <2> QED BY <1>1, <2>1, <2>4
<1>6. 0 .. n \subseteq P
  <2> HIDE DEF P, n
  <2> QED BY <1>1, <1>4, <1>5, Stepwise
<1>7. SortedPart(hypos, s, n)
  <2>1. n \in P
    BY <1>1, <1>6
  <2> QED BY <1>2, <2>1
<1>8. ToSet(s) = hypos
  <2> HIDE DEF n
  <2>1. s \in Injection(1 .. n, hypos)
    BY <1>1, <1>7 DEF SortedPart, Injection, IsInjective
  <2>2. Cardinality(1 .. n) = n
    BY <1>1, FS_Interval
  <2>3. s \in Surjection(1 .. n, hypos)
    BY <2>1, <2>2, FS_Injection DEF n
  <2>4. DOMAIN s = 1 .. n
    BY <1>1, <1>7 DEF SortedPart
  <2> QED BY <2>1, <2>3, <2>4 DEF Surjection, Injection, ToSet
<1> QED BY <1>7, <1>8

\* A list whose scores never rise.
Descending(list) ==
    \A i, j \in DOMAIN list : i <= j => list[j].score <= list[i].score

\* The sorted list holds the hypotheses of the collection.
Listed(c) ==
    /\ c.m_hyposOrdered \in Seq(c.m_hypos) /\ ToSet(c.m_hyposOrdered) = c.m_hypos
    /\ c.m_hyposOrdered # <<>>
    /\ Descending(c.m_hyposOrdered) /\ \A h \in c.m_hypos : h.score \in Int

\* A hypothesis further down is no better.
LEMMA SortedDescends ==
    ASSUME NEW hypos, IsFiniteSet(hypos), \A h \in hypos : h.score \in Int,
           NEW s, SortedPart(hypos, s, Cardinality(hypos))
    PROVE  Descending(s)
<1> DEFINE n == Cardinality(hypos)
<1>1. n \in Nat /\ DOMAIN s = 1 .. n /\ \A i \in 1 .. n : s[i] \in hypos
  <2>1. n \in Nat /\ s \in Seq(hypos) /\ Len(s) = n
    BY FS_CardinalityType DEF SortedPart
  <2> HIDE DEF n
  <2> QED BY <2>1
<1>2. ASSUME NEW i \in 1 .. n, NEW j \in 1 .. n, i <= j PROVE s[j].score <= s[i].score
  <2> DEFINE ahead == {s[k] : k \in 1 .. i - 1}
  <2>1. CASE i = j
    BY <1>1, <2>1
  <2>2. CASE i # j
    <3>1. s[j] \notin ahead
      <4> SUFFICES ASSUME NEW k \in 1 .. i - 1, s[j] = s[k] PROVE FALSE
        OBVIOUS
      <4> HIDE DEF n
      <4>1. k \in 1 .. n /\ k < i
        BY <1>1
      <4>2. k = j
        BY <4>1 DEF SortedPart, n
      <4> QED BY <1>1, <1>2, <4>1, <4>2
    <3> QED BY <1>1, <3>1 DEF SortedPart
  <2> QED BY <2>1, <2>2
<1> QED BY <1>1, <1>2 DEF Descending

\* A collection that is finished, by any of the orders its ties may be left in,
\* is as good as before and listed.
LEMMA FinishGood ==
    ASSUME setup \in DOMAIN Setups, NEW c, Good(c, Options), NEW t \in Finish(c)
    PROVE  Good(t, Options) /\ Created(t) = Created(c) /\ Listed(t)
<1>1. PICK pruned \in Coll!PruneToSize(c) :
          t \in UNION {Coll!SortHypotheses(tidy) : tidy \in Coll!CleanupArcList(pruned)}
  BY DEF Finish
<1>2. PICK tidy \in Coll!CleanupArcList(pruned) : t \in Coll!SortHypotheses(tidy)
  BY <1>1
<1>3. PICK s \in Coll!Sorted(tidy.m_hypos) : t = [tidy EXCEPT !.m_hyposOrdered = s]
  BY <1>2 DEF Coll!SortHypotheses
<1>4. Good(pruned, Options) /\ Created(pruned) = Created(c)
  BY PruneGood
<1>5. /\ IsCollection(tidy) /\ tidy.m_hypos = pruned.m_hypos
      /\ tidy.m_bestScore = pruned.m_bestScore /\ Created(tidy) = Created(pruned)
  BY <1>4, CleanupFields DEF Good
<1>6. /\ IsCollection(t) /\ t.m_hypos = tidy.m_hypos /\ t.m_hyposOrdered = s
      /\ t.m_bestScore = tidy.m_bestScore
      /\ t.m_arcList = tidy.m_arcList /\ t.freed = tidy.freed
  BY <1>3, <1>5 DEF IsCollection, CollectionFields
<1>7. Created(t) = Created(tidy)
  BY <1>6 DEF Created
<1>8. Good(t, Options)
  BY <1>4, <1>5, <1>6, <1>7 DEF Good, OneOfState, BestThere, TopKept, Stands
<1>9. IsFiniteSet(t.m_hypos) /\ t.m_hypos # {}
  <2>1. t.m_hypos \subseteq Created(t)
    BY DEF Created
  <2> QED BY <1>8, <2>1, PartOfFinite DEF Good, BestThere
<1>10. SortedPart(t.m_hypos, s, Cardinality(t.m_hypos)) /\ ToSet(s) = t.m_hypos
  BY <1>6, <1>9, SortedFacts
<1>11. Listed(t)
  <2>1. s \in Seq(t.m_hypos)
    BY <1>10 DEF SortedPart
  <2>2. s # <<>>
    BY <1>9, <1>10 DEF ToSet
  <2>3. \A h \in t.m_hypos : h.score \in Int
    BY <1>8 DEF Good, Created
  <2>4. Descending(s)
    BY <1>9, <1>10, <2>3, SortedDescends
  <2> QED BY <1>6, <1>10, <2>1, <2>2, <2>3, <2>4 DEF Listed
<1> QED BY <1>4, <1>5, <1>7, <1>8, <1>11

-----------------------------------------------------------------------------
(* Scores                                                                    *)

SumsTo(numbers, f, n) ==
    f = [k \in 0 .. n |-> IF k = 0 THEN 0 ELSE f[k - 1] + numbers[k]]

\* Total is defined, for any number of numbers.
LEMMA SumDefined ==
    ASSUME NEW numbers, NEW n \in Nat PROVE \E f : SumsTo(numbers, f, n)
<1> DEFINE P == {k \in 0 .. n : \E f : SumsTo(numbers, f, k)}
<1>1. 0 \in P
  <2>1. SumsTo(numbers, [k \in 0 .. 0 |-> 0], 0)
    BY DEF SumsTo
  <2> QED BY <2>1
<1>2. ASSUME NEW k \in 1 .. n, k - 1 \in P PROVE k \in P
  <2>1. PICK f : SumsTo(numbers, f, k - 1)
    BY <1>2
  <2> DEFINE g == [j \in 0 .. k |-> IF j = k THEN f[k - 1] + numbers[k] ELSE f[j]]
  <2>2. ASSUME NEW j \in 0 .. k
        PROVE  g[j] = IF j = 0 THEN 0 ELSE g[j - 1] + numbers[j]
    <3>1. CASE j = k
      <4>1. g[k - 1] = f[k - 1]
        OBVIOUS
      <4> QED BY <3>1, <4>1
    <3>2. CASE j # k
      <4>1. j \in 0 .. k - 1 /\ g[j] = f[j]
        BY <3>2
      <4>2. f[j] = IF j = 0 THEN 0 ELSE f[j - 1] + numbers[j]
        BY <2>1, <4>1 DEF SumsTo
      <4>3. j # 0 => g[j - 1] = f[j - 1]
        BY <4>1
      <4> QED BY <4>1, <4>2, <4>3
    <3> QED BY <3>1, <3>2
  <2>3. SumsTo(numbers, g, k)
    BY <2>2 DEF SumsTo
  <2> QED BY <2>3
<1>3. 0 .. n \subseteq P
  <2> HIDE DEF P
  <2> QED BY <1>1, <1>2, Stepwise
<1>4. n \in P
  BY <1>3
<1> QED BY <1>4

\* The total of integers is one.
LEMMA TotalType ==
    ASSUME NEW numbers, NEW n \in Nat, \A k \in 1 .. n : numbers[k] \in Int
    PROVE  Total(numbers, n) \in Int
<1> DEFINE sum == CHOOSE f : SumsTo(numbers, f, n)
           P == {k \in 0 .. n : sum[k] \in Int}
<1>1. Total(numbers, n) = sum[n]
  BY DEF Total, SumsTo
<1>2. SumsTo(numbers, sum, n)
  <2>1. \E f : SumsTo(numbers, f, n)
    BY SumDefined
  <2> QED BY <2>1, Zenon
<1> HIDE DEF sum
<1>3. 0 \in P
  BY <1>2 DEF SumsTo
<1>4. ASSUME NEW k \in 1 .. n, k - 1 \in P PROVE k \in P
  <2>1. sum[k] = sum[k - 1] + numbers[k]
    BY <1>2 DEF SumsTo
  <2> QED BY <1>4, <2>1
<1>5. 0 .. n \subseteq P
  <2> HIDE DEF P
  <2> QED BY <1>3, <1>4, Stepwise
<1> QED BY <1>1, <1>5

Phrases == [lhs : Labels, score : Int, target : Seq(STRING)]

\* The score of a hypothesis is an integer if those of its predecessors are.
LEMMA ScoreType ==
    ASSUME setup \in DOMAIN Setups, NEW phrase \in Phrases, phrase.target # <<>>,
           NEW prev, NEW n \in Nat, DOMAIN prev = 1 .. n, Len(prev) = n,
           \A k \in 1 .. n : prev[k].score \in Int, NEW r
    PROVE  CreateHypothesis(phrase, r, prev).score \in Int
<1> DEFINE pieces == Pieces(phrase, prev)
           scores == [k \in DOMAIN prev |-> prev[k].score]
           pairs == [i \in 1 .. Len(pieces) - 1 |-> Bigram(pieces[i][2], pieces[i + 1][1])]
<1>1. Total(scores, n) \in Int
  <2>1. \A k \in 1 .. n : scores[k] \in Int
    OBVIOUS
  <2> HIDE DEF scores
  <2> QED BY <2>1, TotalType
<1>2. Len(pieces) - 1 \in Nat
  <2>1. Len(phrase.target) \in Nat \ {0} /\ DOMAIN phrase.target = 1 .. Len(phrase.target)
    BY DEF Phrases
  <2>2. Len(pieces) = Len(phrase.target)
    BY <2>1 DEF Pieces
  <2> QED BY <2>1, <2>2
<1>3. \A w, v : Bigram(w, v) \in Int
  BY ChartAssumption DEF Bigram, Options
<1>4. Total(pairs, Len(pieces) - 1) \in Int
  <2>1. \A i \in 1 .. Len(pieces) - 1 : pairs[i] \in Int
    BY <1>3
  <2> HIDE DEF pairs, pieces
  <2> QED BY <1>2, <2>1, TotalType
<1>5. phrase.score \in Int
  BY DEF Phrases
<1>6. CreateHypothesis(phrase, r, prev).score
         = phrase.score + Total(scores, Len(prev)) + Total(pairs, Len(pieces) - 1)
  BY DEF CreateHypothesis, ScoreOf, Estimate
<1> HIDE DEF scores, pairs, pieces
<1> QED BY <1>1, <1>4, <1>5, <1>6

-----------------------------------------------------------------------------
(* Ranks                                                                     *)

\* before[x] is what comes before x in a strict order of S in which any two
\* elements come one before the other.
Ordering(S, before) ==
    /\ before \in [S -> SUBSET S]
    /\ \A x \in S : x \notin before[x]
    /\ \A x, y \in S : x # y => x \in before[y] \/ y \in before[x]
    /\ \A x, y \in S : x \in before[y] => before[x] \subseteq before[y]

\* Each rank of a finite set is taken.
LEMMA RankTaken ==
    ASSUME NEW S, IsFiniteSet(S), NEW before, Ordering(S, before),
           NEW k \in 1 .. Cardinality(S)
    PROVE  \E x \in S : Cardinality(before[x]) = k - 1
<1> DEFINE n == Cardinality(S)
           rank == [x \in S |-> Cardinality(before[x])]
<1>1. n \in Nat
  BY FS_CardinalityType
<1>2. ASSUME NEW x \in S
      PROVE  IsFiniteSet(before[x]) /\ Cardinality(before[x]) \in 0 .. n - 1
  <2>1. before[x] \subseteq S \ {x}
    BY DEF Ordering
  <2>2. IsFiniteSet(S \ {x}) /\ Cardinality(S \ {x}) = n - 1
    BY OneLess
  <2>3. /\ IsFiniteSet(before[x]) /\ Cardinality(before[x]) \in Nat
        /\ Cardinality(before[x]) <= Cardinality(S \ {x})
    BY <2>1, <2>2, PartOfFinite
  <2> HIDE DEF n
  <2> QED BY <1>1, <2>2, <2>3
<1>3. ASSUME NEW x \in S, NEW y \in S, x \in before[y]
      PROVE  Cardinality(before[x]) < Cardinality(before[y])
  <2>1. before[x] \subseteq before[y] \ {x}
    BY <1>3 DEF Ordering
  <2>2. /\ IsFiniteSet(before[y] \ {x}) /\ Cardinality(before[y]) \in Nat
        /\ Cardinality(before[y] \ {x}) = Cardinality(before[y]) - 1
    BY <1>2, <1>3, OneLess
  <2>3. Cardinality(before[x]) \in Nat /\ Cardinality(before[x]) <= Cardinality(before[y] \ {x})
    BY <2>1, <2>2, PartOfFinite
  <2> QED BY <2>2, <2>3
<1>4. rank \in Injection(S, 0 .. n - 1)
  <2>1. rank \in [S -> 0 .. n - 1]
    BY <1>2
  <2>2. ASSUME NEW x \in S, NEW y \in S, rank[x] = rank[y] PROVE x = y
    <3>1. Cardinality(before[x]) \in Int /\ Cardinality(before[x]) = Cardinality(before[y])
      BY <1>2, <2>2
    <3>2. ~(Cardinality(before[x]) < Cardinality(before[y]))
          /\ ~(Cardinality(before[y]) < Cardinality(before[x]))
      BY <3>1
    <3>3. x \notin before[y] /\ y \notin before[x]
      BY <1>3, <3>2
    <3> QED BY <3>3 DEF Ordering
  <2> HIDE DEF rank, n
  <2> QED BY <2>1, <2>2 DEF Injection, IsInjective
<1>5. IsFiniteSet(0 .. n - 1) /\ Cardinality(0 .. n - 1) = n
  <2> HIDE DEF n
  <2> QED BY <1>1, FS_Interval
<1>6. rank \in Surjection(S, 0 .. n - 1)
  BY <1>4, <1>5, FS_Injection
<1>7. k - 1 \in 0 .. n - 1
  <2>1. k \in 1 .. n
    OBVIOUS
  <2> HIDE DEF n
  <2> QED BY <1>1, <2>1
<1>8. \E x \in S : rank[x] = k - 1
  <2> HIDE DEF rank, n
  <2> QED BY <1>6, <1>7 DEF Surjection
<1> QED BY <1>8

\* Sorting a target phrase collection gives phrases of it, as many as the limit
\* allows.
LEMMA SortGivesPhrases ==
    ASSUME NEW S, NEW phrases \in Seq(S), \A i \in DOMAIN phrases : phrases[i].score \in Int,
           phrases # <<>>, NEW limit \in Nat \ {0}
    PROVE  /\ Sort(phrases, limit) \in Seq(S) /\ Sort(phrases, limit) # <<>>
           /\ \A k \in DOMAIN Sort(phrases, limit) :
                 \E i \in DOMAIN phrases : Sort(phrases, limit)[k] = phrases[i]
           /\ Descending(Sort(phrases, limit))
<1> DEFINE D == DOMAIN phrases
           n == Len(phrases)
           before == [i \in D |-> Better(phrases, i)]
           room == Min({limit, n})
<1>1. n \in Nat \ {0} /\ D = 1 .. n
  OBVIOUS
<1>2. IsFiniteSet(D) /\ Cardinality(D) = n
  BY <1>1, FS_Interval
<1>3. Ordering(D, before)
  <2>1. before \in [D -> SUBSET D] /\ \A x \in D : x \notin before[x]
    BY <1>1 DEF Better
  <2>2. \A x, y \in D : x # y => x \in before[y] \/ y \in before[x]
    BY <1>1 DEF Better
  <2>3. \A x, y \in D : x \in before[y] => before[x] \subseteq before[y]
    BY <1>1 DEF Better
  <2> QED BY <2>1, <2>2, <2>3 DEF Ordering
<1>4. room \in 1 .. n
  <2> HIDE DEF n
  <2>1. \E x \in {limit, n} : \A y \in {limit, n} : x <= y
    BY <1>1
  <2>2. room \in {limit, n} /\ \A y \in {limit, n} : room <= y
    BY <2>1 DEF Min
  <2> QED BY <1>1, <2>2
<1>5. ASSUME NEW k \in 1 .. room
      PROVE  \E i \in D : /\ Sort(phrases, limit)[k] = phrases[i]
                          /\ Cardinality(before[i]) = k - 1
  <2> DEFINE i == CHOOSE j \in D : Cardinality(Better(phrases, j)) = k - 1
  <2>1. k \in 1 .. n
    <3> HIDE DEF n, room
    <3> QED BY <1>1, <1>4
  <2>2. k \in 1 .. Cardinality(D)
    BY <1>2, <2>1
  <2> HIDE DEF D
  <2>3. \E j \in D : Cardinality(before[j]) = k - 1
    BY <1>2, <1>3, <2>2, RankTaken
  <2>4. \E j \in D : Cardinality(Better(phrases, j)) = k - 1
    BY <2>3
  <2>5. i \in D /\ Cardinality(before[i]) = k - 1
    BY <2>4
  <2>6. Sort(phrases, limit)[k] = phrases[i]
    BY DEF Sort, D
  <2> HIDE DEF i
  <2> QED BY <2>5, <2>6
<1>6. Sort(phrases, limit) = [k \in 1 .. room |-> Sort(phrases, limit)[k]]
  BY DEF Sort
<1> DEFINE sorted == Sort(phrases, limit)
<1> HIDE DEF sorted, room, n
<1>7. \A k \in 1 .. room : sorted[k] \in S
  BY <1>5 DEF sorted
<1>8. sorted \in Seq(S) /\ sorted # <<>> /\ DOMAIN sorted = 1 .. room
  <2>1. sorted = [k \in 1 .. room |-> sorted[k]]
    BY <1>6 DEF sorted
  <2>2. room \in Nat \ {0}
    BY <1>1, <1>4
  <2> QED BY <1>7, <2>1, <2>2
<1>9. ASSUME NEW j \in 1 .. room, NEW k \in 1 .. room, j <= k
      PROVE  sorted[k].score <= sorted[j].score
  <2>1. PICK x \in D : sorted[j] = phrases[x] /\ Cardinality(before[x]) = j - 1
    BY <1>5 DEF sorted
  <2>2. PICK y \in D : sorted[k] = phrases[y] /\ Cardinality(before[y]) = k - 1
    BY <1>5 DEF sorted
  <2>3. phrases[x].score \in Int /\ phrases[y].score \in Int
    OBVIOUS
  <2> SUFFICES ASSUME phrases[y].score > phrases[x].score PROVE FALSE
    BY <2>1, <2>2, <2>3
  <2>4. y \in before[x]
    BY DEF Better
  <2>5. before[y] \subseteq before[x] \ {y} /\ before[x] \subseteq D
    BY <1>3, <2>4 DEF Ordering
  <2> HIDE DEF before, D
  <2>6. IsFiniteSet(before[x]) /\ IsFiniteSet(before[y])
    BY <1>2, <2>5, PartOfFinite
  <2>7. /\ IsFiniteSet(before[x] \ {y}) /\ Cardinality(before[x]) \in Nat
        /\ Cardinality(before[x] \ {y}) = Cardinality(before[x]) - 1
    BY <2>4, <2>6, OneLess
  <2>8. /\ Cardinality(before[y]) \in Nat
        /\ Cardinality(before[y]) <= Cardinality(before[x] \ {y})
    BY <2>5, <2>7, PartOfFinite
  <2> QED BY <1>9, <2>1, <2>2, <2>7, <2>8
<1>10. Descending(sorted)
  BY <1>8, <1>9 DEF Descending
<1> QED BY <1>5, <1>8, <1>10 DEF sorted

\* The target phrases of a rule that are looked at.
LEMMA TargetPhrasesFacts ==
    ASSUME setup \in DOMAIN Setups, NEW rule \in Options.rules
    PROVE  /\ TargetPhrases(rule) \in Seq(Phrases) /\ TargetPhrases(rule) # <<>>
           /\ \A k \in DOMAIN TargetPhrases(rule) : TargetPhrases(rule)[k].target # <<>>
           /\ Options.tableLimit > 0 => Descending(TargetPhrases(rule))
<1> DEFINE phrases == rule.phrases
           limit == Options.tableLimit
<1>1. /\ phrases \in Seq(Phrases) /\ phrases # <<>>
      /\ \A k \in DOMAIN phrases : phrases[k].target # <<>>
      /\ limit \in Nat
  BY ChartAssumption DEF Options, Phrases
<1> HIDE DEF phrases, limit
<1>2. CASE limit = 0
  <2>1. TargetPhrases(rule) = phrases
    BY <1>2 DEF TargetPhrases, limit, phrases
  <2>2. ~(Options.tableLimit > 0)
    BY <1>2 DEF limit
  <2> QED BY <1>1, <2>1, <2>2
<1>3. CASE limit # 0
  <2>1. TargetPhrases(rule) = Sort(phrases, limit)
    BY <1>3 DEF TargetPhrases, limit, phrases
  <2>2. \A i \in DOMAIN phrases : phrases[i].score \in Int
    <3>1. \A i \in DOMAIN phrases : phrases[i] \in Phrases
      BY <1>1
    <3> QED BY <3>1 DEF Phrases
  <2>3. limit \in Nat \ {0}
    BY <1>1, <1>3
  <2>4. /\ Sort(phrases, limit) \in Seq(Phrases) /\ Sort(phrases, limit) # <<>>
        /\ \A k \in DOMAIN Sort(phrases, limit) :
              \E i \in DOMAIN phrases : Sort(phrases, limit)[k] = phrases[i]
        /\ Descending(Sort(phrases, limit))
    BY <1>1, <2>2, <2>3, SortGivesPhrases
  <2> QED BY <1>1, <2>1, <2>4
<1> QED BY <1>2, <1>3

-----------------------------------------------------------------------------
(* Ranges and translation options                                            *)

\* A part of a range that is not all of it is filled before it.
LEMMA PartsBefore ==
    ASSUME NEW r \in Ranges, NEW p \in Int \X Int,
           r[1] <= p[1], p[1] <= p[2], p[2] <= r[2]
    PROVE  p \in Ranges /\ (p # r => Before(p, r))
<1>1. m_size \in Nat
  BY ChartAssumption DEF m_size
<1>2. /\ r = <<r[1], r[2]>> /\ p = <<p[1], p[2]>>
      /\ r[1] \in Int /\ r[2] \in Int /\ p[1] \in Int /\ p[2] \in Int
      /\ 0 <= r[1] /\ r[2] <= m_size - 1
  BY <1>1 DEF Ranges
<1>3. p \in Ranges
  BY <1>1, <1>2 DEF Ranges
<1>4. p # r => p[1] # r[1] \/ p[2] # r[2]
  BY <1>2
<1>5. p # r => p[2] - p[1] < r[2] - r[1]
  BY <1>2, <1>4
<1> QED BY <1>3, <1>5 DEF Before

\* The cells are filled in an order, which NextRange follows.
LEMMA OrderFacts ==
    ASSUME NEW r \in Ranges
    PROVE  /\ ~Before(r, r)
           /\ \A q \in Ranges : Before(r, q) => ~Before(q, r)
           /\ \A q, p \in Ranges : Before(p, q) /\ Before(q, r) => Before(p, r)
           /\ r # WholeSentence => Before(r, WholeSentence)
<1>1. m_size \in Nat /\ m_size # 0
  BY ChartAssumption DEF m_size
<1>2. \A q \in Ranges : /\ q = <<q[1], q[2]>> /\ q[1] \in Int /\ q[2] \in Int
                        /\ 0 <= q[1] /\ q[1] <= q[2] /\ q[2] <= m_size - 1
  BY <1>1 DEF Ranges
<1>3. ~Before(r, r) /\ \A q \in Ranges : Before(r, q) => ~Before(q, r)
  BY <1>2 DEF Before
<1>4. \A q, p \in Ranges : Before(p, q) /\ Before(q, r) => Before(p, r)
  BY <1>2 DEF Before
<1>5. r # WholeSentence => Before(r, WholeSentence)
  <2>1. WholeSentence[1] = 0 /\ WholeSentence[2] = m_size - 1
    BY DEF WholeSentence
  <2>2. r # WholeSentence => r[1] # 0 \/ r[2] # m_size - 1
    BY <1>2 DEF WholeSentence
  <2> QED BY <1>1, <1>2, <2>1, <2>2 DEF Before
<1> QED BY <1>3, <1>4, <1>5

\* Before the next range are the ranges up to this one.
LEMMA NextRangeFacts ==
    ASSUME range \in Ranges, range # WholeSentence
    PROVE  /\ NextRange \in Ranges
           /\ \A r \in Ranges : Before(r, NextRange) <=> Before(r, range) \/ r = range
<1>1. m_size \in Nat /\ m_size # 0
  BY ChartAssumption DEF m_size
<1>2. \A q \in Ranges : /\ q = <<q[1], q[2]>> /\ q[1] \in Int /\ q[2] \in Int
                        /\ 0 <= q[1] /\ q[1] <= q[2] /\ q[2] <= m_size - 1
  BY <1>1 DEF Ranges
<1>3. range[1] # 0 \/ range[2] # m_size - 1
  BY <1>2 DEF WholeSentence
<1>4. CASE range[2] < m_size - 1
  <2>1. NextRange = <<range[1] + 1, range[2] + 1>>
    BY <1>4 DEF NextRange
  <2>2. NextRange \in Ranges
    BY <1>1, <1>2, <1>4, <2>1 DEF Ranges
  <2>3. ASSUME NEW r \in Ranges
        PROVE  Before(r, NextRange) <=> Before(r, range) \/ r = range
    <3>1. r = range <=> r[1] = range[1] /\ r[2] = range[2]
      BY <1>2
    <3>2. NextRange[1] = range[1] + 1 /\ NextRange[2] = range[2] + 1
      BY <2>1
    <3> QED BY <1>2, <3>1, <3>2 DEF Before
  <2> QED BY <2>2, <2>3
<1>5. CASE ~(range[2] < m_size - 1)
  <2>1. NextRange = <<0, range[2] - range[1] + 1>>
    BY <1>5 DEF NextRange
  <2>2. range[2] = m_size - 1 /\ range[1] >= 1
    BY <1>1, <1>2, <1>3, <1>5
  <2>3. NextRange \in Ranges
    BY <1>1, <1>2, <2>1, <2>2 DEF Ranges
  <2>4. ASSUME NEW r \in Ranges
        PROVE  Before(r, NextRange) <=> Before(r, range) \/ r = range
    <3>1. r = range <=> r[1] = range[1] /\ r[2] = range[2]
      BY <1>2
    <3>2. NextRange[1] = 0 /\ NextRange[2] = range[2] - range[1] + 1
      BY <2>1
    <3> QED BY <1>1, <1>2, <2>2, <3>1, <3>2 DEF Before
  <2> QED BY <2>3, <2>4
<1> QED BY <1>4, <1>5

\* The k-th non-terminal of a rule is one of them.
LEMMA GapFacts ==
    ASSUME NEW rule, rule.source \in Seq(STRING), NEW k \in 1 .. Cardinality(Gaps(rule))
    PROVE  Gap(rule, k) \in Gaps(rule)
<1> DEFINE S == Gaps(rule)
           before == [i \in S |-> {j \in S : j < i}]
<1>1. S \subseteq 1 .. Len(rule.source) /\ Len(rule.source) \in Nat
  BY DEF Gaps
<1>2. IsFiniteSet(S)
  <2>1. IsFiniteSet(1 .. Len(rule.source))
    BY <1>1, FS_Interval
  <2> QED BY <1>1, <2>1, PartOfFinite
<1>3. Ordering(S, before)
  <2>1. \A i \in S : i \in Int
    BY <1>1
  <2> HIDE DEF S
  <2> QED BY <2>1 DEF Ordering
<1>4. \E i \in S : Cardinality(before[i]) = k - 1
  <2> HIDE DEF before
  <2> QED BY <1>2, <1>3, RankTaken
<1>5. \E i \in Gaps(rule) : Cardinality({j \in Gaps(rule) : j < i}) = k - 1
  BY <1>4
<1> QED BY <1>5 DEF Gap

\* The ranges that a range is cut into lie in it.
LEMMA SplitFacts ==
    ASSUME NEW r \in Ranges, NEW n \in Nat \ {0}, NEW p \in Splits(r, n), NEW k \in 1 .. n
    PROVE  /\ DOMAIN p = 1 .. n /\ p[k] \in Int \X Int
           /\ r[1] <= p[k][1] /\ p[k][1] <= p[k][2] /\ p[k][2] <= r[2]
<1>1. r[1] \in Int /\ r[2] \in Int /\ r[1] <= r[2]
  BY ChartAssumption DEF Ranges, m_size
<1>2. PICK ends \in [1 .. n - 1 -> r[1] .. r[2] - 1] :
          /\ \A i \in 1 .. n - 2 : ends[i] < ends[i + 1]
          /\ p = [i \in 1 .. n |-> <<IF i = 1 THEN r[1] ELSE ends[i - 1] + 1,
                                     IF i = n THEN r[2] ELSE ends[i]>>]
  BY DEF Splits
<1> DEFINE first == IF k = 1 THEN r[1] ELSE ends[k - 1] + 1
           last == IF k = n THEN r[2] ELSE ends[k]
<1>3. p[k] = <<first, last>> /\ DOMAIN p = 1 .. n
  BY <1>2
<1>4. k # 1 => /\ ends[k - 1] \in Int /\ r[1] <= ends[k - 1] /\ ends[k - 1] <= r[2] - 1
  <2>1. k # 1 => k - 1 \in 1 .. n - 1
    OBVIOUS
  <2>2. k # 1 => ends[k - 1] \in r[1] .. r[2] - 1
    BY <1>2, <2>1
  <2> QED BY <1>1, <2>2
<1>5. k # n => /\ ends[k] \in Int /\ r[1] <= ends[k] /\ ends[k] <= r[2] - 1
  <2>1. k # n => k \in 1 .. n - 1
    OBVIOUS
  <2>2. k # n => ends[k] \in r[1] .. r[2] - 1
    BY <1>2, <2>1
  <2> QED BY <1>1, <2>2
<1>6. k # 1 /\ k # n => ends[k - 1] < ends[k]
  <2>1. k # 1 /\ k # n => k - 1 \in 1 .. n - 2 /\ (k - 1) + 1 = k
    OBVIOUS
  <2> QED BY <1>2, <2>1
<1>7. /\ first \in Int /\ last \in Int
      /\ r[1] <= first /\ first <= last /\ last <= r[2]
  BY <1>1, <1>4, <1>5, <1>6
<1> HIDE DEF first, last
<1> QED BY <1>3, <1>7

-----------------------------------------------------------------------------
(* The inductive invariant                                                   *)

\* What a hypothesis was made from: hypotheses that cells filled before have.
FromBefore(h, r, chart) ==
    \A i \in DOMAIN h.prevHypos :
        LET prev == h.prevHypos[i]
        IN /\ prev.range \in Ranges /\ Before(prev.range, r)
           /\ prev.phrase.lhs \in DOMAIN chart[prev.range]
           /\ prev \in chart[prev.range][prev.phrase.lhs].m_hypos

\* Any hypothesis that was created for a cell has its range and its label.
Belongs(h, r, lhs, chart) == h.range = r /\ h.phrase.lhs = lhs /\ FromBefore(h, r, chart)

CollectionInv(c, r, lhs, chart, options) ==
    Good(c, options) /\ \A h \in Created(c) : Belongs(h, r, lhs, chart)

CellInv(r, chart, options) ==
    \A lhs \in DOMAIN chart[r] : CollectionInv(chart[r][lhs], r, lhs, chart, options)

\* Whether a cell has been filled, of range last or before it.
Filled(r, last, at) == Before(r, last) \/ (r = last /\ at = "searched")
Empty(r, last, at) == ~Filled(r, last, at) /\ (r = last => at = "cell")

ListInv(r, chart) == \A lhs \in DOMAIN chart[r] : Listed(chart[r][lhs])

\* The parts of a translation option are cells filled before, and labels they have.
OptionInv(opt, r, chart, options) ==
    /\ opt.rule \in options.rules /\ opt.stackVec \in Seq(Ranges \X Labels)
    /\ \A k \in DOMAIN opt.stackVec :
          /\ Before(opt.stackVec[k][1], r)
          /\ opt.stackVec[k][2] \in DOMAIN chart[opt.stackVec[k][1]]

\* An item stays within the dimensions of its cube.
ItemInv(opt, item) ==
    /\ item \in [DOMAIN Dimensions(opt) -> Nat]
    /\ \A d \in DOMAIN Dimensions(opt) : 1 <= item[d] /\ item[d] <= Dimensions(opt)[d]

Corner(opt) == [d \in DOMAIN Dimensions(opt) |-> 1]

\* The items of a cube that have been looked at are its corner and the neighbours
\* of those that have been popped.
CoveredInv(cube) ==
    /\ IsFiniteSet(cube.m_covered) /\ cube.m_queue \subseteq cube.m_covered
    /\ Corner(cube.opt) \in cube.m_covered
    /\ \A item \in cube.m_covered : ItemInv(cube.opt, item)
    /\ \A item \in cube.m_covered \ cube.m_queue :
          Neighbors(cube.opt, item) \subseteq cube.m_covered

CubeInv(cube) ==
    /\ cube = [opt |-> cube.opt, m_covered |-> cube.m_covered, m_queue |-> cube.m_queue]
    /\ OptionInv(cube.opt, range, m_hypoStackColl, Options)
    /\ CoveredInv(cube)

ChartInv ==
    /\ setup \in DOMAIN Setups /\ pc \in {"cell", "pop", "searched"} /\ range \in Ranges
    /\ pc = "searched" => range = WholeSentence
    /\ DOMAIN m_hypoStackColl = Ranges
    /\ m_hypoStackColl = [r \in Ranges |-> m_hypoStackColl[r]]
    /\ \A r \in Ranges :
          /\ Empty(r, range, pc) => m_hypoStackColl[r] = <<>>
          /\ CellInv(r, m_hypoStackColl, Options)
          /\ Filled(r, range, pc) => ListInv(r, m_hypoStackColl)
    /\ IsFiniteSet(cubes) /\ \A cube \in cubes : CubeInv(cube) /\ cube.m_queue # {}

\* A translation option is made of cells filled before its range.
LEMMA OptionFacts ==
    ASSUME setup \in DOMAIN Setups, range \in Ranges, NEW opt \in TranslationOptions(range)
    PROVE  OptionInv(opt, range, m_hypoStackColl, Options)
<1>1. PICK rule \in Options.rules :
          opt \in {[rule |-> rule, stackVec |-> StackVec(rule, parts)] :
                      parts \in {p \in Splits(range, Len(rule.source)) :
                          \A i \in DOMAIN p : Matches(rule.source[i], p[i], range)}}
  BY DEF TranslationOptions
<1>2. PICK parts \in Splits(range, Len(rule.source)) :
          /\ \A i \in DOMAIN parts : Matches(rule.source[i], parts[i], range)
          /\ opt = [rule |-> rule, stackVec |-> StackVec(rule, parts)]
  BY <1>1
<1>3. opt.rule = rule /\ opt.stackVec = StackVec(rule, parts)
  BY <1>2
<1>4. rule.source \in Seq(STRING) /\ Len(rule.source) \in Nat \ {0}
  <2>1. rule.source \in Seq(STRING) /\ rule.source # <<>>
    BY ChartAssumption DEF Options
  <2> QED BY <2>1
<1> DEFINE n == Cardinality(Gaps(rule))
<1>5. n \in Nat /\ Gaps(rule) \subseteq 1 .. Len(rule.source)
  <2>1. Gaps(rule) \subseteq 1 .. Len(rule.source)
    BY <1>4 DEF Gaps
  <2>2. IsFiniteSet(1 .. Len(rule.source))
    BY <1>4, FS_Interval
  <2> QED BY <2>1, <2>2, PartOfFinite
<1>6. ASSUME NEW k \in 1 .. n
      PROVE  /\ parts[Gap(rule, k)] \in Ranges /\ Before(parts[Gap(rule, k)], range)
             /\ rule.source[Gap(rule, k)] \in Labels
             /\ rule.source[Gap(rule, k)] \in DOMAIN m_hypoStackColl[parts[Gap(rule, k)]]
  <2> DEFINE i == Gap(rule, k)
  <2>1. i \in Gaps(rule)
    BY <1>4, GapFacts
  <2>2. i \in 1 .. Len(rule.source) /\ rule.source[i] \in Labels
    BY <1>5, <2>1 DEF Gaps
  <2> HIDE DEF i
  <2>3. /\ DOMAIN parts = 1 .. Len(rule.source) /\ parts[i] \in Int \X Int
        /\ range[1] <= parts[i][1] /\ parts[i][1] <= parts[i][2] /\ parts[i][2] <= range[2]
    BY <1>4, <2>2, SplitFacts
  <2>4. parts[i] # range /\ rule.source[i] \in DOMAIN m_hypoStackColl[parts[i]]
    BY <1>2, <2>2, <2>3 DEF Matches
  <2>5. parts[i] \in Ranges /\ Before(parts[i], range)
    BY <2>3, <2>4, PartsBefore
  <2> QED BY <2>2, <2>4, <2>5 DEF i
<1>7. opt.stackVec = [k \in 1 .. n |-> <<parts[Gap(rule, k)], rule.source[Gap(rule, k)]>>]
  BY <1>3 DEF StackVec
<1> HIDE DEF n
<1>8. opt.stackVec \in Seq(Ranges \X Labels) /\ DOMAIN opt.stackVec = 1 .. n
  BY <1>5, <1>6, <1>7
<1>9. \A k \in 1 .. n : /\ opt.stackVec[k][1] = parts[Gap(rule, k)]
                        /\ opt.stackVec[k][2] = rule.source[Gap(rule, k)]
  BY <1>7
<1> QED BY <1>3, <1>6, <1>8, <1>9 DEF OptionInv

\* Finitely many functions lead from one finite set to another.
LEMMA FunctionsFinite ==
    ASSUME NEW S, IsFiniteSet(S), NEW T, IsFiniteSet(T) PROVE IsFiniteSet([S -> T])
<1> DEFINE graph == [f \in [S -> T] |-> {<<x, f[x]>> : x \in S}]
<1>1. IsFiniteSet(SUBSET (S \X T))
  BY FS_Product, FS_SUBSET
<1>2. graph \in [[S -> T] -> SUBSET (S \X T)]
  OBVIOUS
<1>3. ASSUME NEW f \in [S -> T], NEW g \in [S -> T], graph[f] = graph[g] PROVE f = g
  <2>1. ASSUME NEW x \in S PROVE f[x] = g[x]
    <3>1. <<x, f[x]>> \in graph[g]
      BY <1>3
    <3> QED BY <3>1
  <2> QED BY <2>1
<1> HIDE DEF graph
<1>4. graph \in Injection([S -> T], SUBSET (S \X T))
  BY <1>2, <1>3 DEF Injection, IsInjective
<1> QED BY <1>1, <1>4, FS_Injection

\* A range can be cut in finitely many ways.
LEMMA SplitsFinite ==
    ASSUME NEW r \in Ranges, NEW n \in Nat PROVE IsFiniteSet(Splits(r, n))
<1> DEFINE Inner == 1 .. n - 1
           Places == r[1] .. r[2] - 1
           Rising == {e \in [Inner -> Places] : \A k \in 1 .. n - 2 : e[k] < e[k + 1]}
           Cut(e) == [k \in 1 .. n |-> <<IF k = 1 THEN r[1] ELSE e[k - 1] + 1,
                                          IF k = n THEN r[2] ELSE e[k]>>]
           cut == [e \in Rising |-> Cut(e)]
<1>1. n - 1 \in Int /\ r[1] \in Int /\ r[2] - 1 \in Int
  BY ChartAssumption DEF Ranges, m_size
<1>2. IsFiniteSet(Inner) /\ IsFiniteSet(Places)
  BY <1>1, FS_Interval
<1>3. IsFiniteSet([Inner -> Places])
  <2> HIDE DEF Inner, Places
  <2> QED BY <1>2, FunctionsFinite
<1>4. IsFiniteSet(Rising)
  <2> HIDE DEF Inner, Places
  <2> QED BY <1>3, PartOfFinite
<1>5. Splits(r, n) = {Cut(e) : e \in Rising}
  BY DEF Splits
<1> HIDE DEF Rising, Cut
<1>6. cut \in Surjection(Rising, Splits(r, n))
  BY <1>5 DEF Surjection
<1> HIDE DEF cut
<1> QED BY <1>4, <1>6, FS_Surjection, Zenon

\* A range has finitely many translation options.
LEMMA OptionsFinite ==
    ASSUME setup \in DOMAIN Setups, range \in Ranges
    PROVE  IsFiniteSet(TranslationOptions(range))
<1> DEFINE fits(rule) == {p \in Splits(range, Len(rule.source)) :
                             \A i \in DOMAIN p : Matches(rule.source[i], p[i], range)}
           made(rule) == {[rule |-> rule, stackVec |-> StackVec(rule, parts)] :
                             parts \in fits(rule)}
           all == {made(rule) : rule \in Options.rules}
<1>1. ASSUME NEW rule \in Options.rules PROVE IsFiniteSet(made(rule))
  <2>1. Len(rule.source) \in Nat
    BY ChartAssumption DEF Options
  <2>2. IsFiniteSet(Splits(range, Len(rule.source)))
    BY <2>1, SplitsFinite
  <2>3. IsFiniteSet(fits(rule))
    BY <2>2, PartOfFinite
  <2> DEFINE option == [parts \in fits(rule) |-> [rule |-> rule, stackVec |-> StackVec(rule, parts)]]
  <2> HIDE DEF fits
  <2>4. option \in Surjection(fits(rule), made(rule))
    BY DEF Surjection
  <2> HIDE DEF option, made
  <2> QED BY <2>3, <2>4, FS_Surjection, Zenon
<1>2. IsFiniteSet(all)
  <2> DEFINE f == [rule \in Options.rules |-> made(rule)]
  <2>1. IsFiniteSet(Options.rules)
    BY ChartAssumption DEF Options
  <2> HIDE DEF made
  <2>2. f \in Surjection(Options.rules, all)
    BY DEF Surjection
  <2> HIDE DEF all, f
  <2> QED BY <2>1, <2>2, FS_Surjection, Zenon
<1>3. \A T \in all : IsFiniteSet(T)
  <2> HIDE DEF made
  <2> QED BY <1>1
<1>4. TranslationOptions(range) = UNION all
  BY DEF TranslationOptions
<1> HIDE DEF all
<1> QED BY <1>2, <1>3, <1>4, FS_UNION

\* The dimensions of a cube: as many as the option has non-terminals, and one.
LEMMA DimensionsFacts ==
    ASSUME setup \in DOMAIN Setups, NEW opt, OptionInv(opt, range, m_hypoStackColl, Options),
           \A r \in Ranges : Before(r, range) => ListInv(r, m_hypoStackColl)
    PROVE  /\ Len(opt.stackVec) \in Nat /\ DOMAIN opt.stackVec = 1 .. Len(opt.stackVec)
           /\ DOMAIN Dimensions(opt) = 1 .. Len(opt.stackVec) + 1
           /\ Dimensions(opt)[1] = Len(TargetPhrases(opt.rule))
           /\ \A k \in DOMAIN opt.stackVec :
                 Dimensions(opt)[k + 1] = Len(HypoList(opt.stackVec[k]))
           /\ \A d \in DOMAIN Dimensions(opt) : Dimensions(opt)[d] \in Nat \ {0}
<1>1. Len(opt.stackVec) \in Nat /\ DOMAIN opt.stackVec = 1 .. Len(opt.stackVec)
  BY DEF OptionInv
<1>2. DOMAIN Dimensions(opt) = 1 .. Len(opt.stackVec) + 1
  BY DEF Dimensions
<1>3. Dimensions(opt)[1] = Len(TargetPhrases(opt.rule))
  BY <1>1 DEF Dimensions
<1>4. ASSUME NEW k \in DOMAIN opt.stackVec
      PROVE  Dimensions(opt)[k + 1] = Len(HypoList(opt.stackVec[k]))
  <2>1. k \in Nat /\ k + 1 \in 1 .. Len(opt.stackVec) + 1 /\ k + 1 # 1 /\ (k + 1) - 1 = k
    BY <1>1
  <2> QED BY <2>1 DEF Dimensions
<1>5. Len(TargetPhrases(opt.rule)) \in Nat \ {0}
  <2>1. opt.rule \in Options.rules
    BY DEF OptionInv
  <2>2. TargetPhrases(opt.rule) \in Seq(Phrases) /\ TargetPhrases(opt.rule) # <<>>
    BY <2>1, TargetPhrasesFacts
  <2> QED BY <2>2
<1>6. ASSUME NEW k \in DOMAIN opt.stackVec
      PROVE  Len(HypoList(opt.stackVec[k])) \in Nat \ {0}
  <2>1. /\ opt.stackVec[k] \in Ranges \X Labels /\ Before(opt.stackVec[k][1], range)
        /\ opt.stackVec[k][2] \in DOMAIN m_hypoStackColl[opt.stackVec[k][1]]
    BY DEF OptionInv
  <2>2. Listed(m_hypoStackColl[opt.stackVec[k][1]][opt.stackVec[k][2]])
    BY <2>1 DEF ListInv
  <2> DEFINE list == HypoList(opt.stackVec[k])
             hypos == m_hypoStackColl[opt.stackVec[k][1]][opt.stackVec[k][2]].m_hypos
  <2>3. list \in Seq(hypos) /\ list # <<>>
    BY <2>2 DEF Listed, HypoList
  <2> HIDE DEF list, hypos
  <2>4. Len(list) \in Nat \ {0}
    BY <2>3
  <2> QED BY <2>4 DEF list
<1>7. ASSUME NEW d \in DOMAIN Dimensions(opt) PROVE Dimensions(opt)[d] \in Nat \ {0}
  <2>1. CASE d = 1
    BY <1>3, <1>5, <2>1
  <2>2. CASE d # 1
    <3>1. d - 1 \in DOMAIN opt.stackVec /\ d = (d - 1) + 1
      BY <1>1, <1>2, <2>2
    <3> QED BY <1>4, <1>6, <3>1
  <2> QED BY <2>1, <2>2
<1> QED BY <1>1, <1>2, <1>3, <1>4, <1>7

\* What a hypothesis was made from does not change while later cells are filled.
LEMMA FromBeforeStable ==
    ASSUME NEW r, NEW h, NEW chart, FromBefore(h, r, chart), NEW later,
           \A q \in Ranges : Before(q, r) => later[q] = chart[q]
    PROVE  FromBefore(h, r, later)
BY DEF FromBefore

\* Nor do the other cells while one is filled.
LEMMA OtherCells ==
    ASSUME ChartInv, pc # "searched", NEW cell, NEW r \in Ranges, r # range
    PROVE  LET later == [m_hypoStackColl EXCEPT ![range] = cell]
           IN  later[r] = m_hypoStackColl[r] /\ CellInv(r, later, Options)
<1> DEFINE later == [m_hypoStackColl EXCEPT ![range] = cell]
<1>1. range \in Ranges /\ \A q \in Ranges : q # range => later[q] = m_hypoStackColl[q]
  BY DEF ChartInv
<1>2. CellInv(r, m_hypoStackColl, Options)
  BY DEF ChartInv
<1> HIDE DEF later
<1>3. CASE Before(r, range)
  <2>1. \A q \in Ranges : Before(q, r) => later[q] = m_hypoStackColl[q]
    <3>1. \A q \in Ranges : Before(q, r) => Before(q, range)
      BY <1>1, <1>3, OrderFacts
    <3>2. ~Before(range, range)
      BY <1>1, OrderFacts
    <3> QED BY <1>1, <3>1, <3>2
  <2>2. ASSUME NEW lhs \in DOMAIN later[r]
        PROVE  CollectionInv(later[r][lhs], r, lhs, later, Options)
    <3>1. CollectionInv(m_hypoStackColl[r][lhs], r, lhs, m_hypoStackColl, Options)
      BY <1>1, <1>2 DEF CellInv
    <3> QED BY <1>1, <2>1, <3>1, FromBeforeStable DEF CollectionInv, Belongs
  <2> QED BY <1>1, <2>2 DEF CellInv, later
<1>4. CASE ~Before(r, range)
  <2>1. Empty(r, range, pc)
    BY <1>4 DEF Empty, Filled
  <2>2. m_hypoStackColl[r] = <<>>
    BY <2>1 DEF ChartInv
  <2>3. DOMAIN later[r] = {}
    BY <1>1, <2>2
  <2> QED BY <1>1, <2>3 DEF CellInv, later
<1> QED BY <1>3, <1>4

\* The cells before the range are listed.
LEMMA ListsBefore ==
    ASSUME ChartInv, NEW r \in Ranges, Before(r, range) PROVE ListInv(r, m_hypoStackColl)
BY DEF ChartInv, Filled

\* The phrase and the hypotheses that an item of a cube stands for.
LEMMA ItemFacts ==
    ASSUME ChartInv, NEW opt, OptionInv(opt, range, m_hypoStackColl, Options),
           NEW item, ItemInv(opt, item)
    PROVE  LET phrase == PhraseOf(opt, item)
               prev == HyposOf(opt, item)
               n == Len(opt.stackVec)
           IN  /\ phrase \in Phrases /\ phrase.target # <<>>
               /\ n \in Nat /\ DOMAIN prev = 1 .. n /\ Len(prev) = n
               /\ \A k \in 1 .. n :
                     /\ prev[k].score \in Int
                     /\ prev[k].range \in Ranges /\ Before(prev[k].range, range)
                     /\ prev[k].phrase.lhs \in DOMAIN m_hypoStackColl[prev[k].range]
                     /\ prev[k] \in m_hypoStackColl[prev[k].range][prev[k].phrase.lhs].m_hypos
<1> DEFINE phrase == PhraseOf(opt, item)
           prev == HyposOf(opt, item)
           n == Len(opt.stackVec)
<1>1. setup \in DOMAIN Setups /\ range \in Ranges
  BY DEF ChartInv
<1>2. /\ n \in Nat /\ DOMAIN opt.stackVec = 1 .. n
      /\ DOMAIN Dimensions(opt) = 1 .. n + 1
      /\ Dimensions(opt)[1] = Len(TargetPhrases(opt.rule))
      /\ \A k \in DOMAIN opt.stackVec :
            Dimensions(opt)[k + 1] = Len(HypoList(opt.stackVec[k]))
  BY <1>1, ListsBefore, DimensionsFacts
<1>3. phrase \in Phrases /\ phrase.target # <<>>
  <2>1. opt.rule \in Options.rules
    BY DEF OptionInv
  <2>2. /\ TargetPhrases(opt.rule) \in Seq(Phrases)
        /\ \A k \in DOMAIN TargetPhrases(opt.rule) : TargetPhrases(opt.rule)[k].target # <<>>
    BY <1>1, <2>1, TargetPhrasesFacts
  <2>3. 1 \in DOMAIN Dimensions(opt)
    BY <1>2
  <2>4. item[1] \in 1 .. Len(TargetPhrases(opt.rule))
    BY <1>2, <2>3 DEF ItemInv
  <2> QED BY <2>2, <2>4 DEF PhraseOf
<1>4. ASSUME NEW k \in 1 .. n
      PROVE  /\ prev[k].score \in Int
             /\ prev[k].range \in Ranges /\ Before(prev[k].range, range)
             /\ prev[k].phrase.lhs \in DOMAIN m_hypoStackColl[prev[k].range]
             /\ prev[k] \in m_hypoStackColl[prev[k].range][prev[k].phrase.lhs].m_hypos
  <2> DEFINE cell == opt.stackVec[k][1]
             lhs == opt.stackVec[k][2]
             c == m_hypoStackColl[cell][lhs]
  <2>1. /\ cell \in Ranges /\ Before(cell, range) /\ lhs \in DOMAIN m_hypoStackColl[cell]
    BY <1>2 DEF OptionInv
  <2>2. Listed(c)
    BY <2>1, ListsBefore DEF ListInv
  <2>9. c.m_hyposOrdered \in Seq(c.m_hypos)
    BY <2>2 DEF Listed
  <2>3. item[k + 1] \in 1 .. Len(c.m_hyposOrdered)
    <3>1. k + 1 \in DOMAIN Dimensions(opt) /\ k \in DOMAIN opt.stackVec
      BY <1>2
    <3>2. item[k + 1] \in Nat /\ 1 <= item[k + 1] /\ item[k + 1] <= Dimensions(opt)[k + 1]
      BY <3>1 DEF ItemInv
    <3>3. Dimensions(opt)[k + 1] = Len(c.m_hyposOrdered)
      BY <1>2, <3>1 DEF HypoList
    <3> HIDE DEF c
    <3>4. Len(c.m_hyposOrdered) \in Nat
      BY <2>9
    <3> QED BY <3>2, <3>3, <3>4
  <2>4. prev[k] = c.m_hyposOrdered[item[k + 1]]
    BY <1>2 DEF HyposOf, HypoList
  <2>5. prev[k] \in c.m_hypos
    <3> HIDE DEF c, prev
    <3> QED BY <2>9, <2>3, <2>4
  <2>6. CollectionInv(c, cell, lhs, m_hypoStackColl, Options)
    BY <2>1 DEF ChartInv, CellInv
  <2>7. prev[k] \in Created(c)
    BY <2>5 DEF Created
  <2>8. prev[k].score \in Int /\ prev[k].range = cell /\ prev[k].phrase.lhs = lhs
    BY <2>6, <2>7 DEF CollectionInv, Good, Belongs
  <2> QED BY <2>1, <2>5, <2>8
<1>5. DOMAIN prev = 1 .. n /\ Len(prev) = n
  BY <1>2 DEF HyposOf
<1> HIDE DEF prev, phrase, n
<1>6. n \in Nat
  BY <1>2
<1> QED BY <1>3, <1>4, <1>5, <1>6 DEF prev, phrase, n

\* The hypothesis that a popped item stands for.
LEMMA PoppedHypothesis ==
    ASSUME ChartInv, NEW cube \in cubes, NEW item \in cube.m_queue
    PROVE  LET hypo == CreateHypothesis(PhraseOf(cube.opt, item), range, HyposOf(cube.opt, item))
           IN  hypo.score \in Int /\ Belongs(hypo, range, hypo.phrase.lhs, m_hypoStackColl)
<1> DEFINE phrase == PhraseOf(cube.opt, item)
           prev == HyposOf(cube.opt, item)
           hypo == CreateHypothesis(phrase, range, prev)
           n == Len(cube.opt.stackVec)
<1>1. /\ setup \in DOMAIN Setups /\ OptionInv(cube.opt, range, m_hypoStackColl, Options)
      /\ ItemInv(cube.opt, item)
  BY DEF ChartInv, CubeInv, CoveredInv
<1>2. /\ phrase \in Phrases /\ phrase.target # <<>>
      /\ n \in Nat /\ DOMAIN prev = 1 .. n /\ Len(prev) = n
      /\ \A k \in 1 .. n :
            /\ prev[k].score \in Int
            /\ prev[k].range \in Ranges /\ Before(prev[k].range, range)
            /\ prev[k].phrase.lhs \in DOMAIN m_hypoStackColl[prev[k].range]
            /\ prev[k] \in m_hypoStackColl[prev[k].range][prev[k].phrase.lhs].m_hypos
  BY <1>1, ItemFacts
<1>3. hypo.range = range /\ hypo.prevHypos = prev
  BY DEF CreateHypothesis
<1> HIDE DEF prev, phrase, n
<1>4. hypo.score \in Int
  BY <1>1, <1>2, ScoreType
<1>5. FromBefore(hypo, range, m_hypoStackColl)
  <2> HIDE DEF hypo
  <2> QED BY <1>2, <1>3 DEF FromBefore
<1> QED BY <1>3, <1>4, <1>5 DEF Belongs, hypo, phrase, prev

\* A cube begins with its corner.
LEMMA CornerInv ==
    ASSUME setup \in DOMAIN Setups, NEW opt, OptionInv(opt, range, m_hypoStackColl, Options),
           \A r \in Ranges : Before(r, range) => ListInv(r, m_hypoStackColl)
    PROVE  CubeInv(RuleCube(opt)) /\ RuleCube(opt).m_queue # {}
<1> DEFINE corner == Corner(opt)
           cube == RuleCube(opt)
<1>1. \A d \in DOMAIN Dimensions(opt) : Dimensions(opt)[d] \in Nat \ {0}
  BY DimensionsFacts
<1>2. ItemInv(opt, corner)
  BY <1>1 DEF ItemInv, Corner
<1>3. cube = [opt |-> opt, m_covered |-> {corner}, m_queue |-> {corner}]
  BY DEF RuleCube, Corner
<1> HIDE DEF corner, cube
<1>4. cube.opt = opt /\ cube.m_covered = {corner} /\ cube.m_queue = {corner}
  BY <1>3
<1>5. CoveredInv(cube)
  BY <1>2, <1>4, FS_Singleton DEF CoveredInv, corner
<1> QED BY <1>3, <1>4, <1>5 DEF CubeInv, cube

\* The neighbours of an item are finitely many items of its cube.
LEMMA NeighborsInv ==
    ASSUME setup \in DOMAIN Setups, NEW opt, OptionInv(opt, range, m_hypoStackColl, Options),
           NEW item, ItemInv(opt, item),
           \A r \in Ranges : Before(r, range) => ListInv(r, m_hypoStackColl)
    PROVE  IsFiniteSet(Neighbors(opt, item)) /\ \A t \in Neighbors(opt, item) : ItemInv(opt, t)
<1>1. /\ Len(opt.stackVec) + 1 \in Nat /\ DOMAIN Dimensions(opt) = 1 .. Len(opt.stackVec) + 1
      /\ \A d \in DOMAIN Dimensions(opt) : Dimensions(opt)[d] \in Nat \ {0}
  BY DimensionsFacts
<1>2. DOMAIN item = DOMAIN Dimensions(opt)
  BY DEF ItemInv
<1>3. ASSUME NEW t \in Neighbors(opt, item) PROVE ItemInv(opt, t)
  <2>1. PICK d \in DOMAIN item : item[d] < Dimensions(opt)[d] /\ t = [item EXCEPT ![d] = item[d] + 1]
    BY DEF Neighbors
  <2> QED BY <1>1, <1>2, <2>1 DEF ItemInv
<1>4. IsFiniteSet(Neighbors(opt, item))
  <2> DEFINE ds == {k \in DOMAIN item : item[k] < Dimensions(opt)[k]}
             f == [d \in ds |-> [item EXCEPT ![d] = item[d] + 1]]
  <2>1. f \in Surjection(ds, Neighbors(opt, item))
    BY DEF Surjection, Neighbors
  <2>2. IsFiniteSet(ds)
    <3>1. IsFiniteSet(DOMAIN item)
      BY <1>1, <1>2, FS_Interval
    <3> QED BY <3>1, PartOfFinite
  <2> HIDE DEF ds, f
  <2> QED BY <2>1, <2>2, FS_Surjection
<1> QED BY <1>3, <1>4

\* A popped item is followed by the neighbours that nothing has looked at yet.
LEMMA PopItemInv ==
    ASSUME setup \in DOMAIN Setups, NEW cube, CubeInv(cube), NEW item \in cube.m_queue,
           \A r \in Ranges : Before(r, range) => ListInv(r, m_hypoStackColl)
    PROVE  CubeInv(PopItem(cube, item))
<1> DEFINE opt == cube.opt
           new == Neighbors(opt, item) \ cube.m_covered
           covered == cube.m_covered \cup new
           queue == (cube.m_queue \ {item}) \cup new
           popped == PopItem(cube, item)
<1>1. OptionInv(opt, range, m_hypoStackColl, Options) /\ ItemInv(opt, item)
  BY DEF CubeInv, CoveredInv
<1>2. IsFiniteSet(Neighbors(opt, item)) /\ \A t \in Neighbors(opt, item) : ItemInv(opt, t)
  BY <1>1, NeighborsInv
<1>3. cube = [opt |-> cube.opt, m_covered |-> cube.m_covered, m_queue |-> cube.m_queue]
  BY DEF CubeInv
<1>4. popped = [cube EXCEPT !.m_covered = covered, !.m_queue = queue]
  BY <1>3 DEF PopItem
<1>5. /\ IsFiniteSet(covered) /\ queue \subseteq covered /\ Corner(opt) \in covered
      /\ \A t \in covered : ItemInv(opt, t)
  <2>1. IsFiniteSet(new)
    BY <1>2, PartOfFinite
  <2>2. IsFiniteSet(covered)
    BY <2>1, FS_Union DEF CubeInv, CoveredInv
  <2> QED BY <1>2, <2>2 DEF CubeInv, CoveredInv
<1>6. \A t \in covered \ queue : Neighbors(opt, t) \subseteq covered
  <2> SUFFICES ASSUME NEW t \in covered \ queue PROVE Neighbors(opt, t) \subseteq covered
    OBVIOUS
  <2>1. t = item \/ t \in cube.m_covered \ cube.m_queue
    OBVIOUS
  <2> QED BY <2>1 DEF CubeInv, CoveredInv
<1> HIDE DEF covered, queue
<1>7. popped = [opt |-> opt, m_covered |-> covered, m_queue |-> queue]
  BY <1>3, <1>4
<1> HIDE DEF opt, popped
<1>8. popped.opt = opt /\ popped.m_covered = covered /\ popped.m_queue = queue
  BY <1>7
<1> QED BY <1>1, <1>5, <1>6, <1>7, <1>8 DEF CubeInv, CoveredInv, popped

\* A cube is as before while only the cell of its range changes.
LEMMA CubeStable ==
    ASSUME NEW cube, CubeInv(cube), setup' = setup, range' = range, range \in Ranges,
           \A r \in Ranges : Before(r, range) => m_hypoStackColl'[r] = m_hypoStackColl[r]
    PROVE  CubeInv(cube)'
<1> DEFINE opt == cube.opt
<1>1. OptionInv(opt, range, m_hypoStackColl, Options)
  BY DEF CubeInv
<1>2. Options' = Options
  BY DEF Options
<1>3. OptionInv(opt, range, m_hypoStackColl', Options)
  BY <1>1 DEF OptionInv
<1>4. TargetPhrases(opt.rule)' = TargetPhrases(opt.rule)
  BY <1>2 DEF TargetPhrases
<1>5. \A k \in DOMAIN opt.stackVec : HypoList(opt.stackVec[k])' = HypoList(opt.stackVec[k])
  BY <1>1 DEF OptionInv, HypoList
<1>6. Dimensions(opt)' = Dimensions(opt)
  <2>1. Len(opt.stackVec) \in Nat /\ DOMAIN opt.stackVec = 1 .. Len(opt.stackVec)
    BY <1>1 DEF OptionInv
  <2>2. \A d \in 1 .. Len(opt.stackVec) + 1 : d # 1 => d - 1 \in DOMAIN opt.stackVec
    BY <2>1
  <2> QED BY <1>4, <1>5, <2>2 DEF Dimensions
<1>7. /\ \A item : ItemInv(opt, item) <=> ItemInv(opt, item)'
      /\ \A item : Neighbors(opt, item)' = Neighbors(opt, item)
      /\ Corner(opt)' = Corner(opt)
  BY <1>6 DEF ItemInv, Neighbors, Corner
<1>8. CoveredInv(cube)'
  BY <1>7 DEF CubeInv, CoveredInv
<1> QED BY <1>2, <1>3, <1>8 DEF CubeInv

-----------------------------------------------------------------------------
(* The steps                                                                 *)

\* The decoder begins with nothing in the chart.
LEMMA ChartInit == Init => ChartInv
<1> SUFFICES ASSUME Init PROVE ChartInv
  OBVIOUS
<1>1. range \in Ranges
  BY ChartAssumption DEF Init, Ranges, m_size
<1>2. \A r \in Ranges : m_hypoStackColl[r] = <<>>
  BY DEF Init
<1>3. DOMAIN <<>> = {}
  OBVIOUS
<1>4. \A r \in Ranges : CellInv(r, m_hypoStackColl, Options) /\ ListInv(r, m_hypoStackColl)
  BY <1>2, <1>3 DEF CellInv, ListInv
<1> QED BY <1>1, <1>2, <1>4, FS_EmptySet DEF Init, ChartInv

\* CreateCubes leaves the chart alone.
LEMMA CreateCubesKeeps == ChartInv /\ CreateCubes => ChartInv'
<1> SUFFICES ASSUME ChartInv, CreateCubes PROVE ChartInv'
  OBVIOUS
<1>1. /\ pc = "cell" /\ pc' = "pop" /\ setup' = setup /\ range' = range
      /\ m_hypoStackColl' = m_hypoStackColl
      /\ cubes' = {RuleCube(opt) : opt \in TranslationOptions(range)}
  BY DEF CreateCubes
<1>2. setup \in DOMAIN Setups /\ range \in Ranges
  BY DEF ChartInv
<1>3. ASSUME NEW cube \in cubes' PROVE CubeInv(cube)' /\ cube.m_queue # {}
  <2>1. PICK opt \in TranslationOptions(range) : cube = RuleCube(opt)
    BY <1>1
  <2>2. OptionInv(opt, range, m_hypoStackColl, Options)
    BY <1>2, OptionFacts
  <2>3. CubeInv(cube) /\ cube.m_queue # {}
    BY <1>2, <2>1, <2>2, ListsBefore, CornerInv
  <2> QED BY <1>1, <1>2, <2>3, CubeStable
<1>4. ASSUME NEW r \in Ranges
      PROVE  /\ Empty(r, range, "pop") => m_hypoStackColl[r] = <<>>
             /\ CellInv(r, m_hypoStackColl, Options)
             /\ Filled(r, range, "pop") => ListInv(r, m_hypoStackColl)
  BY <1>1 DEF ChartInv, Empty, Filled
<1>5. Options' = Options
  BY <1>1 DEF Options
<1>6. IsFiniteSet(cubes')
  <2> DEFINE f == [opt \in TranslationOptions(range) |-> RuleCube(opt)]
  <2>1. f \in Surjection(TranslationOptions(range), cubes')
    BY <1>1 DEF Surjection
  <2> HIDE DEF f
  <2> QED BY <1>2, <2>1, OptionsFinite, FS_Surjection, Zenon
<1> QED BY <1>1, <1>2, <1>3, <1>4, <1>5, <1>6 DEF ChartInv

\* A popped item becomes a hypothesis of the cell.
LEMMA PopKeeps == ChartInv /\ Pop => ChartInv'
<1> SUFFICES ASSUME ChartInv, Pop PROVE ChartInv'
  OBVIOUS
<1>1. /\ pc = "pop" /\ pc' = "pop" /\ setup' = setup /\ range' = range
      /\ setup \in DOMAIN Setups /\ range \in Ranges
  BY DEF Pop, ChartInv
<1> DEFINE Popped(cube, item) ==
          LET popped == PopItem(cube, item)
              hypo == CreateHypothesis(PhraseOf(cube.opt, item), range, HyposOf(cube.opt, item))
          IN /\ cubes' = (cubes \ {cube}) \cup (IF popped.m_queue = {} THEN {} ELSE {popped})
             /\ \E cell \in AddToCell(m_hypoStackColl[range], hypo) :
                   m_hypoStackColl' = [m_hypoStackColl EXCEPT ![range] = cell]
<1>2a. PICK cube \in TopCubes : \E item \in TopItems(cube) : Popped(cube, item)
  BY DEF Pop
<1>2. PICK item \in TopItems(cube) : Popped(cube, item)
  BY <1>2a
<1>3. cube \in cubes /\ item \in cube.m_queue
  BY DEF TopCubes, TopItems
<1> DEFINE hypo == CreateHypothesis(PhraseOf(cube.opt, item), range, HyposOf(cube.opt, item))
           lhs == hypo.phrase.lhs
           old == m_hypoStackColl[range]
           coll == IF lhs \in DOMAIN old THEN old[lhs] ELSE Coll!EmptyCollection
<1>4. hypo.score \in Int /\ Belongs(hypo, range, lhs, m_hypoStackColl)
  BY <1>3, PoppedHypothesis
<1>5. PICK cell \in AddToCell(old, hypo) :
          m_hypoStackColl' = [m_hypoStackColl EXCEPT ![range] = cell]
  BY <1>2
<1> HIDE DEF hypo
<1>6. PICK c \in Coll!AddHypothesis(coll, hypo) :
          cell = [l \in DOMAIN old \cup {lhs} |-> IF l = lhs THEN c ELSE old[l]]
  BY DEF AddToCell
<1>7. CellInv(range, m_hypoStackColl, Options)
  BY <1>1 DEF ChartInv
<1>8. Usable(coll, Options)
  BY <1>7 DEF CellInv, CollectionInv, Usable
<1>9. Good(c, Options) /\ Created(c) = Created(coll) \cup {hypo}
  BY <1>1, <1>4, <1>6, <1>8, AddHypothesisGood
<1>10. \A h \in Created(coll) : Belongs(h, range, lhs, m_hypoStackColl)
  <2>1. CASE lhs \in DOMAIN old
    BY <1>7, <2>1 DEF CellInv, CollectionInv
  <2>2. CASE lhs \notin DOMAIN old
    BY <2>2, EmptyFields
  <2> QED BY <2>1, <2>2
<1> HIDE DEF coll, lhs
<1>11. \A l \in DOMAIN cell : CollectionInv(cell[l], range, l, m_hypoStackColl, Options)
  <2>1. CollectionInv(c, range, lhs, m_hypoStackColl, Options)
    BY <1>4, <1>9, <1>10 DEF CollectionInv
  <2>2. \A l \in DOMAIN old : CollectionInv(old[l], range, l, m_hypoStackColl, Options)
    BY <1>7 DEF CellInv
  <2> QED BY <1>6, <2>1, <2>2
<1>12. /\ DOMAIN m_hypoStackColl' = Ranges /\ m_hypoStackColl'[range] = cell
       /\ m_hypoStackColl' = [r \in Ranges |-> m_hypoStackColl'[r]]
       /\ \A r \in Ranges : r # range => m_hypoStackColl'[r] = m_hypoStackColl[r]
  BY <1>1, <1>5 DEF ChartInv
<1>13. \A q \in Ranges : Before(q, range) => m_hypoStackColl'[q] = m_hypoStackColl[q]
  BY <1>1, <1>12, OrderFacts
<1>14. CellInv(range, m_hypoStackColl', Options)
  BY <1>11, <1>12, <1>13, FromBeforeStable DEF CellInv, CollectionInv, Belongs
<1>15. ASSUME NEW r \in Ranges
       PROVE  /\ Empty(r, range, "pop") => m_hypoStackColl'[r] = <<>>
              /\ CellInv(r, m_hypoStackColl', Options)
              /\ Filled(r, range, "pop") => ListInv(r, m_hypoStackColl')
  <2>1. CASE r = range
    <3>1. ~Empty(r, range, "pop") /\ ~Filled(r, range, "pop")
      BY <1>1, <2>1, OrderFacts DEF Empty, Filled
    <3> QED BY <1>14, <2>1, <3>1
  <2>2. CASE r # range
    <3>1. CellInv(r, m_hypoStackColl', Options)
      BY <1>1, <1>5, <2>2, OtherCells
    <3>2. /\ Empty(r, range, "pop") => m_hypoStackColl[r] = <<>>
          /\ Filled(r, range, "pop") => ListInv(r, m_hypoStackColl)
      BY <1>1 DEF ChartInv
    <3> QED BY <1>12, <2>2, <3>1, <3>2 DEF ListInv
  <2> QED BY <2>1, <2>2
<1>16. ASSUME NEW k \in cubes' PROVE CubeInv(k)' /\ k.m_queue # {}
  <2>1. CubeInv(cube)
    BY <1>3 DEF ChartInv
  <2>2. CubeInv(PopItem(cube, item))
    BY <1>1, <1>3, <2>1, ListsBefore, PopItemInv
  <2>3. k \in cubes \/ (k = PopItem(cube, item) /\ k.m_queue # {})
    BY <1>2
  <2>4. CubeInv(k) /\ k.m_queue # {}
    BY <2>2, <2>3 DEF ChartInv
  <2> QED BY <1>1, <1>13, <2>4, CubeStable
<1>17. Options' = Options
  BY <1>1 DEF Options
<1>18. IsFiniteSet(cubes')
  <2>1. IsFiniteSet(cubes \ {cube}) /\ IsFiniteSet((cubes \ {cube}) \cup {PopItem(cube, item)})
    BY FS_RemoveElement, FS_AddElement DEF ChartInv
  <2>2. \/ cubes' = cubes \ {cube}
        \/ cubes' = (cubes \ {cube}) \cup {PopItem(cube, item)}
    BY <1>2
  <2> QED BY <2>1, <2>2
<1> QED BY <1>1, <1>12, <1>15, <1>16, <1>17, <1>18 DEF ChartInv

\* A cell that is filled is pruned, tidied and sorted.
LEMMA FinishCellKeeps == ChartInv /\ FinishCell => ChartInv'
<1> SUFFICES ASSUME ChartInv, FinishCell PROVE ChartInv'
  OBVIOUS
<1>1. /\ pc = "pop" /\ setup' = setup /\ cubes' = {}
      /\ setup \in DOMAIN Setups /\ range \in Ranges
      /\ \/ range = WholeSentence /\ pc' = "searched" /\ range' = range
         \/ range # WholeSentence /\ pc' = "cell" /\ range' = NextRange
  BY DEF FinishCell, ChartInv
<1> DEFINE old == m_hypoStackColl[range]
<1>2. PICK cell \in FinishLabels(old) :
          m_hypoStackColl' = [m_hypoStackColl EXCEPT ![range] = cell]
  BY DEF FinishCell
<1>3. DOMAIN cell = DOMAIN old /\ \A lhs \in DOMAIN old : cell[lhs] \in Finish(old[lhs])
  BY DEF FinishLabels
<1>4. CellInv(range, m_hypoStackColl, Options)
  BY <1>1 DEF ChartInv
<1>5. ASSUME NEW lhs \in DOMAIN cell
      PROVE  /\ CollectionInv(cell[lhs], range, lhs, m_hypoStackColl, Options)
             /\ Listed(cell[lhs])
  <2>1. CollectionInv(old[lhs], range, lhs, m_hypoStackColl, Options)
    BY <1>3, <1>4 DEF CellInv
  <2>2. /\ Good(cell[lhs], Options) /\ Created(cell[lhs]) = Created(old[lhs])
        /\ Listed(cell[lhs])
    BY <1>1, <1>3, <2>1, FinishGood DEF CollectionInv
  <2> QED BY <2>1, <2>2 DEF CollectionInv
<1>6. /\ DOMAIN m_hypoStackColl' = Ranges /\ m_hypoStackColl'[range] = cell
      /\ m_hypoStackColl' = [r \in Ranges |-> m_hypoStackColl'[r]]
      /\ \A r \in Ranges : r # range => m_hypoStackColl'[r] = m_hypoStackColl[r]
  BY <1>1, <1>2 DEF ChartInv
<1>7. \A q \in Ranges : Before(q, range) => m_hypoStackColl'[q] = m_hypoStackColl[q]
  BY <1>1, <1>6, OrderFacts
<1>8. CellInv(range, m_hypoStackColl', Options) /\ ListInv(range, m_hypoStackColl')
  BY <1>5, <1>6, <1>7, FromBeforeStable DEF CellInv, ListInv, CollectionInv, Belongs
<1>9. \A r \in Ranges : Filled(r, range', pc') <=> Before(r, range) \/ r = range
  <2>1. CASE range = WholeSentence
    BY <1>1, <2>1 DEF Filled
  <2>2. CASE range # WholeSentence
    BY <1>1, <2>2, NextRangeFacts DEF Filled
  <2> QED BY <2>1, <2>2
<1>10. ASSUME NEW r \in Ranges
       PROVE  /\ Empty(r, range', pc') => m_hypoStackColl'[r] = <<>>
              /\ CellInv(r, m_hypoStackColl', Options)
              /\ Filled(r, range', pc') => ListInv(r, m_hypoStackColl')
  <2>1. CASE r = range
    <3>1. ~Empty(r, range', pc')
      BY <1>9, <2>1 DEF Empty
    <3> QED BY <1>8, <2>1, <3>1
  <2>2. CASE r # range
    <3>1. CellInv(r, m_hypoStackColl', Options)
      BY <1>1, <1>2, <2>2, OtherCells
    <3>2. /\ Empty(r, range, pc) => m_hypoStackColl[r] = <<>>
          /\ Filled(r, range, pc) => ListInv(r, m_hypoStackColl)
      BY DEF ChartInv
    <3>3. Empty(r, range', pc') => Empty(r, range, pc)
      BY <1>1, <1>9, <2>2 DEF Empty, Filled
    <3>4. Filled(r, range', pc') => Filled(r, range, pc)
      BY <1>9, <2>2 DEF Filled
    <3> QED BY <1>6, <2>2, <3>1, <3>2, <3>3, <3>4 DEF ListInv
  <2> QED BY <2>1, <2>2
<1>11. Options' = Options
  BY <1>1 DEF Options
<1>12. range' \in Ranges
  BY <1>1, NextRangeFacts
<1> QED BY <1>1, <1>6, <1>10, <1>11, <1>12, FS_EmptySet DEF ChartInv

\* The invariant of the search of one sentence.
THEOREM ChartInvariant == SearchSpec => []ChartInv
<1>1. Init => ChartInv
  BY ChartInit
<1>2. ChartInv /\ [SearchNext]_chartVars => ChartInv'
  <2>1. ChartInv /\ UNCHANGED chartVars => ChartInv'
    <3> SUFFICES ASSUME ChartInv, UNCHANGED chartVars PROVE ChartInv'
      OBVIOUS
    <3>1. /\ setup' = setup /\ m_hypoStackColl' = m_hypoStackColl /\ range' = range
          /\ cubes' = cubes /\ pc' = pc
      BY DEF chartVars
    <3>2. range \in Ranges /\ \A cube \in cubes : CubeInv(cube)
      BY DEF ChartInv
    <3>3. \A cube \in cubes' : CubeInv(cube)'
      BY <3>1, <3>2, CubeStable
    <3>4. Options' = Options
      BY <3>1 DEF Options
    <3> QED BY <3>1, <3>3, <3>4 DEF ChartInv
  <2> QED BY <2>1, CreateCubesKeeps, PopKeeps, FinishCellKeeps DEF SearchNext
<1> QED BY <1>1, <1>2, PTL DEF SearchSpec

\* A finished cell has been filled.
LEMMA FinishedIsFilled ==
    ASSUME ChartInv, NEW r \in Ranges, Finished(r) PROVE Filled(r, range, pc)
<1>1. CASE Before(r, range)
  BY <1>1 DEF Filled
<1>2. CASE pc \notin {"cell", "pop"}
  <2>1. pc = "searched" /\ range = WholeSentence
    BY <1>2 DEF ChartInv
  <2> QED BY <2>1, OrderFacts DEF Filled
<1> QED BY <1>1, <1>2 DEF Finished

\* CellKeepsTheTop, for any sentence, grammar, models and command line: in
\* whatever order hypotheses are popped and ties are sorted, a finished cell has
\* what its beam and its size have room for.
THEOREM CellKeepsItsTop == SearchSpec => []CellKeepsTheTop
<1>1. ChartInv => CellKeepsTheTop
  <2> SUFFICES ASSUME ChartInv, NEW r \in Ranges, NEW lhs \in DOMAIN m_hypoStackColl[r]
               PROVE  LET coll == m_hypoStackColl[r][lhs]
                          best == Max({h.score : h \in Created(coll)})
                      IN \A h \in Created(coll) :
                            /\ h.score > best - Options.beamWidth
                            /\ Cardinality({g.state : g \in {f \in Created(coll) :
                                                f.score >= h.score /\ f.state # h.state}})
                                  < Options.maxHypoStackSize
                            => \E g \in coll.m_hypos : g.state = h.state /\ g.score >= h.score
    BY DEF CellKeepsTheTop
  <2> DEFINE c == m_hypoStackColl[r][lhs]
             S == {h.score : h \in Created(c)}
  <2>1. Good(c, Options)
    BY DEF ChartInv, CellInv, CollectionInv
  <2> HIDE DEF c
  <2>2. Max(S) = c.m_bestScore
    <3>1. c.m_bestScore \in S /\ c.m_bestScore \in Int /\ \A x \in S : x \in Int /\ x <= c.m_bestScore
      <4>1. c.m_hypos \subseteq Created(c)
        BY DEF Created
      <4> QED BY <2>1, <4>1 DEF Good, BestThere
    <3> HIDE DEF S
    <3>2. \E x \in S : \A y \in S : x >= y
      BY <3>1
    <3>3. Max(S) \in S /\ \A y \in S : Max(S) >= y
      BY <3>2 DEF Max
    <3>4. Max(S) <= c.m_bestScore /\ Max(S) >= c.m_bestScore /\ Max(S) \in Int
      BY <3>1, <3>3
    <3> QED BY <3>1, <3>4
  <2>3. TopKept(c, Options.maxHypoStackSize, Options.beamWidth)
    BY <2>1 DEF Good
  <2> QED BY <2>2, <2>3 DEF TopKept, Rivals, States, Stands, c
<1> QED BY <1>1, ChartInvariant, PTL

\* ListsAlive, for any sentence, grammar, models and command line: no pruning
\* deletes a hypothesis that a list or a later hypothesis points to.
THEOREM ListsStayAlive == SearchSpec => []ListsAlive
<1>1. ChartInv => ListsAlive
  <2> SUFFICES ASSUME ChartInv, NEW r \in Ranges, NEW lhs \in DOMAIN m_hypoStackColl[r]
               PROVE  LET coll == m_hypoStackColl[r][lhs]
                      IN /\ Finished(r) => /\ ToSet(coll.m_hyposOrdered) = coll.m_hypos
                                           /\ coll.m_hypos # {}
                         /\ \A h \in coll.m_hypos \cup {arc[2] : arc \in coll.m_arcList} :
                               \A i \in DOMAIN h.prevHypos :
                                  LET prev == h.prevHypos[i]
                                  IN prev \in m_hypoStackColl[prev.range][prev.phrase.lhs].m_hypos
    BY DEF ListsAlive
  <2> DEFINE c == m_hypoStackColl[r][lhs]
  <2>1. CollectionInv(c, r, lhs, m_hypoStackColl, Options)
    BY DEF ChartInv, CellInv
  <2>2. Finished(r) => Listed(c)
    BY FinishedIsFilled DEF ChartInv, ListInv
  <2> HIDE DEF c
  <2>3. Finished(r) => ToSet(c.m_hyposOrdered) = c.m_hypos /\ c.m_hypos # {}
    BY <2>1, <2>2 DEF Listed, CollectionInv, Good, BestThere
  <2>4. ASSUME NEW h \in c.m_hypos \cup {arc[2] : arc \in c.m_arcList}
        PROVE  FromBefore(h, r, m_hypoStackColl)
    BY <2>1 DEF CollectionInv, Belongs, Created
  <2> QED BY <2>3, <2>4 DEF FromBefore, c
<1> QED BY <1>1, ChartInvariant, PTL

-----------------------------------------------------------------------------
(* The top of the queue                                                      *)

\* One item is at no place further than another.
Under(opt, p, q) == \A d \in DOMAIN Dimensions(opt) : p[d] <= q[d]

\* Before an item is popped, the queue has one that leads to it.
LEMMA LeadsTo ==
    ASSUME setup \in DOMAIN Setups, NEW cube, CubeInv(cube), NEW item, ItemInv(cube.opt, item),
           item \notin cube.m_covered \ cube.m_queue,
           \A r \in Ranges : Before(r, range) => ListInv(r, m_hypoStackColl)
    PROVE  \E q \in cube.m_queue : Under(cube.opt, q, item)
<1> DEFINE opt == cube.opt
           D == DOMAIN Dimensions(opt)
           S == {p \in cube.m_covered : Under(opt, p, item)}
           below(p) == {y \in S : Under(opt, y, p)}
           levels == {Cardinality(below(p)) : p \in S}
<1>1. CoveredInv(cube)
  BY DEF CubeInv
<1>2. IsFiniteSet(S) /\ \A p \in S : ItemInv(opt, p)
  BY <1>1, PartOfFinite DEF CoveredInv
<1>3. Corner(opt) \in S
  BY <1>1 DEF CoveredInv, ItemInv, Under, Corner
<1>4. \A p \in S : IsFiniteSet(below(p)) /\ Cardinality(below(p)) \in Nat
  <2> HIDE DEF S
  <2> QED BY <1>2, PartOfFinite
<1>5. levels \in SUBSET Int /\ levels # {} /\ IsFiniteSet(levels)
  <2> DEFINE f == [p \in S |-> Cardinality(below(p))]
  <2> HIDE DEF S, below
  <2>1. f \in Surjection(S, levels)
    BY DEF Surjection
  <2>2. levels \in SUBSET Int /\ levels # {}
    BY <1>3, <1>4
  <2> HIDE DEF f, levels
  <2> QED BY <1>2, <2>1, <2>2, FS_Surjection
<1>6. PICK p \in S : \A y \in S : Cardinality(below(p)) >= Cardinality(below(y))
  <2> HIDE DEF S, below
  <2>1. PICK x \in levels : \A y \in levels : x >= y
    <3> HIDE DEF levels
    <3> QED BY <1>5, GreatestExists
  <2> QED BY <2>1
<1>7. CASE p \in cube.m_queue
  BY <1>7
<1>8. CASE p \notin cube.m_queue
  <2>1. p # item /\ Neighbors(opt, p) \subseteq cube.m_covered
    BY <1>1, <1>8 DEF CoveredInv
  <2>2. p \in [D -> Nat] /\ item \in [D -> Nat] /\ \A d \in D : p[d] <= item[d]
    BY <1>2 DEF ItemInv, Under
  <2>3. PICK d \in D : p[d] # item[d]
    BY <2>1, <2>2
  <2>4. p[d] < item[d] /\ p[d] \in Nat /\ item[d] \in Nat
    BY <2>2, <2>3
  <2>5. item[d] <= Dimensions(opt)[d] /\ Dimensions(opt)[d] \in Nat
    BY DimensionsFacts DEF ItemInv, CubeInv
  <2> DEFINE t == [p EXCEPT ![d] = p[d] + 1]
  <2>6. p[d] < Dimensions(opt)[d]
    BY <2>4, <2>5
  <2>7. t \in Neighbors(opt, p)
    BY <2>2, <2>6 DEF Neighbors
  <2>8. Under(opt, t, item) /\ Under(opt, p, t) /\ ~Under(opt, t, p) /\ t \in [D -> Nat]
    BY <2>2, <2>4 DEF Under
  <2>9. t \in S
    BY <2>1, <2>7, <2>8
  <2> HIDE DEF t
  <2>10. below(p) \subseteq below(t) \ {t}
    <3>1. \A y \in S : Under(opt, y, p) => Under(opt, y, t)
      <4>1. \A y \in S : y \in [D -> Nat]
        BY <1>2 DEF ItemInv
      <4> QED BY <2>2, <2>8, <4>1 DEF Under
    <3> QED BY <2>8, <3>1
  <2>11. t \in below(t)
    BY <2>8, <2>9 DEF Under
  <2> HIDE DEF below, S
  <2>12. /\ IsFiniteSet(below(t) \ {t}) /\ Cardinality(below(t)) \in Nat
         /\ Cardinality(below(t) \ {t}) = Cardinality(below(t)) - 1
    BY <1>4, <2>9, <2>11, OneLess
  <2>13. Cardinality(below(p)) \in Nat /\ Cardinality(below(p)) <= Cardinality(below(t) \ {t})
    BY <2>10, <2>12, PartOfFinite
  <2>14. Cardinality(below(p)) >= Cardinality(below(t))
    BY <1>6, <2>9
  <2> QED BY <2>12, <2>13, <2>14
<1> QED BY <1>7, <1>8

\* No total is greater than one of greater numbers.
LEMMA TotalGrows ==
    ASSUME NEW n \in Nat, NEW a, NEW b, \A k \in 1 .. n : a[k] \in Int,
           \A k \in 1 .. n : b[k] \in Int, \A k \in 1 .. n : a[k] <= b[k]
    PROVE  Total(a, n) <= Total(b, n)
<1> DEFINE f == CHOOSE s : SumsTo(a, s, n)
           g == CHOOSE s : SumsTo(b, s, n)
           P == {k \in 0 .. n : f[k] \in Int /\ g[k] \in Int /\ f[k] <= g[k]}
<1>1. Total(a, n) = f[n] /\ Total(b, n) = g[n]
  BY DEF Total, SumsTo
<1>2. SumsTo(a, f, n) /\ SumsTo(b, g, n)
  <2>1. (\E s : SumsTo(a, s, n)) /\ (\E s : SumsTo(b, s, n))
    BY SumDefined
  <2> QED BY <2>1, Zenon
<1> HIDE DEF f, g
<1>3. 0 \in P
  BY <1>2 DEF SumsTo
<1>4. ASSUME NEW k \in 1 .. n, k - 1 \in P PROVE k \in P
  <2>1. f[k] = f[k - 1] + a[k] /\ g[k] = g[k - 1] + b[k]
    BY <1>2 DEF SumsTo
  <2> QED BY <1>4, <2>1
<1>5. 0 .. n \subseteq P
  <2> HIDE DEF P
  <2> QED BY <1>3, <1>4, Stepwise
<1> QED BY <1>1, <1>5

\* What is further along sorted dimensions is estimated no better.
LEMMA EstimateFalls ==
    ASSUME ChartInv, Options.tableLimit > 0,
           NEW opt, OptionInv(opt, range, m_hypoStackColl, Options),
           NEW q, ItemInv(opt, q), NEW item, ItemInv(opt, item), Under(opt, q, item)
    PROVE  /\ EstimateScore(opt, item) \in Int /\ EstimateScore(opt, q) \in Int
           /\ EstimateScore(opt, item) <= EstimateScore(opt, q)
<1> DEFINE n == Len(opt.stackVec)
           phrases == TargetPhrases(opt.rule)
           scores(t) == [k \in DOMAIN HyposOf(opt, t) |-> HyposOf(opt, t)[k].score]
<1>1. /\ setup \in DOMAIN Setups /\ range \in Ranges
      /\ n \in Nat /\ DOMAIN opt.stackVec = 1 .. n
      /\ DOMAIN Dimensions(opt) = 1 .. n + 1
      /\ Dimensions(opt)[1] = Len(phrases)
      /\ \A k \in DOMAIN opt.stackVec :
            Dimensions(opt)[k + 1] = Len(HypoList(opt.stackVec[k]))
  BY ListsBefore, DimensionsFacts DEF ChartInv
<1>2. ASSUME NEW t, ItemInv(opt, t)
      PROVE  /\ PhraseOf(opt, t).score \in Int
             /\ DOMAIN HyposOf(opt, t) = 1 .. n /\ Len(HyposOf(opt, t)) = n
             /\ \A k \in 1 .. n : scores(t)[k] \in Int
             /\ EstimateScore(opt, t) = PhraseOf(opt, t).score + Total(scores(t), n)
  <2>1. /\ PhraseOf(opt, t) \in Phrases
        /\ DOMAIN HyposOf(opt, t) = 1 .. n /\ Len(HyposOf(opt, t)) = n
        /\ \A k \in 1 .. n : HyposOf(opt, t)[k].score \in Int
    BY <1>2, ItemFacts
  <2> HIDE DEF n
  <2>2. PhraseOf(opt, t).score \in Int
    BY <2>1 DEF Phrases
  <2> QED BY <2>1, <2>2 DEF EstimateScore, Estimate
<1>3. \A d \in 1 .. n + 1 : /\ q[d] \in Nat /\ item[d] \in Nat
                            /\ 1 <= q[d] /\ q[d] <= item[d] /\ item[d] <= Dimensions(opt)[d]
  BY <1>1 DEF ItemInv, Under
<1>4. PhraseOf(opt, item).score <= PhraseOf(opt, q).score
  <2>1. phrases \in Seq(Phrases) /\ Descending(phrases)
    BY <1>1, TargetPhrasesFacts DEF OptionInv
  <2>2. 1 \in 1 .. n + 1
    BY <1>1
  <2>3. q[1] \in DOMAIN phrases /\ item[1] \in DOMAIN phrases /\ q[1] <= item[1]
    <3>1. item[1] <= Len(phrases)
      BY <1>1, <1>3, <2>2
    <3> HIDE DEF phrases, n
    <3> QED BY <1>3, <2>1, <2>2, <3>1
  <2> QED BY <2>1, <2>3 DEF Descending, PhraseOf
<1>5. ASSUME NEW k \in 1 .. n PROVE scores(item)[k] <= scores(q)[k]
  <2> DEFINE cell == opt.stackVec[k][1]
             lhs == opt.stackVec[k][2]
             c == m_hypoStackColl[cell][lhs]
             list == HypoList(opt.stackVec[k])
  <2>1. cell \in Ranges /\ Before(cell, range) /\ lhs \in DOMAIN m_hypoStackColl[cell]
    BY <1>1 DEF OptionInv
  <2>2. Listed(c)
    BY <2>1, ListsBefore DEF ListInv
  <2>3. list \in Seq(c.m_hypos) /\ Descending(list)
    BY <2>2 DEF Listed, HypoList
  <2>4. k + 1 \in 1 .. n + 1
    BY <1>1
  <2>5. item[k + 1] <= Len(list)
    BY <1>1, <1>3, <2>4
  <2>6. /\ HyposOf(opt, q)[k] = list[q[k + 1]]
        /\ HyposOf(opt, item)[k] = list[item[k + 1]]
    BY <1>1 DEF HyposOf
  <2> HIDE DEF list, c
  <2>7. q[k + 1] \in DOMAIN list /\ item[k + 1] \in DOMAIN list /\ q[k + 1] <= item[k + 1]
    BY <1>3, <2>3, <2>4, <2>5
  <2>8. list[item[k + 1]].score <= list[q[k + 1]].score
    BY <2>3, <2>7 DEF Descending
  <2>9. k \in DOMAIN HyposOf(opt, q) /\ k \in DOMAIN HyposOf(opt, item)
    BY <1>2
  <2> QED BY <2>6, <2>8, <2>9
<1> HIDE DEF scores, n
<1>6. /\ Total(scores(item), n) \in Int /\ Total(scores(q), n) \in Int
      /\ Total(scores(item), n) <= Total(scores(q), n)
  BY <1>1, <1>2, <1>5, TotalType, TotalGrows
<1> QED BY <1>2, <1>4, <1>6

\* Of finitely many cubes that have an item each, one has the best top.
LEMMA TopExists ==
    ASSUME ChartInv, Options.lazyScoring, Options.tableLimit > 0, NEW cube \in cubes
    PROVE  /\ \A q \in cube.m_queue : EstimateScore(cube.opt, q) <= GetTopScore(cube)
           /\ GetTopScore(cube) \in Int
           /\ \E top \in TopCubes : GetTopScore(top) \in Int /\ GetTopScore(cube) <= GetTopScore(top)
<1>1. ASSUME NEW k \in cubes
      PROVE  /\ GetTopScore(k) \in Int
             /\ \A q \in k.m_queue : EstimateScore(k.opt, q) <= GetTopScore(k)
  <2> DEFINE S == {Score(k.opt, q) : q \in k.m_queue}
             f == [q \in k.m_queue |-> Score(k.opt, q)]
  <2>1. CubeInv(k) /\ k.m_queue # {}
    BY DEF ChartInv
  <2>2. \A q \in k.m_queue : Score(k.opt, q) = EstimateScore(k.opt, q)
    BY DEF Score
  <2>3. ASSUME NEW q \in k.m_queue PROVE EstimateScore(k.opt, q) \in Int
    <3>1. ItemInv(k.opt, q) /\ OptionInv(k.opt, range, m_hypoStackColl, Options)
      BY <2>1 DEF CubeInv, CoveredInv
    <3>2. Under(k.opt, q, q)
      BY <3>1 DEF Under, ItemInv
    <3> QED BY <3>1, <3>2, EstimateFalls
  <2>4. IsFiniteSet(k.m_queue)
    BY <2>1, PartOfFinite DEF CubeInv, CoveredInv
  <2>5. f \in Surjection(k.m_queue, S)
    BY DEF Surjection
  <2>6. S \in SUBSET Int /\ S # {}
    BY <2>1, <2>2, <2>3
  <2>7. \A q \in k.m_queue : EstimateScore(k.opt, q) \in S
    BY <2>2
  <2>8. GetTopScore(k) = Max(S)
    BY DEF GetTopScore
  <2> HIDE DEF S, f
  <2>9. IsFiniteSet(S)
    BY <2>4, <2>5, FS_Surjection
  <2>10. \E x \in S : \A y \in S : x >= y
    BY <2>6, <2>9, GreatestExists
  <2>11. Max(S) \in S /\ \A y \in S : Max(S) >= y
    BY <2>10 DEF Max
  <2> QED BY <2>3, <2>6, <2>7, <2>8, <2>11
<1> DEFINE T == {GetTopScore(k) : k \in cubes}
           g == [k \in cubes |-> GetTopScore(k)]
<1>2. g \in Surjection(cubes, T) /\ T \in SUBSET Int /\ T # {}
  BY <1>1 DEF Surjection
<1>3. PICK x \in T : \A y \in T : x >= y
  <2> HIDE DEF T, g
  <2>1. IsFiniteSet(T)
    BY <1>2, FS_Surjection DEF ChartInv
  <2> QED BY <1>2, <2>1, GreatestExists
<1>4. PICK top \in cubes : x = GetTopScore(top)
  OBVIOUS
<1>5. \A k \in cubes : GetTopScore(k) <= GetTopScore(top)
  BY <1>1, <1>3, <1>4
<1>6. top \in TopCubes
  BY <1>5 DEF TopCubes
<1> QED BY <1>1, <1>5, <1>6

\* TopIsBest, for any sentence, grammar, models and command line: lazy cube
\* pruning fills a cell best first, so that the pop limit cuts off the worst.
THEOREM BestIsPoppedFirst == SearchSpec => []TopIsBest
<1>1. ChartInv => TopIsBest
  <2> SUFFICES ASSUME ChartInv, Options.lazyScoring, Options.tableLimit > 0,
                      NEW cube \in cubes, NEW item \in Items(cube.opt),
                      item \notin cube.m_covered \ cube.m_queue
               PROVE  \E top \in TopCubes : EstimateScore(cube.opt, item) <= GetTopScore(top)
    BY DEF TopIsBest
  <2>1. /\ setup \in DOMAIN Setups /\ CubeInv(cube)
        /\ OptionInv(cube.opt, range, m_hypoStackColl, Options)
    BY DEF ChartInv, CubeInv
  <2>2. ItemInv(cube.opt, item)
    BY DEF Items, ItemInv
  <2>3. PICK q \in cube.m_queue : Under(cube.opt, q, item)
    BY <2>1, <2>2, ListsBefore, LeadsTo
  <2>4. ItemInv(cube.opt, q)
    BY <2>1 DEF CubeInv, CoveredInv
  <2>5. /\ EstimateScore(cube.opt, item) \in Int /\ EstimateScore(cube.opt, q) \in Int
        /\ EstimateScore(cube.opt, item) <= EstimateScore(cube.opt, q)
    BY <2>1, <2>2, <2>3, <2>4, EstimateFalls
  <2>6. EstimateScore(cube.opt, q) <= GetTopScore(cube) /\ GetTopScore(cube) \in Int
    BY TopExists
  <2>7. PICK top \in TopCubes : GetTopScore(top) \in Int /\ GetTopScore(cube) <= GetTopScore(top)
    BY TopExists
  <2> QED BY <2>5, <2>6, <2>7
<1> QED BY <1>1, ChartInvariant, PTL
=============================================================================
