---------------------------- MODULE SearchProofs ----------------------------
(* Theorems about the search of SearchNormal and what follows it, for any      *)
(* sentence, options, models and command line without -cube-pruning: no stack  *)
(* is changed any more once its hypotheses are extended, so that those that    *)
(* live point to hypotheses that live.                                         *)
EXTENDS TrellisPaths, FiniteSetTheorems, TLAPS

-----------------------------------------------------------------------------
(* What the operations of a stack may leave on it *)

StackFields ==
    {"m_hypos", "m_bestScore", "m_worstScore", "m_diversityWorstScore", "m_arcList", "freed"}

IsStack(s) == s = [f \in StackFields |-> s[f]]

\* The hypotheses of a stack and those in their arc lists: all that live.
Living(s) == s.m_hypos \cup {arc[2] : arc \in s.m_arcList}

\* Freeing removes arcs only.
LEMMA FreeShrinks ==
    ASSUME NEW s, IsStack(s), NEW D
    PROVE  LET t == Stack!Free(s, D)
           IN  /\ IsStack(t) /\ t.m_hypos = s.m_hypos
               /\ t.m_arcList \subseteq s.m_arcList
<1> DEFINE freed == s.freed \cup D \cup UNION {Stack!Arcs(s, h) : h \in D}
           arcs == {arc \in s.m_arcList : arc[1] \notin D}
<1>1. Stack!Free(s, D) = [s EXCEPT !.freed = freed, !.m_arcList = arcs]
  BY DEF Stack!Free, IsStack, StackFields
<1>2. arcs \subseteq s.m_arcList
  OBVIOUS
<1> HIDE DEF freed, arcs
<1> QED BY <1>1, <1>2 DEF IsStack, StackFields

\* The losers of the hypotheses that are not freed live on.
LEMMA ArcsShrink ==
    ASSUME NEW s, NEW t, t.m_hypos \subseteq s.m_hypos, t.m_arcList \subseteq s.m_arcList
    PROVE  Living(t) \subseteq Living(s)
BY DEF Living

\* Best selects.
LEMMA BestSelects ==
    ASSUME NEW X, NEW n, NEW B \in Stack!Best(X, n) PROVE B \subseteq X
BY DEF Stack!Best, Stack!kSubset

\* Pruning keeps some of the hypotheses, with their arcs.
LEMMA PruneShrinks ==
    ASSUME NEW s, IsStack(s), NEW n, NEW t \in Stack!PruneToSize(s, n)
    PROVE  IsStack(t) /\ Living(t) \subseteq Living(s)
<1>1. CASE t = s
  BY <1>1
<1>2. CASE t # s
  <2>1. PICK d \in Stack!Diverse(s.m_hypos) :
           \E f \in Stack!Fill(s, d, n) : t = Stack!Pruned(s, d, f, n)
    BY <1>2 DEF Stack!PruneToSize
  <2>2. PICK f \in Stack!Fill(s, d, n) : t = Stack!Pruned(s, d, f, n)
    BY <2>1
  <2>3. d \subseteq s.m_hypos
    BY DEF Stack!Diverse
  <2>4. f \subseteq s.m_hypos
    <3> DEFINE X == {h \in s.m_hypos \ d : h.score > s.m_bestScore + Stack!m_beamWidth}
    <3>1. f = {} \/ \E k : f \in Stack!Best(X, k)
      BY DEF Stack!Fill
    <3>2. X \subseteq s.m_hypos
      OBVIOUS
    <3> HIDE DEF X
    <3> QED BY <3>1, <3>2, BestSelects
  <2> DEFINE r == Stack!Free(s, s.m_hypos \ (d \cup f))
  <2>5. IsStack(r) /\ r.m_hypos = s.m_hypos /\ r.m_arcList \subseteq s.m_arcList
    BY FreeShrinks
  <2>6. IsStack(t) /\ t.m_hypos = d \cup f /\ t.m_arcList = r.m_arcList
    <3> HIDE DEF r
    <3>1. \E worst, diverse :
             t = [r EXCEPT !.m_hypos = d \cup f, !.m_worstScore = worst,
                           !.m_diversityWorstScore = diverse]
      BY <2>2 DEF Stack!Pruned, r
    <3> QED BY <3>1, <2>5 DEF IsStack, StackFields
  <2> QED BY <2>3, <2>4, <2>5, <2>6, ArcsShrink
<1> QED BY <1>1, <1>2

\* CleanupArcList keeps some of the arcs.
LEMMA CleanupShrinks ==
    ASSUME NEW s, IsStack(s), NEW t \in Stack!CleanupArcList(s)
    PROVE  IsStack(t) /\ Living(t) \subseteq Living(s)
<1>1. CASE t = s
  BY <1>1
<1>2. CASE t # s
  <2> DEFINE limit == Options.nBestSize * ArcFactor
             n == Options.nBestSize
  <2>1. t \in Stack!CutArcLists(s, limit, n)
    BY <1>2 DEF Stack!CleanupArcList, Stack!Options, Options
  <2> HIDE DEF limit, n
  <2>2. PICK keep \in Stack!TidyArcs(s, limit, n) :
           t = [Stack!Free(s, {arc[2] : arc \in s.m_arcList \ keep}) EXCEPT !.m_arcList = keep]
    BY <2>1 DEF Stack!CutArcLists
  <2>3. keep \subseteq s.m_arcList
    BY DEF Stack!TidyArcs
  <2> DEFINE r == Stack!Free(s, {arc[2] : arc \in s.m_arcList \ keep})
  <2>4. IsStack(r) /\ r.m_hypos = s.m_hypos
    BY FreeShrinks
  <2>5. IsStack(t) /\ t.m_hypos = s.m_hypos /\ t.m_arcList = keep
    <3> HIDE DEF r
    <3> QED BY <2>2, <2>4 DEF IsStack, StackFields, r
  <2> QED BY <2>3, <2>5, ArcsShrink
<1> QED BY <1>1, <1>2

\* Adding a hypothesis brings nothing else to life.
LEMMA AddGrows ==
    ASSUME NEW s, IsStack(s), NEW h, NEW t \in Stack!Add(s, h)
    PROVE  IsStack(t) /\ Living(t) \subseteq Living(s) \cup {h}
<1> DEFINE r == [s EXCEPT !.m_hypos = @ \cup {h}]
           q == Stack!NewBest(r, h)
           p == Stack!NewBestOfCover(q, h)
<1>1. IsStack(r) /\ r.m_hypos = s.m_hypos \cup {h} /\ r.m_arcList = s.m_arcList
  BY DEF IsStack, StackFields
<1>2. IsStack(q) /\ q.m_hypos = r.m_hypos /\ q.m_arcList = r.m_arcList
  <2>1. q = r \/ \E best, worst : q = [r EXCEPT !.m_bestScore = best, !.m_worstScore = worst]
    BY DEF Stack!NewBest
  <2> HIDE DEF r, q
  <2> QED BY <2>1, <1>1 DEF IsStack, StackFields
<1>3. IsStack(p) /\ p.m_hypos = q.m_hypos /\ p.m_arcList = q.m_arcList
  <2>1. p = q \/ \E worst : p = [q EXCEPT !.m_diversityWorstScore = worst]
    BY DEF Stack!NewBestOfCover
  <2> HIDE DEF r, q, p
  <2> QED BY <2>1, <1>2 DEF IsStack, StackFields
<1>4. Living(p) \subseteq Living(s) \cup {h}
  <2> HIDE DEF r, q, p
  <2> QED BY <1>1, <1>2, <1>3 DEF Living
<1>5. t = p \/ t \in Stack!PruneToSize(p, Stack!m_maxHypoStackSize)
  BY DEF Stack!Add
<1> HIDE DEF p
<1>6. IsStack(t) /\ Living(t) \subseteq Living(p)
  BY <1>3, <1>5, PruneShrinks
<1> QED BY <1>4, <1>6

\* A loser takes its own losers along.
LEMMA AddArcGrows ==
    ASSUME NEW s, IsStack(s), NEW winner, NEW loser
    PROVE  LET t == Stack!AddArc(s, winner, loser)
           IN  /\ IsStack(t) /\ t.m_hypos = s.m_hypos
               /\ Living(t) \subseteq Living(s) \cup {loser}
<1> DEFINE arcs == {arc \in s.m_arcList : arc[1] # loser}
                      \cup {<<winner, g>> : g \in Stack!Arcs(s, loser) \cup {loser}}
           t == Stack!AddArc(s, winner, loser)
<1>1. t = [s EXCEPT !.m_arcList = arcs]
  BY DEF Stack!AddArc, IsStack, StackFields
<1>2. \A arc \in arcs : arc[2] \in Living(s) \cup {loser}
  BY DEF Stack!Arcs, Living
<1> HIDE DEF arcs, t
<1>3. IsStack(t) /\ t.m_hypos = s.m_hypos /\ t.m_arcList = arcs
  BY <1>1 DEF IsStack, StackFields
<1>4. Living(t) \subseteq Living(s) \cup {loser}
  BY <1>2, <1>3 DEF Living
<1> QED BY <1>3, <1>4 DEF t

\* AddPrune brings nothing to life but the hypothesis it is given.
LEMMA AddPrunedGrows ==
    ASSUME NEW s, IsStack(s), NEW h, NEW t \in Stack!AddPruned(s, h)
    PROVE  IsStack(t) /\ Living(t) \subseteq Living(s) \cup {h}
<1>1. ASSUME NEW D, t = Stack!Free(s, D)
      PROVE  IsStack(t) /\ Living(t) \subseteq Living(s)
  BY <1>1, FreeShrinks, ArcsShrink
<1>2. CASE t \in Stack!Add(s, h)
  BY <1>2, AddGrows
<1>3. ASSUME NEW g \in Stack!Existing(s, h), t \in Stack!Lose(s, h, g)
      PROVE  IsStack(t) /\ Living(t) \subseteq Living(s) \cup {h}
  <2>1. t = Stack!AddArc(s, g, h) \/ t = Stack!Free(s, {h})
    BY <1>3 DEF Stack!Lose
  <2> QED BY <2>1, <1>1, AddArcGrows
<1>4. ASSUME NEW g \in Stack!Existing(s, h), t \in Stack!Replace(s, h, g)
      PROVE  IsStack(t) /\ Living(t) \subseteq Living(s) \cup {h}
  <2> DEFINE without == [s EXCEPT !.m_hypos = @ \ {g}]
  <2>1. g \in Living(s)
    BY DEF Stack!Existing, Living
  <2>2. IsStack(without) /\ without.m_hypos = s.m_hypos \ {g}
        /\ without.m_arcList = s.m_arcList
    BY DEF IsStack, StackFields
  <2>3. PICK r : (r = Stack!AddArc(without, h, g) \/ r = Stack!Free(without, {g}))
                 /\ t \in Stack!Add(r, h)
    BY <1>4 DEF Stack!Replace
  <2> HIDE DEF without
  <2>4. Living(without) \subseteq Living(s)
    BY <2>2, ArcsShrink
  <2>5. IsStack(r) /\ Living(r) \subseteq Living(without) \cup {g}
    <3>1. CASE r = Stack!AddArc(without, h, g)
      BY <2>2, <3>1, AddArcGrows
    <3>2. CASE r = Stack!Free(without, {g})
      <4>1. IsStack(r) /\ r.m_hypos = without.m_hypos /\ r.m_arcList \subseteq without.m_arcList
        BY <2>2, <3>2, FreeShrinks
      <4> QED BY <4>1, ArcsShrink
    <3> QED BY <2>3, <3>1, <3>2
  <2>6. IsStack(t) /\ Living(t) \subseteq Living(r) \cup {h}
    BY <2>3, <2>5, AddGrows
  <2> QED BY <2>1, <2>4, <2>5, <2>6
<1>5. \/ \E D : t = Stack!Free(s, D)
      \/ t \in Stack!Add(s, h)
      \/ \E g \in Stack!Existing(s, h) :
            t \in Stack!Lose(s, h, g) \/ t \in Stack!Replace(s, h, g)
  BY DEF Stack!AddPruned
<1> QED BY <1>1, <1>2, <1>3, <1>4, <1>5

-----------------------------------------------------------------------------
(* The inductive invariant *)

\* Where the search is: cubes are never begun.
WhereInv ==
    /\ setup \in DOMAIN Setups
    /\ pc \notin {"next cubes", "pop", "gave up"}
    /\ iterStack \in Nat
    /\ pc \in {"next stack", "expand"} => iterStack <= m_size

\* The stacks from this one on may still change.
Frontier == IF pc = "expand" THEN iterStack + 1 ELSE iterStack

\* g is the hypothesis that h extends.
Extends(h, g) == g.path = Front(h.path)

\* h is one for stack n.
Placed(h, n) ==
    /\ h.cover \subseteq Positions /\ WordsTranslated(h) = n
    /\ h.path \in Seq(Options.options)

\* What h extends is on a stack that does not change any more.
Behind(h, n) ==
    h.path # <<>> =>
        \E k \in 0 .. n - 1 :
            k < Frontier /\ \E g \in m_hypoStackColl[k].m_hypos : Extends(h, g)

StacksInv ==
    /\ m_hypoStackColl = [n \in 0 .. m_size |-> m_hypoStackColl[n]]
    /\ \A n \in 0 .. m_size :
          /\ IsStack(m_hypoStackColl[n])
          /\ \A h \in Living(m_hypoStackColl[n]) : Placed(h, n) /\ Behind(h, n)

\* The option translates words that h has not.
Translates(opt, h) ==
    /\ opt \in Options.options
    /\ opt.startPos <= opt.endPos /\ ~Overlap(h.cover, opt.startPos, opt.endPos)

\* The main loop reads the stack it is at.
LoopInv ==
    /\ pc = "expand" => unexpanded \subseteq m_hypoStackColl[iterStack].m_hypos
    /\ todo # {} => /\ pc = "expand"
                    /\ hypothesis \in m_hypoStackColl[iterStack].m_hypos
                    /\ \A opt \in todo : Translates(opt, hypothesis)

SearchInv == ~Options.cubePruning => WhereInv /\ StacksInv /\ LoopInv

-----------------------------------------------------------------------------
(* What extending a hypothesis makes *)

\* A new hypothesis covers more words than the one it extends, and knows it.
LEMMA NewHypothesis ==
    ASSUME NEW h, h.cover \subseteq Positions, h.path \in Seq(Options.options),
           NEW opt, Translates(opt, h), setup \in DOMAIN Setups
    PROVE  LET new == CreateNext(h, opt)
           IN  /\ new.cover \subseteq Positions /\ new.path \in Seq(Options.options)
               /\ WordsTranslated(new) \in WordsTranslated(h) + 1 .. m_size
               /\ Extends(new, h)
<1> DEFINE new == CreateNext(h, opt)
           span == opt.startPos .. opt.endPos
<1>1. new.cover = h.cover \cup span /\ new.path = Append(h.path, opt)
  BY DEF CreateNext
<1>2. /\ opt.startPos \in Positions /\ opt.endPos \in Positions
      /\ opt.startPos <= opt.endPos /\ h.cover \cap span = {}
  <2>1. opt \in Options.options
    BY DEF Translates
  <2>2. opt.startPos <= opt.endPos /\ h.cover \cap span = {}
    BY DEF Translates, Overlap
  <2>3. opt.startPos \in Positions /\ opt.endPos \in Positions
    BY <2>1, SearchAssumption DEF Options
  <2> QED BY <2>2, <2>3
<1> HIDE DEF new
<1>3. opt.startPos \in span /\ span \subseteq Positions /\ opt.startPos \notin h.cover
  BY <1>2, SizeAssumption DEF Positions
<1> HIDE DEF span
<1>4. new.cover \subseteq Positions
  BY <1>1, <1>3
<1>5. IsFiniteSet(Positions) /\ Cardinality(Positions) = m_size
  BY FS_Interval, SizeAssumption DEF Positions
<1>6. IsFiniteSet(new.cover) /\ Cardinality(new.cover) <= m_size
  BY <1>4, <1>5, FS_Subset
<1>7. IsFiniteSet(h.cover) /\ IsFiniteSet(h.cover \cup {opt.startPos})
      /\ Cardinality(h.cover \cup {opt.startPos}) = Cardinality(h.cover) + 1
  BY <1>3, <1>5, FS_Subset, FS_AddElement
<1>8. Cardinality(h.cover) + 1 <= Cardinality(new.cover)
  <2>1. h.cover \cup {opt.startPos} \subseteq new.cover
    BY <1>1, <1>3
  <2> QED BY <2>1, <1>6, <1>7, FS_Subset
<1>9. Cardinality(h.cover) \in Nat /\ Cardinality(new.cover) \in Nat
  BY <1>6, <1>7, FS_CardinalityType
<1>10. new.path \in Seq(Options.options) /\ Front(new.path) = h.path
  <2> DEFINE S == Options.options
  <2>1. opt \in S /\ h.path \in Seq(S)
    BY DEF Translates
  <2> HIDE DEF S
  <2>2. new.path \in Seq(S) /\ Front(new.path) = h.path
    BY <1>1, <2>1 DEF Front
  <2> QED BY <2>2 DEF S
<1>11. WordsTranslated(new) \in WordsTranslated(h) + 1 .. m_size
  BY <1>6, <1>8, <1>9, SizeAssumption DEF WordsTranslated
<1>12. Extends(new, h)
  BY <1>10 DEF Extends
<1> QED BY <1>4, <1>10, <1>11, <1>12 DEF new

-----------------------------------------------------------------------------
(* What holds at first, and what the steps of the search keep *)

\* One stack from the frontier on may lose hypotheses and gain such as belong
\* to it.
LEMMA StackReplaced ==
    ASSUME WhereInv, StacksInv, NEW n \in 0 .. m_size, Frontier <= n,
           NEW t, IsStack(t), m_hypoStackColl' = [m_hypoStackColl EXCEPT ![n] = t],
           \A h \in Living(t) \ Living(m_hypoStackColl[n]) : Placed(h, n) /\ Behind(h, n),
           UNCHANGED setup, Frontier' \in Nat, Frontier <= Frontier'
    PROVE  /\ StacksInv'
           /\ \A k \in 0 .. m_size : k # n => m_hypoStackColl'[k] = m_hypoStackColl[k]
           /\ m_hypoStackColl'[n] = t
<1>1. /\ m_hypoStackColl'[n] = t
      /\ \A k \in 0 .. m_size : k # n => m_hypoStackColl'[k] = m_hypoStackColl[k]
      /\ m_hypoStackColl' = [k \in 0 .. m_size |-> m_hypoStackColl'[k]]
  BY DEF StacksInv
<1>2. \A k \in 0 .. m_size : IsStack(m_hypoStackColl'[k])
  BY <1>1 DEF StacksInv
<1>3. ASSUME NEW k \in 0 .. m_size, NEW h \in Living(m_hypoStackColl'[k])
      PROVE  Placed(h, k) /\ Behind(h, k)
  BY <1>1, <1>3 DEF StacksInv
<1>4. Frontier \in Nat
  <2>1. iterStack \in Nat
    BY DEF WhereInv
  <2> QED BY <2>1 DEF Frontier
<1>5. ASSUME NEW k \in 0 .. m_size, NEW h, Behind(h, k)
      PROVE  Behind(h, k)'
  <2>1. SUFFICES ASSUME h.path # <<>>
                 PROVE  \E j \in 0 .. k - 1 : j < Frontier'
                            /\ \E g \in m_hypoStackColl'[j].m_hypos : Extends(h, g)
    BY DEF Behind, Extends
  <2>2. PICK j \in 0 .. k - 1 : j < Frontier /\ \E g \in m_hypoStackColl[j].m_hypos : Extends(h, g)
    BY <1>5, <2>1 DEF Behind
  <2>3. j \in 0 .. m_size /\ j # n /\ j < Frontier'
    BY <2>2, <1>4, SizeAssumption
  <2>4. m_hypoStackColl'[j] = m_hypoStackColl[j]
    BY <1>1, <2>3
  <2> QED BY <2>2, <2>3, <2>4
<1>6. \A k, h : Placed(h, k) => Placed(h, k)'
  BY DEF Placed, WordsTranslated, Options
<1>7. \A k \in 0 .. m_size : \A h \in Living(m_hypoStackColl'[k]) : Placed(h, k)' /\ Behind(h, k)'
  BY <1>3, <1>5, <1>6
<1>8. \A k \in 0 .. m_size : \A h \in Living(m_hypoStackColl[k])' : Placed(h, k)' /\ Behind(h, k)'
  BY <1>7 DEF Living
<1>9. \A k \in 0 .. m_size : IsStack(m_hypoStackColl[k])'
  BY <1>2 DEF IsStack
<1>10. StacksInv'
  BY <1>1, <1>8, <1>9 DEF StacksInv
<1> QED BY <1>1, <1>10

\* Nothing is lost where no stack changes and the frontier stays.
LEMMA StacksUnchanged ==
    ASSUME StacksInv, UNCHANGED <<setup, m_hypoStackColl>>, Frontier' = Frontier
    PROVE  StacksInv'
<1>1. \A h, n : Placed(h, n)' = Placed(h, n) /\ Behind(h, n)' = Behind(h, n)
  BY DEF Placed, Behind, WordsTranslated, Options, Extends
<1>2. \A n : IsStack(m_hypoStackColl[n])' = IsStack(m_hypoStackColl[n])
             /\ Living(m_hypoStackColl[n])' = Living(m_hypoStackColl[n])
  BY DEF IsStack, Living
<1> QED BY <1>1, <1>2 DEF StacksInv

\* The search starts as SearchInv says: the empty hypothesis alone on stack 0.
LEMMA InitSearchInv == InitPaths => SearchInv
<1> SUFFICES ASSUME InitPaths, ~Options.cubePruning
             PROVE  WhereInv /\ StacksInv /\ LoopInv
  BY DEF SearchInv
<1>1. Init
  BY DEF InitPaths, InitSearch
<1>2. WhereInv /\ LoopInv
  <2>1. pc = "next stack" /\ iterStack = 0 /\ todo = {} /\ setup \in DOMAIN Setups
    BY <1>1 DEF Init
  <2>2. iterStack \in Nat /\ iterStack <= m_size
    <3>1. iterStack = 0
      BY <1>1 DEF Init
    <3> QED BY <3>1, SizeAssumption
  <2> QED BY <2>1, <2>2 DEF WhereInv, LoopInv
<1>3. PICK first \in Stack!AddPruned(Stack!EmptyStack, InitialHypothesis) :
         m_hypoStackColl = [n \in 0 .. m_size |-> IF n = 0 THEN first ELSE Stack!EmptyStack]
  BY <1>1 DEF Init
<1>4. IsStack(Stack!EmptyStack) /\ Living(Stack!EmptyStack) = {}
  BY DEF IsStack, StackFields, Living, Stack!EmptyStack
<1>5. IsStack(first) /\ Living(first) \subseteq {InitialHypothesis}
  BY <1>4, AddPrunedGrows
<1>6. Placed(InitialHypothesis, 0) /\ Behind(InitialHypothesis, 0)
  <2>1. InitialHypothesis.cover = {} /\ InitialHypothesis.path = <<>>
    BY DEF InitialHypothesis
  <2>2. Cardinality({}) = 0
    BY FS_EmptySet
  <2> QED BY <2>1, <2>2 DEF Placed, Behind, WordsTranslated
<1>7. StacksInv
  <2>1. \A n \in 0 .. m_size :
           m_hypoStackColl[n] = IF n = 0 THEN first ELSE Stack!EmptyStack
    BY <1>3
  <2>2. m_hypoStackColl = [n \in 0 .. m_size |-> m_hypoStackColl[n]]
    BY <1>3
  <2> QED BY <1>4, <1>5, <1>6, <2>1, <2>2 DEF StacksInv
<1> QED BY <1>2, <1>7

\* Pruning and tidying a stack before it is expanded.
LEMMA BeginStackKeeps ==
    ASSUME WhereInv, StacksInv, LoopInv, BeginStack PROVE WhereInv' /\ StacksInv' /\ LoopInv'
<1>1. PICK pruned \in Stack!PruneToSize(m_hypoStackColl[iterStack], Stack!m_maxHypoStackSize) :
         \E tidied \in Stack!CleanupArcList(pruned) :
            /\ m_hypoStackColl' = [m_hypoStackColl EXCEPT ![iterStack] = tidied]
            /\ unexpanded' = tidied.m_hypos
  BY DEF BeginStack
<1>2. PICK tidied \in Stack!CleanupArcList(pruned) :
         /\ m_hypoStackColl' = [m_hypoStackColl EXCEPT ![iterStack] = tidied]
         /\ unexpanded' = tidied.m_hypos
  BY <1>1
<1>3. /\ pc = "next stack" /\ pc' = "expand"
      /\ UNCHANGED <<setup, iterStack, hypothesis, todo>>
  BY DEF BeginStack
<1>4. iterStack \in 0 .. m_size /\ iterStack \in Nat
  <2>1. iterStack \in Nat /\ iterStack <= m_size
    BY <1>3 DEF WhereInv
  <2> QED BY <2>1, SizeAssumption
<1>5. Frontier = iterStack /\ Frontier' = iterStack + 1
  BY <1>3 DEF Frontier
<1>6. IsStack(m_hypoStackColl[iterStack])
  BY <1>4 DEF StacksInv
<1>7. IsStack(tidied) /\ Living(tidied) \subseteq Living(m_hypoStackColl[iterStack])
  <2>1. IsStack(pruned) /\ Living(pruned) \subseteq Living(m_hypoStackColl[iterStack])
    BY <1>6, PruneShrinks
  <2> QED BY <2>1, CleanupShrinks
<1>8. StacksInv' /\ m_hypoStackColl'[iterStack] = tidied
  <2>1. Frontier <= iterStack /\ Frontier' \in Nat /\ Frontier <= Frontier'
    BY <1>4, <1>5
  <2>2. m_hypoStackColl' = [m_hypoStackColl EXCEPT ![iterStack] = tidied] /\ UNCHANGED setup
    BY <1>2, <1>3
  <2>3. \A h \in Living(tidied) \ Living(m_hypoStackColl[iterStack]) :
           Placed(h, iterStack) /\ Behind(h, iterStack)
    BY <1>7
  <2>4. IsStack(tidied)
    BY <1>7
  <2> HIDE DEF Frontier
  <2> QED BY <1>4, <2>1, <2>2, <2>3, <2>4, StackReplaced
<1>9. WhereInv'
  BY <1>3, <1>4 DEF WhereInv
<1>10. LoopInv'
  <2>1. todo = {}
    BY <1>3 DEF LoopInv
  <2> QED BY <1>2, <1>3, <1>8, <2>1 DEF LoopInv
<1> QED BY <1>8, <1>9, <1>10

\* The next hypothesis is one of the stack.
LEMMA ProcessKeeps ==
    ASSUME WhereInv, StacksInv, LoopInv, ProcessOneHypothesis
    PROVE  WhereInv' /\ StacksInv' /\ LoopInv'
<1>1. PICK h \in unexpanded :
         hypothesis' = h /\ unexpanded' = unexpanded \ {h} /\ todo' = Extensions(h)
  BY DEF ProcessOneHypothesis
<1>2. pc = "expand" /\ UNCHANGED <<setup, m_hypoStackColl, iterStack, pc>>
  BY DEF ProcessOneHypothesis
<1>3. StacksInv'
  BY <1>2, StacksUnchanged DEF Frontier
<1>4. WhereInv'
  BY <1>2 DEF WhereInv
<1>5. \A opt \in todo' : Translates(opt, h)
  BY <1>1 DEF Extensions, Translates, Rules!AdmissibleAfter, Rules!Overlap, Overlap
<1>6. LoopInv'
  <2>1. \A opt : Translates(opt, h) => Translates(opt, hypothesis)'
    BY <1>1, <1>2 DEF Translates, Options, Overlap
  <2> QED BY <1>1, <1>2, <1>5, <2>1 DEF LoopInv
<1> QED BY <1>3, <1>4, <1>6

\* A hypothesis goes to a stack that is still to be expanded.
LEMMA ExpandKeeps ==
    ASSUME WhereInv, StacksInv, LoopInv, ExpandHypothesis
    PROVE  WhereInv' /\ StacksInv' /\ LoopInv'
<1>1. /\ pc = "expand" /\ UNCHANGED <<setup, iterStack, unexpanded, hypothesis, pc>>
  BY DEF ExpandHypothesis
<1>2. PICK opt \in todo :
         /\ todo' = todo \ {opt}
         /\ \E s \in Stack!AddPruned(m_hypoStackColl[WordsTranslated(CreateNext(hypothesis, opt))],
                                     CreateNext(hypothesis, opt)) :
               m_hypoStackColl' =
                   [m_hypoStackColl EXCEPT ![WordsTranslated(CreateNext(hypothesis, opt))] = s]
  BY DEF ExpandHypothesis
<1> DEFINE new == CreateNext(hypothesis, opt)
           n == WordsTranslated(new)
<1>3. PICK s \in Stack!AddPruned(m_hypoStackColl[n], new) :
         m_hypoStackColl' = [m_hypoStackColl EXCEPT ![n] = s]
  BY <1>2
<1>4. iterStack \in Nat /\ iterStack <= m_size /\ setup \in DOMAIN Setups
  BY <1>1 DEF WhereInv
<1>5. iterStack \in 0 .. m_size
  BY <1>4, SizeAssumption
<1>6. hypothesis \in m_hypoStackColl[iterStack].m_hypos /\ Translates(opt, hypothesis)
  BY <1>2 DEF LoopInv
<1>7. Placed(hypothesis, iterStack)
  BY <1>5, <1>6 DEF StacksInv, Living
<1>8. /\ new.cover \subseteq Positions /\ new.path \in Seq(Options.options)
      /\ n \in iterStack + 1 .. m_size /\ Extends(new, hypothesis)
  BY <1>4, <1>6, <1>7, NewHypothesis DEF Placed
<1>9. Frontier = iterStack + 1 /\ Frontier' = Frontier
  BY <1>1 DEF Frontier
<1>10. Placed(new, n) /\ Behind(new, n)
  <2>1. Placed(new, n)
    BY <1>8 DEF Placed
  <2> HIDE DEF new, n
  <2>2. iterStack \in 0 .. n - 1 /\ iterStack < Frontier
    BY <1>4, <1>8, <1>9, SizeAssumption
  <2>3. Behind(new, n)
    BY <1>6, <1>8, <2>2 DEF Behind
  <2> QED BY <2>1, <2>3
<1> HIDE DEF new, n
<1>11. n \in 0 .. m_size /\ n # iterStack /\ Frontier <= n /\ Frontier' \in Nat
       /\ Frontier <= Frontier'
  BY <1>4, <1>8, <1>9, SizeAssumption
<1>12. IsStack(s) /\ Living(s) \subseteq Living(m_hypoStackColl[n]) \cup {new}
  <2>1. IsStack(m_hypoStackColl[n])
    BY <1>11 DEF StacksInv
  <2> QED BY <1>3, <2>1, AddPrunedGrows
<1>13. /\ StacksInv'
       /\ \A k \in 0 .. m_size : k # n => m_hypoStackColl'[k] = m_hypoStackColl[k]
  <2>1. \A h \in Living(s) \ Living(m_hypoStackColl[n]) : Placed(h, n) /\ Behind(h, n)
    BY <1>10, <1>12
  <2>2. UNCHANGED setup
    BY <1>1
  <2> QED BY <1>3, <1>11, <1>12, <2>1, <2>2, StackReplaced
<1>14. m_hypoStackColl'[iterStack] = m_hypoStackColl[iterStack]
  BY <1>5, <1>11, <1>13
<1>15. WhereInv'
  BY <1>1 DEF WhereInv
<1>16. LoopInv'
  <2>1. todo' \subseteq todo
    BY <1>2
  <2>2. \A o : Translates(o, hypothesis)' = Translates(o, hypothesis)
    BY <1>1 DEF Translates, Options, Overlap
  <2> QED BY <1>1, <1>14, <2>1, <2>2 DEF LoopInv
<1> QED BY <1>13, <1>15, <1>16

\* A stack that is fully expanded is behind the frontier already.
LEMMA EndStackKeeps ==
    ASSUME WhereInv, StacksInv, LoopInv, EndStack PROVE WhereInv' /\ StacksInv' /\ LoopInv'
<1>1. /\ pc = "expand" /\ todo = {} /\ iterStack' = iterStack + 1
      /\ pc' = IF iterStack = m_size THEN "searched" ELSE "next stack"
      /\ UNCHANGED <<setup, m_hypoStackColl, unexpanded, hypothesis, todo>>
  BY DEF EndStack
<1>2. StacksInv'
  <2>1. Frontier' = Frontier
    BY <1>1 DEF Frontier
  <2> QED BY <1>1, <2>1, StacksUnchanged
<1>3. iterStack \in Nat /\ iterStack <= m_size
  BY <1>1 DEF WhereInv
<1>4. iterStack' \in Nat /\ (iterStack = m_size \/ iterStack' <= m_size)
  <2>1. iterStack' = iterStack + 1
    BY <1>1
  <2> QED BY <1>3, <2>1, SizeAssumption
<1>5. pc' = "searched" \/ (pc' = "next stack" /\ iterStack' <= m_size)
  BY <1>1, <1>4
<1>6. WhereInv'
  BY <1>1, <1>4, <1>5 DEF WhereInv
<1>7. LoopInv'
  BY <1>1, <1>5 DEF LoopInv
<1> QED BY <1>2, <1>6, <1>7

\* The search has ended, and the stacks stay as they are.
LEMMA RestKeeps ==
    ASSUME WhereInv, StacksInv, LoopInv, pc # "expand",
           pc' \notin {"next stack", "expand", "next cubes", "pop", "gave up"},
           UNCHANGED <<setup, m_hypoStackColl, iterStack, todo>>
    PROVE  WhereInv' /\ StacksInv' /\ LoopInv'
<1>1. StacksInv'
  BY StacksUnchanged DEF Frontier
<1>2. WhereInv'
  BY DEF WhereInv
<1>3. LoopInv'
  BY DEF LoopInv
<1> QED BY <1>1, <1>2, <1>3

\* Without -cube-pruning the other search takes no step.
LEMMA NoCubes == WhereInv => ~CubeNext
<1>1. CubeNext => pc \in {"next cubes", "pop"}
  BY DEF CubeNext, GiveUp, BeginCubes, PopContainer, EnsureMinStackHyps, EndCubes, PopsEnded
<1> QED BY <1>1 DEF WhereInv

\* SearchInv is inductive.
LEMMA SearchInvIsInductive == SearchInv /\ [Next]_vars => SearchInv'
<1> SUFFICES ASSUME SearchInv, [Next]_vars, (~Options.cubePruning)'
             PROVE  (WhereInv /\ StacksInv /\ LoopInv)'
  BY DEF SearchInv
<1>1. UNCHANGED vars => UNCHANGED <<searchVars, cubeVars>>
  BY DEF vars
<1>2. SearchNext => UNCHANGED setup
  BY DEF SearchNext, OutOfTime, BeginStack, ProcessOneHypothesis, ExpandHypothesis, EndStack
<1>3. CubeNext => UNCHANGED setup
  <2>1. \A bitmap : ProcessBestHypothesis(bitmap) => UNCHANGED setup
    BY DEF ProcessBestHypothesis, UnusedUnchanged
  <2> QED BY <2>1 DEF CubeNext, GiveUp, BeginCubes, PopContainer, EnsureMinStackHyps,
                      EndCubes, UnusedUnchanged
<1>4. UNCHANGED setup
  BY <1>1, <1>2, <1>3 DEF Next, AddPurePaths, TakePath, FollowUnsetWinner, EndOfList, Ended,
                          searchVars
<1>5. WhereInv /\ StacksInv /\ LoopInv
  BY <1>4 DEF SearchInv, Options
<1>6. CASE BeginStack
  BY <1>5, <1>6, BeginStackKeeps
<1>7. CASE ProcessOneHypothesis
  BY <1>5, <1>7, ProcessKeeps
<1>8. CASE ExpandHypothesis
  BY <1>5, <1>8, ExpandKeeps
<1>9. CASE EndStack
  BY <1>5, <1>9, EndStackKeeps
<1>10. CASE OutOfTime \/ AddPurePaths \/ FollowUnsetWinner \/ EndOfList
  <2>1. /\ pc # "expand"
        /\ pc' \notin {"next stack", "expand", "next cubes", "pop", "gave up"}
        /\ UNCHANGED <<setup, m_hypoStackColl, iterStack, todo>>
    BY <1>10 DEF OutOfTime, AddPurePaths, FollowUnsetWinner, EndOfList
  <2> QED BY <1>5, <2>1, RestKeeps
<1>11. CASE UNCHANGED searchVars
  <2>1. UNCHANGED <<setup, m_hypoStackColl, iterStack, unexpanded, hypothesis, todo, pc>>
    BY <1>11 DEF searchVars
  <2>2. StacksInv'
    BY <1>5, <2>1, StacksUnchanged DEF Frontier
  <2>3. WhereInv'
    BY <1>5, <2>1 DEF WhereInv
  <2>4. LoopInv'
    <3>1. \A opt : Translates(opt, hypothesis)' = Translates(opt, hypothesis)
      BY <2>1 DEF Translates, Options, Overlap
    <3> QED BY <1>5, <2>1, <3>1 DEF LoopInv
  <2> QED BY <2>2, <2>3, <2>4
<1>12. TakePath \/ Ended \/ UNCHANGED vars => UNCHANGED searchVars
  BY DEF TakePath, Ended, vars
<1> QED BY <1>5, <1>6, <1>7, <1>8, <1>9, <1>10, <1>11, <1>12, NoCubes DEF Next, SearchNext

\* Without -cube-pruning, hypotheses point to hypotheses on earlier stacks that
\* are never freed or recombined away as long as they live.  A stack changes
\* only until it is expanded, and what is extended is on the stack being
\* expanded, so no later step touches it.
THEOREM PredecessorsStayWithoutCubes ==
    Spec => [](~Options.cubePruning => PredecessorsStay)
<1>1. SearchInv => (~Options.cubePruning => PredecessorsStay)
  <2> SUFFICES ASSUME StacksInv PROVE PredecessorsStay
    BY DEF SearchInv
  <2>1. \A n \in 0 .. m_size : \A h \in Living(m_hypoStackColl[n]) : Behind(h, n)
    BY DEF StacksInv
  <2>2. \A n \in 0 .. m_size : \A h \in Living(m_hypoStackColl[n]) :
           h.path # <<>> =>
               \E k \in 0 .. n - 1 : \E g \in m_hypoStackColl[k].m_hypos :
                   g.path = Front(h.path)
    BY <2>1 DEF Behind, Extends
  <2> QED BY <2>2 DEF PredecessorsStay, Living
<1> QED BY <1>1, InitSearchInv, SearchInvIsInductive, PTL DEF Spec
=============================================================================
