---------------------- MODULE ChartHypothesisCollection ----------------------
(***************************************************************************)
(* moses/src/ChartHypothesisCollection.cpp: the hypotheses of one chart cell *)
(* with one label.  A collection is a record, an operation gives the set of  *)
(* collections it may lead to, ties being sorted either way.                 *)
(*                                                                         *)
(* A hypothesis is a record with at least a state, which its stateful        *)
(* features compare, and a score.                                            *)
(***************************************************************************)
EXTENDS HypothesisArcs, Sequences

CONSTANTS
    m_maxHypoStackSize,  \* -stack
    beamWidth,           \* the negation of m_beamWidth, from -beam-threshold; not 0,
                         \* for which PruneToSize reads the top of an empty heap
    nBestSize,           \* the size of the n-best list, 0 for none
    distinctNBest,       \* whether its entries must be distinct
    NegInfinity          \* the best score of an empty collection, no number

m_nBestIsEnabled == nBestSize > 0

EmptyCollection ==
    [m_hypos |-> {}, m_bestScore |-> NegInfinity, m_hyposOrdered |-> <<>>,
     m_arcList |-> {}, freed |-> {}]

Existing(c, h) == {g \in c.m_hypos : g.state = h.state}

Remove(c, hypos) == [Free(c, hypos) EXCEPT !.m_hypos = @ \ hypos]

\* The hypotheses whose scores are pushed on the heap.
InBeam(c) == {h \in c.m_hypos : h.score > c.m_bestScore - beamWidth}

\* The heap's top after all but the last of the best size have been popped.
ScoreThreshold(c) ==
    Max({h.score : h \in {g \in InBeam(c) :
            LET better == Cardinality({f \in InBeam(c) : f.score >= g.score})
            IN better >= Min({m_maxHypoStackSize, Cardinality(InBeam(c))})}})

\* "desperation pruning": ties at the threshold may have left too many.
DesperationPruning(c) ==
    {Remove(c, c.m_hypos \ top) : top \in Best(c.m_hypos, 2 * m_maxHypoStackSize)}

\* A variant of PruneToSize: the threshold itself is pruned too.
PruneTies(c) ==
    IF Cardinality(c.m_hypos) <= m_maxHypoStackSize THEN {c}
    ELSE DesperationPruning(
            Remove(c, {h \in c.m_hypos : h.score <= ScoreThreshold(c)}))

PruneToSize(c) ==
    IF Cardinality(c.m_hypos) <= m_maxHypoStackSize THEN {c}
    ELSE DesperationPruning(
            Remove(c, {h \in c.m_hypos : h.score < ScoreThreshold(c)}))

BestScoreWith(c, h) ==
    IF c.m_bestScore = NegInfinity THEN h.score ELSE Max({c.m_bestScore, h.score})

\* Add, for a hypothesis that recombines with none of the collection.
Add(c, h) ==
    LET added == [c EXCEPT !.m_hypos = @ \cup {h}, !.m_bestScore = BestScoreWith(c, h)]
    IN IF Cardinality(added.m_hypos) > 2 * m_maxHypoStackSize - 1
       THEN PruneToSize(added)
       ELSE {added}

\* h is better than the hypothesis g it recombines with, and takes its place.
Replace(c, h, g) ==
    LET detached == [c EXCEPT !.m_hypos = @ \ {g}]
    IN Add(IF m_nBestIsEnabled THEN AddArc(detached, h, g) ELSE Remove(c, {g}), h)

\* g stays.
Lose(c, h, g) ==
    {IF m_nBestIsEnabled THEN AddArc(c, g, h) ELSE Free(c, {h})}

\* Discard it, insert it, or recombine it with the one it is like.
AddHypothesis(c, h) ==
    IF c.m_bestScore # NegInfinity /\ h.score < c.m_bestScore - beamWidth THEN {Free(c, {h})}
    ELSE IF Existing(c, h) = {} THEN Add(c, h)
    ELSE UNION {IF h.score > g.score THEN Replace(c, h, g) ELSE Lose(c, h, g) :
                   g \in Existing(c, h)}

\* ChartHypothesis::CleanupArcList, for each hypothesis of the collection.
CleanupArcList(c) ==
    IF ~m_nBestIsEnabled \/ distinctNBest THEN {c}
    ELSE CutArcLists(c, nBestSize, nBestSize)

\* The orders std::sort may leave the hypotheses in, best first.
Sorted(hypos) ==
    LET upTo[n \in 0 .. Cardinality(hypos)] ==
            IF n = 0 THEN {<<>>}
            ELSE UNION {LET left == hypos \ {s[i] : i \in 1 .. n - 1}
                        IN {Append(s, h) : h \in {g \in left :
                                \A f \in left : f.score <= g.score}} : s \in upTo[n - 1]}
    IN upTo[Cardinality(hypos)]

SortHypotheses(c) == {[c EXCEPT !.m_hyposOrdered = s] : s \in Sorted(c.m_hypos)}
=============================================================================
