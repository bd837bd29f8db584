--------------------------- MODULE HypothesisStack ---------------------------
(***************************************************************************)
(* The operations of a stack of hypotheses that cover the same number of     *)
(* words (moses/src/HypothesisStackNormal.{h,cpp}, moses/src/Hypothesis.cpp). *)
(* A stack is a record, an operation gives the set of stacks it may lead to: *)
(* std::sort and nth_element may order ties either way.  The arc lists and    *)
(* the deletion of hypotheses are HypothesisArcs'.                            *)
(*                                                                         *)
(* A hypothesis is a record with at least a cover, a state and a score (the  *)
(* total, future cost included).                                             *)
(***************************************************************************)
EXTENDS HypothesisArcs

CONSTANTS
    Covers,     \* the coverages of hypotheses
    ArcFactor,  \* arc lists of more than ArcFactor (5) n-best sizes are cut
    Setups      \* the command lines, by name

VARIABLE setup  \* the name of the command line

(***************************************************************************)
(* Options.maxHypoStackSize is -stack, minHypoStackDiversity is              *)
(* -stack-diversity, beamWidth is the negation of -beam-threshold,           *)
(* maxDistortion is -distortion-limit, disableDiscarding is                  *)
(* -disable-discarding, nBestSize is the size of the n-best list (0 is none), *)
(* distinctNBest whether its entries must be distinct.                       *)
(***************************************************************************)
Options == Setups[setup]
m_maxHypoStackSize == Options.maxHypoStackSize
m_minHypoStackDiversity == Options.minHypoStackDiversity
m_beamWidth == -Options.beamWidth
m_nBestIsEnabled == Options.nBestSize > 0

\* Below every score and every threshold.
NegInfinity == -Options.beamWidth - 1

\* A stack before its first hypothesis.
EmptyStack ==
    [m_hypos |-> {},
     m_bestScore |-> NegInfinity,
     m_worstScore |-> NegInfinity,
     m_diversityWorstScore |-> [c \in Covers |-> NegInfinity],
     m_arcList |-> {},
     freed |-> {}]

Recombine(h, g) == h.cover = g.cover /\ h.state = g.state

WorstOf(hypos) == Min({h.score : h \in hypos})

CoversOf(hypos) == {h.cover : h \in hypos}
Covering(hypos, c) == {h \in hypos : h.cover = c}

\* "add best hyps for each coverage according to minStackDiversity"
Diverse(hypos) ==
    {diverse \in SUBSET hypos :
        \A c \in CoversOf(hypos) :
            Covering(diverse, c) \in Best(Covering(hypos, c), m_minHypoStackDiversity)}

\* "add best remaining hypotheses", those within the beam, up to the size
Fill(s, diverse, newSize) ==
    IF Cardinality(diverse) >= newSize THEN {{}}
    ELSE Best({h \in s.m_hypos \ diverse :
                  h.score > s.m_bestScore + m_beamWidth},
              newSize - Cardinality(diverse))

\* A variant of Pruned: the threshold is raised though the stack is not full.
PrunedTooStrict(s, diverse, fill, newSize) ==
    [Free(s, s.m_hypos \ (diverse \cup fill)) EXCEPT
        !.m_hypos = diverse \cup fill,
        !.m_worstScore = IF fill # {} THEN WorstOf(fill) ELSE @]

Pruned(s, diverse, fill, newSize) ==
    [Free(s, s.m_hypos \ (diverse \cup fill)) EXCEPT
        !.m_hypos = diverse \cup fill,
        !.m_worstScore =
            IF fill # {} /\ Cardinality(diverse \cup fill) = newSize
            THEN WorstOf(fill) ELSE @,
        !.m_diversityWorstScore =
            [c \in Covers |->
                IF /\ m_minHypoStackDiversity > 0
                   /\ Cardinality(Covering(diverse, c)) = m_minHypoStackDiversity
                THEN WorstOf(Covering(diverse, c)) ELSE @[c]]]

PruneToSize(s, newSize) ==
    IF Cardinality(s.m_hypos) <= newSize THEN {s}
    ELSE UNION {{Pruned(s, diverse, fill, newSize) :
                    fill \in Fill(s, diverse, newSize)} :
                diverse \in Diverse(s.m_hypos)}

\* The size at which Add prunes ("lazy pruning").
ToleratedSize ==
    2 * m_maxHypoStackSize - 1
        + IF m_minHypoStackDiversity = 0 THEN 0
          ELSE m_minHypoStackDiversity * 2 ^ Options.maxDistortion

NewBest(s, h) ==
    IF h.score <= s.m_bestScore THEN s
    ELSE [s EXCEPT !.m_bestScore = h.score,
                   !.m_worstScore = Max({@, h.score + m_beamWidth})]

NewBestOfCover(s, h) ==
    IF m_minHypoStackDiversity = 1 /\ h.score > s.m_diversityWorstScore[h.cover]
    THEN [s EXCEPT !.m_diversityWorstScore[h.cover] = h.score]
    ELSE s

\* Add, for a hypothesis that recombines with none of the stack.
Add(s, h) ==
    LET added == NewBestOfCover(
                     NewBest([s EXCEPT !.m_hypos = @ \cup {h}], h), h)
    IN IF Cardinality(added.m_hypos) > ToleratedSize
       THEN PruneToSize(added, m_maxHypoStackSize)
       ELSE {added}

\* A variant of TooBad: coverage does not matter.
TooBadForAll(s, h) == ~Options.disableDiscarding /\ h.score < s.m_worstScore

TooBad(s, h) ==
    /\ ~Options.disableDiscarding
    /\ h.score < s.m_worstScore
    /\ ~(/\ m_minHypoStackDiversity > 0
         /\ h.score >= s.m_diversityWorstScore[h.cover])

\* A variant of Existing: the score takes part in the comparison.
SameScore(s, h) == {g \in s.m_hypos : Recombine(g, h) /\ g.score = h.score}

Existing(s, h) == {g \in s.m_hypos : Recombine(g, h)}

\* h is better than the hypothesis g it recombines with, and takes its place.
Replace(s, h, g) ==
    LET without == [s EXCEPT !.m_hypos = @ \ {g}]
    IN Add(IF m_nBestIsEnabled THEN AddArc(without, h, g) ELSE Free(without, {g}), h)

\* g stays.
Lose(s, h, g) ==
    {IF m_nBestIsEnabled THEN AddArc(s, g, h) ELSE Free(s, {h})}

\* AddPrune: discard it, insert it, or recombine it with the one it is like.
AddPruned(s, h) ==
    IF TooBad(s, h) THEN {Free(s, {h})}
    ELSE IF Existing(s, h) = {} THEN Add(s, h)
    ELSE UNION {IF h.score > g.score THEN Replace(s, h, g) ELSE Lose(s, h, g) :
                   g \in Existing(s, h)}

-----------------------------------------------------------------------------
\* CleanupArcList, for each hypothesis of the stack.
CleanupArcList(s) ==
    IF ~m_nBestIsEnabled \/ Options.distinctNBest THEN {s}
    ELSE CutArcLists(s, Options.nBestSize * ArcFactor, Options.nBestSize)

\* The best hypotheses of a stack: GetBestHypothesis returns one of them.
GetBestHypothesis(s) ==
    {h \in s.m_hypos : \A g \in s.m_hypos : g.score <= h.score}
=============================================================================
