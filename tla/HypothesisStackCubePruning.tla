---------------------- MODULE HypothesisStackCubePruning ----------------------
(***************************************************************************)
(* The stacks of the cube pruning search (moses/src/                         *)
(* HypothesisStackCubePruning.{h,cpp}): pruned at a threshold, without regard *)
(* to coverage, and without ties to break.  What they share with the stacks   *)
(* of the normal search is taken from there.                                  *)
(***************************************************************************)
EXTENDS HypothesisStack

\* The hypotheses whose scores are pushed on the heap.
InBeam(s) == {h \in s.m_hypos : h.score > s.m_bestScore + m_beamWidth}

\* The heap's top when all but the last of the newSize best have been popped.
ScoreThreshold(s, newSize) ==
    LET rank(h) == Cardinality({g \in InBeam(s) : g.score >= h.score})
    IN Max({h.score : h \in {g \in InBeam(s) :
                rank(g) >= Min({newSize, Cardinality(InBeam(s))})}})

\* PruneToSize: whatever arrives later must reach the threshold too, even if
\* the stack is not full.
PruneAtThreshold(s, newSize) ==
    LET threshold == ScoreThreshold(s, newSize)
        below == {h \in s.m_hypos : h.score < threshold}
    IN IF Cardinality(s.m_hypos) <= newSize THEN s
       ELSE [Free(s, below) EXCEPT !.m_hypos = @ \ below, !.m_worstScore = threshold]

\* Add, for a hypothesis that recombines with none of the stack.
AddLazily(s, h) ==
    LET added == NewBest([s EXCEPT !.m_hypos = @ \cup {h}], h)
    IN IF Cardinality(added.m_hypos) > 2 * m_maxHypoStackSize - 1
       THEN PruneAtThreshold(added, m_maxHypoStackSize)
       ELSE added

\* h and the hypothesis g of the stack are equivalent; the better one stays.
RecombineWith(s, h, g) ==
    LET without == [s EXCEPT !.m_hypos = @ \ {g}]
    IN IF h.score > g.score
       THEN AddLazily(IF m_nBestIsEnabled THEN AddArc(without, h, g)
                                          ELSE Free(without, {g}), h)
       ELSE IF m_nBestIsEnabled THEN AddArc(s, g, h) ELSE Free(s, {h})

\* AddPrune's result: h has become a new entry.
IsNewEntry(s, h) == h.score >= s.m_worstScore /\ Existing(s, h) = {}

AddAboveThreshold(s, h) ==
    IF h.score < s.m_worstScore THEN Free(s, {h})
    ELSE IF Existing(s, h) = {} THEN AddLazily(s, h)
    ELSE RecombineWith(s, h, CHOOSE g \in Existing(s, h) : TRUE)
=============================================================================
