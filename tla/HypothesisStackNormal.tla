------------------------ MODULE HypothesisStackNormal ------------------------
(***************************************************************************)
(* moses/src/HypothesisStackNormal.{h,cpp}: one stack of the phrase-based    *)
(* search, the hypotheses that cover the same number of words.  It receives  *)
(* them in any order, recombines those no feature can tell apart, discards   *)
(* what is too bad, prunes itself when it has grown to twice its size, and   *)
(* is pruned and tidied once more before its hypotheses are expanded.        *)
(*                                                                         *)
(* Scores are abstracted to a few numbers.  Hypotheses with the same         *)
(* coverage and the same feature states recombine; id tells apart those that *)
(* differ in neither those nor the score.                                    *)
(***************************************************************************)
EXTENDS HypothesisStack

CONSTANTS States, Scores, Ids   \* what hypotheses are made of, besides Covers

Hypothesis == [cover : Covers, state : States, score : Scores, id : Ids]

\* maxHypos bounds the hypotheses offered to the stack.
SetupType ==
    [hypos : SUBSET Hypothesis, maxHypos : Nat,
     maxHypoStackSize : Nat \ {0}, minHypoStackDiversity : Nat,
     maxDistortion : Nat, beamWidth : Nat, disableDiscarding : BOOLEAN,
     nBestSize : Nat, distinctNBest : BOOLEAN]

ASSUME StackAssumption ==
    /\ Scores \subseteq Nat
    /\ ArcFactor \in Nat
    /\ \A name \in DOMAIN Setups : Setups[name] \in SetupType

VARIABLES
    stack,     \* the HypothesisStackNormal and the arc lists of its hypotheses
    created,   \* the hypotheses offered to AddPrune
    processed  \* whether the search has reached this stack

vars == <<setup, stack, created, processed>>

Hypos == Options.hypos

Init == setup \in DOMAIN Setups /\ stack = EmptyStack /\ created = {} /\ processed = FALSE

AddPrune(h) ==
    /\ ~processed
    /\ created' = created \cup {h}
    /\ stack' \in AddPruned(stack, h)
    /\ UNCHANGED <<setup, processed>>

\* ProcessSentence reaches the stack: its hypotheses all come from stacks that
\* have been expanded, so no more are added.
Process ==
    /\ ~processed
    /\ \E pruned \in PruneToSize(stack, m_maxHypoStackSize) :
          stack' \in CleanupArcList(pruned)
    /\ processed' = TRUE
    /\ UNCHANGED <<setup, created>>

Done == processed /\ UNCHANGED vars

Next ==
    \/ \E h \in Hypos \ created : Cardinality(created) < Options.maxHypos /\ AddPrune(h)
    \/ Process
    \/ Done

Spec == Init /\ [][Next]_vars

-----------------------------------------------------------------------------
\* Some hypothesis of the stack stands for h and is as good.
Represented(h) == \E g \in stack.m_hypos : Recombine(g, h) /\ g.score >= h.score

\* Which hypotheses recombine, told from one that is as good as h.
AsGood(h) == {<<g.cover, g.state>> : g \in {f \in created : f.score >= h.score}}
Rivals(h) == AsGood(h) \ {<<h.cover, h.state>>}
RivalsOfCover(h) == {r \in Rivals(h) : r[1] = h.cover}

BestCreated == Max({h.score : h \in created})

\* Discarding, lazy pruning and recombination together lose nothing that
\* belongs on the stack, in whatever order hypotheses arrive: one within the
\* beam with fewer rivals than the stack has room for is represented.  With
\* -stack-diversity the room is shared, so this is said of stacks without.
KeepsTheTop ==
    \A h \in created :
        /\ m_minHypoStackDiversity = 0
        /\ h.score > BestCreated + m_beamWidth
        /\ Cardinality(Rivals(h)) < m_maxHypoStackSize
        => Represented(h)

\* The best hypotheses of every coverage survive, however bad they are:
\* "minimum number of hypothesis of each coverage in stack".
KeepsEachCover ==
    \A h \in created :
        Cardinality(RivalsOfCover(h)) < m_minHypoStackDiversity => Represented(h)

\* No two hypotheses of the stack recombine, and each beats its arcs, which
\* recombine with it.
WinnersWin ==
    /\ \A g, h \in stack.m_hypos : Recombine(g, h) => g = h
    /\ \A arc \in stack.m_arcList :
          /\ arc[1] \in stack.m_hypos
          /\ Recombine(arc[1], arc[2]) /\ arc[1].score >= arc[2].score

\* Every hypothesis has exactly one owner: it is on the stack, in one arc list,
\* or freed.  None leaks and none is freed twice.
OneOwner ==
    \A h \in created :
        Cardinality({g \in stack.m_hypos : g = h \/ <<g, h>> \in stack.m_arcList})
            = IF h \in stack.freed THEN 0 ELSE 1
=============================================================================
