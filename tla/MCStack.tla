------------------------------ MODULE MCStack ------------------------------
(* HypothesisStackNormal for TLC: three command lines, each with hypotheses   *)
(* of its own. *)
EXTENDS HypothesisStackNormal, TLC

CONSTANTS a, b, c,    \* coverages
          s, t, u     \* feature states

Offered(covers, states, scores, ids) ==
    [cover : covers, state : states, score : scores, id : ids]

\* A stack of two without diversity or an n-best list.
Default ==
    [hypos |-> Offered({a, b}, {s, t}, 1 .. 4, {1}), maxHypos |-> 6,
     maxHypoStackSize |-> 2, minHypoStackDiversity |-> 0,
     maxDistortion |-> 2, beamWidth |-> 2,
     disableDiscarding |-> FALSE, nBestSize |-> 0, distinctNBest |-> FALSE]

\* -stack-diversity 1: the best hypothesis of each coverage has a place.
Diversity ==
    [Default EXCEPT !.hypos = Offered({a, b}, {s, t, u}, 1 .. 3, {1}),
                    !.maxHypos = 7, !.maxHypoStackSize = 1,
                    !.minHypoStackDiversity = 1, !.beamWidth = 1]

\* An n-best list: what loses is kept in the winner's arc list.
NBest ==
    [Default EXCEPT !.hypos = Offered({c}, {s, t}, 1 .. 3, {1, 2}),
                    !.maxHypos = 7, !.maxHypoStackSize = 1, !.nBestSize = 1]

MCSetups == [default |-> Default, diversity |-> Diversity, nbest |-> NBest]
Symmetry == Permutations({a, b}) \cup Permutations({s, t})
============================================================================
