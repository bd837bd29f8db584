--------------------------- MODULE HypothesisArcs ---------------------------
(***************************************************************************)
(* What the containers of both decoders do with hypotheses that lost when    *)
(* they were recombined, if an n-best list is wanted: the winner keeps them   *)
(* in its arc list (moses/src/Hypothesis.cpp and ChartHypothesis.cpp, whose   *)
(* AddArc and CleanupArcList are the same but for one factor).                *)
(*                                                                         *)
(* A container is a record with at least m_hypos, its hypotheses, m_arcList,  *)
(* a set of arcs <<winner, loser>>, and freed, the hypotheses deleted.        *)
(***************************************************************************)
EXTENDS Integers, FiniteSets, FiniteSetsExt

Arcs(s, h) == {arc[2] : arc \in {a \in s.m_arcList : a[1] = h}}

\* A variant of Free: the arc list leaks.
FreeWithoutArcs(s, hypos) ==
    [s EXCEPT !.freed = @ \cup hypos,
              !.m_arcList = {arc \in @ : arc[1] \notin hypos}]

\* Deleting a hypothesis deletes those in its arc list too.
Free(s, hypos) ==
    [s EXCEPT !.freed = @ \cup hypos \cup UNION {Arcs(s, h) : h \in hypos},
              !.m_arcList = {arc \in @ : arc[1] \notin hypos}]

\* winner->AddArc(loser): the loser's own arcs move to the winner.
AddArc(s, winner, loser) ==
    [s EXCEPT !.m_arcList =
        {arc \in @ : arc[1] # loser}
            \cup {<<winner, g>> : g \in Arcs(s, loser) \cup {loser}}]

\* The choices of the n best of hypos: ties may be sorted either way.
Best(hypos, n) ==
    LET before(h) == {g \in hypos : g.score > h.score}
        sure == {h \in hypos : Cardinality({g \in hypos : g.score >= h.score}) <= n}
    IN IF Cardinality(hypos) <= n THEN {hypos}
       ELSE {sure \cup top : top \in kSubset(n - Cardinality(sure),
                {h \in hypos \ sure : Cardinality(before(h)) < n})}

\* The choices of the arcs that stay when every arc list longer than limit is
\* cut to its n best.
TidyArcs(s, limit, n) ==
    LET long == {h \in s.m_hypos : Cardinality(Arcs(s, h)) > limit}
        top(h) == Best(Arcs(s, h), n)
    IN {{arc \in s.m_arcList : arc[1] \in long => arc[2] \in kept[arc[1]]} :
           kept \in {f \in [long -> UNION {top(h) : h \in long}] :
                        \A h \in long : f[h] \in top(h)}}

\* CleanupArcList: too long an arc list is cut to the best.
CutArcLists(s, limit, n) ==
    {[Free(s, {arc[2] : arc \in s.m_arcList \ keep}) EXCEPT !.m_arcList = keep] :
        keep \in TidyArcs(s, limit, n)}
=============================================================================
