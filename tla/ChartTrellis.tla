---------------------------- MODULE ChartTrellis ----------------------------
(***************************************************************************)
(* The n-best list of a finished chart: ChartManager::CalcNBest, with        *)
(* ChartTrellisPath, ChartTrellisNode, ChartTrellisDetour and its queue.  A  *)
(* path is a derivation tree; a detour replaces the hypothesis at one node   *)
(* by one from its arc list.                                                 *)
(***************************************************************************)
EXTENDS ChartSearch

VARIABLES
    contenders,  \* the ChartTrellisDetourQueue
    ret,         \* the n-best list
    iteration    \* how many detours have been taken

vars == <<chartVars, contenders, ret, iteration>>

count == Options.nBestSize
onlyDistinct == Options.distinctNBest

popLimit ==
    IF ~onlyDistinct THEN count - 1
    ELSE count * (IF Options.nBestFactor = 0 THEN 1000 ELSE Options.nBestFactor)

-----------------------------------------------------------------------------
\* ChartTrellisNode: a hypothesis and the nodes of those it was made from.
RECURSIVE Node(_)
Node(h) == [hypo |-> h, children |-> [i \in DOMAIN h.prevHypos |-> Node(h.prevHypos[i])]]

\* A node is found by the children on the way to it.
RECURSIVE NodeAt(_, _)
NodeAt(node, address) ==
    IF address = <<>> THEN node ELSE NodeAt(node.children[Head(address)], Tail(address))

\* The tree with another hypothesis, and its own predecessors, at a node.
RECURSIVE Substitute(_, _, _)
Substitute(node, address, h) ==
    IF address = <<>> THEN Node(h)
    ELSE [node EXCEPT !.children[Head(address)] = Substitute(@, Tail(address), h)]

RECURSIVE Addresses(_)
Addresses(node) ==
    {<<>>} \cup UNION {{<<i>> \o a : a \in Addresses(node.children[i])} :
                          i \in DOMAIN node.children}

RECURSIVE GetOutputPhrase(_)
GetOutputPhrase(node) ==
    LET target == node.hypo.phrase.target
    IN FoldLeft(LAMBDA words, symbol :
                    words \o (IF symbol \in DOMAIN NonTermIndex
                              THEN GetOutputPhrase(node.children[NonTermIndex[symbol]])
                              ELSE <<symbol>>),
                <<>>, target)

ArcsOf(h) == Coll!Arcs(m_hypoStackColl[h.range][h.phrase.lhs], h)

\* The path of a hypothesis, with no deviation point: any node may be replaced.
BasePath(h) == [finalNode |-> Node(h), deviationPoint |-> <<>>, score |-> h.score]

Detour(path, address, replacement) ==
    [basePath |-> path.finalNode, address |-> address, replacement |-> replacement,
     score |-> path.score + replacement.score - NodeAt(path.finalNode, address).hypo.score]

PathOf(detour) ==
    [finalNode |-> Substitute(detour.basePath, detour.address, detour.replacement),
     deviationPoint |-> detour.address, score |-> detour.score]

\* A variant of CreateDeviantPaths: from the root again.
DeviateAnywhere(path) ==
    UNION {{Detour(path, address, arc) : arc \in ArcsOf(NodeAt(path.finalNode, address).hypo)} :
              address \in Addresses(path.finalNode)}

\* Every arc at every node at or below the deviation point.
CreateDeviantPaths(path) ==
    UNION {LET address == path.deviationPoint \o below
           IN {Detour(path, address, arc) :
                  arc \in ArcsOf(NodeAt(path.finalNode, address).hypo)} :
              below \in Addresses(NodeAt(path.finalNode, path.deviationPoint))}

\* ChartTrellisDetourQueue::Push of each: the queue keeps the best popLimit.
Push(queue, detours) == Coll!Best(queue \cup detours, popLimit)

-----------------------------------------------------------------------------
InitTrellis == Init /\ contenders = {} /\ ret = <<>> /\ iteration = 0

\* CalcNBest begins with the 1-best path.
AddBasePath ==
    /\ pc = "searched" /\ count > 0
    /\ \E h \in BestHypotheses :
          /\ ret' = <<BasePath(h)>>
          /\ IF count = 1 THEN UNCHANGED contenders
             ELSE contenders' \in Push({}, CreateDeviantPaths(BasePath(h)))
    /\ pc' = "n-best"
    /\ UNCHANGED <<setup, m_hypoStackColl, range, cubes, numPops, iteration>>

MoreWanted == Len(ret) < count /\ contenders # {} /\ iteration < popLimit

Seen(path) ==
    \E i \in DOMAIN ret : GetOutputPhrase(ret[i].finalNode) = GetOutputPhrase(path.finalNode)

\* "Get the best detour from the queue", generate new ones from its path, and
\* add it to the list.
TakeDetour ==
    /\ pc = "n-best" /\ MoreWanted
    /\ \E detour \in contenders :
          /\ \A other \in contenders : other.score <= detour.score
          /\ contenders' \in Push(contenders \ {detour}, CreateDeviantPaths(PathOf(detour)))
          /\ ret' = IF onlyDistinct /\ Seen(PathOf(detour)) THEN ret
                    ELSE Append(ret, PathOf(detour))
    /\ iteration' = iteration + 1
    /\ UNCHANGED chartVars

EndOfList ==
    /\ pc = "n-best" /\ ~MoreWanted
    /\ pc' = "done"
    /\ UNCHANGED <<setup, m_hypoStackColl, range, cubes, numPops, contenders, ret, iteration>>

Ended ==
    /\ \/ pc = "done"
       \/ pc = "searched" /\ (count = 0 \/ BestHypotheses = {})
    /\ UNCHANGED vars

Next ==
    \/ SearchNext /\ UNCHANGED <<contenders, ret, iteration>>
    \/ AddBasePath
    \/ TakeDetour
    \/ EndOfList
    \/ Ended

Spec == InitTrellis /\ [][Next]_vars

-----------------------------------------------------------------------------
\* The score of a tree had it been built as hypotheses.
RECURSIVE Rebuilt(_)
Rebuilt(node) ==
    CreateHypothesis(node.hypo.phrase, node.hypo.range,
                     [i \in DOMAIN node.children |-> Rebuilt(node.children[i])])

\* All trees that detours within detours lead to, from a path.
RECURSIVE Reachable(_)
Reachable(path) ==
    {path} \cup UNION {Reachable(PathOf(detour)) : detour \in CreateDeviantPaths(path)}

\* Detours are taken best first: the list has no tree twice, each with the
\* score its derivation would have been built with, and no chain of detours
\* leads to a better path than the last that is not in it.  A list of distinct
\* translations has no words twice.
DetoursBestFirst ==
    pc = "done" =>
        /\ \A i, j \in DOMAIN ret : i < j =>
              /\ ret[i].score >= ret[j].score
              /\ ret[i].finalNode # ret[j].finalNode
              /\ onlyDistinct => GetOutputPhrase(ret[i].finalNode) # GetOutputPhrase(ret[j].finalNode)
        /\ \A i \in DOMAIN ret : ret[i].score = Rebuilt(ret[i].finalNode).score
        /\ ~onlyDistinct =>
              \A path \in Reachable(ret[1]) :
                 \/ \E i \in DOMAIN ret : ret[i].finalNode = path.finalNode
                 \/ Len(ret) = count /\ path.score <= Last(ret).score
=============================================================================
