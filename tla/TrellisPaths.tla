---------------------------- MODULE TrellisPaths ----------------------------
(***************************************************************************)
(* The n-best list of a finished search: Manager::CalcNBest, TrellisPath and *)
(* TrellisPathCollection.  The hypotheses of the stacks and the losers in    *)
(* their arc lists form a lattice; paths through it are enumerated best      *)
(* first, each by one more deviation from a path taken before.               *)
(***************************************************************************)
EXTENDS SearchCubePruning

VARIABLES
    contenders,  \* the TrellisPathCollection
    ret,         \* the n-best list
    iteration    \* how many contenders have been taken

vars == <<searchVars, cubeVars, contenders, ret, iteration>>

count == Options.nBestSize
onlyDistinct == Options.distinctNBest
NOT_CHANGED == 0

(***************************************************************************)
(* edges lists the hypotheses of a path, the last one first; edges[1 ..      *)
(* prevEdgeChanged] are not changed any more.                                *)
(***************************************************************************)
OnStack(path) ==
    LET stacked == UNION {m_hypoStackColl[n].m_hypos : n \in 0 .. m_size}
    IN CHOOSE h \in stacked : h.path = path

\* The hypothesis and those it extends, found through m_prevHypo.
BackFrom(h) ==
    [i \in 1 .. Len(h.path) + 1 |->
        IF i = 1 THEN h ELSE OnStack(SubSeq(h.path, 1, Len(h.path) + 1 - i))]

ArcsOf(h) == Stack!Arcs(m_hypoStackColl[WordsTranslated(h)], h)

GetWinningHypo(h) ==
    LET s == m_hypoStackColl[WordsTranslated(h)]
    IN IF h \in s.m_hypos THEN h
       ELSE CHOOSE w \in s.m_hypos : <<w, h>> \in s.m_arcList

PurePath(h) == [edges |-> BackFrom(h), prevEdgeChanged |-> NOT_CHANGED, score |-> h.score]

\* A variant of InitScore: the loss of the last deviation only.
LastLoss(edges, changed) ==
    GetWinningHypo(edges[1]).score - GetWinningHypo(edges[changed]).score + edges[changed].score

\* The score of the path's last winner and what each deviation loses.
InitScore(edges, changed) ==
    GetWinningHypo(edges[1]).score
        + FoldLeft(LAMBDA sum, h : sum + h.score - GetWinningHypo(h).score, 0, edges)

Deviate(path, edge, arc) ==
    LET edges == SubSeq(path.edges, 1, edge - 1) \o BackFrom(arc)
    IN [edges |-> edges, prevEdgeChanged |-> edge, score |-> InitScore(edges, edge)]

\* "every possible Arc to replace this edge", beyond the edge changed last
CreateDeviantPaths(path) ==
    UNION {{Deviate(path, edge, arc) : arc \in ArcsOf(path.edges[edge])} :
              edge \in path.prevEdgeChanged + 1 .. Len(path.edges)}

\* The translation options of a path, from the first to the last.
OptionsOf(path) ==
    [i \in 1 .. Len(path.edges) - 1 |-> Last(path.edges[Len(path.edges) - i].path)]

TargetsOf(options) == [i \in DOMAIN options |-> options[i].target]
GetSurfacePhrase(path) == TargetsOf(OptionsOf(path))

\* Search::CreateSearch.
InitSearch ==
    \/ Init /\ ~Options.cubePruning /\ m_bitmapAccessor = <<>> /\ numpops = 0
    \/ InitCube /\ Options.cubePruning

InitPaths == InitSearch /\ contenders = {} /\ ret = <<>> /\ iteration = 0

\* CalcNBest begins: "add all pure paths".  After an interruption too it looks
\* at the last stack.
AddPurePaths ==
    /\ pc = "searched" /\ count > 0 /\ AnswerStack # Uninitialised
    /\ contenders' = {PurePath(h) : h \in m_hypoStackColl[m_size].m_hypos}
    /\ pc' = "n-best"
    /\ UNCHANGED <<setup, cubeVars, m_hypoStackColl, iterStack, unexpanded, hypothesis, todo,
                   actual_hypoStack, interrupted_flag, ret, iteration>>

MoreWanted ==
    /\ Len(ret) < count /\ contenders # {}
    /\ iteration < count * (IF Options.nBestFactor = 0 THEN 1000 ELSE Options.nBestFactor)

\* TrellisPathCollection::Prune, to the best.
Prune(paths) ==
    IF ~onlyDistinct THEN Stack!Best(paths, count)
    ELSE IF Options.nBestFactor = 0 THEN {paths}
    ELSE Stack!Best(paths, count * Options.nBestFactor)

\* "get next best from list of contenders, create deviations from current best"
TakePath ==
    /\ pc = "n-best" /\ MoreWanted
    /\ \E path \in contenders :
          /\ \A other \in contenders : other.score <= path.score
          /\ ~(interrupted_flag /\ CreateDeviantPaths(path) # {})
          /\ contenders' \in Prune((contenders \ {path}) \cup CreateDeviantPaths(path))
          /\ ret' = IF onlyDistinct
                       /\ \E i \in DOMAIN ret : GetSurfacePhrase(ret[i]) = GetSurfacePhrase(path)
                    THEN ret ELSE Append(ret, path)
    /\ iteration' = iteration + 1
    /\ UNCHANGED <<searchVars, cubeVars>>

\* The winning hypotheses of the last stack are set by CleanupArcList, which an
\* interrupted search has not come to: InitScore follows uninitialised pointers.
FollowUnsetWinner ==
    /\ pc = "n-best" /\ MoreWanted /\ interrupted_flag
    /\ \E path \in contenders :
          /\ \A other \in contenders : other.score <= path.score
          /\ CreateDeviantPaths(path) # {}
    /\ pc' = "undefined"
    /\ UNCHANGED <<setup, cubeVars, m_hypoStackColl, iterStack, unexpanded, hypothesis, todo,
                   actual_hypoStack, interrupted_flag, contenders, ret, iteration>>

EndOfList ==
    /\ pc = "n-best" /\ ~MoreWanted
    /\ pc' = "done"
    /\ UNCHANGED <<setup, cubeVars, m_hypoStackColl, iterStack, unexpanded, hypothesis, todo,
                   actual_hypoStack, interrupted_flag, contenders, ret, iteration>>

Ended ==
    /\ \/ pc \in {"done", "undefined", "gave up"}
       \/ pc = "searched" /\ (count = 0 \/ AnswerStack = Uninitialised)
    /\ UNCHANGED vars

Next ==
    \/ SearchNext /\ UNCHANGED <<cubeVars, contenders, ret, iteration>>
    \/ CubeNext /\ UNCHANGED <<contenders, ret, iteration>>
    \/ AddPurePaths
    \/ TakePath
    \/ FollowUnsetWinner
    \/ EndOfList
    \/ Ended

Spec == InitPaths /\ [][Next]_vars

-----------------------------------------------------------------------------
Listed == {OptionsOf(ret[i]) : i \in DOMAIN ret}
Surfaces == {GetSurfacePhrase(ret[i]) : i \in DOMAIN ret}

\* t comes too late for the list, or the contenders with it were too many.
BeyondTheList(t) ==
    \/ Len(ret) = count /\ t.score <= Last(ret).score
    \/ /\ onlyDistinct /\ Options.nBestFactor > 0
       /\ Cardinality({u \in Translations \ {t} : u.score >= t.score})
             >= count * Options.nBestFactor

\* The list of a search that pruned nothing holds the best of all translations
\* the constraints admit, each once, best first, with the score it would have
\* been built with: recombined hypotheses, cut arc lists, pruned contenders and
\* deviations in one direction only lose nothing and repeat nothing.  Distinct
\* entries are the best translations of their words.
NBestIsExact ==
    pc = "done" /\ ~interrupted_flag /\ Lossless =>
        /\ \A i, j \in DOMAIN ret :
              i < j => /\ ret[i].score >= ret[j].score
                       /\ OptionsOf(ret[i]) # OptionsOf(ret[j])
                       /\ onlyDistinct => GetSurfacePhrase(ret[i]) # GetSurfacePhrase(ret[j])
        /\ \A i \in DOMAIN ret : \E t \in Translations :
              t.path = OptionsOf(ret[i]) /\ t.score = ret[i].score
        /\ \A t \in Translations :
              IF onlyDistinct
              THEN IF TargetsOf(t.path) \in Surfaces
                   THEN \A i \in DOMAIN ret :
                           GetSurfacePhrase(ret[i]) = TargetsOf(t.path) => t.score <= ret[i].score
                   ELSE BeyondTheList(t)
              ELSE t.path \in Listed \/ BeyondTheList(t)
=============================================================================
