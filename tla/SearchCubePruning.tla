-------------------------- MODULE SearchCubePruning --------------------------
(***************************************************************************)
(* The other search for one sentence, moses/src/SearchCubePruning.cpp and    *)
(* BitmapContainer.cpp.  The hypotheses of a stack that cover the same words  *)
(* are extended together: an edge is the square of those hypotheses and the   *)
(* translation options of one span, both best first, and leads to the bitmap  *)
(* container of the words then covered.  A stack is filled from the containers *)
(* of its coverages, the best combination first, until the pop limit.         *)
(*                                                                         *)
(* Stacks, setup and pc are those of SearchNormal; its other variables are    *)
(* not used.  A container is kept until its stack has been filled; what is    *)
(* then left in its queue is freed with the search and plays no further part. *)
(* Hypotheses and options with equal scores are sorted by address: any one    *)
(* order stands for all.                                                      *)
(***************************************************************************)
EXTENDS SearchNormal

VARIABLES
    m_bitmapAccessor, \* the containers of the stacks not filled yet, by coverage
    numpops           \* how often the main loop has popped for this stack

cubeVars == <<m_bitmapAccessor, numpops>>

Cube == INSTANCE HypothesisStackCubePruning WITH Covers <- Bitmaps

BestFirst(set, value(_)) ==
    SortSeq(FoldSet(LAMBDA x, s : Append(s, x), <<>>, set),
            LAMBDA x, y : value(x) > value(y))

-----------------------------------------------------------------------------
(***************************************************************************)
(* Edges.  One is identified by its container and the span it translates.    *)
(***************************************************************************)
\* m_translations
TranslationsOf(span) ==
    BestFirst({opt \in Options.options : <<opt.startPos, opt.endPos>> = span},
              LAMBDA opt : opt.score)

Jump(range, startPos) == Rules!ComputeDistortionDistance(range, startPos)

\* A variant of CheckDistortion: the jump back is not considered.
CheckConstraintOnly(bitmap, span) ==
    Rules!Check(
        Options.m_wall, [pos \in Positions |-> 0], Options.m_zone,
        Options.maxDistortion, bitmap, span[1], span[2])

\* The reordering constraint admits the span, and the jump back to the first
\* gap, if the span leaves it open, is not too far.
CheckDistortion(bitmap, span) ==
    /\ Rules!Check(
           Options.m_wall, [pos \in Positions |-> 0], Options.m_zone,
           Options.maxDistortion, bitmap, span[1], span[2])
    /\ \/ Options.maxDistortion < 0
       \/ span[1] = GetFirstGapPos(bitmap)
       \/ Jump(span, GetFirstGapPos(bitmap)) <= Options.maxDistortion

\* The spans the hypotheses with this coverage are extended by.
SpansFor(bitmap) ==
    {span \in Positions \X Positions :
        /\ span[1] <= span[2] /\ span[2] < span[1] + MaxPhraseLength
        /\ ~Overlap(bitmap, span[1], span[2])
        /\ CheckDistortion(bitmap, span)
        /\ TranslationsOf(span) # <<>>}

\* BackwardsEdge: the hypotheses from which the jump to the span is short
\* enough, sorted with the distortion score of that jump.
BackwardsEdge(hypotheses, span) ==
    [m_hypotheses |->
        IF Options.maxDistortion = -1 THEN BestFirst(hypotheses, LAMBDA h : h.score)
        ELSE BestFirst({h \in hypotheses : Jump(h.range, span[1]) <= Options.maxDistortion},
                       LAMBDA h : h.base - Options.weightDistortion * Jump(h.range, span[1])),
     m_seenPosition |-> {}]

EmptyContainer == [m_edges |-> <<>>, m_queue |-> {}, m_numStackInsertions |-> 0]

\* SetBitmapAccessor: an edge more for the container the span leads to.
SetBitmapAccessor(accessor, bitmap, span, edge) ==
    LET newBitmap == bitmap \cup (span[1] .. span[2])
        container == IF newBitmap \in DOMAIN accessor THEN accessor[newBitmap]
                                                      ELSE EmptyContainer
    IN (newBitmap :> [container EXCEPT !.m_edges = (span :> edge) @@ @]) @@ accessor

\* CreateForwardTodos, for every coverage of a stack that has hypotheses left.
CreateForwardTodos(accessor, hypos) ==
    FoldSet(LAMBDA bitmap, all :
                FoldSet(LAMBDA span, acc :
                            SetBitmapAccessor(acc, bitmap, span,
                                BackwardsEdge(Stack!Covering(hypos, bitmap), span)),
                        all, SpansFor(bitmap)),
            accessor, Stack!CoversOf(hypos))

-----------------------------------------------------------------------------
(***************************************************************************)
(* Containers.  An item of the queue is an edge, named by its span, and a     *)
(* position of its square.                                                    *)
(***************************************************************************)
CreateHypothesis(container, item) ==
    CreateNext(container.m_edges[item.span].m_hypotheses[item.x],
               TranslationsOf(item.span)[item.y])

TotalScore(container, item) == CreateHypothesis(container, item).score

Enqueue(container, item) ==
    [container EXCEPT !.m_queue = @ \cup {item},
                      !.m_edges[item.span].m_seenPosition = @ \cup {<<item.x, item.y>>}]

\* InitializeEdges: each edge with hypotheses begins with its best combination.
InitializeEdges(container) ==
    FoldSet(LAMBDA span, c : Enqueue(c, [span |-> span, x |-> 1, y |-> 1]),
            container,
            {span \in DOMAIN container.m_edges : container.m_edges[span].m_hypotheses # <<>>})

\* PushSuccessors: the next option, then the next hypothesis, unless seen.
PushSuccessors(container, item) ==
    LET edge == container.m_edges[item.span]
        next == {[item EXCEPT !.y = @ + 1], [item EXCEPT !.x = @ + 1]}
    IN FoldSet(LAMBDA successor, c : Enqueue(c, successor),
               [container EXCEPT !.m_queue = @ \ {item}],
               {i \in next : /\ i.x <= Len(edge.m_hypotheses)
                             /\ i.y <= Len(TranslationsOf(item.span))
                             /\ <<i.x, i.y>> \notin edge.m_seenPosition})

\* The items on top of a container's queue.
Top(container) ==
    {item \in container.m_queue : \A other \in container.m_queue :
        TotalScore(container, other) <= TotalScore(container, item)}

TopScore(container) == Max({TotalScore(container, item) : item \in container.m_queue})

\* Containers of the stack being filled that are not exhausted: BCQueue.  It
\* also holds those that are, behind the others; popping one changes nothing.
BCQueue ==
    {bitmap \in DOMAIN m_bitmapAccessor :
        Cardinality(bitmap) = iterStack /\ m_bitmapAccessor[bitmap].m_queue # {}}

-----------------------------------------------------------------------------
InitCube ==
    /\ setup \in DOMAIN Setups
    /\ m_hypoStackColl =
           [n \in 0 .. m_size |-> IF n = 0 THEN Cube!AddLazily(Stack!EmptyStack, InitialHypothesis)
                                           ELSE Stack!EmptyStack]
    /\ m_bitmapAccessor = CreateForwardTodos(<<>>, {InitialHypothesis})
    /\ iterStack = 1 /\ numpops = 0
    /\ unexpanded = {} /\ hypothesis = InitialHypothesis /\ todo = {}
    /\ actual_hypoStack = Uninitialised
    /\ interrupted_flag = FALSE
    /\ pc = "next cubes"

UnusedUnchanged ==
    UNCHANGED <<setup, unexpanded, hypothesis, todo, actual_hypoStack, interrupted_flag>>

\* Out of time: the last stack stays empty, and there is no answer.
GiveUp ==
    /\ pc = "next cubes" /\ Options.timeOut
    /\ pc' = "gave up"
    /\ UnusedUnchanged
    /\ UNCHANGED <<m_hypoStackColl, iterStack, cubeVars>>

BeginCubes ==
    /\ pc = "next cubes"
    /\ m_bitmapAccessor' =
           [bitmap \in DOMAIN m_bitmapAccessor |->
               IF Cardinality(bitmap) = iterStack
               THEN InitializeEdges(m_bitmapAccessor[bitmap]) ELSE m_bitmapAccessor[bitmap]]
    /\ numpops' = 0
    /\ pc' = "pop"
    /\ UnusedUnchanged
    /\ UNCHANGED <<m_hypoStackColl, iterStack>>

\* BitmapContainer::ProcessBestHypothesis.
ProcessBestHypothesis(bitmap) ==
    LET container == m_bitmapAccessor[bitmap]
        stack == m_hypoStackColl[iterStack]
    IN /\ \E item \in Top(container) :
             LET hypo == CreateHypothesis(container, item)
                 inserted == IF Cube!IsNewEntry(stack, hypo) THEN 1 ELSE 0
             IN /\ m_hypoStackColl' =
                       [m_hypoStackColl EXCEPT ![iterStack] = Cube!AddAboveThreshold(stack, hypo)]
                /\ m_bitmapAccessor' =
                       [m_bitmapAccessor EXCEPT ![bitmap] =
                           [PushSuccessors(container, item) EXCEPT
                               !.m_numStackInsertions = @ + inserted]]
       /\ UnusedUnchanged
       /\ UNCHANGED <<iterStack, pc>>

\* "main search loop, pop k best hyps"
PopContainer ==
    /\ pc = "pop" /\ numpops < Options.popLimit
    /\ \E bitmap \in BCQueue :
          /\ \A other \in BCQueue :
                TopScore(m_bitmapAccessor[other]) <= TopScore(m_bitmapAccessor[bitmap])
          /\ ProcessBestHypothesis(bitmap)
    /\ numpops' = numpops + 1

PopsEnded == pc = "pop" /\ (numpops = Options.popLimit \/ BCQueue = {})

\* The containers that have not given the stack their minimum of hypotheses.
Lacking ==
    {bitmap \in BCQueue :
        m_bitmapAccessor[bitmap].m_numStackInsertions < Options.cubeDiversity}

\* "ensure diversity": the containers take their turn in the order of the map.
EnsureMinStackHyps ==
    /\ PopsEnded
    /\ \E bitmap \in Lacking :
          /\ \A other \in Lacking : ~Less(other, bitmap)
          /\ ProcessBestHypothesis(bitmap)
    /\ UNCHANGED numpops

\* The filled stack is pruned, tidied and spread over the containers of later
\* stacks.
EndCubes ==
    /\ PopsEnded /\ Lacking = {}
    /\ \E tidied \in Stack!CleanupArcList(
                Cube!PruneAtThreshold(m_hypoStackColl[iterStack], Stack!m_maxHypoStackSize)) :
          /\ m_hypoStackColl' = [m_hypoStackColl EXCEPT ![iterStack] = tidied]
          /\ m_bitmapAccessor' =
                 CreateForwardTodos(
                     [bitmap \in {b \in DOMAIN m_bitmapAccessor : Cardinality(b) > iterStack} |->
                         m_bitmapAccessor[bitmap]],
                     tidied.m_hypos)
    /\ iterStack' = iterStack + 1
    /\ pc' = IF iterStack = m_size THEN "searched" ELSE "next cubes"
    /\ UnusedUnchanged
    /\ UNCHANGED numpops

CubeNext ==
    \/ GiveUp
    \/ BeginCubes
    \/ PopContainer
    \/ EnsureMinStackHyps
    \/ EndCubes
=============================================================================
