---------------------------- MODULE ChartSearch ----------------------------
(***************************************************************************)
(* The search of the chart decoder for one sentence: ChartManager fills the  *)
(* cells of the chart, shorter spans first, and ChartCell fills one by cube  *)
(* pruning (RuleCubeQueue, RuleCube, RuleCubeItem).  What ChartParser finds  *)
(* span by span, the rules that apply, is here every way to match the source *)
(* side of a rule.                                                           *)
(*                                                                         *)
(* A hypothesis is a record of its target phrase, range, label and           *)
(* predecessors.  The language model is a bigram model: its state is the     *)
(* first and the last word, its score that of each pair of neighbours, given *)
(* once both are known.                                                      *)
(***************************************************************************)
EXTENDS Integers, FiniteSets, FiniteSetsExt, Sequences, SequencesExt, TLC

CONSTANTS
    Source,      \* the words of the sentence, the first is number 0
    Labels,      \* the non-terminals
    NegInfinity, \* what a collection's best score is at first
    Setups       \* the command lines, with the rule table and the models

\* A beam of 0 is left out, see ChartHypothesisCollection.
ASSUME ChartAssumption ==
    /\ Source \in Seq(STRING) /\ Source # <<>>
    /\ NegInfinity \notin Int
    /\ \A name \in DOMAIN Setups :
          /\ Setups[name].maxHypoStackSize \in Nat \ {0}
          /\ Setups[name].beamWidth \in Nat \ {0}
          /\ Setups[name].nBestSize \in Nat /\ Setups[name].tableLimit \in Nat
          /\ \A pair \in DOMAIN Setups[name].lm : Setups[name].lm[pair] \in Int
          /\ IsFiniteSet(Setups[name].rules)
          /\ \A rule \in Setups[name].rules :
                /\ rule.source \in Seq(STRING) /\ rule.source # <<>>
                /\ rule.phrases \in Seq([lhs : Labels, score : Int, target : Seq(STRING)])
                /\ rule.phrases # <<>>
                /\ \A k \in DOMAIN rule.phrases : rule.phrases[k].target # <<>>

VARIABLES
    setup,            \* the name of the command line
    m_hypoStackColl,  \* the cells by range: the collection of each label
    range,            \* the range of the main loop
    cubes,            \* the RuleCubeQueue of the cell
    numPops,
    pc

chartVars == <<setup, m_hypoStackColl, range, cubes, numPops, pc>>

Options == Setups[setup]
m_size == Len(Source)
Ranges == {r \in (0 .. m_size - 1) \X (0 .. m_size - 1) : r[1] <= r[2]}
WholeSentence == <<0, m_size - 1>>

Coll == INSTANCE ChartHypothesisCollection WITH
    m_maxHypoStackSize <- Options.maxHypoStackSize, beamWidth <- Options.beamWidth,
    nBestSize <- Options.nBestSize, distinctNBest <- Options.distinctNBest

-----------------------------------------------------------------------------
\* A variant of Sort: cut to the limit without being sorted.
CutOnly(phrases, limit) == SubSeq(phrases, 1, Min({limit, Len(phrases)}))

\* The phrases to be sorted before the i-th, those of its score as they come.
Better(phrases, i) ==
    {j \in DOMAIN phrases :
        \/ phrases[j].score > phrases[i].score
        \/ phrases[j].score = phrases[i].score /\ j < i}

\* TargetPhraseCollection::Sort, called only if there is a table limit.
Sort(phrases, limit) ==
    [k \in 1 .. Min({limit, Len(phrases)}) |->
        phrases[CHOOSE i \in DOMAIN phrases : Cardinality(Better(phrases, i)) = k - 1]]

TargetPhrases(rule) ==
    IF Options.tableLimit = 0 THEN rule.phrases ELSE Sort(rule.phrases, Options.tableLimit)

\* The ways to cut a range into n ranges.
Splits(r, n) ==
    {[k \in 1 .. n |-> <<IF k = 1 THEN r[1] ELSE ends[k - 1] + 1,
                         IF k = n THEN r[2] ELSE ends[k]>>] :
        ends \in {e \in [1 .. n - 1 -> r[1] .. r[2] - 1] : \A k \in 1 .. n - 2 : e[k] < e[k + 1]}}

\* What part of a rule's source side matches: a label that the cell has
\* hypotheses of, or the word itself.
Matches(symbol, part, r) ==
    IF symbol \in Labels THEN part # r /\ symbol \in DOMAIN m_hypoStackColl[part]
    ELSE part[1] = part[2] /\ Source[part[1] + 1] = symbol

\* The non-terminals of a rule's source side, by position, and the k-th of them.
Gaps(rule) == {i \in DOMAIN rule.source : rule.source[i] \in Labels}
Gap(rule, k) ==
    CHOOSE i \in Gaps(rule) : Cardinality({j \in Gaps(rule) : j < i}) = k - 1

\* The cells and labels of the non-terminals.
StackVec(rule, parts) ==
    [k \in 1 .. Cardinality(Gaps(rule)) |-> <<parts[Gap(rule, k)], rule.source[Gap(rule, k)]>>]

\* The translation options of a range: a rule, and the sorted hypotheses of
\* each of its non-terminals, by cell and label.
TranslationOptions(r) ==
    UNION {{[rule |-> rule, stackVec |-> StackVec(rule, parts)] :
                parts \in {p \in Splits(r, Len(rule.source)) :
                              \A i \in DOMAIN p : Matches(rule.source[i], p[i], r)}} :
            rule \in Options.rules}

HypoList(stack) == m_hypoStackColl[stack[1]][stack[2]].m_hyposOrdered

-----------------------------------------------------------------------------
(***************************************************************************)
(* Hypotheses.  The target side of a phrase is a sequence of words and of    *)
(* the names of gaps, "[1]" for the first non-terminal of the source side.   *)
(***************************************************************************)
NonTermIndex == "[1]" :> 1 @@ "[2]" :> 2

\* A variant of ChartState: no context is compared at the left.
RightContext(r, ends) == IF r[2] < m_size - 1 THEN <<ends[2]>> ELSE <<>>

\* LanguageModelChartState::Compare: the prefix matters unless the range begins
\* the sentence, the right context unless it ends it.
ChartState(r, ends) ==
    (IF r[1] > 0 THEN <<ends[1]>> ELSE <<"<s>">>)
        \o (IF r[2] < m_size - 1 THEN <<ends[2]>> ELSE <<"</s>">>)

Bigram(w, v) == IF <<w, v>> \in DOMAIN Options.lm THEN Options.lm[<<w, v>>] ELSE 0

\* The first and last words of each symbol of a target phrase.
Pieces(phrase, prevHypos) ==
    [i \in DOMAIN phrase.target |->
        IF phrase.target[i] \in DOMAIN NonTermIndex
        THEN prevHypos[NonTermIndex[phrase.target[i]]].ends
        ELSE <<phrase.target[i], phrase.target[i]>>]

\* The sum of n numbers.
Total(numbers, n) ==
    LET sum[k \in 0 .. n] == IF k = 0 THEN 0 ELSE sum[k - 1] + numbers[k]
    IN sum[n]

Estimate(phrase, prevHypos) ==
    phrase.score + Total([k \in DOMAIN prevHypos |-> prevHypos[k].score], Len(prevHypos))

ScoreOf(phrase, prevHypos) ==
    LET pieces == Pieces(phrase, prevHypos)
    IN Estimate(phrase, prevHypos)
        + Total([i \in 1 .. Len(pieces) - 1 |-> Bigram(pieces[i][2], pieces[i + 1][1])],
                Len(pieces) - 1)

\* ChartHypothesis and its CalcScore.
CreateHypothesis(phrase, r, prevHypos) ==
    LET pieces == Pieces(phrase, prevHypos)
        ends == <<pieces[1][1], pieces[Len(pieces)][2]>>
    IN [phrase |-> phrase, range |-> r, prevHypos |-> prevHypos, ends |-> ends,
        state |-> ChartState(r, ends), score |-> ScoreOf(phrase, prevHypos)]

-----------------------------------------------------------------------------
(***************************************************************************)
(* Cubes.  A cube belongs to a translation option; an item is its position   *)
(* along each dimension, the target phrases first.                           *)
(***************************************************************************)
Dimensions(opt) ==
    [d \in 1 .. Len(opt.stackVec) + 1 |->
        IF d = 1 THEN Len(TargetPhrases(opt.rule)) ELSE Len(HypoList(opt.stackVec[d - 1]))]

PhraseOf(opt, item) == TargetPhrases(opt.rule)[item[1]]
HyposOf(opt, item) ==
    [k \in DOMAIN opt.stackVec |-> HypoList(opt.stackVec[k])[item[k + 1]]]

\* The score before the stateful features are known.
EstimateScore(opt, item) == Estimate(PhraseOf(opt, item), HyposOf(opt, item))

Score(opt, item) ==
    IF Options.lazyScoring THEN EstimateScore(opt, item)
    ELSE ScoreOf(PhraseOf(opt, item), HyposOf(opt, item))

\* The cube of an option begins with its top left corner.
RuleCube(opt) ==
    LET corner == [d \in DOMAIN Dimensions(opt) |-> 1]
    IN [opt |-> opt, m_covered |-> {corner}, m_queue |-> {corner}]

Neighbors(opt, item) ==
    {[item EXCEPT ![d] = @ + 1] : d \in {k \in DOMAIN item : item[k] < Dimensions(opt)[k]}}

\* A variant of PopItem: neighbours are not looked up in m_covered.
PopItemUncovered(cube, item) ==
    LET new == Neighbors(cube.opt, item)
    IN [cube EXCEPT !.m_covered = @ \cup new, !.m_queue = (@ \ {item}) \cup new]

\* RuleCube::Pop with CreateNeighbors.
PopItem(cube, item) ==
    LET new == Neighbors(cube.opt, item) \ cube.m_covered
    IN [cube EXCEPT !.m_covered = @ \cup new, !.m_queue = (@ \ {item}) \cup new]

\* The items at the top of a queue: those with the best score.
TopItems(cube) ==
    {item \in cube.m_queue : \A other \in cube.m_queue :
        Score(cube.opt, other) <= Score(cube.opt, item)}

GetTopScore(cube) == Max({Score(cube.opt, item) : item \in cube.m_queue})
TopCubes == {cube \in cubes : \A other \in cubes : GetTopScore(other) <= GetTopScore(cube)}

-----------------------------------------------------------------------------
Init ==
    /\ setup \in DOMAIN Setups
    /\ m_hypoStackColl = [r \in Ranges |-> <<>>]
    /\ range = <<0, 0>> /\ cubes = {} /\ numPops = 0
    /\ pc = "cell"

\* ChartCell::ProcessSentence begins: one cube for each translation option.
CreateCubes ==
    /\ pc = "cell"
    /\ cubes' = {RuleCube(opt) : opt \in TranslationOptions(range)}
    /\ numPops' = 0
    /\ pc' = "pop"
    /\ UNCHANGED <<setup, m_hypoStackColl, range>>

\* ChartCell::AddHypothesis, to the collection of the label.
AddToCell(cell, h) ==
    LET lhs == h.phrase.lhs
        coll == IF lhs \in DOMAIN cell THEN cell[lhs] ELSE Coll!EmptyCollection
    IN {[l \in DOMAIN cell \cup {lhs} |-> IF l = lhs THEN c ELSE cell[l]] :
           c \in Coll!AddHypothesis(coll, h)}

\* RuleCubeQueue::Pop: the best item of the best cube becomes a hypothesis, and
\* the cube is pushed back unless it is empty.
Pop ==
    /\ pc = "pop" /\ cubes # {} /\ numPops < Options.popLimit
    /\ \E cube \in TopCubes : \E item \in TopItems(cube) :
          LET popped == PopItem(cube, item)
              hypo == CreateHypothesis(PhraseOf(cube.opt, item), range, HyposOf(cube.opt, item))
          IN /\ cubes' = (cubes \ {cube}) \cup (IF popped.m_queue = {} THEN {} ELSE {popped})
             /\ \E cell \in AddToCell(m_hypoStackColl[range], hypo) :
                   m_hypoStackColl' = [m_hypoStackColl EXCEPT ![range] = cell]
    /\ numPops' = numPops + 1
    /\ UNCHANGED <<setup, range, pc>>

\* A variant of Finish: the list is sorted before it is pruned.
SortedTooEarly(c) ==
    UNION {UNION {Coll!CleanupArcList(pruned) : pruned \in Coll!PruneToSize(sorted)} :
              sorted \in Coll!SortHypotheses(c)}

\* What the main loop does to a collection when its cell is filled.
Finish(c) ==
    UNION {UNION {Coll!SortHypotheses(tidy) : tidy \in Coll!CleanupArcList(pruned)} :
              pruned \in Coll!PruneToSize(c)}

\* The same for each label of a cell.
FinishLabels(cell) ==
    LET finished == [lhs \in DOMAIN cell |-> Finish(cell[lhs])]
    IN {f \in [DOMAIN cell -> UNION {finished[lhs] : lhs \in DOMAIN cell}] :
           \A lhs \in DOMAIN cell : f[lhs] \in finished[lhs]}

NextRange ==
    IF range[2] < m_size - 1 THEN <<range[1] + 1, range[2] + 1>>
    ELSE <<0, range[2] - range[1] + 1>>

\* The cubes are dropped, and the cell is pruned, tidied and sorted.
FinishCell ==
    /\ pc = "pop" /\ (cubes = {} \/ numPops = Options.popLimit)
    /\ \E cell \in FinishLabels(m_hypoStackColl[range]) :
          m_hypoStackColl' = [m_hypoStackColl EXCEPT ![range] = cell]
    /\ cubes' = {}
    /\ IF range = WholeSentence THEN pc' = "searched" /\ UNCHANGED range
                                ELSE pc' = "cell" /\ range' = NextRange
    /\ UNCHANGED <<setup, numPops>>

SearchNext == CreateCubes \/ Pop \/ FinishCell

\* The search without the n-best list, for which ChartTrellis goes on.
SearchSpec == Init /\ [][SearchNext]_chartVars

\* ChartManager::GetBestHypothesis: the best of the whole sentence, of any label.
BestHypotheses ==
    LET cell == m_hypoStackColl[WholeSentence]
        first == {cell[lhs].m_hyposOrdered[1] : lhs \in DOMAIN cell}
    IN {h \in first : \A g \in first : g.score <= h.score}
-----------------------------------------------------------------------------
Created(coll) == coll.m_hypos \cup {arc[2] : arc \in coll.m_arcList} \cup coll.freed
CreatedIn(r) == UNION {Created(m_hypoStackColl[r][lhs]) : lhs \in DOMAIN m_hypoStackColl[r]}

\* The order in which the main loop fills the cells.
Before(r, q) ==
    \/ r[2] - r[1] < q[2] - q[1]
    \/ r[2] - r[1] = q[2] - q[1] /\ r[1] < q[1]

Finished(r) == pc \notin {"cell", "pop"} \/ Before(r, range)

Items(opt) ==
    LET sizes == Dimensions(opt)
    IN {item \in [DOMAIN sizes -> 1 .. Max(ToSet(sizes))] :
           \A d \in DOMAIN sizes : item[d] <= sizes[d]}

\* Cube pruning looks at no combination of a rule and hypotheses twice, and
\* leaves out none unless the pop limit ends it: a cube that is dropped because
\* its queue is empty has been popped through.
CombinationsOnce ==
    pc = "pop" =>
        /\ Cardinality(CreatedIn(range)) = numPops
        /\ cubes = {} =>
              numPops = MapThenSumSet(LAMBDA opt : Cardinality(Items(opt)),
                                                    TranslationOptions(range))

\* With lazy scoring the top of the queue beats every combination that has not
\* been popped, queued or not: cells are filled best first, so that the pop
\* limit cuts off the worst.  It takes sorted dimensions, so phrases must have
\* been sorted, which a table without a limit is not.
TopIsBest ==
    pc = "pop" /\ Options.lazyScoring /\ Options.tableLimit > 0 =>
        \A cube \in cubes : \A item \in Items(cube.opt) :
            \/ item \in cube.m_covered \ cube.m_queue
            \/ \E top \in TopCubes : EstimateScore(cube.opt, item) <= GetTopScore(top)

\* What belongs in a cell is there when it is finished, in whatever order its
\* hypotheses were popped: one within the beam with fewer rivals than there is
\* room for is represented by one with its state that is as good.
CellKeepsTheTop ==
    \A r \in Ranges : Finished(r) =>
        \A lhs \in DOMAIN m_hypoStackColl[r] :
            LET coll == m_hypoStackColl[r][lhs]
                best == Max({h.score : h \in Created(coll)})
            IN \A h \in Created(coll) :
                  /\ h.score > best - Options.beamWidth
                  /\ Cardinality({g.state : g \in {f \in Created(coll) :
                                      f.score >= h.score /\ f.state # h.state}})
                        < Options.maxHypoStackSize
                  => \E g \in coll.m_hypos : g.state = h.state /\ g.score >= h.score

\* Pointers stay valid: the sorted list that later cubes take their dimensions
\* from holds the hypotheses of the collection, and those that a hypothesis, or
\* a loser in its arc list, was made from are still there.
ListsAlive ==
    \A r \in Ranges : \A lhs \in DOMAIN m_hypoStackColl[r] :
        LET coll == m_hypoStackColl[r][lhs]
        IN /\ Finished(r) => ToSet(coll.m_hyposOrdered) = coll.m_hypos /\ coll.m_hypos # {}
           /\ \A h \in coll.m_hypos \cup {arc[2] : arc \in coll.m_arcList} :
                 \A i \in DOMAIN h.prevHypos :
                    LET prev == h.prevHypos[i]
                    IN prev \in m_hypoStackColl[prev.range][prev.phrase.lhs].m_hypos

(***************************************************************************)
(* The reference: every derivation, nothing recombined and nothing pruned.   *)
(***************************************************************************)
Products(sets) ==
    FoldLeft(LAMBDA chosen, set : {Append(c, x) : c \in chosen, x \in set}, {<<>>}, sets)

DerivationsOf(r, chart) ==
    UNION {UNION {LET hypos == [k \in DOMAIN StackVec(rule, parts) |->
                                   {h \in chart[StackVec(rule, parts)[k][1]] :
                                       h.phrase.lhs = StackVec(rule, parts)[k][2]}]
                  IN {CreateHypothesis(phrase, r, prev) :
                         phrase \in ToSet(TargetPhrases(rule)), prev \in Products(hypos)} :
                     parts \in {p \in Splits(r, Len(rule.source)) :
                        \A i \in DOMAIN p :
                           IF rule.source[i] \in Labels THEN p[i] # r
                           ELSE p[i][1] = p[i][2] /\ Source[p[i][1] + 1] = rule.source[i]}} :
               rule \in Options.rules}

RangesInOrder ==
    [i \in 1 .. Cardinality(Ranges) |->
        CHOOSE r \in Ranges : Cardinality({q \in Ranges : Before(q, r)}) = i - 1]

Derivations ==
    FoldLeft(LAMBDA chart, r : [chart EXCEPT ![r] = DerivationsOf(r, chart)],
             [r \in Ranges |-> {}],
             RangesInOrder)

\* The pop limit, the stack size and the beam leave room for all of them.
Lossless ==
    LET all == UNION {Derivations[r] : r \in Ranges}
        scores == {h.score : h \in all}
    IN /\ Cardinality(all) <= Min({Options.popLimit, Options.maxHypoStackSize})
       /\ Options.beamWidth > Max(scores) - Min(scores)

\* Recombination forgets nothing that matters: a search that prunes nothing
\* finds the best of all derivations, though a cell keeps one hypothesis of each
\* state, and one that spans the sentence is not compared at all.
BestDerivationFound ==
    pc = "searched" /\ Lossless =>
        {h.score : h \in BestHypotheses}
            = {Max({h.score : h \in Derivations[WholeSentence]})}
=============================================================================
