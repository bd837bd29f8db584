---------------------------- MODULE SearchNormal ----------------------------
(***************************************************************************)
(* The phrase-based search for one sentence, moses/src/SearchNormal.cpp for  *)
(* text input: hypotheses are extended stack by stack, from no words         *)
(* translated to all of them.  It composes the stacks (HypothesisStack) with *)
(* the rules for the next phrase (Reordering) and may run out of time before *)
(* any stack.                                                                *)
(*                                                                         *)
(* A hypothesis is identified by the translation options it applied (path).  *)
(* Scores are integers: those of the options, a bigram language model that   *)
(* looks at the last target word, the distance of each jump, and the future  *)
(* cost.  Early discarding is left out: with it the first hypothesis that is *)
(* not discarded unbuilt ends the program (the CHECK at Hypothesis.cpp:321).  *)
(***************************************************************************)
EXTENDS WordsBitmap, Sequences, SequencesExt

CONSTANTS
    MaxPhraseLength,  \* -max-phrase-length
    ArcFactor,        \* see HypothesisStack
    StartScore,       \* what scores are counted from, to keep them positive
    Setups            \* command lines, with the sentence and the models

\* A translation option translates a span of the sentence.
ASSUME SearchAssumption ==
    \A name \in DOMAIN Setups : \A opt \in Setups[name].options :
        opt.startPos \in Positions /\ opt.endPos \in Positions

VARIABLES
    setup,            \* the name of the command line
    m_hypoStackColl,  \* the stacks, by the number of words covered
    iterStack,        \* the stack the main loop is at
    unexpanded,       \* its hypotheses still to be extended
    hypothesis,       \* the one being extended
    todo,             \* the translation options it is still to be extended with
    actual_hypoStack, \* the last stack that was fully expanded
    interrupted_flag,
    pc

searchVars == <<setup, m_hypoStackColl, iterStack, unexpanded, hypothesis,
                todo, actual_hypoStack, interrupted_flag, pc>>

Stack == INSTANCE HypothesisStack WITH Covers <- Bitmaps
Options == Setups[setup]

\* The rules for the next phrase.
Rules == INSTANCE Reordering WITH
    DistortionLimits <- Int, PunctuationSets <- {}, XmlWallSets <- {}, ZoneLists <- {},
    m_maxDistortion <- Options.maxDistortion, m_punctuation <- {},
    m_wall <- Options.m_wall, m_localWall <- [pos \in Positions |-> 0],
    m_zone <- Options.m_zone,
    m_sourceCompleted <- hypothesis.cover,
    m_currSourceWordsRange <- hypothesis.range

Uninitialised == -1

-----------------------------------------------------------------------------
(***************************************************************************)
(* Scores.  m_futureScore is the matrix of TranslationOptionCollection: the  *)
(* best score of a span is that of its best option or of the best way to     *)
(* split it.                                                                 *)
(***************************************************************************)
NoScore == -1000

OptionScores(options, span) ==
    {opt.score : opt \in {o \in options : <<o.startPos, o.endPos>> = span}}

CalcFutureScore(options) ==
    LET best[span \in Positions \X Positions] ==
            Max({NoScore} \cup OptionScores(options, span)
                \cup {best[<<span[1], joinAt>>] + best[<<joinAt + 1, span[2]>>] :
                         joinAt \in span[1] .. span[2] - 1})
    IN [span \in {s \in Positions \X Positions : s[1] <= s[2]} |-> best[span]]

FutureScores == [name \in DOMAIN Setups |-> CalcFutureScore(Setups[name].options)]

\* The gaps of a coverage: maximal spans of untranslated words.
Gaps(b) ==
    {span \in Positions \X Positions :
        /\ span[1] <= span[2]
        /\ span[1] .. span[2] \cap b = {}
        /\ {span[1] - 1, span[2] + 1} \cap (Positions \ b) = {}}

FutureScore(b) == MapThenSumSet(LAMBDA gap : FutureScores[setup][gap], Gaps(b))

\* A variant of RecombineState: the distortion feature has no state.
LanguageModelState(opt) == <<opt.target>>

\* What the stateful features compare: DistortionState_traditional the end of
\* the last phrase, the language model the last target word.
RecombineState(opt) == <<opt.endPos, opt.target>>

\* No future cost is given to it.
InitialHypothesis ==
    [cover |-> {}, range |-> <<>>, state |-> <<>>, base |-> StartScore,
     score |-> StartScore, path |-> <<>>]

Bigram(h, opt) ==
    Options.lm[<<IF h.path = <<>> THEN "<s>" ELSE Last(h.path).target, opt.target>>]

\* CreateNext and CalcScore.
CreateNext(h, opt) ==
    LET cover == h.cover \cup (opt.startPos .. opt.endPos)
        base == h.base + opt.score + Bigram(h, opt)
                    - Options.weightDistortion
                        * Rules!ComputeDistortionDistance(h.range, opt.startPos)
    IN [cover |-> cover, range |-> <<opt.startPos, opt.endPos>>,
        state |-> RecombineState(opt), base |-> base,
        score |-> base + FutureScore(cover), path |-> Append(h.path, opt)]

\* ProcessOneHypothesis: the translation options h is extended with.
Extensions(h) ==
    {opt \in Options.options :
        Rules!AdmissibleAfter(h.cover, h.range, opt.startPos, opt.endPos)}

\* They are tried from left to right, short spans and good options first.
Precedes(o, p) ==
    \/ o.startPos < p.startPos
    \/ o.startPos = p.startPos /\ o.endPos < p.endPos
    \/ o.startPos = p.startPos /\ o.endPos = p.endPos /\ o.score > p.score

-----------------------------------------------------------------------------
\* A variant of WordsTranslated: counted before the new phrase is added.
WordsTranslatedBefore(h) ==
    IF h.path = <<>> THEN 0 ELSE Cardinality(h.cover \ (h.range[1] .. h.range[2]))

\* Which stack a hypothesis belongs to.
WordsTranslated(h) == Cardinality(h.cover)

Init ==
    /\ setup \in DOMAIN Setups
    /\ \E first \in Stack!AddPruned(Stack!EmptyStack, InitialHypothesis) :
          m_hypoStackColl = [n \in 0 .. m_size |-> IF n = 0 THEN first ELSE Stack!EmptyStack]
    /\ iterStack = 0 /\ unexpanded = {} /\ hypothesis = InitialHypothesis /\ todo = {}
    /\ actual_hypoStack = Uninitialised
    /\ interrupted_flag = FALSE
    /\ pc = "next stack"

\* The timer of the process, which other threads restart with every sentence
\* they read, may be past -time-out before any stack.
OutOfTime ==
    /\ pc = "next stack" /\ Options.timeOut
    /\ interrupted_flag' = TRUE
    /\ pc' = "searched"
    /\ UNCHANGED <<setup, m_hypoStackColl, iterStack, unexpanded, hypothesis, todo,
                   actual_hypoStack>>

\* The stack is pruned to its size and tidied before it is expanded.
BeginStack ==
    /\ pc = "next stack"
    /\ \E pruned \in Stack!PruneToSize(m_hypoStackColl[iterStack], Stack!m_maxHypoStackSize) :
          \E tidied \in Stack!CleanupArcList(pruned) :
             /\ m_hypoStackColl' = [m_hypoStackColl EXCEPT ![iterStack] = tidied]
             /\ unexpanded' = tidied.m_hypos
    /\ pc' = "expand"
    /\ UNCHANGED <<setup, iterStack, hypothesis, todo, actual_hypoStack, interrupted_flag>>

\* The stack is a set ordered by coverage, then by the features' states, whose
\* order depends on addresses.
ProcessOneHypothesis ==
    /\ pc = "expand" /\ todo = {}
    /\ \E h \in unexpanded :
          /\ \A g \in unexpanded : ~Less(g.cover, h.cover)
          /\ hypothesis' = h
          /\ unexpanded' = unexpanded \ {h}
          /\ todo' = Extensions(h)
    /\ UNCHANGED <<setup, m_hypoStackColl, iterStack, actual_hypoStack, interrupted_flag, pc>>

ExpandHypothesis ==
    /\ pc = "expand"
    /\ \E opt \in todo :
          LET newHypo == CreateNext(hypothesis, opt)
              wordsTranslated == WordsTranslated(newHypo)
          IN /\ \A other \in todo : ~Precedes(other, opt)
             /\ todo' = todo \ {opt}
             /\ \E s \in Stack!AddPruned(m_hypoStackColl[wordsTranslated], newHypo) :
                   m_hypoStackColl' = [m_hypoStackColl EXCEPT ![wordsTranslated] = s]
    /\ UNCHANGED <<setup, iterStack, unexpanded, hypothesis, actual_hypoStack,
                   interrupted_flag, pc>>

\* "this stack is fully expanded"
EndStack ==
    /\ pc = "expand" /\ todo = {} /\ unexpanded = {}
    /\ actual_hypoStack' = iterStack
    /\ iterStack' = iterStack + 1
    /\ pc' = IF iterStack = m_size THEN "searched" ELSE "next stack"
    /\ UNCHANGED <<setup, m_hypoStackColl, unexpanded, hypothesis, todo, interrupted_flag>>

SearchNext ==
    \/ OutOfTime
    \/ BeginStack
    \/ ProcessOneHypothesis
    \/ ExpandHypothesis
    \/ EndStack

\* The stack GetBestHypothesis looks at.
AnswerStack == IF interrupted_flag THEN actual_hypoStack ELSE m_size
-----------------------------------------------------------------------------
(***************************************************************************)
(* The reference: every chain of admissible extensions.                      *)
(***************************************************************************)
Derivations ==
    LET after[n \in 0 .. m_size] ==
            IF n = 0 THEN {InitialHypothesis}
            ELSE UNION {{CreateNext(h, opt) : opt \in Extensions(h)} : h \in after[n - 1]}
    IN UNION {after[n] : n \in 0 .. m_size}

Translations == {h \in Derivations : IsComplete(h.cover)}

\* The stacks are so large and the beam so wide that nothing is pruned, and
\* cube pruning, if this is the search, has no need to stop.
Lossless ==
    /\ Cardinality(Derivations)
          <= IF Options.cubePruning THEN Min({Options.popLimit, Stack!m_maxHypoStackSize})
             ELSE Stack!m_maxHypoStackSize
    /\ Options.beamWidth > Max({h.score : h \in Derivations})
                               - Min({h.score : h \in Derivations})

\* Recombination forgets no continuation: hypotheses that recombine can be
\* extended alike and at the same cost, so a search that prunes nothing finds
\* the best of all translations the constraints admit.
BestIsOptimal ==
    pc = "searched" /\ ~interrupted_flag /\ Lossless =>
        {h.score : h \in Stack!GetBestHypothesis(m_hypoStackColl[m_size])}
            = {Max({h.score : h \in Translations})}

\* However narrow the stacks, the search always has an answer: the hypotheses
\* that survive pruning can be continued to the end of the sentence, and a
\* search that is interrupted after its first stack has one on the last stack
\* it expanded.
AlwaysAnAnswer ==
    pc = "searched" /\ AnswerStack # Uninitialised =>
        Stack!GetBestHypothesis(m_hypoStackColl[AnswerStack]) # {}

\* Hypotheses point to the one they extend: it stays on its stack, never freed
\* or recombined away, as long as they live (on a stack or in an arc list).
PredecessorsStay ==
    \A n \in 0 .. m_size :
        \A h \in m_hypoStackColl[n].m_hypos
                    \cup {arc[2] : arc \in m_hypoStackColl[n].m_arcList} :
            h.path # <<>> =>
                \E k \in 0 .. n - 1 : \E g \in m_hypoStackColl[k].m_hypos :
                    g.path = Front(h.path)
=============================================================================
