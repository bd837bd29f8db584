----------------------------- MODULE Reordering -----------------------------
(***************************************************************************)
(* The order in which the phrase-based search translates the words of a     *)
(* sentence (moses/src/SearchNormal.cpp, ProcessOneHypothesis, for text      *)
(* input): a behaviour is the chain of hypotheses that leads to one          *)
(* translation.  Each step extends the last hypothesis with a phrase that    *)
(* the distortion limit, the walls and the zones admit; which spans have     *)
(* translation options is left open, any span up to the maximal phrase       *)
(* length may.                                                               *)
(***************************************************************************)
EXTENDS ReorderingConstraint

CONSTANTS
    MaxPhraseLength,   \* -max-phrase-length
    DistortionLimits,  \* the values -distortion-limit may have; -1 is no limit
    PunctuationSets,   \* which words may be punctuation
    XmlWallSets,       \* which walls the markup may set
    ZoneLists          \* which zones the markup may set

ASSUME ReorderingAssumption ==
    /\ MaxPhraseLength \in Nat \ {0}
    /\ DistortionLimits \subseteq Int
    /\ PunctuationSets \subseteq Bitmaps
    /\ XmlWallSets \subseteq Bitmaps
    /\ ZoneLists \subseteq Seq(Positions \X Positions)

VARIABLES
    m_maxDistortion,  \* StaticData: the distortion limit
    m_punctuation,    \* the words that are punctuation
    m_wall, m_localWall, m_zone, \* the ReorderingConstraint of the sentence
    m_sourceCompleted, \* the bitmap of the hypothesis
    m_currSourceWordsRange \* the words its last phrase translated, <<>> at first

constraintVars == <<m_maxDistortion, m_punctuation, m_wall, m_localWall, m_zone>>
vars == <<constraintVars, m_sourceCompleted, m_currSourceWordsRange>>

NoRange == <<>>

\* Sentence::Read sets the constraint up before the search begins.
Init ==
    /\ m_maxDistortion \in DistortionLimits
    /\ m_punctuation \in PunctuationSets
    /\ m_zone \in ZoneLists
    /\ \E xmlWalls \in XmlWallSets :
          LET walls == SetMonotoneAtPunctuation(m_punctuation) \cup xmlWalls
          IN /\ m_wall = GlobalWalls(walls, m_zone)
             /\ m_localWall = LocalWalls(walls, m_zone)
    /\ m_sourceCompleted = {}
    /\ m_currSourceWordsRange = NoRange

\* A variant of ComputeDistortionDistance: off by one.
DistanceToEnd(prev, startPos) ==
    IF prev = NoRange THEN startPos
    ELSE LET dist == prev[2] - startPos IN IF dist < 0 THEN -dist ELSE dist

\* ComputeDistortionDistance: the jump from the end of prev to startPos.
ComputeDistortionDistance(prev, startPos) ==
    IF prev = NoRange THEN startPos
    ELSE LET dist == prev[2] - startPos + 1
         IN IF dist < 0 THEN -dist ELSE dist

\* A variant of WithinDistortionLimit: the jump back is not considered.
WithinLimitForward(b, prev, startPos, endPos) ==
    \/ m_maxDistortion < 0
    \/ ComputeDistortionDistance(prev, startPos) <= m_maxDistortion

\* The distortion limit admits the phrase after a hypothesis with bitmap b whose
\* last phrase was prev: the jump to it is short enough and, if it leaves the
\* first gap open, so is the jump back.
WithinDistortionLimit(b, prev, startPos, endPos) ==
    \/ m_maxDistortion < 0
    \/ /\ ComputeDistortionDistance(prev, startPos) <= m_maxDistortion
       /\ \/ startPos = GetFirstGapPos(b)
          \/ ComputeDistortionDistance(<<startPos, endPos>>, GetFirstGapPos(b))
                <= m_maxDistortion

\* Which phrases may come after a hypothesis.
AdmissibleAfter(b, prev, startPos, endPos) ==
    /\ GetFirstGapPos(b) <= startPos /\ startPos <= endPos
    /\ endPos < m_size /\ endPos < startPos + MaxPhraseLength
    /\ ~Overlap(b, startPos, endPos)
    /\ Check(m_wall, m_localWall, m_zone, m_maxDistortion, b, startPos, endPos)
    /\ WithinDistortionLimit(b, prev, startPos, endPos)

Admissible(startPos, endPos) ==
    AdmissibleAfter(m_sourceCompleted, m_currSourceWordsRange, startPos, endPos)

\* ProcessOneHypothesis reaches ExpandAllHypotheses for the span: the new
\* hypothesis covers it.
Extend(startPos, endPos) ==
    /\ Admissible(startPos, endPos)
    /\ m_sourceCompleted' = m_sourceCompleted \cup (startPos .. endPos)
    /\ m_currSourceWordsRange' = <<startPos, endPos>>
    /\ UNCHANGED constraintVars

\* Every word is translated: the hypothesis is on the last stack.
Complete == IsComplete(m_sourceCompleted) /\ UNCHANGED vars

Next ==
    \/ \E startPos, endPos \in Positions : Extend(startPos, endPos)
    \/ Complete

Spec == Init /\ [][Next]_vars

-----------------------------------------------------------------------------
\* Whatever was translated so far, some untranslated word can come next: the
\* checks that look ahead (the jump back to the first gap, the distance from
\* the first gap to the end of a zone) are strong enough for the constraints
\* together never to strand a hypothesis.  Every word has a translation of its
\* own, if only itself as an unknown word.
NoDeadEnd ==
    ~IsComplete(m_sourceCompleted) =>
        \E pos \in Positions : Admissible(pos, pos)

FirstGap == GetFirstGapPos(m_sourceCompleted)

\* Under a distortion limit the words translated ahead of the first gap stay
\* within the limit of it.  This is what keeps GetID's pattern in its 16 bits.
WindowWithinLimit ==
    m_maxDistortion >= 0 =>
        \A pos \in m_sourceCompleted : pos < FirstGap + m_maxDistortion

\* No word behind a wall is translated before all those in front of it.
WallsRespected ==
    \A wall \in m_wall, pos \in m_sourceCompleted :
        pos > wall => 0 .. wall \subseteq m_sourceCompleted

\* The same for a wall inside a zone and the words of that zone.
LocalWallsRespected ==
    \A z \in 1 .. Len(m_zone) : \A wall \in Positions :
        m_localWall[wall] = z =>
            \A pos \in m_sourceCompleted \cap ZoneWords(m_zone[z]) :
                pos > wall =>
                    ZoneStart(m_zone[z]) .. wall \subseteq m_sourceCompleted

\* "once entered, need to finish": while a zone is partly translated, the last
\* phrase was one of its own, so nothing outside it came in between.
ZoneNotLeft ==
    \A z \in 1 .. Len(m_zone) :
        LET words == ZoneWords(m_zone[z])
        IN \/ words \subseteq m_sourceCompleted
           \/ words \cap m_sourceCompleted = {}
           \/ \E pos \in words : /\ m_currSourceWordsRange[1] <= pos
                                 /\ pos <= m_currSourceWordsRange[2]

\* "do not reorder over punctuation": a punctuation mark, or a word after it,
\* is translated only once every word before the mark has been.
PunctuationRespected ==
    \A mark \in m_punctuation, pos \in m_sourceCompleted :
        pos >= mark => 0 .. mark - 1 \subseteq m_sourceCompleted

\* Under a distortion limit of at most 16 GetID's check of the width holds, and
\* whenever it holds the ids of two different bitmaps differ, so that the tables
\* of a stack that are indexed by id never confuse two coverages.
IdIdentifiesBitmap ==
    /\ m_maxDistortion \in 0 .. 16 => PatternFits(m_sourceCompleted)
    /\ \A b \in Bitmaps :
          /\ PatternFits(b) /\ PatternFits(m_sourceCompleted)
          /\ GetID(b) = GetID(m_sourceCompleted)
          => b = m_sourceCompleted
=============================================================================
