-------------------------- MODULE ReorderingProofs --------------------------
(* Proofs about Reordering for sentences of any length, any phrases, walls,  *)
(* zones and distortion limits: hypotheses keep translated words within the  *)
(* distortion limit of the first gap, walls hold over the whole translation, *)
(* in zones too, no hypothesis is stranded, and ids tell coverages apart.    *)
(* All rest on what the first gap of a bitmap is.                            *)
EXTENDS Reordering, FiniteSetTheorems, WellFoundedInduction, TLAPS

(* A set of positions that is not empty has a least element, so Min is       *)
(* defined on it.                                                            *)
LEMMA MinOfPositions ==
  ASSUME NEW S \in SUBSET Positions, S # {}
  PROVE  Min(S) \in S /\ \A x \in S : Min(S) <= x
<1>1. S \subseteq Nat
  BY SizeAssumption DEF Positions
<1>2. PICK m \in S : \A y \in S : ~(<<y, m>> \in OpToRel(<, Nat))
  BY <1>1, NatLessThanWellFounded, WFMin, Zenon
<1>3. \A y \in S : m <= y
  <2> SUFFICES ASSUME NEW y \in S PROVE m <= y
    OBVIOUS
  <2>1. <<y, m>> \notin OpToRel(<, Nat)
    BY <1>2
  <2>2. y \in Nat /\ m \in Nat
    BY <1>1
  <2>3. ~(y < m)
    BY <2>1, <2>2 DEF OpToRel
  <2> QED
    BY <2>2, <2>3
<1> QED
  BY <1>3 DEF Min

(* It has a greatest element too, which Max is.                              *)
LEMMA MaxOfPositions ==
  ASSUME NEW S \in SUBSET Positions, S # {}
  PROVE  Max(S) \in S /\ \A x \in S : x <= Max(S)
<1> DEFINE mirrored == {m_size - 1 - x : x \in S}
<1>1. \A x \in S : m_size - 1 - x \in Positions /\ x \in Int
  BY SizeAssumption DEF Positions
<1>2. mirrored \in SUBSET Positions /\ mirrored # {}
  BY <1>1
<1>3. Min(mirrored) \in mirrored /\ \A y \in mirrored : Min(mirrored) <= y
  BY <1>2, MinOfPositions
<1>4. PICK m \in S : Min(mirrored) = m_size - 1 - m
  BY <1>3
<1>5. ASSUME NEW x \in S PROVE x <= m
  <2>1. m_size - 1 - m <= m_size - 1 - x
    BY <1>3, <1>4
  <2>2. x \in Int /\ m \in Int /\ m_size \in Int
    BY <1>1, SizeAssumption
  <2> QED BY <2>1, <2>2
<1> QED BY <1>5 DEF Max

(* The first gap is a number, every word before it is translated, and it is  *)
(* itself untranslated unless there is no gap (WordsBitmap::GetFirstGapPos). *)
LEMMA FirstGapCorrect ==
  ASSUME NEW b \in Bitmaps
  PROVE  /\ GetFirstGapPos(b) \in Nat
         /\ \A pos \in Positions : pos < GetFirstGapPos(b) => pos \in b
         /\ \/ b = Positions /\ GetFirstGapPos(b) = m_size + 1
            \/ GetFirstGapPos(b) \in Positions \ b
<1>1. CASE b = Positions
  BY <1>1, SizeAssumption DEF GetFirstGapPos, NOT_FOUND, Positions
<1>2. CASE b # Positions
  <2>1. GetFirstGapPos(b) = Min(Positions \ b)
    BY <1>2 DEF GetFirstGapPos
  <2>2. Positions \ b # {}
    BY <1>2 DEF Bitmaps
  <2>3. /\ Min(Positions \ b) \in Positions \ b
        /\ \A x \in Positions \ b : Min(Positions \ b) <= x
    BY <2>2, MinOfPositions
  <2>4. /\ GetFirstGapPos(b) \in Positions \ b
        /\ \A x \in Positions \ b : GetFirstGapPos(b) <= x
    BY <2>1, <2>3
  <2>5. Positions \subseteq Nat
    BY SizeAssumption DEF Positions
  <2> DEFINE gap == GetFirstGapPos(b)
  <2>6. gap \in Positions \ b /\ \A x \in Positions \ b : gap <= x
    BY <2>4
  <2> HIDE DEF gap
  <2>7. gap \in Nat
    BY <2>5, <2>6
  <2>8. ASSUME NEW pos \in Positions, pos < gap
        PROVE  pos \in b
    <3>1. pos \in Nat
      BY <2>5
    <3>2. ~(gap <= pos)
      BY <2>7, <2>8, <3>1
    <3> QED
      BY <2>6, <3>2
  <2> QED
    BY <2>6, <2>7, <2>8 DEF gap
<1> QED
  BY <1>1, <1>2

(* Translating more words never moves the first gap back, and translating    *)
(* from the first gap on moves it behind the phrase.                         *)
LEMMA FirstGapMoves ==
  ASSUME NEW b \in Bitmaps, NEW c \in Bitmaps, b \subseteq c
  PROVE  /\ GetFirstGapPos(b) <= GetFirstGapPos(c)
         /\ \A endPos \in Positions :
              GetFirstGapPos(b) .. endPos \subseteq c => endPos < GetFirstGapPos(c)
<1> DEFINE g == GetFirstGapPos(b)
           h == GetFirstGapPos(c)
<1> HIDE DEF g, h
<1>1. /\ g \in Nat
      /\ \A pos \in Positions : pos < g => pos \in b
      /\ (b = Positions /\ g = m_size + 1) \/ g \in Positions \ b
  BY FirstGapCorrect DEF g
<1>2. /\ h \in Nat
      /\ (c = Positions /\ h = m_size + 1) \/ h \in Positions \ c
  BY FirstGapCorrect DEF h
<1>3. g <= h
  BY <1>1, <1>2, SizeAssumption DEF Positions, Bitmaps
<1>4. ASSUME NEW endPos \in Positions, g .. endPos \subseteq c
      PROVE  endPos < h
  BY <1>1, <1>2, <1>4, SizeAssumption DEF Positions, Bitmaps
<1> QED
  BY <1>3, <1>4 DEF g, h

(* What the proofs need of the types: the translated words and the walls are *)
(* positions and the distortion limit is a number.                           *)
Typed ==
  /\ m_sourceCompleted \in Bitmaps
  /\ m_wall \in Bitmaps
  /\ m_maxDistortion \in Int

(* The walls of the input are positions, from punctuation or markup          *)
(* (SetMonotoneAtPunctuation, FinalizeWalls).                                *)
LEMMA InitTyped == Init => Typed
<1> SUFFICES ASSUME Init PROVE Typed
  OBVIOUS
<1>1. m_sourceCompleted \in Bitmaps
  BY DEF Init, Bitmaps
<1>2. m_maxDistortion \in Int
  BY ReorderingAssumption DEF Init
<1>3. m_punctuation \in Bitmaps
  BY ReorderingAssumption DEF Init
<1>4. SetMonotoneAtPunctuation(m_punctuation) \in Bitmaps
  <2>1. \A i \in m_punctuation : i \in Int /\ 0 <= i /\ i < m_size
    BY <1>3, SizeAssumption DEF Bitmaps, Positions
  <2>2. \A i \in m_punctuation : i > 1 => i - 1 \in Positions
    BY <2>1, SizeAssumption DEF Positions
  <2>3. m_punctuation \subseteq Positions
    BY <1>3 DEF Bitmaps
  <2>4. {i \in m_punctuation : i > 0 /\ i < m_size - 1} \subseteq Positions
    BY <2>3
  <2>5. {i - 1 : i \in {j \in m_punctuation : j > 1}} \subseteq Positions
    BY <2>2
  <2> QED
    BY <2>4, <2>5 DEF SetMonotoneAtPunctuation, Bitmaps
<1>5. PICK xmlWalls \in XmlWallSets :
        m_wall = GlobalWalls(SetMonotoneAtPunctuation(m_punctuation) \cup xmlWalls, m_zone)
  BY DEF Init
<1>6. xmlWalls \in Bitmaps
  BY <1>5, ReorderingAssumption
<1>7. m_wall \subseteq SetMonotoneAtPunctuation(m_punctuation) \cup xmlWalls
  BY <1>5 DEF GlobalWalls
<1>8. m_wall \in Bitmaps
  BY <1>4, <1>6, <1>7 DEF Bitmaps
<1> QED
  BY <1>1, <1>2, <1>8 DEF Typed

\* Every step keeps the types.
LEMMA StepTyped == Typed /\ [Next]_vars => Typed'
<1> SUFFICES ASSUME Typed, [Next]_vars PROVE Typed'
  OBVIOUS
<1>1. ASSUME NEW startPos \in Positions, NEW endPos \in Positions,
             Extend(startPos, endPos)
      PROVE  Typed'
  <2>1. startPos .. endPos \subseteq Positions
    BY SizeAssumption DEF Positions
  <2>2. m_sourceCompleted' \in Bitmaps
    BY <1>1, <2>1 DEF Extend, Typed, Bitmaps
  <2>3. m_wall' = m_wall /\ m_maxDistortion' = m_maxDistortion
    BY <1>1 DEF Extend, constraintVars
  <2> QED
    BY <2>2, <2>3 DEF Typed
<1>2. ASSUME Complete \/ UNCHANGED vars PROVE Typed'
  BY <1>2 DEF Typed, Complete, vars, constraintVars
<1> QED
  BY <1>1, <1>2 DEF Next

\* The state of the translation has its types, whatever WallZone chooses.
THEOREM TypedCorrect == Spec => []Typed
<1> QED
  BY InitTyped, StepTyped, PTL DEF Spec

-----------------------------------------------------------------------------
(* A phrase that leaves the first gap open ends within the distortion limit  *)
(* of it, because of the jump back; a phrase that closes it moves the gap    *)
(* beyond its own words (SearchNormal::ProcessOneHypothesis).                *)
LEMMA StepWithinLimit ==
  Typed /\ WindowWithinLimit /\ [Next]_vars => WindowWithinLimit'
<1> SUFFICES ASSUME Typed, WindowWithinLimit, [Next]_vars
             PROVE  WindowWithinLimit'
  OBVIOUS
<1>1. ASSUME NEW startPos \in Positions, NEW endPos \in Positions,
             Extend(startPos, endPos), m_maxDistortion' >= 0,
             NEW pos \in m_sourceCompleted'
      PROVE  pos < FirstGap' + m_maxDistortion'
  <2> DEFINE b == m_sourceCompleted
             c == m_sourceCompleted \cup (startPos .. endPos)
             limit == m_maxDistortion
  <2>1. /\ m_sourceCompleted' = c
        /\ m_maxDistortion' = limit
        /\ startPos <= endPos
        /\ WithinDistortionLimit(b, m_currSourceWordsRange, startPos, endPos)
    BY <1>1 DEF Extend, Admissible, AdmissibleAfter, constraintVars
  <2>2. /\ b \in Bitmaps /\ c \in Bitmaps /\ b \subseteq c
        /\ limit \in Int /\ limit >= 0
    <3>1. startPos .. endPos \subseteq Positions
      BY SizeAssumption DEF Positions
    <3> QED
      BY <1>1, <2>1, <3>1 DEF Typed, Bitmaps
  <2>3. FirstGap = GetFirstGapPos(b) /\ FirstGap' = GetFirstGapPos(c)
    BY <2>1 DEF FirstGap
  <2>4. GetFirstGapPos(b) \in Nat /\ GetFirstGapPos(c) \in Nat
    BY <2>2, FirstGapCorrect
  <2>5. GetFirstGapPos(b) <= GetFirstGapPos(c)
    BY <2>2, FirstGapMoves
  <2>6. pos \in Nat /\ startPos \in Nat /\ endPos \in Nat
    BY <1>1, <2>1, <2>2, SizeAssumption DEF Bitmaps, Positions
  <2>7. CASE pos \in b
    <3>1. pos < GetFirstGapPos(b) + limit
      BY <2>2, <2>3, <2>7 DEF WindowWithinLimit
    <3> QED
      BY <3>1, <2>1, <2>2, <2>3, <2>4, <2>5, <2>6
  <2>8. CASE pos \in startPos .. endPos /\ startPos = FirstGap
    <3>1. GetFirstGapPos(b) .. endPos \subseteq c
      BY <2>3, <2>8
    <3>2. endPos < GetFirstGapPos(c)
      BY <3>1, <2>2, FirstGapMoves
    <3> QED
      BY <3>2, <2>1, <2>2, <2>3, <2>4, <2>6, <2>8
  <2>9. CASE pos \in startPos .. endPos /\ startPos # FirstGap
    <3>1. ComputeDistortionDistance(<<startPos, endPos>>, FirstGap) <= limit
      BY <2>1, <2>2, <2>3, <2>9 DEF WithinDistortionLimit
    <3>2. <<startPos, endPos>> # NoRange
      BY DEF NoRange
    <3>3. endPos - GetFirstGapPos(b) + 1 <= limit
      BY <3>1, <3>2, <2>2, <2>3, <2>4, <2>6 DEF ComputeDistortionDistance
    <3> QED
      BY <3>3, <2>1, <2>2, <2>3, <2>4, <2>5, <2>6, <2>9
  <2> QED
    BY <1>1, <2>1, <2>7, <2>8, <2>9
<1>2. ASSUME Complete \/ UNCHANGED vars PROVE WindowWithinLimit'
  BY <1>2 DEF WindowWithinLimit, FirstGap, Complete, vars, constraintVars
<1>3. ASSUME NEW startPos \in Positions, NEW endPos \in Positions,
             Extend(startPos, endPos)
      PROVE  WindowWithinLimit'
  BY <1>1, <1>3 DEF WindowWithinLimit
<1> QED
  BY <1>2, <1>3 DEF Next

(* Under a distortion limit the words translated ahead of the first gap stay *)
(* within the limit of it, for every sentence, limit and constraint.         *)
THEOREM LimitCorrect == Spec => []WindowWithinLimit
<1>1. Init => WindowWithinLimit
  BY DEF Init, WindowWithinLimit
<1> QED
  BY <1>1, TypedCorrect, StepWithinLimit, PTL DEF Spec

-----------------------------------------------------------------------------
(* Check looks at one phrase: if a wall stands between the first gap and the *)
(* end of the phrase, the phrase starts at the first gap, so the words in    *)
(* front of the wall are translated with it (ReorderingConstraint::Check).   *)
LEMMA StepRespectsWalls ==
  Typed /\ WallsRespected /\ [Next]_vars => WallsRespected'
<1> SUFFICES ASSUME Typed, WallsRespected, [Next]_vars
             PROVE  WallsRespected'
  OBVIOUS
<1>1. ASSUME NEW startPos \in Positions, NEW endPos \in Positions,
             Extend(startPos, endPos),
             NEW wall \in m_wall, NEW pos \in m_sourceCompleted', pos > wall
      PROVE  0 .. wall \subseteq m_sourceCompleted'
  <2> DEFINE b == m_sourceCompleted
             gap == GetFirstGapPos(b)
  <2>1. /\ m_sourceCompleted' = b \cup (startPos .. endPos)
        /\ ~HitsWall(m_wall, b, startPos, endPos)
    BY <1>1 DEF Extend, Admissible, AdmissibleAfter, Check
  <2>2. /\ b \in Bitmaps
        /\ wall \in Nat /\ wall < m_size /\ startPos \in Nat /\ endPos \in Nat
    BY SizeAssumption DEF Typed, Bitmaps, Positions
  <2>3. /\ gap \in Nat
        /\ \A p \in Positions : p < gap => p \in b
    BY <2>2, FirstGapCorrect
  <2>4. CASE pos \in b
    BY <1>1, <2>1, <2>4 DEF WallsRespected
  <2>5. CASE wall < gap
    BY <2>1, <2>2, <2>3, <2>5, SizeAssumption DEF Positions
  <2>6. CASE pos \in startPos .. endPos /\ gap <= wall
    <3>1. wall \in gap .. endPos - 1
      BY <1>1, <2>2, <2>3, <2>6
    <3>2. startPos = gap
      BY <2>1, <3>1 DEF HitsWall
    <3> QED
      BY <2>1, <2>2, <2>3, <3>1, <3>2, SizeAssumption DEF Positions
  <2> QED
    BY <1>1, <2>1, <2>2, <2>3, <2>4, <2>5, <2>6
<1>2. ASSUME Complete \/ UNCHANGED vars PROVE WallsRespected'
  BY <1>2 DEF WallsRespected, Complete, vars, constraintVars
<1>3. ASSUME NEW startPos \in Positions, NEW endPos \in Positions,
             Extend(startPos, endPos)
      PROVE  WallsRespected'
  <2>1. m_wall' = m_wall
    BY <1>3 DEF Extend, constraintVars
  <2> QED
    BY <1>1, <1>3, <2>1 DEF WallsRespected
<1> QED
  BY <1>2, <1>3 DEF Next

(* No word behind a wall is translated before all those in front of it, for  *)
(* every sentence and every set of walls and zones.                          *)
THEOREM WallsCorrect == Spec => []WallsRespected
<1>1. Init => WallsRespected
  BY DEF Init, WallsRespected
<1> QED
  BY <1>1, TypedCorrect, StepRespectsWalls, PTL DEF Spec

-----------------------------------------------------------------------------
ZonesTyped == m_zone \in Seq(Positions \X Positions)

\* If the rest of a zone, from the start of the phrase, is as large as what is
\* untranslated of it, it is what is untranslated: the "overlap" of a phrase
\* that leaves the zone is compared with a count only.
LEMMA RestOfZone ==
  ASSUME NEW b \in Bitmaps, NEW zone \in Positions \X Positions,
         NEW startPos \in Positions, NEW endPos \in Positions,
         ~Overlap(b, startPos, endPos),
         startPos > ZoneStart(zone), endPos > ZoneEnd(zone),
         startPos <= ZoneEnd(zone),
         ZoneEnd(zone) - startPos + 1 >= Cardinality(ZoneWords(zone) \ b)
  PROVE  ZoneStart(zone) .. startPos - 1 \subseteq b
<1> DEFINE first == zone[1]
           last == zone[2]
           untranslated == (first .. last) \ b
           rest == startPos .. last
<1>1. first \in Int /\ last \in Int /\ startPos \in Int /\ endPos \in Int
  BY SizeAssumption DEF Positions
<1>2. /\ first < startPos /\ startPos <= last /\ last < endPos
      /\ last - startPos + 1 >= Cardinality(untranslated)
  BY DEF ZoneStart, ZoneEnd, ZoneWords
<1> HIDE DEF first, last
<1>3. rest \in SUBSET untranslated
  BY <1>1, <1>2 DEF Overlap
<1>4. IsFiniteSet(untranslated) /\ IsFiniteSet(rest)
  <2>1. IsFiniteSet(first .. last) /\ untranslated \in SUBSET (first .. last)
    BY <1>1, FS_Interval
  <2> QED BY <1>3, <2>1, FS_Subset
<1>5. Cardinality(rest) = last - startPos + 1
  BY <1>1, <1>2, FS_Interval
<1>6. /\ Cardinality(rest) <= Cardinality(untranslated)
      /\ Cardinality(untranslated) = Cardinality(rest) => untranslated = rest
  BY <1>3, <1>4, FS_Subset
<1>7. Cardinality(untranslated) \in Nat /\ Cardinality(rest) \in Nat
  BY <1>4, FS_CardinalityType
<1>8. untranslated = rest
  BY <1>2, <1>5, <1>6, <1>7
<1>9. first .. startPos - 1 \subseteq b
  BY <1>1, <1>2, <1>8
<1> QED BY <1>9 DEF ZoneStart, first

\* An admitted phrase leaves no word of a zone behind on the other side of one
\* of its walls (ReorderingConstraint::Check, in each of its cases).
LEMMA StepRespectsLocalWall ==
  ASSUME Typed, ZonesTyped, LocalWallsRespected,
         NEW startPos \in Positions, NEW endPos \in Positions,
         Extend(startPos, endPos),
         NEW z \in 1 .. Len(m_zone), NEW wall \in Positions, m_localWall[wall] = z,
         NEW pos \in m_sourceCompleted' \cap ZoneWords(m_zone[z]), pos > wall,
         NEW p \in ZoneStart(m_zone[z]) .. wall
  PROVE  p \in m_sourceCompleted'
<1> DEFINE b == m_sourceCompleted
           zone == m_zone[z]
           gap == GetFirstGapPos(b)
<1>1. /\ m_sourceCompleted' = b \cup (startPos .. endPos)
      /\ ~Overlap(b, startPos, endPos)
      /\ \/ Monotone(b, startPos)
         \/ ZoneAllows(m_localWall, zone, z, m_maxDistortion, b, startPos, endPos)
  BY DEF Extend, Admissible, AdmissibleAfter, Check
<1>2. b \in Bitmaps /\ zone \in Positions \X Positions
  BY DEF Typed, ZonesTyped
<1>3. /\ gap \in Nat
      /\ \A q \in Positions : q < gap => q \in b
  BY <1>2, FirstGapCorrect
<1>4. /\ ZoneStart(zone) \in Nat /\ ZoneEnd(zone) \in Nat /\ ZoneEnd(zone) < m_size
      /\ startPos \in Nat /\ endPos \in Nat /\ wall \in Nat
      /\ ZoneWords(zone) = ZoneStart(zone) .. ZoneEnd(zone)
  BY <1>2, SizeAssumption DEF Positions, ZoneStart, ZoneEnd, ZoneWords
<1>5. /\ pos \in Nat /\ wall < pos /\ ZoneStart(zone) <= pos /\ pos <= ZoneEnd(zone)
      /\ p \in Nat /\ ZoneStart(zone) <= p /\ p <= wall
      /\ p \in Positions
  BY <1>4, SizeAssumption DEF Positions
<1> HIDE DEF zone, gap
<1>6. CASE pos \in b
  <2>1. ZoneStart(zone) .. wall \subseteq b
    BY <1>5, <1>6 DEF LocalWallsRespected, zone
  <2> QED BY <1>1, <1>4, <1>5, <2>1
<1>7. CASE pos \in startPos .. endPos
  <2>1. p >= startPos => p \in startPos .. endPos
    BY <1>4, <1>5, <1>7
  <2>2. CASE Monotone(b, startPos)
    <3>1. startPos = gap
      <4>1. CASE b = {} /\ startPos = 0
        BY <1>3, <4>1, FirstGapCorrect, <1>2, SizeAssumption DEF Positions, gap
      <4>2. CASE GetFirstGapPos(b) = startPos
        BY <4>2 DEF gap
      <4> QED BY <2>2, <4>1, <4>2 DEF Monotone
    <3> QED BY <1>1, <1>3, <1>4, <1>5, <2>1, <3>1
  <2>3. CASE ZoneAllows(m_localWall, zone, z, m_maxDistortion, b, startPos, endPos)
    <3>1. CASE ZoneWords(zone) \ b = {}
      BY <1>1, <1>4, <1>5, <3>1
    <3>2. CASE /\ endPos < ZoneStart(zone) \/ startPos > ZoneEnd(zone)
      BY <1>4, <1>5, <1>7, <3>2
    <3>3. CASE startPos <= ZoneStart(zone)
      BY <1>1, <1>4, <1>5, <2>1, <3>3
    <3>4. CASE /\ startPos > ZoneStart(zone) /\ startPos <= ZoneEnd(zone)
               /\ endPos > ZoneEnd(zone)
               /\ ZoneEnd(zone) - startPos + 1 >= Cardinality(ZoneWords(zone) \ b)
      <4>1. ZoneStart(zone) .. startPos - 1 \subseteq b
        BY <1>1, <1>2, <3>4, RestOfZone
      <4> QED BY <1>1, <1>4, <1>5, <2>1, <4>1
    <3>5. CASE endPos <= ZoneEnd(zone)
               /\ ~HitsLocalWall(m_localWall, zone, z, b, startPos, endPos)
      <4>1. wall \in ZoneStart(zone) .. ZoneEnd(zone) - 1 /\ wall < endPos
        BY <1>4, <1>5, <1>7
      <4>2. ~(p \notin b /\ p < startPos)
        BY <1>4, <1>5, <3>5, <4>1 DEF HitsLocalWall
      <4> QED BY <1>1, <1>4, <1>5, <2>1, <4>2
    <3> QED BY <1>4, <2>3, <3>1, <3>2, <3>3, <3>4, <3>5 DEF ZoneAllows
  <2> QED BY <1>1, <2>2, <2>3
<1> QED BY <1>1, <1>6, <1>7

\* Every step respects the walls inside zones.
LEMMA StepRespectsLocalWalls ==
  Typed /\ ZonesTyped /\ LocalWallsRespected /\ [Next]_vars
    => ZonesTyped' /\ LocalWallsRespected'
<1> SUFFICES ASSUME Typed, ZonesTyped, LocalWallsRespected, [Next]_vars
             PROVE  ZonesTyped' /\ LocalWallsRespected'
  OBVIOUS
<1>1. ASSUME NEW startPos \in Positions, NEW endPos \in Positions,
             Extend(startPos, endPos)
      PROVE  ZonesTyped' /\ LocalWallsRespected'
  <2>1. m_zone' = m_zone /\ m_localWall' = m_localWall
    BY <1>1 DEF Extend, constraintVars
  <2>2. LocalWallsRespected'
    <3> SUFFICES ASSUME NEW z \in 1 .. Len(m_zone), NEW wall \in Positions,
                        m_localWall[wall] = z,
                        NEW pos \in m_sourceCompleted' \cap ZoneWords(m_zone[z]),
                        pos > wall, NEW p \in ZoneStart(m_zone[z]) .. wall
                 PROVE  p \in m_sourceCompleted'
      BY <2>1 DEF LocalWallsRespected
    <3> QED BY <1>1, StepRespectsLocalWall
  <2> QED BY <2>1, <2>2 DEF ZonesTyped
<1>2. ASSUME Complete \/ UNCHANGED vars PROVE ZonesTyped' /\ LocalWallsRespected'
  BY <1>2 DEF ZonesTyped, LocalWallsRespected, Complete, vars, constraintVars
<1> QED BY <1>1, <1>2 DEF Next

\* No word of a zone behind one of the zone's own walls is translated before
\* those in front of it, for every sentence, every list of zones, nested,
\* disjoint or overlapping, and every choice of the zone a wall belongs to.
THEOREM LocalWallsCorrect == Spec => []LocalWallsRespected
<1>1. Init => ZonesTyped /\ LocalWallsRespected
  BY ReorderingAssumption DEF Init, ZonesTyped, LocalWallsRespected
<1>2. Typed /\ ZonesTyped /\ LocalWallsRespected /\ [Next]_vars
        => ZonesTyped' /\ LocalWallsRespected'
  BY StepRespectsLocalWalls
<1> QED BY <1>1, <1>2, TypedCorrect, PTL DEF Spec

-----------------------------------------------------------------------------
\* The phrase that is translated while a zone is partly translated has a word
\* of that zone: where Check returns early because the translation is monotone
\* so far, the first gap is inside the zone.
LEMMA PhraseStaysInZone ==
  ASSUME NEW b \in Bitmaps, NEW zone \in Positions \X Positions, NEW z,
         NEW startPos \in Positions, NEW endPos \in Positions, startPos <= endPos,
         \/ Monotone(b, startPos)
         \/ ZoneAllows(m_localWall, zone, z, m_maxDistortion, b, startPos, endPos),
         ZoneWords(zone) \cap b # {}, ~(ZoneWords(zone) \subseteq b)
  PROVE  \E pos \in ZoneWords(zone) : startPos <= pos /\ pos <= endPos
<1> DEFINE first == ZoneStart(zone)
           last == ZoneEnd(zone)
<1>1. /\ first \in Int /\ last \in Int /\ last < m_size /\ first >= 0
      /\ startPos \in Int /\ endPos \in Int
      /\ ZoneWords(zone) = first .. last
  BY SizeAssumption DEF Positions, ZoneStart, ZoneEnd, ZoneWords
<1> HIDE DEF first, last
<1>2. CASE ZoneAllows(m_localWall, zone, z, m_maxDistortion, b, startPos, endPos)
  <2>1. ~(endPos < first \/ startPos > last)
    BY <1>2 DEF ZoneAllows, first, last
  <2>2. first <= last
    BY <1>1
  <2>3. CASE startPos >= first
    <3>1. startPos \in ZoneWords(zone)
      BY <1>1, <2>1, <2>3
    <3>2. startPos <= startPos
      BY <1>1
    <3> QED BY <3>1, <3>2, Zenon
  <2>4. CASE startPos < first
    <3>1. startPos <= first /\ first <= endPos
      BY <1>1, <2>1, <2>4
    <3>2. first \in ZoneWords(zone)
      BY <1>1, <2>2
    <3> QED BY <3>1, <3>2, Zenon
  <2> QED BY <1>1, <2>3, <2>4
<1>3. CASE Monotone(b, startPos)
  <2>1. /\ GetFirstGapPos(b) > Max(b) /\ startPos = GetFirstGapPos(b)
        /\ Max(b) \in b /\ \A x \in b : x <= Max(b)
    <3>1. b # {}
      OBVIOUS
    <3>2. Max(b) \in b /\ \A x \in b : x <= Max(b)
      BY <3>1, MaxOfPositions DEF Bitmaps
    <3> QED BY <1>3, <3>1, <3>2 DEF Monotone, GetLastPos
  <2>2. \A x \in Positions : x < startPos => x \in b
    BY <2>1, FirstGapCorrect
  <2>3. PICK x \in first .. last : x \in b
    BY <1>1
  <2>4. PICK y \in first .. last : y \notin b
    BY <1>1
  <2>5. x <= startPos
    <3>1. x \in Int /\ Max(b) \in Int
      <4>1. \A w \in b : w \in Int
        BY SizeAssumption DEF Bitmaps, Positions
      <4>2. x \in b
        BY <2>3
      <4> QED BY <2>1, <4>1, <4>2, Zenon
    <3>2. x <= Max(b)
      <4>1. x \in b
        BY <2>3
      <4> QED BY <2>1, <4>1, Zenon
    <3>3. startPos > Max(b)
      BY <2>1, Zenon
    <3> QED BY <1>1, <3>1, <3>2, <3>3
  <2>6. startPos <= y
    <3>1. y \in Positions /\ y \in Int
      BY <1>1, <2>4, SizeAssumption DEF Positions
    <3> QED BY <1>1, <2>2, <2>4, <3>1
  <2>7. startPos \in ZoneWords(zone)
    BY <1>1, <2>3, <2>4, <2>5, <2>6
  <2> QED BY <1>1, <2>7
<1> QED BY <1>2, <1>3

\* "once entered, need to finish": for every sentence and every list of zones,
\* no phrase outside a zone is translated while the zone is partly translated.
THEOREM ZonesCorrect == Spec => []ZoneNotLeft
<1>1. Init => ZonesTyped /\ ZoneNotLeft
  BY ReorderingAssumption DEF Init, ZonesTyped, ZoneNotLeft
<1>2. Typed /\ ZonesTyped /\ ZoneNotLeft /\ [Next]_vars => ZonesTyped' /\ ZoneNotLeft'
  <2> SUFFICES ASSUME Typed, ZonesTyped, ZoneNotLeft, [Next]_vars
               PROVE  ZonesTyped' /\ ZoneNotLeft'
    OBVIOUS
  <2>1. ASSUME NEW startPos \in Positions, NEW endPos \in Positions,
               Extend(startPos, endPos)
        PROVE  ZonesTyped' /\ ZoneNotLeft'
    <3>1. /\ m_zone' = m_zone
          /\ m_sourceCompleted' = m_sourceCompleted \cup (startPos .. endPos)
          /\ m_currSourceWordsRange' = <<startPos, endPos>>
          /\ startPos <= endPos
      BY <2>1 DEF Extend, constraintVars, Admissible, AdmissibleAfter
    <3>2. ASSUME NEW z \in 1 .. Len(m_zone),
                 ~(ZoneWords(m_zone[z]) \subseteq m_sourceCompleted'),
                 ZoneWords(m_zone[z]) \cap m_sourceCompleted' # {}
          PROVE  \E pos \in ZoneWords(m_zone[z]) : startPos <= pos /\ pos <= endPos
      <4>1. m_zone[z] \in Positions \X Positions /\ m_sourceCompleted \in Bitmaps
        BY DEF ZonesTyped, Typed
      <4>2. CASE ZoneWords(m_zone[z]) \cap m_sourceCompleted = {}
        BY <3>1, <3>2, <4>2
      <4>3. CASE ZoneWords(m_zone[z]) \cap m_sourceCompleted # {}
        <5>1. ~(ZoneWords(m_zone[z]) \subseteq m_sourceCompleted)
          BY <3>1, <3>2
        <5>2. \/ Monotone(m_sourceCompleted, startPos)
              \/ ZoneAllows(m_localWall, m_zone[z], z, m_maxDistortion,
                            m_sourceCompleted, startPos, endPos)
          BY <2>1 DEF Extend, Admissible, AdmissibleAfter, Check
        <5> QED BY <3>1, <4>1, <4>3, <5>1, <5>2, PhraseStaysInZone
      <4> QED BY <4>2, <4>3
    <3> QED BY <3>1, <3>2 DEF ZonesTyped, ZoneNotLeft
  <2>2. ASSUME Complete \/ UNCHANGED vars PROVE ZonesTyped' /\ ZoneNotLeft'
    BY <2>2 DEF ZonesTyped, ZoneNotLeft, Complete, vars, constraintVars
  <2> QED BY <2>1, <2>2 DEF Next
<1> QED BY <1>1, <1>2, TypedCorrect, PTL DEF Spec

-----------------------------------------------------------------------------
(* No hypothesis is stranded: whatever was translated so far, the distortion *)
(* limit, the walls and the zones admit some untranslated word next.  It     *)
(* holds for zones that are nested or disjoint in any number and order, as   *)
(* elements around the words are.  Two zones that cross, which only the span *)
(* attribute can make, may strand a hypothesis: then neither may be finished *)
(* before the other.                                                         *)

Within(inner, outer) ==
    ZoneStart(outer) <= ZoneStart(inner) /\ ZoneEnd(inner) <= ZoneEnd(outer)

\* The zones that elements without a span attribute make.
ElementZones(zones) ==
    /\ zones \in Seq(Positions \X Positions)
    /\ \A z \in 1 .. Len(zones) : ZoneStart(zones[z]) <= ZoneEnd(zones[z])
    /\ \A y, z \in 1 .. Len(zones) :
          \/ ZoneEnd(zones[y]) < ZoneStart(zones[z])
          \/ ZoneEnd(zones[z]) < ZoneStart(zones[y])
          \/ Within(zones[y], zones[z])
          \/ Within(zones[z], zones[y])

-----------------------------------------------------------------------------
(* Which zone a wall binds *)

\* A wall at pos stands between two words of the zone.
Holds(zone, pos) == ZoneStart(zone) <= pos /\ pos < ZoneEnd(zone)

\* What FinalizeWalls's loop has settled on after the first n zones: the
\* innermost of those that hold the wall, if there is one.
Innermost(zones, pos, assigned, n) ==
    \/ assigned = NOT_A_ZONE /\ \A z \in 1 .. n : ~Holds(zones[z], pos)
    \/ /\ assigned \in 1 .. n /\ Holds(zones[assigned], pos)
       /\ \A z \in 1 .. n : Holds(zones[z], pos) => Within(zones[assigned], zones[z])

\* One iteration keeps it so.
LEMMA InnerZoneKeeps ==
    ASSUME NEW zones, ElementZones(zones), NEW pos \in Int,
           NEW n \in 1 .. Len(zones), NEW assigned, Innermost(zones, pos, assigned, n - 1)
    PROVE  Innermost(zones, pos, InnerZone(zones, pos, assigned, n), n)
<1> DEFINE next == InnerZone(zones, pos, assigned, n)
<1>1. \A z \in 1 .. Len(zones) : ZoneStart(zones[z]) \in Int /\ ZoneEnd(zones[z]) \in Int
  BY SizeAssumption DEF ElementZones, Positions, ZoneStart, ZoneEnd
<1>2. n \in Nat /\ n \in 1 .. n /\ Len(zones) \in Nat
  BY DEF ElementZones
<1>3. \A z \in 1 .. n : z = n \/ z \in 1 .. n - 1
  BY <1>2
<1>4. \A z \in 1 .. n : z \in 1 .. Len(zones)
  BY <1>2
<1>5. \A z \in 1 .. n - 1 : z \in 1 .. n /\ z # NOT_A_ZONE
  BY <1>2 DEF NOT_A_ZONE
<1>6. CASE ~Holds(zones[n], pos)
  <2>1. next = assigned
    BY <1>6 DEF InnerZone, Holds
  <2>2. CASE assigned = NOT_A_ZONE
    <3>1. \A z \in 1 .. n - 1 : ~Holds(zones[z], pos)
      BY <2>2, <1>5 DEF Innermost
    <3> QED BY <1>3, <1>6, <2>1, <2>2, <3>1 DEF Innermost
  <2>3. CASE assigned # NOT_A_ZONE
    <3>1. assigned \in 1 .. n - 1 /\ Holds(zones[assigned], pos)
          /\ \A z \in 1 .. n - 1 : Holds(zones[z], pos) => Within(zones[assigned], zones[z])
      BY <2>3 DEF Innermost
    <3> QED BY <1>3, <1>5, <1>6, <2>1, <3>1 DEF Innermost
  <2> QED BY <2>2, <2>3
<1>7. CASE Holds(zones[n], pos) /\ assigned = NOT_A_ZONE
  <2>1. next = n
    BY <1>7 DEF InnerZone, Holds
  <2>2. \A z \in 1 .. n - 1 : ~Holds(zones[z], pos)
    BY <1>7, <1>5 DEF Innermost
  <2>3. Within(zones[n], zones[n])
    BY <1>1 DEF Within
  <2> QED BY <1>2, <1>3, <1>7, <2>1, <2>2, <2>3 DEF Innermost
<1>8. CASE Holds(zones[n], pos) /\ assigned # NOT_A_ZONE
  <2>1. assigned \in 1 .. n - 1 /\ Holds(zones[assigned], pos)
        /\ \A z \in 1 .. n - 1 : Holds(zones[z], pos) => Within(zones[assigned], zones[z])
    BY <1>8 DEF Innermost
  <2>2. assigned \in 1 .. n /\ assigned \in 1 .. Len(zones)
    BY <1>4, <1>5, <2>1
  <2>3. Within(zones[n], zones[assigned]) \/ Within(zones[assigned], zones[n])
    <3>1. \/ ZoneEnd(zones[n]) < ZoneStart(zones[assigned])
          \/ ZoneEnd(zones[assigned]) < ZoneStart(zones[n])
          \/ Within(zones[n], zones[assigned])
          \/ Within(zones[assigned], zones[n])
      BY <2>2 DEF ElementZones
    <3>2. /\ ZoneStart(zones[n]) <= pos /\ pos < ZoneEnd(zones[n])
          /\ ZoneStart(zones[assigned]) <= pos /\ pos < ZoneEnd(zones[assigned])
      BY <1>8, <2>1 DEF Holds
    <3> QED BY <1>1, <2>2, <3>1, <3>2
  <2>4. CASE Within(zones[assigned], zones[n])
    <3>1. next = assigned
      <4>1. ~(\/ ZoneStart(zones[assigned]) < ZoneStart(zones[n])
              \/ ZoneEnd(zones[assigned]) > ZoneEnd(zones[n]))
        BY <1>1, <2>2, <2>4 DEF Within
      <4> QED BY <4>1, <1>8 DEF InnerZone
    <3> QED BY <1>3, <2>1, <2>2, <2>4, <3>1 DEF Innermost
  <2>5. CASE ~Within(zones[assigned], zones[n])
    <3>1. next = n
      <4>1. \/ ZoneStart(zones[assigned]) < ZoneStart(zones[n])
            \/ ZoneEnd(zones[assigned]) > ZoneEnd(zones[n])
        BY <1>1, <2>2, <2>5 DEF Within
      <4> QED BY <4>1, <1>8 DEF InnerZone, Holds
    <3>2. Within(zones[n], zones[assigned])
      BY <2>3, <2>5
    <3>3. ASSUME NEW z \in 1 .. n, Holds(zones[z], pos) PROVE Within(zones[n], zones[z])
      <4>1. CASE z = n
        BY <1>1, <4>1 DEF Within
      <4>2. CASE z \in 1 .. n - 1
        <5>1. Within(zones[assigned], zones[z])
          BY <2>1, <3>3, <4>2
        <5> QED BY <1>1, <1>4, <2>2, <3>2, <5>1 DEF Within
      <4> QED BY <1>3, <4>1, <4>2
    <3> QED BY <1>2, <1>8, <3>1, <3>3 DEF Innermost
  <2> QED BY <2>4, <2>5
<1> QED BY <1>6, <1>7, <1>8

\* f is the results of the loop for the first n zones.
LoopResults(zones, pos, n, f) ==
    f = [z \in 0 .. n |->
            IF z = 0 THEN NOT_A_ZONE ELSE InnerZone(zones, pos, f[z - 1], z)]

\* There are such results, for any number of zones.
LEMMA LoopDefined ==
    ASSUME NEW zones, NEW pos, NEW number \in Nat
    PROVE  \E f : LoopResults(zones, pos, number, f)
<1> DEFINE Upto(n, f) == LoopResults(zones, pos, n, f)
           missing == {n \in Nat : ~\E f : Upto(n, f)}
<1>1. missing = {}
  <2>1. SUFFICES ASSUME missing # {} PROVE FALSE
    OBVIOUS
  <2>2. PICK n \in missing : \A y \in missing : ~(<<y, n>> \in OpToRel(<, Nat))
    <3>1. missing \subseteq Nat
      OBVIOUS
    <3> HIDE DEF missing
    <3> QED BY <2>1, <3>1, NatLessThanWellFounded, WFMin, Zenon
  <2>3. n # 0
    <3>1. Upto(0, [z \in 0 .. 0 |-> NOT_A_ZONE])
      BY DEF LoopResults
    <3> HIDE DEF Upto
    <3> QED BY <2>2, <3>1
  <2>4. n \in Nat /\ n - 1 \in Nat /\ n - 1 < n
    <3>1. n \in Nat
      BY <2>2, Zenon
    <3> QED BY <2>3, <3>1
  <2>5. n - 1 \notin missing
    BY <2>2, <2>4 DEF OpToRel
  <2>6. PICK f : Upto(n - 1, f)
    BY <2>4, <2>5
  <2>7. Upto(n, [z \in 0 .. n |-> IF z = n THEN InnerZone(zones, pos, f[n - 1], n) ELSE f[z]])
    <3> DEFINE g == [z \in 0 .. n |->
                        IF z = n THEN InnerZone(zones, pos, f[n - 1], n) ELSE f[z]]
    <3>1. g[n - 1] = f[n - 1]
      BY <2>4
    <3>2. ASSUME NEW z \in 0 .. n
          PROVE  g[z] = IF z = 0 THEN NOT_A_ZONE ELSE InnerZone(zones, pos, g[z - 1], z)
      <4>1. CASE z = n
        BY <2>3, <2>4, <3>1, <4>1
      <4>2. CASE z # n
        <5>1. z \in 0 .. n - 1 /\ g[z] = f[z]
          BY <2>4, <4>2
        <5>2. f[z] = IF z = 0 THEN NOT_A_ZONE ELSE InnerZone(zones, pos, f[z - 1], z)
          BY <2>6, <5>1 DEF LoopResults
        <5>3. z # 0 => g[z - 1] = f[z - 1]
          BY <2>4, <5>1
        <5> QED BY <5>1, <5>2, <5>3
      <4> QED BY <4>1, <4>2
    <3> QED BY <3>2 DEF LoopResults
  <2> HIDE DEF Upto
  <2> QED BY <2>2, <2>7
<1> HIDE DEF Upto
<1>2. ~(~\E f : Upto(number, f))
  BY <1>1
<1> QED BY <1>2 DEF Upto

\* A wall inside zones that nest binds the innermost of them, in whatever order
\* the zones were set (ReorderingConstraint::FinalizeWalls).
LEMMA WallZoneInnermost ==
    ASSUME NEW zones, ElementZones(zones), NEW pos \in Int
    PROVE  Innermost(zones, pos, WallZone(zones, pos), Len(zones))
<1> DEFINE Loop(f) == LoopResults(zones, pos, Len(zones), f)
           assigned == CHOOSE f : Loop(f)
           wrong == {n \in 0 .. Len(zones) : ~Innermost(zones, pos, assigned[n], n)}
<1>1. zones \in Seq(Positions \X Positions) /\ Len(zones) \in Nat
  BY DEF ElementZones
<1>2. Loop(assigned)
  <2>1. \E f : Loop(f)
    BY <1>1, LoopDefined
  <2> HIDE DEF Loop
  <2> QED BY <2>1
<1>3. WallZone(zones, pos) = assigned[Len(zones)]
  BY DEF WallZone, LoopResults
<1> HIDE DEF assigned
<1>4. wrong = {}
  <2>1. SUFFICES ASSUME wrong # {} PROVE FALSE
    OBVIOUS
  <2>2. PICK n \in wrong : \A y \in wrong : ~(<<y, n>> \in OpToRel(<, Nat))
    <3>1. wrong \subseteq Nat
      BY <1>1
    <3> HIDE DEF wrong
    <3> QED BY <2>1, <3>1, NatLessThanWellFounded, WFMin, Zenon
  <2>3. n \in 0 .. Len(zones) /\ ~Innermost(zones, pos, assigned[n], n)
    BY <2>2
  <2>4. n # 0
    <3>1. assigned[0] = NOT_A_ZONE
      BY <1>1, <1>2 DEF LoopResults
    <3> QED BY <2>3, <3>1 DEF Innermost
  <2>5. n \in 1 .. Len(zones) /\ n - 1 \in 0 .. Len(zones) /\ n - 1 \in Nat /\ n \in Nat
        /\ n - 1 < n
    BY <1>1, <2>3, <2>4
  <2>6. Innermost(zones, pos, assigned[n - 1], n - 1)
    BY <2>2, <2>5 DEF OpToRel
  <2>7. assigned[n] = InnerZone(zones, pos, assigned[n - 1], n)
    BY <1>2, <2>3, <2>4 DEF LoopResults
  <2> HIDE DEF Loop
  <2> QED BY <2>3, <2>5, <2>6, <2>7, InnerZoneKeeps
<1> QED BY <1>1, <1>3, <1>4

-----------------------------------------------------------------------------
(* What keeps a hypothesis from being stranded *)

ZoneIds == 1 .. Len(m_zone)
Touches(zone, range) == \E pos \in ZoneWords(zone) : range[1] <= pos /\ pos <= range[2]

\* A wall inside a zone is none for the whole sentence, and binds no zone around it.
WallsPlaced ==
    \A z \in ZoneIds, pos \in Positions :
        Holds(m_zone[z], pos) =>
            /\ pos \notin m_wall
            /\ \A y \in ZoneIds : m_localWall[pos] = y => Within(m_zone[y], m_zone[z])

\* The last phrase has been translated.
LastTranslated ==
    m_sourceCompleted # {} =>
        \E startPos, endPos \in Positions :
            /\ startPos <= endPos /\ startPos .. endPos \subseteq m_sourceCompleted
            /\ m_currSourceWordsRange = <<startPos, endPos>>

\* The jump to the first gap is short enough.
JumpBackShort ==
    m_maxDistortion >= 0 /\ ~IsComplete(m_sourceCompleted) =>
        ComputeDistortionDistance(m_currSourceWordsRange, FirstGap) <= m_maxDistortion

\* A zone with translated words beyond the first gap ends within the limit of it.
ZonesShort ==
    m_maxDistortion >= 0 =>
        \A z \in ZoneIds : \A pos \in m_sourceCompleted \cap ZoneWords(m_zone[z]) :
            pos > FirstGap => ZoneEnd(m_zone[z]) - FirstGap < m_maxDistortion

\* A zone the last phrase leaves behind is finished.
ZonesFinished ==
    m_sourceCompleted # {} =>
        \A z \in ZoneIds :
            /\ Touches(m_zone[z], m_currSourceWordsRange)
            /\ m_currSourceWordsRange[2] > ZoneEnd(m_zone[z])
            => ZoneWords(m_zone[z]) \subseteq m_sourceCompleted

\* TLC finds it to hold; with what the other theorems say it implies NoDeadEnd.
WayAheadInv ==
    /\ ElementZones(m_zone)
    /\ WallsPlaced
    /\ LastTranslated
    /\ JumpBackShort
    /\ ZonesShort
    /\ ZonesFinished

-----------------------------------------------------------------------------
(* It holds at first, and every phrase keeps it *)

\* FinalizeWalls places the walls.
LEMMA WallsArePlaced ==
    ASSUME NEW walls, NEW zones, ElementZones(zones),
           NEW z \in 1 .. Len(zones), NEW pos \in Positions, Holds(zones[z], pos)
    PROVE  /\ pos \notin GlobalWalls(walls, zones)
           /\ \A y \in 1 .. Len(zones) :
                 LocalWalls(walls, zones)[pos] = y => Within(zones[y], zones[z])
<1> DEFINE inner == WallZone(zones, pos)
<1>1. pos \in Int /\ Len(zones) \in Nat
  BY SizeAssumption DEF Positions, ElementZones
<1>2. Innermost(zones, pos, inner, Len(zones))
  BY <1>1, WallZoneInnermost
<1> HIDE DEF inner
<1>3. inner # NOT_A_ZONE /\ Within(zones[inner], zones[z])
  BY <1>1, <1>2 DEF Innermost, NOT_A_ZONE
<1>4. pos \notin GlobalWalls(walls, zones)
  BY <1>3 DEF GlobalWalls, inner
<1>5. ASSUME NEW y \in 1 .. Len(zones), LocalWalls(walls, zones)[pos] = y
      PROVE  y = inner
  <2>1. y # NOT_A_ZONE
    BY <1>1 DEF NOT_A_ZONE
  <2>2. y = IF pos \in walls THEN inner ELSE NOT_A_ZONE
    BY <1>5 DEF LocalWalls, inner
  <2> QED BY <2>1, <2>2
<1> QED BY <1>3, <1>4, <1>5

\* The walls and zones of the input start as WayAheadInv says.
LEMMA InitWayAhead ==
    ASSUME \A zones \in ZoneLists : ElementZones(zones) PROVE Init => WayAheadInv
<1> SUFFICES ASSUME Init PROVE WayAheadInv
  OBVIOUS
<1>1. /\ m_zone \in ZoneLists /\ m_sourceCompleted = {}
      /\ m_currSourceWordsRange = NoRange
  BY DEF Init
<1>2. PICK walls : m_wall = GlobalWalls(walls, m_zone) /\ m_localWall = LocalWalls(walls, m_zone)
  BY DEF Init
<1>3. ElementZones(m_zone)
  BY <1>1
<1>4. WallsPlaced
  BY <1>2, <1>3, WallsArePlaced DEF WallsPlaced, ZoneIds
<1>5. JumpBackShort
  <2>1. GetFirstGapPos({}) = 0
    <3>1. {} \in Bitmaps /\ 0 \in Positions
      BY SizeAssumption DEF Bitmaps, Positions
    <3>2. /\ GetFirstGapPos({}) \in Nat
          /\ \A pos \in Positions : pos < GetFirstGapPos({}) => pos \in {}
      BY <3>1, FirstGapCorrect
    <3> QED BY <3>1, <3>2
  <2>2. ComputeDistortionDistance(m_currSourceWordsRange, FirstGap) = 0
    BY <1>1, <2>1 DEF ComputeDistortionDistance, FirstGap
  <2> QED BY <2>2, InitTyped DEF JumpBackShort, Typed
<1> QED BY <1>1, <1>3, <1>4, <1>5 DEF WayAheadInv, LastTranslated, ZonesShort, ZonesFinished

\* The first gap after a phrase: it stays unless the phrase fills it, and then
\* all words up to the new one are translated.
LEMMA GapAfter ==
    ASSUME NEW b \in Bitmaps, NEW startPos \in Positions, NEW endPos \in Positions,
           GetFirstGapPos(b) <= startPos, startPos <= endPos
    PROVE  LET c == b \cup (startPos .. endPos)
               gap == GetFirstGapPos(b)
           IN  /\ c \in Bitmaps /\ gap \in Positions \ b
               /\ \A pos \in Positions : pos < gap => pos \in b
               /\ startPos # gap => GetFirstGapPos(c) = gap /\ gap \notin c
               /\ startPos = gap => endPos < GetFirstGapPos(c)
               /\ gap <= GetFirstGapPos(c)
<1> DEFINE c == b \cup (startPos .. endPos)
           gap == GetFirstGapPos(b)
           next == GetFirstGapPos(c)
<1>1. startPos .. endPos \subseteq Positions /\ startPos \in Nat /\ endPos \in Nat
      /\ startPos < m_size /\ m_size \in Nat
  BY SizeAssumption DEF Positions
<1>2. c \in Bitmaps /\ b \subseteq c
  BY <1>1 DEF Bitmaps
<1>3. /\ gap \in Nat
      /\ \A pos \in Positions : pos < gap => pos \in b
      /\ (b = Positions /\ gap = m_size + 1) \/ gap \in Positions \ b
  BY FirstGapCorrect
<1>4. /\ next \in Nat
      /\ \A pos \in Positions : pos < next => pos \in c
      /\ (c = Positions /\ next = m_size + 1) \/ next \in Positions \ c
  BY <1>2, FirstGapCorrect
<1>5. gap <= next /\ (gap .. endPos \subseteq c => endPos < next)
  BY <1>2, FirstGapMoves
<1>6. gap <= startPos
  OBVIOUS
<1>7. startPos = gap => gap .. endPos \subseteq c
  OBVIOUS
<1> HIDE DEF gap, next
<1>8. gap \in Positions \ b
  BY <1>1, <1>3, <1>6
<1>9. startPos # gap => gap \notin c
  BY <1>1, <1>3, <1>6, <1>8
<1> HIDE DEF c
<1>10. startPos # gap => next = gap
  BY <1>3, <1>4, <1>5, <1>8, <1>9
<1> QED BY <1>2, <1>3, <1>5, <1>7, <1>8, <1>9, <1>10 DEF c, gap, next

\* Check's zones: a phrase that goes beyond a zone it touches finishes it.
LEMMA ZoneFinished ==
    ASSUME NEW b \in Bitmaps, NEW zone \in Positions \X Positions, NEW z,
           NEW startPos \in Positions, NEW endPos \in Positions, startPos <= endPos,
           GetFirstGapPos(b) <= startPos, ~Overlap(b, startPos, endPos),
           \/ startPos = GetFirstGapPos(b)
           \/ ZoneAllows(m_localWall, zone, z, m_maxDistortion, b, startPos, endPos),
           Touches(zone, <<startPos, endPos>>), endPos > ZoneEnd(zone)
    PROVE  ZoneWords(zone) \subseteq b \cup (startPos .. endPos)
<1> DEFINE first == ZoneStart(zone)
           last == ZoneEnd(zone)
           gap == GetFirstGapPos(b)
<1>1. /\ first \in Nat /\ last \in Nat /\ last < m_size
      /\ startPos \in Nat /\ endPos \in Nat
      /\ ZoneWords(zone) = first .. last
  BY SizeAssumption DEF Positions, ZoneStart, ZoneEnd, ZoneWords
<1>2. /\ gap \in Nat
      /\ \A pos \in Positions : pos < gap => pos \in b
  BY FirstGapCorrect
<1>3. \A pos \in first .. last : pos \in Positions
  BY <1>1, SizeAssumption DEF Positions
<1>4. PICK pos \in first .. last : startPos <= pos /\ pos <= endPos
  BY <1>1 DEF Touches
<1>5. endPos > last
  OBVIOUS
<1>6. CASE startPos = gap
  <2> HIDE DEF first, last, gap
  <2> QED BY <1>1, <1>2, <1>3, <1>5, <1>6
<1>7. CASE ZoneAllows(m_localWall, zone, z, m_maxDistortion, b, startPos, endPos)
  <2>1. CASE ZoneWords(zone) \ b = {}
    BY <2>1
  <2>2. CASE startPos <= first
    <3> HIDE DEF first, last
    <3> QED BY <1>1, <1>5, <2>2
  <2>3. CASE /\ startPos > first
             /\ ZoneEnd(zone) - startPos + 1 >= Cardinality(ZoneWords(zone) \ b)
    <3>1. startPos <= last
      <4> HIDE DEF first, last
      <4> QED BY <1>1, <1>4
    <3>2. first .. startPos - 1 \subseteq b
      <4>1. endPos > last
        BY <1>5
      <4> QED BY <2>3, <3>1, <4>1, RestOfZone
    <3> HIDE DEF first, last
    <3> QED BY <1>1, <1>5, <3>2
  <2>4. ~(endPos < first) /\ ~(startPos > last) /\ ~(endPos <= last)
    <3> HIDE DEF first, last
    <3> QED BY <1>1, <1>4, <1>5
  <2> QED BY <1>1, <1>7, <2>1, <2>2, <2>3, <2>4 DEF ZoneAllows
<1> QED BY <1>6, <1>7

\* A phrase of a zone that is not finished is refused ahead of the first gap,
\* if from the gap the end of the zone is out of reach.
LEMMA ZoneInReach ==
    ASSUME NEW zone, NEW z, NEW b, NEW startPos \in Positions, NEW endPos \in Positions,
           ZoneAllows(m_localWall, zone, z, m_maxDistortion, b, startPos, endPos),
           startPos # GetFirstGapPos(b), m_maxDistortion >= 0,
           NEW pos \in ZoneWords(zone) \ b, zone \in Positions \X Positions,
           startPos <= pos, pos <= endPos
    PROVE  ~(ZoneEnd(zone) - GetFirstGapPos(b) >= m_maxDistortion)
<1>1. ~(endPos < ZoneStart(zone) \/ startPos > ZoneEnd(zone))
  BY SizeAssumption DEF Positions, ZoneStart, ZoneEnd, ZoneWords
<1> QED BY <1>1 DEF ZoneAllows

\* A translation that is monotone so far goes on at the first gap.
LEMMA MonotoneAtGap ==
    ASSUME NEW b \in Bitmaps, NEW startPos \in Positions, Monotone(b, startPos),
           GetFirstGapPos(b) <= startPos
    PROVE  startPos = GetFirstGapPos(b)
<1>1. GetFirstGapPos(b) \in Nat
  BY FirstGapCorrect
<1> QED BY <1>1, SizeAssumption DEF Monotone, Positions

\* An extension that Check and the distortion limit admit keeps WayAheadInv.
LEMMA PhraseWayAhead ==
    ASSUME Typed, WindowWithinLimit, WayAheadInv,
           NEW startPos \in Positions, NEW endPos \in Positions, Extend(startPos, endPos)
    PROVE  WayAheadInv'
<1> DEFINE b == m_sourceCompleted
           c == b \cup (startPos .. endPos)
           gap == GetFirstGapPos(b)
           next == GetFirstGapPos(c)
           limit == m_maxDistortion
<1>1. /\ m_sourceCompleted' = c
      /\ m_currSourceWordsRange' = <<startPos, endPos>>
      /\ UNCHANGED <<m_maxDistortion, m_wall, m_localWall, m_zone>>
      /\ gap <= startPos /\ startPos <= endPos
      /\ ~Overlap(b, startPos, endPos)
      /\ WithinDistortionLimit(b, m_currSourceWordsRange, startPos, endPos)
      /\ \/ Monotone(b, startPos)
         \/ \A z \in ZoneIds :
               ZoneAllows(m_localWall, m_zone[z], z, limit, b, startPos, endPos)
  BY DEF Extend, Admissible, AdmissibleAfter, Check, constraintVars, ZoneIds
<1>2. b \in Bitmaps /\ limit \in Int
  BY DEF Typed
<1>3. /\ c \in Bitmaps /\ gap \in Positions \ b
      /\ \A pos \in Positions : pos < gap => pos \in b
      /\ startPos # gap => next = gap /\ gap \notin c
      /\ startPos = gap => endPos < next
      /\ gap <= next
  BY <1>1, <1>2, GapAfter
<1>4. FirstGap = gap /\ FirstGap' = next
  BY <1>1 DEF FirstGap
<1>5. /\ startPos \in Nat /\ endPos \in Nat /\ gap \in Nat /\ next \in Nat
      /\ \A pos \in b \cup c : pos \in Nat /\ pos \in Positions
  BY <1>2, <1>3, FirstGapCorrect, SizeAssumption DEF Positions, Bitmaps
<1>6. \A z \in ZoneIds :
         /\ m_zone[z] \in Positions \X Positions
         /\ ZoneStart(m_zone[z]) \in Int /\ ZoneEnd(m_zone[z]) \in Int
  BY SizeAssumption DEF WayAheadInv, ElementZones, ZoneIds, Positions, ZoneStart, ZoneEnd
<1>7. startPos # gap =>
         \A z \in ZoneIds : ZoneAllows(m_localWall, m_zone[z], z, limit, b, startPos, endPos)
  BY <1>1, <1>2, MonotoneAtGap
<1>8. ElementZones(m_zone)' /\ WallsPlaced'
  BY <1>1 DEF WayAheadInv, ElementZones, WallsPlaced, ZoneIds
<1>9. LastTranslated'
  <2>1. startPos .. endPos \subseteq c
    OBVIOUS
  <2> HIDE DEF c
  <2> QED BY <1>1, <2>1 DEF LastTranslated
<1>10. JumpBackShort'
  <2> SUFFICES ASSUME limit >= 0, c # Positions
               PROVE  ComputeDistortionDistance(<<startPos, endPos>>, next) <= limit
    BY <1>1, <1>4 DEF JumpBackShort, IsComplete
  <2>1. <<startPos, endPos>> # NoRange
    BY DEF NoRange
  <2>2. CASE startPos # gap
    BY <1>1, <1>2, <1>3, <2>2 DEF WithinDistortionLimit
  <2>3. CASE startPos = gap
    <3>1. next \in Positions \ c /\ \A pos \in Positions : pos < next => pos \in c
      BY <1>3, FirstGapCorrect
    <3>2. next - endPos - 1 <= limit
      <4>1. CASE next = endPos + 1
        BY <1>2, <1>5, <4>1
      <4>2. CASE next > endPos + 1
        <5>1. next - 1 \in Positions /\ next - 1 < next
          BY <1>5, <3>1, <4>2, SizeAssumption DEF Positions
        <5>2. next - 1 \in b
          <6>1. next - 1 \in c
            BY <3>1, <5>1
          <6>2. next - 1 \notin startPos .. endPos
            <7> HIDE DEF next
            <7> QED BY <1>5, <4>2
          <6> QED BY <6>1, <6>2
        <5>3. next - 1 < gap + limit
          BY <1>4, <5>2 DEF WindowWithinLimit
        <5> HIDE DEF gap, next, limit
        <5> QED BY <1>1, <1>2, <1>5, <2>3, <5>3
      <4> QED BY <1>3, <1>5, <2>3, <4>1, <4>2
    <3>3. endPos - next + 1 <= 0
      BY <1>3, <1>5, <2>3
    <3> HIDE DEF next, limit
    <3> QED BY <1>2, <1>5, <2>1, <3>2, <3>3 DEF ComputeDistortionDistance
  <2> QED BY <2>2, <2>3
<1>11. ZonesShort'
  <2> SUFFICES ASSUME limit >= 0, NEW z \in ZoneIds,
                      NEW pos \in c \cap ZoneWords(m_zone[z]), pos > next
               PROVE  ZoneEnd(m_zone[z]) - next < limit
    BY <1>1, <1>4 DEF ZonesShort, ZoneIds
  <2>1. ZoneEnd(m_zone[z]) - gap < limit
    <3>1. CASE pos \in b
      <4>1. pos > gap
        <5> HIDE DEF gap, next
        <5> QED BY <1>3, <1>5
      <4> QED BY <1>4, <3>1, <4>1 DEF WayAheadInv, ZonesShort
    <3>2. CASE pos \notin b
      <4>1. pos \in startPos .. endPos
        BY <3>2
      <4>2. startPos # gap
        <5> HIDE DEF gap, next, c
        <5> QED BY <1>3, <1>5, <4>1
      <4>3. startPos <= pos /\ pos <= endPos
        BY <1>5, <4>1
      <4>4. ~(ZoneEnd(m_zone[z]) - gap >= limit)
        BY <1>6, <1>7, <3>2, <4>2, <4>3, ZoneInReach
      <4> HIDE DEF gap, limit
      <4> QED BY <1>2, <1>5, <1>6, <4>4
    <3> QED BY <3>1, <3>2
  <2> HIDE DEF gap, next, limit
  <2> QED BY <1>2, <1>3, <1>5, <1>6, <2>1
<1>12. ZonesFinished'
  <2> SUFFICES ASSUME NEW z \in ZoneIds, Touches(m_zone[z], <<startPos, endPos>>),
                      endPos > ZoneEnd(m_zone[z])
               PROVE  ZoneWords(m_zone[z]) \subseteq c
    BY <1>1 DEF ZonesFinished, ZoneIds, Touches
  <2> QED BY <1>1, <1>2, <1>6, <1>7, ZoneFinished
<1> QED BY <1>8, <1>9, <1>10, <1>11, <1>12 DEF WayAheadInv

\* Every step keeps WayAheadInv.
LEMMA StepWayAhead ==
    Typed /\ WindowWithinLimit /\ WayAheadInv /\ [Next]_vars => WayAheadInv'
<1> SUFFICES ASSUME Typed, WindowWithinLimit, WayAheadInv, [Next]_vars PROVE WayAheadInv'
  OBVIOUS
<1>1. ASSUME Complete \/ UNCHANGED vars PROVE WayAheadInv'
  <2>1. UNCHANGED <<m_maxDistortion, m_wall, m_localWall, m_zone, m_sourceCompleted,
                    m_currSourceWordsRange>>
    BY <1>1 DEF Complete, vars, constraintVars
  <2> QED BY <2>1 DEF WayAheadInv, ElementZones, WallsPlaced, LastTranslated, JumpBackShort,
                      ZonesShort, ZonesFinished, ZoneIds, Touches, FirstGap
<1> QED BY <1>1, PhraseWayAhead DEF Next

-----------------------------------------------------------------------------
(* Then some word can come next *)

\* The zone has been entered and is not finished.
Entered(z) ==
    /\ ZoneWords(m_zone[z]) \cap m_sourceCompleted # {}
    /\ ~(ZoneWords(m_zone[z]) \subseteq m_sourceCompleted)

\* What ElementZones says of numbers.
LEMMA ZoneBounds ==
    ASSUME ElementZones(m_zone), NEW z \in ZoneIds
    PROVE  /\ m_zone[z] \in Positions \X Positions
           /\ ZoneStart(m_zone[z]) \in Nat /\ ZoneEnd(m_zone[z]) \in Nat
           /\ ZoneEnd(m_zone[z]) < m_size
           /\ ZoneWords(m_zone[z]) = ZoneStart(m_zone[z]) .. ZoneEnd(m_zone[z])
           /\ ZoneWords(m_zone[z]) \subseteq Positions
<1>1. m_zone[z] \in Positions \X Positions
  BY DEF ElementZones, ZoneIds
<1>2. /\ ZoneStart(m_zone[z]) \in Nat /\ ZoneEnd(m_zone[z]) \in Nat
      /\ ZoneEnd(m_zone[z]) < m_size
      /\ ZoneWords(m_zone[z]) = ZoneStart(m_zone[z]) .. ZoneEnd(m_zone[z])
  BY <1>1, SizeAssumption DEF Positions, ZoneStart, ZoneEnd, ZoneWords
<1>3. ZoneWords(m_zone[z]) \subseteq Positions
  BY <1>2, SizeAssumption DEF Positions
<1> QED BY <1>1, <1>2, <1>3

\* Zones that have been entered and are not finished are inside one another.
LEMMA EnteredZonesNest ==
    ASSUME ZoneNotLeft, WayAheadInv, NEW y \in ZoneIds, NEW z \in ZoneIds,
           Entered(y), Entered(z)
    PROVE  Within(m_zone[y], m_zone[z]) \/ Within(m_zone[z], m_zone[y])
<1>1. m_sourceCompleted # {}
  BY DEF Entered
<1>2. PICK startPos \in Positions, endPos \in Positions :
         m_currSourceWordsRange = <<startPos, endPos>>
  BY <1>1 DEF WayAheadInv, LastTranslated
<1>3. ASSUME NEW x \in ZoneIds, Entered(x)
      PROVE  Touches(m_zone[x], m_currSourceWordsRange) /\ ~(endPos > ZoneEnd(m_zone[x]))
  <2>1. Touches(m_zone[x], m_currSourceWordsRange)
    BY <1>3 DEF ZoneNotLeft, Touches, Entered, ZoneIds
  <2>2. m_currSourceWordsRange[2] = endPos
    BY <1>2
  <2> QED BY <1>1, <1>3, <2>1, <2>2 DEF WayAheadInv, ZonesFinished, Entered
<1>4. ASSUME NEW u \in ZoneIds, NEW v \in ZoneIds, Entered(u), Entered(v)
      PROVE  ~(ZoneEnd(m_zone[u]) < ZoneStart(m_zone[v]))
  <2>1. PICK pos \in ZoneWords(m_zone[v]) : pos <= endPos
    BY <1>2, <1>3, <1>4 DEF Touches
  <2>2. ~(endPos > ZoneEnd(m_zone[u]))
    BY <1>3, <1>4
  <2> QED BY <2>1, <2>2, ZoneBounds, SizeAssumption DEF WayAheadInv, Positions
<1>5. \/ ZoneEnd(m_zone[y]) < ZoneStart(m_zone[z])
      \/ ZoneEnd(m_zone[z]) < ZoneStart(m_zone[y])
      \/ Within(m_zone[y], m_zone[z])
      \/ Within(m_zone[z], m_zone[y])
  BY DEF WayAheadInv, ElementZones, ZoneIds
<1> QED BY <1>4, <1>5

\* So one of them is inside all others.
LEMMA InnermostEntered ==
    ASSUME ZoneNotLeft, WayAheadInv, NEW some \in ZoneIds, Entered(some)
    PROVE  \E z \in ZoneIds :
               Entered(z) /\ \A y \in ZoneIds : Entered(y) => Within(m_zone[z], m_zone[y])
<1> DEFINE size(z) == ZoneEnd(m_zone[z]) - ZoneStart(m_zone[z])
           sizes == {size(z) : z \in {y \in ZoneIds : Entered(y)}}
<1>1. \A z \in ZoneIds : /\ ZoneStart(m_zone[z]) \in Nat /\ ZoneEnd(m_zone[z]) \in Nat
                         /\ ZoneStart(m_zone[z]) <= ZoneEnd(m_zone[z])
  BY ZoneBounds DEF WayAheadInv, ElementZones, ZoneIds
<1>2. sizes \subseteq Nat /\ sizes # {}
  BY <1>1
<1> HIDE DEF sizes
<1>3. PICK n \in sizes : \A m \in sizes : ~(<<m, n>> \in OpToRel(<, Nat))
  BY <1>2, NatLessThanWellFounded, WFMin, Zenon
<1>4. PICK z \in ZoneIds : Entered(z) /\ n = size(z)
  BY <1>3 DEF sizes
<1>5. ASSUME NEW y \in ZoneIds, Entered(y) PROVE Within(m_zone[z], m_zone[y])
  <2>1. size(y) \in sizes
    BY <1>5 DEF sizes
  <2>2. ~(size(y) < size(z))
    <3>1. size(y) \in Nat /\ n \in Nat
      BY <1>2, <1>3, <2>1
    <3>2. ~(<<size(y), n>> \in OpToRel(<, Nat))
      BY <1>3, <2>1
    <3> QED BY <1>4, <3>1, <3>2 DEF OpToRel
  <2>3. Within(m_zone[y], m_zone[z]) \/ Within(m_zone[z], m_zone[y])
    BY <1>4, <1>5, EnteredZonesNest
  <2> QED BY <1>1, <2>2, <2>3 DEF Within
<1> QED BY <1>4, <1>5

\* The first untranslated word of the zone that is inside all others can come
\* next: the first gap, or a word ahead of it that the zone's end bounds.
LEMMA GapCanFollow ==
    ASSUME Typed, WayAheadInv, ~IsComplete(m_sourceCompleted),
           \A z \in ZoneIds : Entered(z) => FirstGap \in ZoneWords(m_zone[z])
    PROVE  FirstGap \in Positions /\ Admissible(FirstGap, FirstGap)
<1> DEFINE b == m_sourceCompleted
           gap == FirstGap
<1>1. /\ gap \in Positions \ b /\ gap = GetFirstGapPos(b)
      /\ \A pos \in Positions : pos < gap => pos \in b
  BY FirstGapCorrect DEF Typed, IsComplete, FirstGap
<1>2. gap \in Nat /\ gap < m_size /\ gap .. gap = {gap}
  BY <1>1, SizeAssumption DEF Positions
<1> HIDE DEF gap
<1>3. ~HitsWall(m_wall, b, gap, gap)
  BY <1>1 DEF HitsWall
<1>4. ASSUME NEW z \in ZoneIds
      PROVE  ZoneAllows(m_localWall, m_zone[z], z, m_maxDistortion, b, gap, gap)
  <2> DEFINE first == ZoneStart(m_zone[z])
             last == ZoneEnd(m_zone[z])
  <2>1. /\ first \in Nat /\ last \in Nat /\ last < m_size
        /\ ZoneWords(m_zone[z]) = first .. last
        /\ ZoneWords(m_zone[z]) \subseteq Positions
    BY ZoneBounds DEF WayAheadInv
  <2>2. CASE gap \in first .. last
    <3>1. ~(gap < first \/ gap > last) /\ gap <= last
      BY <1>2, <2>1, <2>2
    <3>2. ~HitsLocalWall(m_localWall, m_zone[z], z, b, gap, gap)
      <4> SUFFICES ASSUME NEW pos \in first .. last - 1, pos < gap,
                          NEW p \in first .. pos, p \notin b
                   PROVE  FALSE
        BY DEF HitsLocalWall
      <4> HIDE DEF first, last
      <4>1. p \in Positions /\ p < gap
        BY <1>2, <2>1, SizeAssumption DEF Positions
      <4> QED BY <1>1, <4>1
    <3> QED BY <1>1, <3>1, <3>2 DEF ZoneAllows
  <2>3. CASE gap \notin first .. last
    <3>1. gap < first \/ gap > last
      <4> HIDE DEF first, last
      <4> QED BY <1>2, <2>1, <2>3
    <3>2. \/ ZoneWords(m_zone[z]) \ b = {}
          \/ ZoneWords(m_zone[z]) \ b = ZoneWords(m_zone[z])
      <4>1. ~Entered(z)
        BY <2>1, <2>3 DEF gap
      <4> QED BY <4>1 DEF Entered
    <3> QED BY <3>1, <3>2 DEF ZoneAllows
  <2> QED BY <2>2, <2>3
<1>5. WithinDistortionLimit(b, m_currSourceWordsRange, gap, gap)
  BY <1>1 DEF WithinDistortionLimit, WayAheadInv, JumpBackShort, gap, Typed
<1>6. Admissible(gap, gap)
  <2>1. gap < gap + MaxPhraseLength /\ gap <= gap
    BY <1>2, ReorderingAssumption
  <2>2. ~Overlap(b, gap, gap)
    BY <1>1, <1>2 DEF Overlap
  <2> QED BY <1>1, <1>2, <1>3, <1>4, <1>5, <2>1, <2>2
          DEF Admissible, AdmissibleAfter, Check, ZoneIds
<1> QED BY <1>1, <1>6 DEF gap

\* While words are left, one of them may come next as a phrase of its own.
LEMMA AheadCanFollow ==
    ASSUME Typed, WindowWithinLimit, WallsRespected, LocalWallsRespected, ZoneNotLeft,
           WayAheadInv, ~IsComplete(m_sourceCompleted), NEW inner \in ZoneIds, Entered(inner),
           \A y \in ZoneIds : Entered(y) => Within(m_zone[inner], m_zone[y]),
           NEW pos \in ZoneWords(m_zone[inner]) \ m_sourceCompleted, pos # FirstGap,
           \A p \in ZoneWords(m_zone[inner]) : p < pos => p \in m_sourceCompleted
    PROVE  Admissible(pos, pos)
<1> DEFINE b == m_sourceCompleted
           gap == FirstGap
           limit == m_maxDistortion
           first == ZoneStart(m_zone[inner])
           last == ZoneEnd(m_zone[inner])
<1>1. /\ gap \in Positions \ b /\ gap = GetFirstGapPos(b)
      /\ \A p \in Positions : p < gap => p \in b
  BY FirstGapCorrect DEF Typed, IsComplete, FirstGap
<1>2. gap \in Nat /\ limit \in Int
  BY <1>1, SizeAssumption DEF Positions, Typed
<1>3. /\ first \in Nat /\ last \in Nat /\ last < m_size
      /\ ZoneWords(m_zone[inner]) = first .. last
      /\ ZoneWords(m_zone[inner]) \subseteq Positions
  BY ZoneBounds DEF WayAheadInv
<1>4. pos \in Positions \ b /\ pos \in Nat /\ first <= pos /\ pos <= last
  BY <1>3
<1> HIDE DEF gap, first, last, limit
<1>5. gap < pos
  BY <1>1, <1>2, <1>4 DEF gap
<1>6. gap < first
  <2>1. CASE gap >= first
    <3>1. gap \in first .. last
      BY <1>2, <1>3, <1>4, <1>5, <2>1
    <3> QED BY <1>1, <1>3, <1>5, <3>1
  <2> QED BY <1>2, <1>3, <2>1
<1>7. PICK done \in first .. last : done \in b
  BY <1>3 DEF Entered
<1>8. done \in Nat /\ first <= done /\ done <= last /\ gap < done /\ done \in Positions
  BY <1>2, <1>3, <1>6, <1>7
<1>9. ASSUME NEW z \in ZoneIds, Within(m_zone[inner], m_zone[z])
      PROVE  /\ done \in ZoneWords(m_zone[z]) /\ pos \in ZoneWords(m_zone[z])
             /\ limit >= 0 => ZoneEnd(m_zone[z]) - gap < limit
  <2>1. /\ ZoneStart(m_zone[z]) \in Nat /\ ZoneEnd(m_zone[z]) \in Nat
        /\ ZoneWords(m_zone[z]) = ZoneStart(m_zone[z]) .. ZoneEnd(m_zone[z])
    BY ZoneBounds DEF WayAheadInv
  <2>2. ZoneStart(m_zone[z]) <= first /\ last <= ZoneEnd(m_zone[z])
    BY <1>9 DEF Within, first, last
  <2>3. done \in ZoneWords(m_zone[z]) /\ pos \in ZoneWords(m_zone[z])
    BY <1>3, <1>4, <1>8, <2>1, <2>2
  <2>4. limit >= 0 => ZoneEnd(m_zone[z]) - gap < limit
    BY <1>7, <1>8, <2>3 DEF WayAheadInv, ZonesShort, gap, limit
  <2> QED BY <2>3, <2>4
<1>10. limit >= 0 => last - gap < limit
  <2>1. Within(m_zone[inner], m_zone[inner])
    BY <1>3 DEF Within, first, last
  <2> QED BY <1>9, <2>1 DEF last
<1>11. ~HitsWall(m_wall, b, pos, pos)
  <2> SUFFICES ASSUME NEW wall \in gap .. pos - 1, wall \in m_wall PROVE FALSE
    BY <1>1 DEF HitsWall
  <2>1. wall \in Nat /\ gap <= wall /\ wall < pos /\ wall \in Positions
    BY <1>2, <1>4, SizeAssumption DEF Positions
  <2>2. CASE wall < done
    <3>1. 0 .. wall \subseteq b
      BY <1>7, <1>8, <2>1, <2>2 DEF WallsRespected
    <3>2. gap \in 0 .. wall
      BY <1>2, <2>1
    <3> QED BY <1>1, <3>1, <3>2
  <2>3. CASE done <= wall
    <3>1. Holds(m_zone[inner], wall)
      <4>1. first <= wall /\ wall < last
        BY <1>3, <1>4, <1>8, <2>1, <2>3
      <4> QED BY <4>1 DEF Holds, first, last
    <3> QED BY <2>1, <3>1 DEF WayAheadInv, WallsPlaced
  <2> QED BY <1>8, <2>1, <2>2, <2>3
<1>12. ASSUME NEW z \in ZoneIds
       PROVE  ZoneAllows(m_localWall, m_zone[z], z, m_maxDistortion, b, pos, pos)
  <2> DEFINE zs == ZoneStart(m_zone[z])
             ze == ZoneEnd(m_zone[z])
  <2>1. /\ zs \in Nat /\ ze \in Nat /\ ze < m_size
        /\ ZoneWords(m_zone[z]) = zs .. ze
        /\ ZoneWords(m_zone[z]) \subseteq Positions
    BY ZoneBounds DEF WayAheadInv
  <2> HIDE DEF zs, ze
  <2>2. CASE Entered(z)
    <3>1. Within(m_zone[inner], m_zone[z])
      BY <2>2
    <3>2. done \in zs .. ze /\ pos \in zs .. ze /\ (limit >= 0 => ze - gap < limit)
      BY <1>9, <2>1, <3>1 DEF ze
    <3>3. ~HitsLocalWall(m_localWall, m_zone[z], z, b, pos, pos)
      <4> SUFFICES ASSUME NEW wall \in zs .. ze - 1, wall < pos, m_localWall[wall] = z,
                          NEW p \in zs .. wall, p \notin b, p < pos
                   PROVE  FALSE
        BY DEF HitsLocalWall, zs, ze
      <4>1. wall \in Nat /\ wall \in Positions /\ zs <= wall /\ p \in Nat /\ zs <= p
        BY <2>1, SizeAssumption DEF Positions
      <4>2. CASE wall < done
        <5>1. done \in b \cap ZoneWords(m_zone[z]) /\ done > wall
          BY <1>7, <1>8, <2>1, <3>2, <4>1, <4>2
        <5>2. zs .. wall \subseteq b
          BY <4>1, <5>1 DEF LocalWallsRespected, ZoneIds, zs
        <5> QED BY <5>2
      <4>3. CASE done <= wall
        <5>1. Holds(m_zone[inner], wall)
          <6>1. first <= wall /\ wall < last
            BY <1>3, <1>4, <1>8, <4>1, <4>3
          <6> QED BY <6>1 DEF Holds, first, last
        <5>2. first <= zs
          BY <4>1, <5>1 DEF WayAheadInv, WallsPlaced, Within, first, zs
        <5>3. p \in first .. last
          <6>1. zs <= p /\ p < pos /\ p \in Nat /\ zs \in Nat
            BY <2>1, <4>1
          <6> QED BY <1>3, <1>4, <5>2, <6>1
        <5> QED BY <1>3, <5>3
      <4> QED BY <1>8, <4>1, <4>2, <4>3
    <3>4. ~(pos < zs \/ pos > ze) /\ pos <= ze
      BY <1>4, <2>1, <3>2
    <3>5. ~(limit >= 0 /\ ze - gap >= limit)
      BY <1>2, <2>1, <3>2
    <3> QED BY <1>1, <3>3, <3>4, <3>5 DEF ZoneAllows, zs, ze, limit
  <2>3. CASE ~Entered(z)
    <3>1. CASE ZoneWords(m_zone[z]) \ b = {}
      BY <3>1 DEF ZoneAllows
    <3>2. CASE zs .. ze \cap b = {} /\ pos \notin zs .. ze
      <4>1. pos < zs \/ pos > ze
        BY <1>4, <2>1, <3>2
      <4>2. ZoneWords(m_zone[z]) \ b = ZoneWords(m_zone[z])
        BY <2>1, <3>2
      <4> QED BY <4>1, <4>2 DEF ZoneAllows, zs, ze
    <3>3. CASE zs .. ze \cap b = {} /\ pos \in zs .. ze
      <4>1. \/ ze < first \/ last < zs
            \/ Within(m_zone[inner], m_zone[z]) \/ Within(m_zone[z], m_zone[inner])
        BY DEF WayAheadInv, ElementZones, ZoneIds, zs, ze, first, last
      <4>2. ~(ze < first) /\ ~(last < zs)
        BY <1>3, <1>4, <2>1, <3>3
      <4>3. ~Within(m_zone[inner], m_zone[z])
        BY <1>7, <1>9, <2>1, <3>3
      <4>4. first <= zs /\ ze <= last
        BY <4>1, <4>2, <4>3 DEF Within, zs, ze, first, last
      <4>5. zs <= pos /\ pos <= ze
        BY <1>4, <2>1, <3>3
      <4>6. ~(zs < pos)
        <5> SUFFICES ASSUME zs < pos PROVE FALSE
          OBVIOUS
        <5>1. zs \in first .. last /\ zs \in zs .. ze
          BY <1>3, <1>4, <2>1, <4>4, <4>5
        <5> QED BY <1>3, <3>3, <5>1
      <4>7. ~(pos < zs \/ pos > ze) /\ pos <= zs
        BY <1>4, <2>1, <4>5, <4>6
      <4>8. ~(limit >= 0 /\ ze - gap >= limit)
        BY <1>2, <1>3, <1>10, <2>1, <4>4
      <4> QED BY <1>1, <4>7, <4>8 DEF ZoneAllows, zs, ze, limit
    <3> QED BY <2>1, <2>3, <3>1, <3>2, <3>3 DEF Entered
  <2> QED BY <2>2, <2>3
<1>13. WithinDistortionLimit(b, m_currSourceWordsRange, pos, pos)
  <2> SUFFICES ASSUME limit >= 0
               PROVE  /\ ComputeDistortionDistance(m_currSourceWordsRange, pos) <= limit
                      /\ ComputeDistortionDistance(<<pos, pos>>, gap) <= limit
    BY <1>1, <1>2 DEF WithinDistortionLimit, limit
  <2>1. last - gap < limit
    BY <1>10
  <2>2. ComputeDistortionDistance(<<pos, pos>>, gap) <= limit
    <3>1. pos - gap + 1 <= limit
      BY <1>2, <1>3, <1>4, <2>1
    <3>2. <<pos, pos>> # NoRange
      BY DEF NoRange
    <3> QED BY <1>2, <1>4, <1>5, <3>1, <3>2 DEF ComputeDistortionDistance
  <2>3. PICK s \in Positions, e \in Positions :
           s <= e /\ s .. e \subseteq b /\ m_currSourceWordsRange = <<s, e>>
    BY <1>7 DEF WayAheadInv, LastTranslated
  <2>4. s \in Nat /\ e \in Nat /\ e \in b
    BY <2>3, SizeAssumption DEF Positions
  <2>5. e >= first
    <3>1. PICK p \in ZoneWords(m_zone[inner]) : p <= e
      BY <2>3 DEF ZoneNotLeft, Entered, ZoneIds
    <3> QED BY <1>3, <2>4, <3>1
  <2>6. e < gap + limit
    BY <2>4 DEF WindowWithinLimit, gap, limit
  <2>7. <<s, e>> # NoRange
    BY DEF NoRange
  <2>8. /\ e - pos + 1 <= limit
        /\ -(e - pos + 1) <= limit
    BY <1>2, <1>3, <1>4, <1>5, <1>6, <2>1, <2>4, <2>5, <2>6
  <2>9. ComputeDistortionDistance(<<s, e>>, pos) <= limit
    BY <2>7, <2>8 DEF ComputeDistortionDistance
  <2> QED BY <2>2, <2>3, <2>9
<1>14. Admissible(pos, pos)
  <2>1. pos .. pos = {pos}
    BY <1>4
  <2>2. ~Overlap(b, pos, pos)
    BY <1>4, <2>1 DEF Overlap
  <2>3. pos < m_size /\ pos < pos + MaxPhraseLength /\ pos <= pos /\ gap <= pos
    BY <1>2, <1>4, <1>5, SizeAssumption, ReorderingAssumption DEF Positions
  <2> QED BY <1>1, <1>11, <1>12, <1>13, <2>2, <2>3
          DEF Admissible, AdmissibleAfter, Check, ZoneIds
<1> QED BY <1>14

\* WayAheadInv leaves no translation without an extension.
LEMMA WayAheadSuffices ==
    ASSUME Typed, WindowWithinLimit, WallsRespected, LocalWallsRespected, ZoneNotLeft,
           WayAheadInv
    PROVE  NoDeadEnd
<1> SUFFICES ASSUME ~IsComplete(m_sourceCompleted)
             PROVE  \E pos \in Positions : Admissible(pos, pos)
  BY DEF NoDeadEnd
<1>1. CASE \A z \in ZoneIds : Entered(z) => FirstGap \in ZoneWords(m_zone[z])
  BY <1>1, GapCanFollow
<1>2. CASE \E z \in ZoneIds : Entered(z) /\ FirstGap \notin ZoneWords(m_zone[z])
  <2>1. PICK z \in ZoneIds :
           Entered(z) /\ \A y \in ZoneIds : Entered(y) => Within(m_zone[z], m_zone[y])
    BY <1>2, InnermostEntered
  <2> DEFINE left == ZoneWords(m_zone[z]) \ m_sourceCompleted
  <2>2. left \in SUBSET Positions /\ left # {}
    BY <2>1, ZoneBounds DEF Entered, WayAheadInv
  <2>3. Min(left) \in left /\ \A x \in left : Min(left) <= x
    BY <2>2, MinOfPositions
  <2>4. PICK pos \in left : \A x \in left : pos <= x
    BY <2>3
  <2>5. ASSUME NEW p \in ZoneWords(m_zone[z]), p < pos PROVE p \in m_sourceCompleted
    <3>1. p \in Nat /\ pos \in Nat
      BY <2>2, ZoneBounds, SizeAssumption DEF WayAheadInv, Positions
    <3>2. ~(pos <= p)
      BY <2>5, <3>1
    <3> QED BY <2>4, <3>2
  <2>6. CASE pos # FirstGap
    <3>1. Admissible(pos, pos)
      BY <2>1, <2>5, <2>6, AheadCanFollow
    <3> QED BY <2>2, <3>1
  <2>7. CASE pos = FirstGap
    <3>1. ASSUME NEW y \in ZoneIds, Entered(y) PROVE FirstGap \in ZoneWords(m_zone[y])
      <4>1. Within(m_zone[z], m_zone[y])
        BY <2>1, <3>1
      <4>2. pos \in ZoneWords(m_zone[z])
        OBVIOUS
      <4> QED BY <2>7, <4>1, <4>2, ZoneBounds DEF WayAheadInv, Within
    <3> QED BY <3>1, GapCanFollow
  <2> QED BY <2>6, <2>7
<1> QED BY <1>1, <1>2

\* No hypothesis is stranded, for any sentence, limit, phrases and walls, and
\* any zones that nest: as long as words are untranslated, the distortion limit
\* and the reordering constraint admit one of them next
\* (SearchNormal::ProcessOneHypothesis, ReorderingConstraint::Check).
THEOREM AlwaysAWayAhead ==
    ASSUME \A zones \in ZoneLists : ElementZones(zones)
    PROVE  Spec => []NoDeadEnd
<1>1. Init => WayAheadInv
  BY InitWayAhead
<1>2. Typed /\ WindowWithinLimit /\ WayAheadInv /\ [Next]_vars => WayAheadInv'
  BY StepWayAhead
<1>3. Typed /\ WindowWithinLimit /\ WallsRespected /\ LocalWallsRespected /\ ZoneNotLeft
        /\ WayAheadInv => NoDeadEnd
  BY WayAheadSuffices
<1> QED BY <1>1, <1>2, <1>3, TypedCorrect, LimitCorrect, WallsCorrect, LocalWallsCorrect,
           ZonesCorrect, PTL DEF Spec

-----------------------------------------------------------------------------
(* What the id of a bitmap tells of it                                       *)

\* From 0, step by step, to n.
LEMMA Stepwise ==
    ASSUME NEW n \in Nat, NEW P, 0 \in P, \A k \in 1 .. n : k - 1 \in P => k \in P
    PROVE  0 .. n \subseteq P
<1> DEFINE missing == {k \in 0 .. n : k \notin P}
<1> SUFFICES ASSUME missing # {} PROVE FALSE
  OBVIOUS
<1>1. missing \subseteq Nat
  OBVIOUS
<1>2. PICK k \in missing : \A j \in missing : ~(<<j, k>> \in OpToRel(<, Nat))
  <2> HIDE DEF missing
  <2> QED BY <1>1, NatLessThanWellFounded, WFMin, Zenon
<1>3. k \in 1 .. n /\ k - 1 \in 0 .. n /\ k - 1 \in Nat /\ k \in Nat /\ k - 1 < k
  OBVIOUS
<1>4. k - 1 \notin missing
  BY <1>2, <1>3 DEF OpToRel
<1> QED BY <1>3, <1>4

Bit(b, pos) == IF pos \in b THEN 1 ELSE 0

\* id holds the values of GetID's variable id, up to its n-th digit.
LoopOfId(b, end, n, id) ==
    id = [i \in 0 .. n |-> IF i = 0 THEN 0 ELSE 2 * id[i - 1] + Bit(b, end - i + 1)]

\* There are such values, for any number of digits.
LEMMA LoopOfIdDefined ==
    ASSUME NEW b, NEW end, NEW n \in Nat
    PROVE  \E id : LoopOfId(b, end, n, id)
<1> DEFINE P == {k \in Nat : \E id : LoopOfId(b, end, k, id)}
<1>1. 0 \in P
  <2>1. LoopOfId(b, end, 0, [i \in 0 .. 0 |-> 0])
    BY DEF LoopOfId
  <2> QED BY <2>1
<1>2. ASSUME NEW k \in 1 .. n, k - 1 \in P PROVE k \in P
  <2>1. PICK f : LoopOfId(b, end, k - 1, f)
    BY <1>2
  <2> DEFINE g == [i \in 0 .. k |-> IF i = k THEN 2 * f[k - 1] + Bit(b, end - k + 1) ELSE f[i]]
  <2>2. k \in Nat /\ k # 0 /\ k - 1 \in 0 .. k - 1
    OBVIOUS
  <2>3. g[k - 1] = f[k - 1]
    BY <2>2
  <2>4. ASSUME NEW i \in 0 .. k
        PROVE  g[i] = IF i = 0 THEN 0 ELSE 2 * g[i - 1] + Bit(b, end - i + 1)
    <3>1. CASE i = k
      BY <2>2, <2>3, <3>1
    <3>2. CASE i # k
      <4>1. i \in 0 .. k - 1 /\ g[i] = f[i]
        BY <2>2, <3>2
      <4>2. f[i] = IF i = 0 THEN 0 ELSE 2 * f[i - 1] + Bit(b, end - i + 1)
        BY <2>1, <4>1 DEF LoopOfId
      <4>3. i # 0 => g[i - 1] = f[i - 1]
        BY <2>2, <4>1
      <4> QED BY <4>1, <4>2, <4>3
    <3> QED BY <3>1, <3>2
  <2>5. LoopOfId(b, end, k, g)
    BY <2>4 DEF LoopOfId
  <2> QED BY <2>2, <2>5
<1> HIDE DEF P
<1>3. 0 .. n \subseteq P
  BY <1>1, <1>2, Stepwise
<1> QED BY <1>3 DEF P

\* Each turn of the loop doubles the id and adds a digit.
ValuesOfId(b, end, n, id) ==
    /\ id \in [0 .. n -> Nat]
    /\ Digits(b, end, n) = id[n]
    /\ id[0] = 0
    /\ \A i \in 1 .. n : id[i] = 2 * id[i - 1] + Bit(b, end - i + 1)

LEMMA LoopOfIdCorrect ==
    ASSUME NEW b, NEW end \in Int, NEW n \in Nat, n > 0
    PROVE  \E id : ValuesOfId(b, end, n, id)
<1> DEFINE id == CHOOSE f : LoopOfId(b, end, n, f)
           P == {k \in Nat : k <= n => id[k] \in Nat}
<1>1. LoopOfId(b, end, n, id)
  BY LoopOfIdDefined
<1>2. Digits(b, end, n) = id[n]
  BY DEF Digits, LoopOfId, Bit
<1> HIDE DEF id
<1>3. /\ id = [i \in 0 .. n |-> id[i]]
      /\ id[0] = 0
      /\ \A i \in 1 .. n : id[i] = 2 * id[i - 1] + Bit(b, end - i + 1)
  <2>1. id = [i \in 0 .. n |-> IF i = 0 THEN 0 ELSE 2 * id[i - 1] + Bit(b, end - i + 1)]
    BY <1>1 DEF LoopOfId
  <2>2. id = [i \in 0 .. n |-> id[i]]
    BY <2>1, Zenon
  <2>3. \A i \in 0 .. n : id[i] = IF i = 0 THEN 0 ELSE 2 * id[i - 1] + Bit(b, end - i + 1)
    BY <2>1, Zenon
  <2>4. 0 \in 0 .. n /\ \A i \in 1 .. n : i \in 0 .. n /\ i # 0
    OBVIOUS
  <2> QED BY <2>2, <2>3, <2>4, Zenon
<1>4. 0 \in P
  BY <1>3
<1>5. ASSUME NEW k \in 1 .. n, k - 1 \in P PROVE k \in P
  <2>1. k - 1 <= n /\ k \in Nat
    OBVIOUS
  <2>2. id[k - 1] \in Nat
    BY <1>5, <2>1
  <2>3. id[k] = 2 * id[k - 1] + Bit(b, end - k + 1)
    BY <1>3
  <2>4. id[k] \in Nat
    BY <2>2, <2>3 DEF Bit
  <2> QED BY <2>1, <2>4
<1>6. 0 .. n \subseteq P
  <2> HIDE DEF P
  <2> QED BY <1>4, <1>5, Stepwise
<1>7. id \in [0 .. n -> Nat]
  BY <1>3, <1>6
<1>8. ValuesOfId(b, end, n, id)
  BY <1>2, <1>3, <1>7 DEF ValuesOfId
<1> QED BY <1>8

\* The id counts from a word that is not translated, behind translated ones only,
\* to the last that is (WordsBitmap::GetFirstGapPos, GetLastPos).
LEMMA IdRange ==
    ASSUME NEW b \in Bitmaps
    PROVE  /\ IdStart(b) \in Nat /\ IdStart(b) \notin b
           /\ \A pos \in Positions : pos < IdStart(b) => pos \in b
           /\ IdEnd(b) \in Nat
           /\ \A pos \in b : pos <= IdEnd(b)
<1>1. /\ IdStart(b) \in Nat /\ IdStart(b) \notin b
      /\ \A pos \in Positions : pos < IdStart(b) => pos \in b
  <2>1. CASE b = Positions
    BY <2>1, SizeAssumption DEF IdStart, IsComplete, Positions
  <2>2. CASE b # Positions
    <3>1. IdStart(b) = GetFirstGapPos(b)
      BY <2>2 DEF IdStart, IsComplete
    <3> QED BY <2>2, <3>1, FirstGapCorrect
  <2> QED BY <2>1, <2>2
<1>2. IdEnd(b) \in Nat /\ \A pos \in b : pos <= IdEnd(b)
  <2>1. CASE b = {}
    BY <2>1 DEF IdEnd
  <2>2. CASE b # {}
    <3>1. IdEnd(b) = Max(b)
      BY <2>2 DEF IdEnd, GetLastPos
    <3>2. Max(b) \in b /\ \A pos \in b : pos <= Max(b)
      BY <2>2, MaxOfPositions DEF Bitmaps
    <3>3. b \subseteq Nat
      BY SizeAssumption DEF Bitmaps, Positions
    <3> QED BY <3>1, <3>2, <3>3
  <2> QED BY <2>1, <2>2
<1> QED BY <1>1, <1>2

\* d[pos] is the number that the words of b from pos on stand for.
Reads(b, d) ==
    /\ d \in [Nat -> Nat]
    /\ \A pos \in Nat : pos > IdEnd(b) => d[pos] = 0
    /\ \A pos \in Nat : pos > IdStart(b) => d[pos] = 2 * d[pos + 1] + Bit(b, pos)
    /\ Pattern(b, IdStart(b), IdEnd(b)) = d[IdStart(b) + 1]

\* GetID's pattern reads the words behind the first gap, the nearest lowest.
LEMMA PatternReads ==
    ASSUME NEW b \in Bitmaps
    PROVE  \E d : Reads(b, d)
<1> DEFINE start == IdStart(b)
           end == IdEnd(b)
<1>1. /\ start \in Nat /\ end \in Nat
      /\ \A pos \in b : pos <= end
  BY IdRange
<1>2. b \subseteq Nat
  BY SizeAssumption DEF Bitmaps, Positions
<1>3. CASE end <= start
  <2> DEFINE d == [pos \in Nat |-> 0]
  <2>1. Pattern(b, start, end) = 0
    <3>1. ~(end - start > 0)
      BY <1>1, <1>3
    <3> QED BY <3>1 DEF Pattern, Digits
  <2>2. \A pos \in Nat : pos > start => Bit(b, pos) = 0
    <3> HIDE DEF start, end
    <3> QED BY <1>1, <1>3 DEF Bit
  <2>3. start + 1 \in Nat /\ \A pos \in Nat : pos + 1 \in Nat
    BY <1>1
  <2>4. Reads(b, d)
    BY <2>1, <2>2, <2>3 DEF Reads
  <2> QED BY <2>4
<1>4. CASE start < end
  <2> DEFINE n == end - start
  <2>1. n \in Nat /\ n > 0
    BY <1>1, <1>4
  <2>2. PICK id : ValuesOfId(b, end, n, id)
    <3>1. end \in Int /\ n \in Nat /\ n > 0
      BY <1>1, <2>1
    <3> HIDE DEF n, end
    <3> QED BY <3>1, LoopOfIdCorrect
  <2>3. /\ id \in [0 .. n -> Nat]
        /\ Digits(b, end, n) = id[n]
        /\ id[0] = 0
        /\ \A i \in 1 .. n : id[i] = 2 * id[i - 1] + Bit(b, end - i + 1)
    BY <2>2 DEF ValuesOfId
  <2> DEFINE d == [pos \in Nat |->
                      IF start < pos /\ pos <= end THEN id[end - pos + 1] ELSE 0]
  <2>4. Pattern(b, start, end) = id[n]
    BY <2>3 DEF Pattern
  <2> HIDE DEF start, end
  <2>5. d \in [Nat -> Nat]
    <3>1. ASSUME NEW pos \in Nat, start < pos, pos <= end PROVE id[end - pos + 1] \in Nat
      <4>1. end - pos + 1 \in 0 .. n
        BY <1>1, <3>1
      <4> HIDE DEF n
      <4> QED BY <2>3, <4>1
    <3> QED BY <3>1
  <2>6. \A pos \in Nat : pos > end => d[pos] = 0
    BY <1>1
  <2>7. d[start + 1] = id[n]
    BY <1>1, <1>4
  <2>8. ASSUME NEW pos \in Nat, pos > start
        PROVE  d[pos] = 2 * d[pos + 1] + Bit(b, pos)
    <3>1. CASE pos > end
      <4>1. d[pos] = 0 /\ d[pos + 1] = 0
        BY <1>1, <3>1
      <4>2. Bit(b, pos) = 0
        BY <1>1, <3>1 DEF Bit
      <4> QED BY <4>1, <4>2
    <3>2. CASE pos <= end
      <4> DEFINE i == end - pos + 1
      <4>1. i \in 1 .. n /\ end - i + 1 = pos
        BY <1>1, <2>8, <3>2
      <4>2. id[i] = 2 * id[i - 1] + Bit(b, pos)
        <5> HIDE DEF i, n
        <5> QED BY <2>3, <4>1
      <4>3. d[pos] = id[i]
        BY <2>8, <3>2
      <4>4. d[pos + 1] = id[i - 1]
        <5>1. CASE pos = end
          <6>1. i - 1 = 0 /\ d[pos + 1] = 0
            BY <1>1, <5>1
          <6> QED BY <2>3, <6>1
        <5>2. CASE pos # end
          <6>1. pos + 1 \in Nat /\ start < pos + 1 /\ pos + 1 <= end
                /\ end - (pos + 1) + 1 = i - 1
            BY <1>1, <2>8, <3>2, <5>2
          <6> QED BY <6>1
        <5> QED BY <5>1, <5>2
      <4> QED BY <4>2, <4>3, <4>4
    <3> QED BY <1>1, <3>1, <3>2
  <2> HIDE DEF d, n
  <2>9. Reads(b, d)
    BY <2>4, <2>5, <2>6, <2>7, <2>8 DEF Reads, start, end
  <2> QED BY <2>9
<1> QED BY <1>1, <1>3, <1>4

\* A pattern that GetID's check admits stays in its 16 bits, below the gap.
LEMMA PatternInBits ==
    ASSUME NEW b \in Bitmaps, NEW d, Reads(b, d), PatternFits(b)
    PROVE  d[IdStart(b) + 1] \in Nat /\ d[IdStart(b) + 1] < 65536
<1> DEFINE start == IdStart(b)
<1>1. start \in Nat /\ IdEnd(b) \in Nat /\ d \in [Nat -> Nat]
  BY IdRange DEF Reads
<1>2. d[start + 17] = 0
  <2>1. start + 17 \in Nat /\ start + 17 > IdEnd(b)
    BY <1>1 DEF PatternFits
  <2> QED BY <2>1 DEF Reads
<1>3. \A pos \in Nat : pos > start => d[pos] \in Nat /\ d[pos + 1] \in Nat
                                      /\ d[pos] <= 2 * d[pos + 1] + 1
  BY <1>1 DEF Reads, Bit
<1> HIDE DEF start
<1>4. ASSUME NEW pos \in Nat, pos > start
      PROVE  d[pos] \in Nat /\ d[pos + 4] \in Nat /\ d[pos] <= 16 * d[pos + 4] + 15
  <2>1. /\ pos + 1 \in Nat /\ pos + 2 \in Nat /\ pos + 3 \in Nat
        /\ pos + 1 > start /\ pos + 2 > start /\ pos + 3 > start
        /\ pos + 1 + 1 = pos + 2 /\ pos + 2 + 1 = pos + 3 /\ pos + 3 + 1 = pos + 4
    BY <1>1, <1>4
  <2>2. /\ d[pos] \in Nat /\ d[pos + 1] \in Nat /\ d[pos] <= 2 * d[pos + 1] + 1
        /\ d[pos + 2] \in Nat /\ d[pos + 1] <= 2 * d[pos + 2] + 1
        /\ d[pos + 3] \in Nat /\ d[pos + 2] <= 2 * d[pos + 3] + 1
        /\ d[pos + 4] \in Nat /\ d[pos + 3] <= 2 * d[pos + 4] + 1
    BY <1>3, <1>4, <2>1
  <2> QED BY <2>2
<1>5. /\ start + 1 \in Nat /\ start + 5 \in Nat /\ start + 9 \in Nat /\ start + 13 \in Nat
      /\ start + 1 > start /\ start + 5 > start /\ start + 9 > start /\ start + 13 > start
      /\ start + 1 + 4 = start + 5 /\ start + 5 + 4 = start + 9
      /\ start + 9 + 4 = start + 13 /\ start + 13 + 4 = start + 17
  BY <1>1
<1>6. /\ d[start + 1] \in Nat /\ d[start + 1] <= 16 * d[start + 5] + 15
      /\ d[start + 5] \in Nat /\ d[start + 5] <= 16 * d[start + 9] + 15
      /\ d[start + 9] \in Nat /\ d[start + 9] <= 16 * d[start + 13] + 15
      /\ d[start + 13] \in Nat /\ d[start + 13] <= 16 * d[start + 17] + 15
  BY <1>4, <1>5
<1>7. d[start + 1] \in Nat /\ d[start + 1] < 65536
  BY <1>2, <1>6
<1> QED BY <1>7 DEF start

\* Two bitmaps with the same id are the same: the id gives the first gap, and
\* then one word after the other.
LEMMA IdsDiffer ==
    ASSUME NEW b \in Bitmaps, NEW c \in Bitmaps, PatternFits(b), PatternFits(c),
           GetID(b) = GetID(c)
    PROVE  b = c
<1> DEFINE start == IdStart(b)
<1>1. PICK d : Reads(b, d)
  BY PatternReads
<1>2. PICK e : Reads(c, e)
  BY PatternReads
<1>3. /\ d \in [Nat -> Nat] /\ e \in [Nat -> Nat] /\ start \in Nat /\ IdStart(c) \in Nat
      /\ b \subseteq Nat /\ c \subseteq Nat
  BY <1>1, <1>2, IdRange, SizeAssumption DEF Reads, Bitmaps, Positions
<1>4. IdStart(c) = start /\ d[start + 1] = e[start + 1]
  <2>1. /\ d[start + 1] \in Nat /\ d[start + 1] < 65536
        /\ e[IdStart(c) + 1] \in Nat /\ e[IdStart(c) + 1] < 65536
    BY <1>1, <1>2, PatternInBits
  <2>2. d[start + 1] + 65536 * start = e[IdStart(c) + 1] + 65536 * IdStart(c)
    BY <1>1, <1>2 DEF GetID, Reads
  <2> HIDE DEF start
  <2>3. start = IdStart(c)
    BY <1>3, <2>1, <2>2
  <2> QED BY <1>3, <2>1, <2>2, <2>3
<1>5. \A pos \in Nat : pos > start =>
         /\ d[pos] = 2 * d[pos + 1] + Bit(b, pos)
         /\ e[pos] = 2 * e[pos + 1] + Bit(c, pos)
  BY <1>1, <1>2, <1>4 DEF Reads
<1>6. /\ start \notin b /\ start \notin c
      /\ \A pos \in Positions : pos < start => pos \in b /\ pos \in c
  BY <1>4, IdRange
<1> HIDE DEF start
<1>7. ASSUME NEW pos \in Nat, pos > start, d[pos] = e[pos]
      PROVE  d[pos + 1] = e[pos + 1] /\ (pos \in b <=> pos \in c)
  <2>1. d[pos + 1] \in Nat /\ e[pos + 1] \in Nat
    BY <1>3
  <2>2. 2 * d[pos + 1] + Bit(b, pos) = 2 * e[pos + 1] + Bit(c, pos)
    BY <1>5, <1>7
  <2> QED BY <2>1, <2>2 DEF Bit
<1>8. ASSUME NEW m \in Nat PROVE d[start + 1 + m] = e[start + 1 + m]
  <2> DEFINE P == {k \in Nat : d[start + 1 + k] = e[start + 1 + k]}
  <2>1. 0 \in P
    BY <1>3, <1>4
  <2>2. ASSUME NEW k \in 1 .. m, k - 1 \in P PROVE k \in P
    <3>1. /\ start + 1 + (k - 1) \in Nat /\ start + 1 + (k - 1) > start
          /\ start + 1 + (k - 1) + 1 = start + 1 + k /\ k \in Nat
      BY <1>3
    <3> QED BY <1>7, <2>2, <3>1
  <2>3. 0 .. m \subseteq P
    <3> HIDE DEF P
    <3> QED BY <2>1, <2>2, Stepwise
  <2> QED BY <2>3
<1>9. ASSUME NEW pos \in Positions PROVE pos \in b <=> pos \in c
  <2>1. pos \in Nat
    BY SizeAssumption DEF Positions
  <2>2. CASE pos < start
    BY <1>6, <2>2
  <2>3. CASE pos = start
    BY <1>6, <2>3
  <2>4. CASE pos > start
    <3>1. pos - start - 1 \in Nat /\ start + 1 + (pos - start - 1) = pos
      BY <1>3, <2>1, <2>4
    <3>2. d[pos] = e[pos]
      BY <1>8, <3>1
    <3> QED BY <1>7, <2>1, <2>4, <3>2
  <2> QED BY <1>3, <2>1, <2>2, <2>3, <2>4
<1> QED BY <1>9 DEF Bitmaps

\* Under a limit of at most 16 the words ahead of the first gap fit the pattern.
LEMMA LimitFits ==
    Typed /\ WindowWithinLimit => (m_maxDistortion \in 0 .. 16 => PatternFits(m_sourceCompleted))
<1> SUFFICES ASSUME Typed, WindowWithinLimit, m_maxDistortion \in 0 .. 16
             PROVE  PatternFits(m_sourceCompleted)
  OBVIOUS
<1> DEFINE b == m_sourceCompleted
<1>1. b \in Bitmaps
  BY DEF Typed
<1>2. IdStart(b) \in Nat /\ IdEnd(b) \in Nat
  BY <1>1, IdRange
<1>3. CASE b = Positions
  <2>1. IdStart(b) = m_size /\ IdEnd(b) = Max(b)
    BY <1>3, SizeAssumption DEF IdStart, IdEnd, IsComplete, GetLastPos, Positions
  <2>2. Max(b) \in b
    <3>1. b \in SUBSET Positions /\ b # {}
      BY <1>3, SizeAssumption DEF Positions
    <3> QED BY <3>1, MaxOfPositions
  <2> QED BY <1>3, <2>1, <2>2, SizeAssumption DEF PatternFits, Positions
<1>4. CASE b = {}
  <2>1. IdEnd(b) = 0
    BY <1>4 DEF IdEnd
  <2> QED BY <1>2, <2>1 DEF PatternFits
<1>5. CASE b # {} /\ b # Positions
  <2>1. IdStart(b) = FirstGap /\ IdEnd(b) = Max(b)
    BY <1>5 DEF IdStart, IdEnd, IsComplete, GetLastPos, FirstGap
  <2>2. Max(b) \in b
    BY <1>1, <1>5, MaxOfPositions DEF Bitmaps
  <2>3. Max(b) < FirstGap + m_maxDistortion
    BY <2>2 DEF WindowWithinLimit
  <2> QED BY <1>2, <2>1, <2>3 DEF PatternFits
<1> QED BY <1>3, <1>4, <1>5

\* For a sentence of any length: under a distortion limit of at most 16 GetID's
\* check holds of every hypothesis, and no two coverages for which it holds share
\* an id (WordsBitmap::GetID).
THEOREM IdsIdentify == Spec => []IdIdentifiesBitmap
<1>1. Typed /\ WindowWithinLimit => IdIdentifiesBitmap
  BY LimitFits, IdsDiffer DEF Typed, IdIdentifiesBitmap
<1> QED BY <1>1, TypedCorrect, LimitCorrect, PTL
=============================================================================
