------------------------ MODULE ReorderingConstraint ------------------------
(***************************************************************************)
(* moses/src/ReorderingConstraint.{h,cpp}: walls, which no translation may  *)
(* jump over while it leaves a gap behind, and zones, which must be finished *)
(* once they are entered.  They come from punctuation and from XML markup    *)
(* in the input.  A wall at pos stands between pos and pos + 1.              *)
(*                                                                         *)
(* Walls are the set of the positions set in m_wall; a zone is a pair of its *)
(* first and last word; m_zone lists them in the order of their SetZone.     *)
(* Without walls and zones Check finds nothing to refuse, which stands for   *)
(* its early return when no constraint is active.                            *)
(***************************************************************************)
EXTENDS WordsBitmap, Sequences, SequencesExt

NOT_A_ZONE == 0
ZoneStart(zone) == zone[1]
ZoneEnd(zone) == zone[2]
ZoneWords(zone) == zone[1] .. zone[2]

\* "set wall before and after punc, but not at sentence start, end"
SetMonotoneAtPunctuation(punctuation) ==
    {i \in punctuation : i > 0 /\ i < m_size - 1}
        \cup {i - 1 : i \in {j \in punctuation : j > 1}}

(***************************************************************************)
(* FinalizeWalls: a wall inside a zone binds that zone only, a wall inside   *)
(* several the one its loop settles on.  InnerZone is one iteration of that  *)
(* loop at one position, assigned the zone the wall has so far.              *)
(***************************************************************************)
InnerZone(m_zone, pos, assigned, z) ==
    IF /\ ZoneStart(m_zone[z]) <= pos /\ pos < ZoneEnd(m_zone[z])
       /\ \/ assigned = NOT_A_ZONE
          \/ ZoneStart(m_zone[assigned]) < ZoneStart(m_zone[z])
          \/ ZoneEnd(m_zone[assigned]) > ZoneEnd(m_zone[z])
    THEN z ELSE assigned

WallZone(m_zone, pos) ==
    LET assigned[z \in 0 .. Len(m_zone)] ==
            IF z = 0 THEN NOT_A_ZONE ELSE InnerZone(m_zone, pos, assigned[z - 1], z)
    IN assigned[Len(m_zone)]

GlobalWalls(walls, m_zone) ==
    {pos \in walls : WallZone(m_zone, pos) = NOT_A_ZONE}

LocalWalls(walls, m_zone) ==
    [pos \in Positions |->
        IF pos \in walls THEN WallZone(m_zone, pos) ELSE NOT_A_ZONE]

-----------------------------------------------------------------------------
(* Check *)

\* A variant of HitsWall: walls inside the phrase are overlooked.
HitsWallBefore(m_wall, b, startPos, endPos) ==
    \E pos \in GetFirstGapPos(b) .. startPos - 1 : pos \in m_wall

\* The phrase starts beyond the first gap and a wall stands between the two.
HitsWall(m_wall, b, startPos, endPos) ==
    /\ startPos # GetFirstGapPos(b)
    /\ \E pos \in GetFirstGapPos(b) .. endPos - 1 : pos \in m_wall

\* A variant of Monotone: translated words beyond the gap are overlooked.
FillsFirstGap(b, startPos) == GetFirstGapPos(b) = startPos

Monotone(b, startPos) ==
    \/ b = {} /\ startPos = 0
    \/ GetFirstGapPos(b) > GetLastPos(b) /\ GetFirstGapPos(b) = startPos

\* A variant of HitsLocalWall: walls inside the phrase are overlooked.
HitsLocalWallBefore(m_localWall, zone, z, b, startPos, endPos) ==
    \E pos \in ZoneStart(zone) .. ZoneEnd(zone) - 1 :
        /\ pos < startPos
        /\ m_localWall[pos] = z
        /\ \E p \in ZoneStart(zone) .. pos : p \notin b

\* A phrase inside zone z leaves a word of it behind on the other side of one
\* of its walls.
HitsLocalWall(m_localWall, zone, z, b, startPos, endPos) ==
    \E pos \in ZoneStart(zone) .. ZoneEnd(zone) - 1 :
        /\ pos < endPos
        /\ m_localWall[pos] = z
        /\ \E p \in ZoneStart(zone) .. pos : p \notin b /\ p < startPos

\* One iteration of the loop over the zones finds no violation.
ZoneAllows(m_localWall, zone, z, limit, b, startPos, endPos) ==
    LET outside == endPos < ZoneStart(zone) \/ startPos > ZoneEnd(zone)
        untranslated == ZoneWords(zone) \ b
        deadEnd == /\ startPos # GetFirstGapPos(b)
                   /\ limit >= 0 /\ ZoneEnd(zone) - GetFirstGapPos(b) >= limit
    IN \/ untranslated = {}
       \/ outside /\ untranslated = ZoneWords(zone)
       \/ /\ ~outside /\ ~deadEnd
          /\ \/ startPos <= ZoneStart(zone)
             \/ /\ endPos > ZoneEnd(zone)
                /\ ZoneEnd(zone) - startPos + 1 >= Cardinality(untranslated)
             \/ /\ endPos <= ZoneEnd(zone)
                /\ ~HitsLocalWall(m_localWall, zone, z, b, startPos, endPos)

Check(m_wall, m_localWall, m_zone, limit, b, startPos, endPos) ==
    /\ ~HitsWall(m_wall, b, startPos, endPos)
    /\ \/ Monotone(b, startPos)
       \/ \A z \in 1 .. Len(m_zone) :
             ZoneAllows(m_localWall, m_zone[z], z, limit, b, startPos, endPos)
=============================================================================
