---------------------------- MODULE MCReordering ----------------------------
(* Reordering for TLC: at most MaxMarks punctuation marks and MaxWalls walls  *)
(* from markup, and every zone list of up to two zones that elements can      *)
(* give: disjoint, or the inner one before the outer one it closes in.        *)
EXTENDS Reordering

CONSTANTS MaxMarks, MaxWalls, MaxLimit

MCDistortionLimits == -1 .. MaxLimit   \* -1 is no limit

MCPunctuationSets == {p \in Bitmaps : Cardinality(p) <= MaxMarks}
MCXmlWallSets == {p \in Bitmaps : Cardinality(p) <= MaxWalls}

Zones == {zone \in Positions \X Positions : zone[1] <= zone[2]}
MCZoneLists ==
    {<<>>} \cup {<<zone>> : zone \in Zones}
        \cup {<<a, b>> : <<a, b>> \in
                {pair \in Zones \X Zones :
                    \/ ZoneEnd(pair[1]) < ZoneStart(pair[2])
                    \/ ZoneWords(pair[1]) \subseteq ZoneWords(pair[2])}}
NoZones == {<<>>}
=============================================================================
