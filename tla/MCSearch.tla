------------------------------ MODULE MCSearch ------------------------------
(* TrellisPaths for TLC: a sentence of four words, under command lines that  *)
(* prune nothing, prune hard or may time out, with four tables of options.    *)
EXTENDS TrellisPaths

Option(startPos, endPos, target, score) ==
    [startPos |-> startPos, endPos |-> endPos, target |-> target, score |-> score]

\* Every word has an option of its own; some phrases have.
Tables == <<
    {Option(0, 0, "x", -1), Option(0, 0, "y", -2), Option(1, 1, "x", -1),
     Option(2, 2, "y", -1), Option(3, 3, "x", -1), Option(0, 1, "y", -3)},
    {Option(0, 0, "x", -4), Option(1, 1, "y", -1), Option(2, 2, "x", -1),
     Option(3, 3, "y", -3), Option(1, 2, "y", -2), Option(0, 3, "x", -9),
     Option(0, 3, "y", -9)},
    {Option(0, 0, "x", -5), Option(1, 1, "x", -1), Option(2, 2, "x", -3),
     Option(3, 3, "x", 0), Option(2, 3, "y", -4)},
    {Option(0, 0, "y", -1), Option(1, 1, "x", -1), Option(2, 2, "x", -1),
     Option(2, 2, "y", -1), Option(3, 3, "z", -1)}>>

\* Bigram models: the first prefers alternation, the second a z at the end
\* that follows an x.
Alternating(pair) ==
    IF pair[1] = pair[2] THEN -2 ELSE IF pair = <<"<s>", "y">> THEN -1 ELSE 0
Ending(pair) ==
    IF pair = <<"x", "x">> THEN -7 ELSE IF "z" \in {pair[1], pair[2]} /\ pair[1] # "x" THEN -20 ELSE 0
Bigrams == {"<s>", "x", "y", "z"} \X {"x", "y", "z"}
Models == <<[pair \in Bigrams |-> Alternating(pair)], [pair \in Bigrams |-> Ending(pair)]>>

\* Nothing is pruned, and every order of the words is allowed.
Wide ==
    [maxHypoStackSize |-> 1000, minHypoStackDiversity |-> 0, beamWidth |-> 100,
     disableDiscarding |-> FALSE, nBestSize |-> 4, distinctNBest |-> FALSE,
     nBestFactor |-> 20, maxDistortion |-> -1, m_wall |-> {}, m_zone |-> <<>>,
     timeOut |-> FALSE, cubePruning |-> FALSE, popLimit |-> 1000, cubeDiversity |-> 0,
     weightDistortion |-> 1, lm |-> Models[1], options |-> {}]

Lines == [
    wide     |-> Wide,
    limited  |-> [Wide EXCEPT !.maxDistortion = 2, !.nBestSize = 1],
    walled   |-> [Wide EXCEPT !.m_wall = {0}, !.nBestSize = 0],
    distinct |-> [Wide EXCEPT !.distinctNBest = TRUE, !.nBestSize = 3, !.nBestFactor = 2],
    narrow   |-> [Wide EXCEPT !.maxDistortion = 2, !.nBestSize = 2,
                              !.maxHypoStackSize = 1, !.beamWidth = 3],
    diverse  |-> [Wide EXCEPT !.maxDistortion = 2, !.nBestSize = 0, !.maxHypoStackSize = 1,
                              !.minHypoStackDiversity = 1, !.beamWidth = 4],
    zoned    |-> [Wide EXCEPT !.m_zone = <<<<1, 2>>>>, !.nBestSize = 3],
    hurried  |-> [Wide EXCEPT !.maxDistortion = 1, !.timeOut = TRUE, !.maxHypoStackSize = 2],
    cubes    |-> [Wide EXCEPT !.cubePruning = TRUE, !.maxDistortion = 2, !.nBestSize = 3],
    fewCubes |-> [Wide EXCEPT !.cubePruning = TRUE, !.maxDistortion = 2, !.nBestSize = 2,
                              !.popLimit = 2, !.maxHypoStackSize = 2, !.beamWidth = 4,
                              !.cubeDiversity = 1, !.timeOut = TRUE],
    zonedCubes |-> [Wide EXCEPT !.cubePruning = TRUE, !.m_zone = <<<<1, 2>>>>, !.m_wall = {0},
                                !.nBestSize = 0]]

MCSetups ==
    [name \in (DOMAIN Lines) \X (DOMAIN Tables) \X {1, 2} |->
        [Lines[name[1]] EXCEPT !.options = Tables[name[2]],
                               !.weightDistortion = name[3],
                               !.lm = Models[IF name[2] = 4 THEN 2 ELSE 1]]]
=============================================================================
