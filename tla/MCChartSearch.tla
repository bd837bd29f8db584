---------------------------- MODULE MCChartSearch ----------------------------
(* ChartTrellis for TLC: three words between the sentence's ends, translated   *)
(* under four rule tables with glue rules and command lines that prune        *)
(* nothing or prune hard.                                                      *)
EXTENDS ChartTrellis

Phrase(lhs, score, target) == [lhs |-> lhs, score |-> score, target |-> target]
Rule(source, phrases) == [source |-> source, phrases |-> phrases]

\* The glue grammar that chart tables come with.
Glue == {
    Rule(<<"<s>">>, <<Phrase("Q", 0, <<"<s>">>)>>),
    Rule(<<"Q", "</s>">>, <<Phrase("Q", 0, <<"[1]", "</s>">>)>>),
    Rule(<<"Q", "X">>, <<Phrase("Q", -1, <<"[1]", "[2]">>)>>)}

\* Phrases in the order of the file, not of their scores.
Tables == <<
    Glue \cup {
        Rule(<<"a">>, <<Phrase("X", -1, <<"x">>), Phrase("X", 0, <<"y">>)>>),
        Rule(<<"b">>, <<Phrase("X", 0, <<"y">>), Phrase("X", -2, <<"x">>)>>),
        Rule(<<"c">>, <<Phrase("X", -1, <<"x">>)>>),
        Rule(<<"X", "X">>, <<Phrase("X", -2, <<"[2]", "[1]">>), Phrase("X", -1, <<"[1]", "[2]">>)>>)},
    Glue \cup {
        Rule(<<"a">>, <<Phrase("X", -1, <<"x">>), Phrase("X", -2, <<"y">>)>>),
        Rule(<<"b">>, <<Phrase("X", 0, <<"x">>)>>),
        Rule(<<"c">>, <<Phrase("X", 0, <<"y">>), Phrase("X", -3, <<"x">>)>>),
        Rule(<<"b", "X">>, <<Phrase("X", -3, <<"y", "[1]">>), Phrase("X", -1, <<"[1]", "x">>)>>),
        Rule(<<"a", "X", "c">>, <<Phrase("X", -2, <<"y", "[1]", "x">>)>>)},
    Glue \cup {
        Rule(<<"a">>, <<Phrase("X", 0, <<"x">>), Phrase("X", -2, <<"y">>), Phrase("X", -1, <<"z">>)>>),
        Rule(<<"b">>, <<Phrase("X", -3, <<"x">>), Phrase("X", 0, <<"z">>)>>),
        Rule(<<"c">>, <<Phrase("X", -4, <<"y">>), Phrase("X", 0, <<"x">>)>>)},
    Glue \cup {
        Rule(<<"a">>, <<Phrase("X", 0, <<"x", "y", "x">>), Phrase("X", -1, <<"x", "z", "x">>)>>),
        Rule(<<"b">>, <<Phrase("X", 0, <<"y">>)>>),
        Rule(<<"c">>, <<Phrase("X", -3, <<"x", "y", "x">>), Phrase("X", -1, <<"x", "z", "x">>),
                        Phrase("X", 0, <<"y", "z", "x">>)>>)}>>

Model == [pair \in {"<s>", "x", "y", "z", "</s>"} \X {"<s>", "x", "y", "z", "</s>"} |->
    IF pair[1] = pair[2] THEN -3 ELSE IF pair = <<"<s>", "y">> THEN -2
    ELSE IF pair = <<"y", "</s>">> THEN -4 ELSE 0]

Wide ==
    [maxHypoStackSize |-> 2000, beamWidth |-> 100, nBestSize |-> 6, distinctNBest |-> FALSE,
     nBestFactor |-> 20, popLimit |-> 2000, lazyScoring |-> FALSE, tableLimit |-> 20,
     lm |-> Model, rules |-> {}]

Lines == [
    wide     |-> Wide,
    lazy     |-> [Wide EXCEPT !.lazyScoring = TRUE, !.nBestSize = 1],
    unsorted |-> [Wide EXCEPT !.lazyScoring = TRUE, !.tableLimit = 0, !.nBestSize = 0],
    distinct |-> [Wide EXCEPT !.distinctNBest = TRUE, !.nBestSize = 3, !.nBestFactor = 2],
    narrow   |-> [Wide EXCEPT !.lazyScoring = TRUE, !.popLimit = 4, !.nBestSize = 0,
                              !.maxHypoStackSize = 2, !.beamWidth = 4],
    few      |-> [Wide EXCEPT !.maxHypoStackSize = 1, !.nBestSize = 2, !.popLimit = 6]]

MCSetups ==
    [name \in (DOMAIN Lines) \X (DOMAIN Tables) |->
        [Lines[name[1]] EXCEPT !.rules = Tables[name[2]]]]

MCSource == <<"<s>", "a", "b", "c", "</s>">>
=============================================================================
