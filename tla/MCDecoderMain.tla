--------------------------- MODULE MCDecoderMain ---------------------------
(* DecoderMain for TLC: a command line for each of the three programs. *)
EXTENDS DecoderMain

Moses ==
    [program |-> "moses", collectors |-> {"output", "nbest"},
     lines |-> 3, segIds |-> {0}, startId |-> 0]

\* Sentences without a translation leave gaps in the detailed report.
MosesChart ==
    [program |-> "moses_chart", collectors |-> {"output", "detail"},
     lines |-> 3, segIds |-> {0}, startId |-> 0]

\* Sentences with ids of their own leave gaps everywhere, or share an id.
MosesChartWithIds == [MosesChart EXCEPT !.lines = 2, !.segIds = {0, 1}]

ExtractRules ==
    [program |-> "extract-rules", collectors |-> {"extract", "extractInv"},
     lines |-> 3, segIds |-> {0}, startId |-> 0]

MCSetups == {Moses, MosesChart, MosesChartWithIds, ExtractRules}
MCCollectors == UNION {s.collectors : s \in MCSetups}
============================================================================
