-------------------------- MODULE MCTransOptCache --------------------------
(* Configurations of the translation option cache for model checking.        *)
EXTENDS TransOptCache

Phrases == {"p", "q", "r", "u"}
Options(g, p) ==
  CASE p = "p" -> <<<<g, "p", 1>>, <<g, "p", 2>>>>
    [] p = "u" -> <<>>
    [] OTHER   -> <<<<g, p, 1>>>>
\* The second graph knows less than the first, and the word "u" is found only
\* when the table limit is lifted.
Table == <<[p \in Phrases |-> Options(1, p)],
           [p \in Phrases |-> IF p = "q" THEN <<>> ELSE Options(2, p)]>>
Wide == <<Table[1], [Table[2] EXCEPT !["u"] = <<<<2, "u", 1>>>>]>>

Word(p) == [phrase |-> p, width |-> 1, marked |-> FALSE]
Long(p) == [phrase |-> p, width |-> 2, marked |-> FALSE]
Marked(p) == [phrase |-> p, width |-> 1, marked |-> TRUE]

Base == [threads |-> {1, 2}, sentences |-> <<<<Word("p"), Word("q")>>,
                                             <<Word("q"), Word("p")>>,
                                             <<Word("p"), Word("u")>>>>,
         graphs |-> 1, table |-> Table, wide |-> Wide, backoff |-> <<0, 0>>,
         xmlInputType |-> "PassThrough", maxSize |-> 5, maxTime |-> 3]

CheckedSetups ==
  [shared    |-> Base,
   graphs    |-> [Base EXCEPT !.graphs = 2, !.maxTime = 1,
                              !.sentences = <<<<Word("p"), Word("u")>>,
                                              <<Word("u"), Long("p")>>>>],
   backoff   |-> [Base EXCEPT !.graphs = 2, !.maxTime = 1, !.backoff = <<0, 2>>,
                              !.sentences = <<<<Word("u"), Long("u")>>,
                                              <<Word("p"), Word("u")>>>>],
   inclusive |-> [Base EXCEPT !.xmlInputType = "Inclusive", !.maxTime = 1,
                              !.sentences = <<<<Marked("p"), Word("q")>>,
                                              <<Word("p"), Marked("q")>>>>],
   exclusive |-> [Base EXCEPT !.xmlInputType = "Exclusive", !.maxTime = 1,
                              !.sentences = <<<<Marked("p"), Word("q")>>,
                                              <<Word("p"), Word("q")>>>>],
   evicting  |-> [Base EXCEPT !.threads = {1}, !.maxSize = 2, !.maxTime = 6,
                              !.sentences = <<<<Word("p"), Word("q"), Word("r")>>,
                                              <<Word("q"), Word("p"), Word("r")>>>>],
   none      |-> [Base EXCEPT !.threads = {1}, !.maxSize = 0]]

\* Two threads and a cache that is reduced.
TwoThreads ==
  [evicting |-> [Base EXCEPT !.maxSize = 2,
                             !.sentences = <<<<Word("p"), Word("q"), Word("r")>>,
                                             <<Word("p"), Word("q"), Word("r")>>>>]]
=============================================================================
