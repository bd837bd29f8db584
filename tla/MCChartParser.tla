--------------------------- MODULE MCChartParser ---------------------------
(* Configurations of the chart decoder for model checking: a grammar with    *)
(* lexical, mixed and label-only rules, small rule limits so that the list   *)
(* bursts, and clause lists in and out of order.                             *)
EXTENDS ChartParser

Rule(src, lhs, score) == [src |-> src, lhs |-> lhs, score |-> score]

Lexical == {Rule(<<"a">>, "X", 0), Rule(<<"a">>, "Y", 4),
            Rule(<<"b">>, "X", 2), Rule(<<"a", "b">>, "Y", 5)}
Hiero == {Rule(<<"X", "b">>, "X", 3), Rule(<<"a", "X">>, "Y", 1),
          Rule(<<"X", "Y">>, "X", 2), Rule(<<"a", "X", "b">>, "X", 6)}
Glue == {Rule(<<"X", "X">>, "S", 0), Rule(<<"S", "X">>, "S", 1),
         Rule(<<"X">>, "S", 7), Rule(<<"X", "b", "X">>, "S", 2)}

Memory(rules) == [kind |-> "Memory", rules |-> rules, minSpan |-> 0, maxSpan |-> 0]
MinSpan(rules, min) ==
  [kind |-> "MinSpan", rules |-> rules, minSpan |-> min, maxSpan |-> 0]
UpTo(table, max) == [table EXCEPT !.maxSpan = max]

NoClauses ==
  [words |-> <<"a", "b", "a", "a", "b">>,
   tables |-> <<Memory(Lexical), MinSpan(Hiero \cup Glue, 2)>>,
   clauseOption |-> FALSE, clauses |-> <<>>,
   ruleLimit |-> 2, width |-> 3, unknownLHS |-> {"X"}]

CheckedSetups ==
  [plain   |-> NoClauses,
   glue    |-> [NoClauses EXCEPT !.tables = <<UpTo(MinSpan(Hiero \cup Lexical, 1), 3),
                                             Memory(Glue)>>,
                                 !.ruleLimit = 1],
   unknown |-> [NoClauses EXCEPT !.words = <<"a", "u", "b", "a", "b">>,
                                 !.ruleLimit = 3, !.width = 0],
   one     |-> [NoClauses EXCEPT !.clauseOption = TRUE,
                                 !.clauses = <<<<<<0, 4>>>>>>],
   nested  |-> [NoClauses EXCEPT !.clauseOption = TRUE, !.words = @ \o <<"b">>,
                                 !.tables = <<UpTo(Memory(Lexical \cup Hiero), 2),
                                             MinSpan(Hiero \cup Glue, 2)>>,
                                 !.ruleLimit = 1,
                                 !.clauses = <<<<<<2, 3>>>>, <<<<0, 5>>>>>>]]

\* The outer clause is listed first, as when clauses are written in the order
\* in which they begin.
OutOfOrder ==
  [outerFirst |->
     [NoClauses EXCEPT !.words = <<"a", "b", "a", "b">>,
                       !.clauseOption = TRUE,
                       !.tables = <<Memory(Lexical), MinSpan(Hiero, 1)>>,
                       !.clauses = <<<<<<0, 3>>>>, <<<<1, 3>>>>>>]]
=============================================================================
