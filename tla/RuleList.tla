------------------------------ MODULE RuleList ------------------------------
(* ChartTranslationOptionList: the bounded list of the rules that apply to   *)
(* one span of the chart.  It lets the list grow to twice the limit and then *)
(* cuts it to the best `limit' entries, so that Add is cheap.  An option is  *)
(* any record with a field `score' (the estimate of its best score).         *)
EXTENDS Integers, Sequences, FiniteSets, SequencesExt, FiniteSetsExt

Higher(a, b) == IF a >= b THEN a ELSE b
Lower(a, b) == IF a <= b THEN a ELSE b

\* A score above every score of a model, the code's +infinity.
Infinity == 1000

\* The options of a list that go before the i-th.
Better(options, i) ==
  {j \in DOMAIN options :
     \/ options[j].score > options[i].score
     \/ options[j].score = options[i].score /\ j < i}

\* std::nth_element with ChartTranslationOptionOrderer, then m_size = n: the
\* n best options, in no order the callers rely on.
BestOf(options, n) ==
  [k \in 1..Lower(n, Len(options)) |->
     options[CHOOSE i \in DOMAIN options : Cardinality(Better(options, i)) = k - 1]]

\* The first m_size entries of m_collection, and m_scoreThreshold.
Clear == [options |-> <<>>, threshold |-> Infinity]

\* An option that cannot be among the best is turned away, but only once the
\* list is over its limit; the threshold follows the worst option up to the
\* limit and is recomputed when the list bursts.
Add(list, option, limit) ==
  IF Len(list.options) > limit /\ option.score < list.threshold
  THEN list
  ELSE LET grown == Append(list.options, option)
           best  == BestOf(grown, limit)
       IN  IF Len(grown) = 2 * limit
           THEN [options |-> best, threshold |-> best[limit].score]
           ELSE [options |-> grown,
                 threshold |-> IF Len(grown) <= limit
                               THEN Lower(option.score, list.threshold)
                               ELSE list.threshold]

\* ShrinkToLimit: the threshold is left as it was.
ShrinkToLimit(list, limit) ==
  IF Len(list.options) > limit
  THEN [list EXCEPT !.options = BestOf(@, limit)]
  ELSE list

\* ApplyThreshold: only the options within `width' of the best one stay, in the
\* order std::partition leaves them in.
ApplyThreshold(list, width) ==
  LET best == Max({o.score : o \in ToSet(list.options)})
      stay == SetToSeq({i \in DOMAIN list.options :
                          list.options[i].score >= best - width})
  IN  [list EXCEPT !.options = [k \in DOMAIN stay |-> @[stay[k]]]]
=============================================================================
