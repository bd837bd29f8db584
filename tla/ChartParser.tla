---------------------------- MODULE ChartParser ----------------------------
(* The chart decoder's search over one sentence: ChartManager visits the     *)
(* spans by width, and for each span every rule table's lookup manager (the  *)
(* CYK+ algorithm) extends the dotted rules that start at the span's first   *)
(* word and collects the rules that cover the span; the cell of the span is  *)
(* then filled from the rules kept.  A table is either of the ordinary kind  *)
(* (ChartRuleLookupManagerMemory) or of the minimum-span kind of this fork   *)
(* (ChartRuleLookupManagerMinSpan), which admits a rule only over a span     *)
(* longer than min-chart-span and, with the clause-bounds option, only where *)
(* a clause of the input ends.                                               *)
(*                                                                           *)
(* The grammar is a set of rules whose source side is a sequence of words    *)
(* and labels.  Cube pruning is abstracted to a choice of the labels that    *)
(* survive; the source label of a non-terminal is the same everywhere and is *)
(* left out.                                                                 *)
EXTENDS RuleList

CONSTANT
  Setups   \* configurations by name: [words, tables, clauseOption, clauses,
           \* ruleLimit, width, unknownLHS]; a table is [kind, rules, minSpan,
           \* maxSpan] and a rule [src, lhs, score]

Rules == [src : Seq(STRING) \ {<<>>}, lhs : STRING, score : Int]
Tables == [kind : {"Memory", "MinSpan"}, rules : SUBSET Rules,
           minSpan : Nat, maxSpan : Nat]

\* The labels of a configuration's rules, and those an unknown word gets.
TargetLabels(config) ==
  config.unknownLHS \cup
  UNION {{r.lhs : r \in config.tables[t].rules} : t \in DOMAIN config.tables}

\* Words and labels are told apart, as Word::IsNonTerminal does.  A rule limit
\* of 0 fails the assertion of ShrinkToLimit.
ASSUME ParserAssumption ==
  \A s \in DOMAIN Setups : LET config == Setups[s] IN
    /\ config.words \in Seq(STRING) \ {<<>>}
    /\ config.tables \in Seq(Tables) \ {<<>>}
    /\ \A t \in DOMAIN config.tables : IsFiniteSet(config.tables[t].rules)
    /\ \A i \in DOMAIN config.words : config.words[i] \notin TargetLabels(config)
    /\ config.unknownLHS \in (SUBSET STRING) \ {{}}
    /\ IsFiniteSet(config.unknownLHS)
    /\ config.ruleLimit \in Nat \ {0} /\ config.width \in Nat
    /\ config.clauseOption \in BOOLEAN
    /\ FlattenSeq(config.clauses) \in Seq(Nat \X Nat)

VARIABLES
  setup,    \* which configuration this run decodes
  span,     \* the span being processed: [start, width]
  graph,    \* the decode graph (rule table) being consulted
  pc,       \* extend | complete | fill | done
  ind,      \* position of the loop over dotted rules
  dotted,   \* m_dottedRuleColls of each table
  labels,   \* m_targetLabelSet of each cell
  list      \* m_translationOptionList

vars == <<setup, span, graph, pc, ind, dotted, labels, list>>

Config == Setups[setup]
Size == Len(Config.words)
\* Positions count from 0, as in the code.
WordAt(i) == Config.words[i + 1]
Table == Config.tables[graph]
Graphs == 1..Len(Config.tables)
EndPos == span.start + span.width - 1

-----------------------------------------------------------------------------
(* The rule table is a trie of source sides: a node is the sequence of       *)
(* symbols that leads to it.                                                 *)

Node(path) == [i \in DOMAIN path |-> path[i].sym]
IsNode(table, node) == \E r \in table.rules : IsPrefix(node, r.src)
IsLeaf(table, node) == ~\E r \in table.rules : IsStrictPrefix(node, r.src)
TargetPhrases(table, node) == {r \in table.rules : r.src = node}

(* A dotted rule is the path matched so far: each symbol with the positions  *)
(* it covers.                                                                *)
Root == <<>>
RuleEnd(path) == path[Len(path)].end
Extend(path, sym, first, last) ==
  Append(path, [sym |-> sym, start |-> first, end |-> last])

EmptyColl(start) ==
  [coll |-> [i \in 0..(Size - start) |-> IF i = 0 THEN <<Root>> ELSE <<>>],
   expandable |-> <<Root>>]

\* DottedRuleColl::Add, for rules that end at the same place.
AddDotted(table, dc, pos, paths) ==
  [coll |-> [dc.coll EXCEPT ![pos] = @ \o SetToSeq(paths)],
   expandable |-> dc.expandable \o
                  SetToSeq({p \in paths : ~IsLeaf(table, Node(p))})]

-----------------------------------------------------------------------------
(* One iteration of the lookup manager's main loop.                          *)

\* The source word in the last position, if it is all that is left to cover.
ByTerminal(prev, startPos) ==
  {next \in {Extend(prev, WordAt(EndPos), EndPos, EndPos)} :
     startPos = EndPos /\ IsNode(Table, Node(next))}

\* ExtendPartialRuleApplication: the labels of the cell over startPos..endPos
\* that the trie has a child for.
ByNonTerminal(prev, startPos, endPos) ==
  {next \in {Extend(prev, l, startPos, endPos) : l \in labels[startPos, endPos]} :
     IsNode(Table, Node(next))}

\* A variant: the root is treated like every other dotted rule.
ExtendInOneStep(dc, prev) ==
  LET startPos == IF prev = Root THEN span.start ELSE RuleEnd(prev) + 1
      withWord == AddDotted(Table, dc, span.width, ByTerminal(prev, startPos))
  IN  IF startPos > EndPos
      THEN withWord
      ELSE AddDotted(Table, withWord, span.width,
                     ByNonTerminal(prev, startPos, EndPos))

\* At the root the whole span is not tried (no non-lexical unary rule): the
\* labels over all but the last word are, and what they match is extended to
\* the last word later in the same loop.
ExtendWith(dc, prev) ==
  LET startPos == IF prev = Root THEN span.start ELSE RuleEnd(prev) + 1
      atRoot   == startPos = span.start /\ EndPos > span.start
      endPos   == IF atRoot THEN EndPos - 1 ELSE EndPos
      stackInd == IF atRoot THEN span.width - 1 ELSE span.width
      withWord == AddDotted(Table, dc, span.width, ByTerminal(prev, startPos))
  IN  IF startPos > EndPos
      THEN withWord
      ELSE AddDotted(Table, withWord, stackInd,
                     ByNonTerminal(prev, startPos, endPos))

-----------------------------------------------------------------------------
(* The clause constraint of the minimum-span manager.                        *)

IsInside(i, first, last) == first <= i /\ i <= last

Crosses(first, last, clause) ==
  IsInside(first, clause[1] + 1, clause[2] + 1)
    # IsInside(last, clause[1] + 1, clause[2] + 1)

\* The boundary pairs of all clauses in the order of the input line.
Clauses == FlattenSeq(Config.clauses)

\* The pairs at which the loop adds the rule: the clause ends where the span
\* ends, and neither it nor a pair read before it is crossed.
AdmittedAt ==
  {i \in DOMAIN Clauses :
     /\ Clauses[i][2] = EndPos
     /\ \A j \in 1..i : ~Crosses(span.start, EndPos, Clauses[j])}

\* A variant: the minimum span itself is long enough.
AddedFromMinSpan ==
  IF Table.kind = "MinSpan" /\ span.width < Table.minSpan THEN 0
  ELSE IF Table.kind = "MinSpan" /\ Config.clauseOption THEN Cardinality(AdmittedAt)
  ELSE 1

\* How many times GetChartRuleCollection adds a completed rule.
TimesAdded ==
  IF Table.kind = "MinSpan" /\ span.width <= Table.minSpan THEN 0
  ELSE IF Table.kind = "MinSpan" /\ Config.clauseOption THEN Cardinality(AdmittedAt)
  ELSE 1

\* AddCompletedRule: an option is the dotted rule with its target phrases.
OptionOf(path) ==
  LET tpc == TargetPhrases(Table, Node(path))
  IN  [path |-> path, graph |-> graph, lhs |-> {r.lhs : r \in tpc},
       score |-> Max({r.score : r \in tpc})]

-----------------------------------------------------------------------------
Init ==
  /\ setup \in DOMAIN Setups
  /\ span = [start |-> 0, width |-> 1]
  /\ graph = 1 /\ pc = "extend" /\ ind = 1
  /\ dotted = [g \in Graphs |-> [s \in 0..(Size - 1) |-> EmptyColl(s)]]
  /\ labels = [r \in {p \in (0..(Size - 1)) \X (0..(Size - 1)) : p[1] <= p[2]}
                 |-> {}]
  /\ list = Clear

Coll == dotted[graph][span.start]
InRange == Table.maxSpan = 0 \/ span.width <= Table.maxSpan

\* The list may grow while the loop runs.
ExtendDottedRule ==
  /\ pc = "extend" /\ InRange
  /\ ind <= Len(Coll.expandable)
  /\ dotted' = [dotted EXCEPT ![graph][span.start] =
                  ExtendWith(@, Coll.expandable[ind])]
  /\ ind' = ind + 1
  /\ UNCHANGED <<setup, span, graph, pc, labels, list>>

AllExtended ==
  /\ pc = "extend" /\ InRange
  /\ ind > Len(Coll.expandable)
  /\ pc' = "complete" /\ ind' = 1
  /\ UNCHANGED <<setup, span, graph, dotted, labels, list>>

AddTimes(option, n) ==
  LET after[k \in 0..n] ==
        IF k = 0 THEN list ELSE Add(after[k - 1], option, Config.ruleLimit)
  IN  after[n]

CollectRule ==
  /\ pc = "complete"
  /\ ind <= Len(Coll.coll[span.width])
  /\ LET path == Coll.coll[span.width][ind]
     IN  list' = IF TargetPhrases(Table, Node(path)) = {} THEN list
                 ELSE AddTimes(OptionOf(path), TimesAdded)
  /\ ind' = ind + 1
  /\ UNCHANGED <<setup, span, graph, pc, dotted, labels>>

NextGraph ==
  /\ ind' = 1
  /\ IF graph = Len(Config.tables)
     THEN pc' = "fill" /\ graph' = 1
     ELSE pc' = "extend" /\ graph' = graph + 1

\* The end of GetChartRuleCollection.  DottedRuleColl::Clear empties the
\* completed rules only in a build with the boost pool, and nothing reads them
\* again.
ShrinkList ==
  /\ pc = "complete"
  /\ ind > Len(Coll.coll[span.width])
  /\ list' = ShrinkToLimit(list, Config.ruleLimit)
  /\ NextGraph
  /\ UNCHANGED <<setup, span, dotted, labels>>

\* A variant: the iterators stay where they are when a graph is skipped.
SkipGraphForever ==
  /\ pc = "extend" /\ ~InRange
  /\ ind' = 1
  /\ UNCHANGED <<setup, span, graph, pc, dotted, labels, list>>

\* A span longer than the table's maximum is not looked up.
SkipGraph ==
  /\ pc = "extend" /\ ~InRange
  /\ NextGraph
  /\ UNCHANGED <<setup, span, dotted, labels, list>>

-----------------------------------------------------------------------------
\* ProcessOneUnknownWord: for a single word, not the first or the last, that
\* no rule covers.
Unknown == [path |-> Extend(Root, WordAt(span.start), span.start, span.start),
            graph |-> 0, lhs |-> Config.unknownLHS, score |-> -10]

\* A variant: a word the tables have a rule for is not unknown.
WithWordNotInTables ==
  IF /\ span.width = 1 /\ span.start # 0 /\ span.start # Size - 1
     /\ \A g \in Graphs :
          TargetPhrases(Config.tables[g], <<WordAt(span.start)>>) = {}
  THEN Add(list, Unknown, Config.ruleLimit)
  ELSE list

WithUnknown ==
  IF /\ span.width = 1 /\ span.start # 0 /\ span.start # Size - 1
     /\ list.options = <<>>
  THEN Add(list, Unknown, Config.ruleLimit)
  ELSE list

\* ApplyThreshold, then ChartCell::ProcessSentence, PruneToSize and
\* SortHypotheses: cube pruning pops at least one hypothesis when there is a
\* rule, and which labels survive depends on scores that are not modelled.
FillCell ==
  /\ pc = "fill"
  /\ LET kept == IF WithUnknown.options = <<>> THEN WithUnknown
                 ELSE ApplyThreshold(WithUnknown, Config.width)
         lhs  == UNION {o.lhs : o \in ToSet(kept.options)}
     IN  \E found \in SUBSET lhs :
           /\ found = {} => lhs = {}
           /\ labels' = [labels EXCEPT ![<<span.start, EndPos>>] = found]
  /\ list' = Clear
  /\ IF span.start + span.width < Size
     THEN span' = [span EXCEPT !.start = @ + 1] /\ pc' = "extend"
     ELSE IF span.width < Size
     THEN span' = [start |-> 0, width |-> span.width + 1] /\ pc' = "extend"
     ELSE UNCHANGED span /\ pc' = "done"
  /\ UNCHANGED <<setup, graph, ind, dotted>>

Done == pc = "done" /\ UNCHANGED vars

Next ==
  \/ ExtendDottedRule \/ AllExtended \/ CollectRule \/ ShrinkList
  \/ SkipGraph \/ FillCell \/ Done

Spec == Init /\ [][Next]_vars /\ WF_vars(Next)

-----------------------------------------------------------------------------
(* What the lookup should find, defined without dots or tries: the ways to   *)
(* cut the span between the symbols of a rule's source side.                 *)

Cuts(n, first, last) ==
  {c \in [1..(n + 1) -> first..(last + 1)] :
     /\ c[1] = first /\ c[n + 1] = last + 1
     /\ \A i \in 1..n : c[i] < c[i + 1]}

IsLabel(sym) == sym \in TargetLabels(Config)

Matches(sym, first, last) ==
  IF IsLabel(sym) THEN sym \in labels[first, last]
  ELSE first = last /\ sym = WordAt(first)

\* A rule whose source side is a single label is never applied.
Applications(table, first, last) ==
  UNION {{[i \in 1..Len(r.src) |->
             [sym |-> r.src[i], start |-> c[i], end |-> c[i + 1] - 1]] :
            c \in {k \in Cuts(Len(r.src), first, last) :
                     \A i \in 1..Len(r.src) :
                       Matches(r.src[i], k[i], k[i + 1] - 1)}} :
         r \in {q \in table.rules : Len(q.src) > 1 \/ ~IsLabel(q.src[1])}}

(* The dotted rules that end with the span when the table is searched, those *)
(* at a node with target phrases: exactly the applications of the table's    *)
(* rules to the span, each once.  (GetChartRuleCollection's main loop, whose *)
(* list grows under the index and which handles the root in two steps.)      *)
AllApplicationsFound ==
  pc = "complete" =>
    LET paths == Coll.coll[span.width]
        found == {i \in DOMAIN paths : TargetPhrases(Table, Node(paths[i])) # {}}
    IN  /\ {paths[i] : i \in found} = Applications(Table, span.start, EndPos)
        /\ \A i, j \in found : paths[i] = paths[j] => i = j

(* The clause lists under which the order of the input line plays no part:   *)
(* a clause after those it contains, clauses from left to right, and no two  *)
(* that end at the same word.                                                *)
Nested(a, b) == b[1] <= a[1] /\ a[2] <= b[2]
Disjoint(a, b) == a[2] <= b[1]
InnerFirst ==
  /\ \A i \in DOMAIN Clauses : Clauses[i][1] < Clauses[i][2]
  /\ \A i, j \in DOMAIN Clauses : i < j =>
       /\ Clauses[i][2] # Clauses[j][2]
       /\ Nested(Clauses[i], Clauses[j]) \/ Disjoint(Clauses[i], Clauses[j])

\* The spans on which a table of this kind is meant to be used.
MeantFor(table, first, last) ==
  /\ table.maxSpan = 0 \/ last - first + 1 <= table.maxSpan
  /\ table.kind = "MinSpan" =>
       /\ last - first + 1 > table.minSpan
       /\ Config.clauseOption =>
            /\ \E i \in DOMAIN Clauses : Clauses[i][2] = last
            /\ \A i \in DOMAIN Clauses : ~Crosses(first, last, Clauses[i])

Meant ==
  UNION {{<<g, p>> : p \in Applications(Config.tables[g], span.start, EndPos)} :
           g \in {t \in Graphs : MeantFor(Config.tables[t], span.start, EndPos)}}

ScoreOf(g, path) == Max({r.score : r \in TargetPhrases(Config.tables[g], Node(path))})

(* When every table has been searched the list holds, each once, the best    *)
(* `ruleLimit' applications among those the tables are meant to be used for, *)
(* whatever order they were offered in and however often the list burst.     *)
BestRulesKept ==
  pc = "fill" /\ (Config.clauseOption => InnerFirst) =>
    LET kept == {<<o.graph, o.path>> : o \in ToSet(list.options)}
    IN  /\ kept \subseteq Meant
        /\ Len(list.options) = Cardinality(kept)
        /\ Len(list.options) = Lower(Config.ruleLimit, Cardinality(Meant))
        /\ \A m \in Meant \ kept : \A o \in ToSet(list.options) :
             ScoreOf(m[1], m[2]) <= o.score

Before(first, last) ==
  \/ pc = "done"
  \/ last - first + 1 < span.width
  \/ last - first + 1 = span.width /\ first < span.start

(* Every word between the first and the last has a translation once its cell *)
(* is filled, even when the only rules for it are too short for the minimum  *)
(* span and even when the threshold is tight (CreateTranslationOptionsFor-   *)
(* Range, ProcessOneUnknownWord).                                            *)
NoUntranslatableWord ==
  \A i \in 1..(Size - 2) : Before(i, i) => labels[i, i] # {}

(* The comment in ChartRuleLookupManagerMinSpan.cpp over the clause loop,    *)
(* "check if span crosses clause boundary": no rule of a minimum-span table  *)
(* is offered for a span that crosses one.  The loop only knows the clauses  *)
(* it has read so far.                                                       *)
NoClauseCrossed ==
  \A o \in ToSet(list.options) :
    o.graph # 0 /\ Config.clauseOption /\ Config.tables[o.graph].kind = "MinSpan"
      => \A i \in DOMAIN Clauses : ~Crosses(span.start, EndPos, Clauses[i])

(* The search ends: the loop over a list that grows while it is traversed    *)
(* does not feed itself.                                                     *)
ParseEnds == <>(pc = "done")
=============================================================================
